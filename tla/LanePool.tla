------------------------------ MODULE LanePool ------------------------------
(***************************************************************************)
(* The lane slots of one model pool, and of the comparison pool beside it  *)
(* (lanepool.py).  Workers share nothing but files: one lock file per      *)
(* slot, which the kernel unlocks when its process dies, and one ticket    *)
(* file per waiter, which stays.  Every lane polls for itself: it reads    *)
(* the line, decides which slots it may try, and tries them later, when    *)
(* the line, the pool's size and the slots may have changed.               *)
(*                                                                         *)
(*   size     the slots of the model pool now (slots.capacity)             *)
(*   slot     who holds the lock of each slot file, by pool                *)
(*   tickets  lanes with a ticket file, in the line or the replay line     *)
(*   came     the time in the ticket's name, as an order                   *)
(*   lane     where each lane is in acquire, what it may try, what it has  *)
(*   stopped  runs whose lanes are no longer wanted                        *)
(*   left     what the environment may still do                            *)
(*                                                                         *)
(* A scan over slot files is one step.  A lane is one model call with its  *)
(* correction turns; what it answers is left out.                          *)
(***************************************************************************)
EXTENDS Integers, FiniteSets

CONSTANTS
  Lanes, NoLane,
  RunOf,      \* the run, and the process, of a lane: its place in line after the rank
  RankOf,     \* 1, 2, 5 side lanes; 3, 4, 6 reviewers; 7 replay lanes
  PoolOf,     \* "model", or "compare" for a comparison lane
  MaxSlots,   \* most slots the model pool ever has
  Compare,    \* slots of the comparison pool
  SharePct,   \* replay_pool_share, in percent
  Scenarios   \* what TLC starts from: the lanes that come, the size, what the environment does

Runs == {RunOf[l] : l \in Lanes}
Events == {"resize", "die", "stop", "clear"}

ASSUME LanesAssumption ==
  /\ NoLane \notin Lanes /\ IsFiniteSet(Lanes)
  /\ RunOf \in [Lanes -> Nat] /\ RankOf \in [Lanes -> 1..7]
  /\ PoolOf \in [Lanes -> {"model", "compare"}]
  /\ MaxSlots \in Nat \ {0} /\ Compare \in 1..MaxSlots /\ SharePct \in 0..100
  /\ Scenarios \subseteq [come: SUBSET Lanes, size: 1..MaxSlots, left: [Events -> Nat]]

VARIABLES size, slot, tickets, came, lane, stopped, left

vars == <<size, slot, tickets, came, lane, stopped, left>>

Index == 0..(MaxSlots - 1)
NoSlot == -1

Pc == {"new", "line", "ask", "probe", "try", "check", "got", "run", "end", "dead"}
Lane == [pc: Pc, may: SUBSET Index, at: Index \cup {NoSlot}, again: BOOLEAN]

TypeOK ==
  /\ size \in 1..MaxSlots
  /\ slot \in [{"model", "compare"} -> [Index -> Lanes \cup {NoLane}]]
  /\ tickets \in SUBSET Lanes
  /\ came \in [Lanes -> Nat]
  /\ lane \in [Lanes -> Lane]
  /\ stopped \in SUBSET Runs
  /\ left \in [Events -> Nat]

Init ==
  \E s \in Scenarios :
    /\ size = s.size /\ left = s.left
    /\ slot = [p \in {"model", "compare"} |-> [i \in Index |-> NoLane]]
    /\ tickets = {} /\ stopped = {}
    /\ came = [l \in Lanes |-> 0]
    /\ lane = [l \in Lanes |-> [pc |-> IF l \in s.come THEN "new" ELSE "end",
                                may |-> {}, at |-> NoSlot, again |-> FALSE]]

-----------------------------------------------------------------------------
(* Lines and slots *)

Side(l) == RankOf[l] \in {1, 2, 5}
Replay(l) == RankOf[l] = 7

\* Mutant: a ticket counts whether its process lives or not.
LiveAny(l) == TRUE

\* The process of a ticket is there; that another process has its number is left out.
Live(l) == lane[l].pc # "dead"

\* Lanes with a ticket in the directory l lines up in.
Beside(l) == {m \in Lanes : PoolOf[m] = PoolOf[l] /\ (Replay(m) <=> Replay(l))}

\* The lexical order of the names: rank, run, time.
Before(m, l) ==
  \/ RankOf[m] < RankOf[l]
  \/ RankOf[m] = RankOf[l] /\ RunOf[m] < RunOf[l]
  \/ RankOf[m] = RankOf[l] /\ RunOf[m] = RunOf[l] /\ came[m] < came[l]

Ahead(l) == {m \in tickets \cap Beside(l) : Live(m) /\ Before(m, l)}

Count(l) == IF PoolOf[l] = "compare" THEN Compare ELSE size

\* The slots just below the top one, as many as the share is.
ReplaySlots ==
  LET k == ((size - 1) * SharePct) \div 100
  IN  {i \in Index : i <= size - 2 /\ i > size - 2 - k}

\* Mutant: the head of the line may take any slot.
MayTakeAny(l) == IF Ahead(l) = {} THEN 0..(Count(l) - 1) ELSE {}

\* Mutant: a side lane waits for its turn like any other.
MayTakeInLine(l) ==
  LET top == Count(l) - 1
  IN  IF Ahead(l) # {} THEN {} ELSE IF Side(l) \/ top = 0 THEN 0..top ELSE 0..(top - 1)

\* The slots l may try: the head of the line, the express lane of the side lanes, replays.
MayTake(l) ==
  LET top == Count(l) - 1
  IN  IF Replay(l)
        THEN IF Ahead(l) = {} /\ \A m \in tickets : ~(PoolOf[m] = PoolOf[l] /\ Live(m) /\ ~Replay(m))
             THEN ReplaySlots ELSE {}
      ELSE IF Ahead(l) = {}
        THEN IF Side(l) \/ top = 0 THEN 0..top ELSE 0..(top - 1)
      ELSE IF Side(l) /\ top > 0 /\ \A m \in Ahead(l) : ~Side(m)
        THEN {top}
      ELSE {}

\* A reviewer tries the lowest slot first, side lanes and replays the highest.
FirstOf(l, free) ==
  CHOOSE i \in free : \A j \in free : IF Side(l) \/ Replay(l) THEN j <= i ELSE i <= j

Free(p, is) == {i \in is : slot[p][i] = NoLane}
Goto(l, pc) == lane' = [lane EXCEPT ![l].pc = pc]

Release(l) ==
  slot' = [p \in {"model", "compare"} |->
             [i \in Index |-> IF slot[p][i] = l THEN NoLane ELSE slot[p][i]]]

Spend(e) == left[e] > 0 /\ left' = [left EXCEPT ![e] = @ - 1]

-----------------------------------------------------------------------------
(* acquire and _acquire_replay, around one lane (gated) *)

\* A time later than that of any ticket there is.
NextCame(l) == CHOOSE t \in 1..(Cardinality(Lanes) + 1) :
                 /\ \A m \in tickets \cap Beside(l) : came[m] < t
                 /\ t = 1 \/ \E m \in tickets \cap Beside(l) : came[m] = t - 1

LinesUp(l) == /\ tickets' = tickets \cup {l}
              /\ came' = [came EXCEPT ![l] = NextCame(l)]

\* A replay lane is refused when its pool has no share for replays.
Arrive(l) ==
  /\ lane[l].pc = "new"
  /\ IF Replay(l) /\ ReplaySlots = {}
     THEN Goto(l, "end") /\ UNCHANGED <<tickets, came>>
     ELSE Goto(l, "line") /\ LinesUp(l)
  /\ UNCHANGED <<size, slot, stopped, left>>

\* A pass that got no slot: the lane polls again unless it is no longer wanted.
Missed(l) ==
  /\ lane' = [lane EXCEPT ![l].pc = IF RunOf[l] \in stopped THEN "end" ELSE "line",
                          ![l].may = {}, ![l].at = NoSlot]
  /\ tickets' = IF RunOf[l] \in stopped THEN tickets \ {l} ELSE tickets

\* The tickets left when lane l has pruned those of dead waiters from a directory.
Pruned(dir) == {m \in tickets : m \in dir => Live(m)}

\* One look at the line: an own ticket that is gone is put back under its old name.
Read(l) ==
  /\ lane[l].pc = "line"
  /\ LET may  == MayTake(l)
         seen == Pruned(Beside(l)) \cup {l}
         out  == may = {} /\ RunOf[l] \in stopped
     IN  /\ tickets' = IF out THEN seen \ {l} ELSE seen
         /\ lane' = [lane EXCEPT ![l].may = may,
                                 ![l].pc = IF out THEN "end"
                                           ELSE IF may = {} THEN "line"
                                           ELSE IF PoolOf[l] = "compare" THEN "ask" ELSE "try"]
  /\ UNCHANGED <<size, slot, came, stopped, left>>

\* gpt_idle: nobody waits in the model pool's line, and a reviewer slot of it is free; its lock
\* is taken for a moment.
Ask(l) ==
  /\ lane[l].pc = "ask"
  /\ LET line == {m \in tickets : PoolOf[m] = "model" /\ ~Replay(m)}
         free == Free("model", IF size = 1 THEN {0} ELSE 0..(size - 2))
     IN  IF (\A m \in line : ~Live(m)) /\ free # {}
         THEN /\ slot' = [slot EXCEPT !["model"][CHOOSE i \in free : \A j \in free : i <= j] = l]
              /\ tickets' = Pruned(line) /\ Goto(l, "probe")
         ELSE /\ tickets' = IF RunOf[l] \in stopped THEN Pruned(line) \ {l} ELSE Pruned(line)
              /\ lane' = [lane EXCEPT ![l].pc = IF RunOf[l] \in stopped THEN "end" ELSE "line",
                                      ![l].may = {}]
              /\ UNCHANGED slot
  /\ UNCHANGED <<size, came, stopped, left>>

Answered(l) ==
  /\ lane[l].pc = "probe"
  /\ Release(l) /\ Goto(l, "try")
  /\ UNCHANGED <<size, tickets, came, stopped, left>>

Try(l) ==
  /\ lane[l].pc = "try"
  /\ LET free == Free(PoolOf[l], lane[l].may)
         i == FirstOf(l, free)
     IN  IF free = {}
         THEN Missed(l) /\ UNCHANGED slot
         ELSE /\ slot' = [slot EXCEPT ![PoolOf[l]][i] = l]
              /\ lane' = [lane EXCEPT ![l].pc = IF Replay(l) THEN "check" ELSE "got",
                                      ![l].may = {}, ![l].at = i]
              /\ UNCHANGED tickets
  /\ UNCHANGED <<size, came, stopped, left>>

\* The share is read again under the lock: the pool may have shrunk.
Check(l) ==
  /\ lane[l].pc = "check"
  /\ IF lane[l].at \in ReplaySlots
     THEN Goto(l, "got") /\ UNCHANGED <<slot, tickets>>
     ELSE Release(l) /\ Missed(l)
  /\ UNCHANGED <<size, came, stopped, left>>

\* Mutant: a lane stopped while it waited ends with the slot.
StartLeaks(l) ==
  /\ lane[l].pc = "got" /\ tickets' = tickets \ {l}
  /\ Goto(l, IF RunOf[l] \in stopped /\ ~lane[l].again THEN "end" ELSE "run")
  /\ UNCHANGED <<size, slot, came, stopped, left>>

\* The slot is the lane's: its ticket goes, and it runs unless it was stopped meanwhile.
Start(l) ==
  /\ lane[l].pc = "got" /\ tickets' = tickets \ {l}
  /\ IF RunOf[l] \in stopped /\ ~lane[l].again
     THEN Release(l) /\ lane' = [lane EXCEPT ![l].pc = "end", ![l].at = NoSlot]
     ELSE Goto(l, "run") /\ UNCHANGED slot
  /\ UNCHANGED <<size, came, stopped, left>>

\* A replay lane whose slot is no longer in the share gives it up before its next turn.
Turn(l) ==
  /\ lane[l].pc = "run" /\ Replay(l) /\ lane[l].at \notin ReplaySlots
  /\ Release(l) /\ LinesUp(l)
  /\ lane' = [lane EXCEPT ![l].pc = "line", ![l].at = NoSlot, ![l].again = TRUE]
  /\ UNCHANGED <<size, stopped, left>>

Finish(l) ==
  /\ lane[l].pc = "run"
  /\ Release(l) /\ lane' = [lane EXCEPT ![l].pc = "end", ![l].at = NoSlot]
  /\ UNCHANGED <<size, tickets, came, stopped, left>>

-----------------------------------------------------------------------------
(* Around the lanes *)

\* The daemon reads the accounts anew (slots.refresh), or the reading has aged out.
Resize(n) ==
  /\ n # size /\ Spend("resize")
  /\ size' = n
  /\ UNCHANGED <<slot, tickets, came, lane, stopped>>

\* A worker process dies: the kernel drops its locks, its tickets stay.
Dies(r) ==
  /\ Spend("die")
  /\ \E l \in Lanes : RunOf[l] = r /\ lane[l].pc \notin {"new", "end", "dead"}
  /\ slot' = [p \in {"model", "compare"} |->
                [i \in Index |-> IF slot[p][i] # NoLane /\ RunOf[slot[p][i]] = r
                                 THEN NoLane ELSE slot[p][i]]]
  /\ lane' = [l \in Lanes |-> IF RunOf[l] = r /\ lane[l].pc # "end"
                              THEN [pc |-> "dead", may |-> {}, at |-> NoSlot, again |-> FALSE]
                              ELSE lane[l]]
  /\ UNCHANGED <<size, tickets, came, stopped>>

Stop(r) ==
  /\ r \notin stopped /\ Spend("stop")
  /\ stopped' = stopped \cup {r}
  /\ UNCHANGED <<size, slot, tickets, came, lane>>

\* An operator clears a line.
Clear ==
  /\ tickets # {} /\ Spend("clear")
  /\ tickets' = {}
  /\ UNCHANGED <<size, slot, came, lane, stopped>>

-----------------------------------------------------------------------------
Polls(l) == Read(l) \/ Ask(l) \/ Answered(l) \/ Try(l) \/ Check(l) \/ Start(l)

Next ==
  \/ \E l \in Lanes : Arrive(l) \/ Polls(l) \/ Turn(l) \/ Finish(l)
  \/ \E n \in 1..MaxSlots : Resize(n)
  \/ \E r \in Runs : Dies(r) \/ Stop(r)
  \/ Clear

Spec == Init /\ [][Next]_vars

\* A waiting lane polls once a second.  A side lane is short; of a reviewer or a replay nothing
\* is assumed.
Fairness ==
  /\ \A l \in Lanes : WF_vars(Polls(l))
  /\ \A l \in Lanes : Side(l) => WF_vars(Finish(l))

FairSpec == Spec /\ Fairness

-----------------------------------------------------------------------------
(* Safety *)

Waiting(l) == lane[l].pc \in {"line", "ask", "probe", "try", "check"}

\* The last slot of the pool at its largest is the side lanes': whatever sizes were read when,
\* no reviewer, replay or probe holds it.
TopIsForSides ==
  MaxSlots > 1 => LET l == slot["model"][MaxSlots - 1] IN l # NoLane => Side(l)

\* A lane runs in the one slot it locked, and whichever way a lane ends (stopped, dead, the
\* share gone, the probe answered) it leaves no lock behind: nobody else would ever unlock it.
LockedIsHeld ==
  \A p \in {"model", "compare"}, i \in Index :
    LET l == slot[p][i]
    IN  l # NoLane => \/ lane[l].pc \in {"check", "got", "run"} /\ lane[l].at = i /\ PoolOf[l] = p
                      \/ lane[l].pc = "probe" /\ p = "model"

-----------------------------------------------------------------------------
(* Liveness, under FairSpec *)

\* The top slot of the pool as it is from here on is not a reviewer's or a replay's, taken when
\* the pool was larger.
TopIsKept == left["resize"] = 0 /\ size > 1 /\ (LET l == slot["model"][size - 1] IN l # NoLane => Side(l))

\* A verifier never waits for reviewers, however long they run and however many are in line
\* before it, while the pool keeps its top slot: the line is cleared of side lanes again and
\* again (a lane lines up once).
SidesNeverWait ==
  []<>(TopIsKept => \A l \in Lanes : Side(l) /\ PoolOf[l] = "model" => ~Waiting(l))

\* Somebody waits for ever only while a reviewer or a replay runs for ever: not behind a dead
\* waiter's ticket, a cleared line, a probe, or a pool that changed under the wait.  A replay may
\* also be shut out by a pool that shrank.
NobodyStarves ==
  <>[](\E l \in Lanes : Waiting(l) /\ ~(Replay(l) /\ ReplaySlots = {}))
    => <>[](\E m \in Lanes : ~Side(m) /\ lane[m].pc = "run")
=============================================================================
