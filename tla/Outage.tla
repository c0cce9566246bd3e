------------------------------- MODULE Outage -------------------------------
(***************************************************************************)
(* Degraded mode across runs (degraded.py, Daemon.t_degraded): when the    *)
(* primary pool is out of quota, new runs start on stand-in models, a run  *)
(* that meets the dry pool flips and holds the mode on for the next, and   *)
(* the daemon tells the people who can end it.  Pipeline has what a flip   *)
(* does inside one run.                                                    *)
(*                                                                         *)
(*   pool     "up", "dry", or "busy": it admits a probe's one token and    *)
(*            refuses the lanes                                            *)
(*   force    kv degraded.force, the operator's override                   *)
(*   probe    kv degraded.probe: the last reading, its age, what is left   *)
(*            of its hold                                                  *)
(*   alerted  kv degraded.state: the mode the daemon last announced        *)
(*   paged, pageOpen   the age of kv degraded.paged_at, and page_open      *)
(*   runs     where each worker is, and on which models                    *)
(*   daemon   the locals of t_degraded; ready when its interval is over    *)
(*   chan     #claw shows an outage nobody cleared                         *)
(*   owed     how long the mode is still owed to a lane that met the pool  *)
(*   calm     how long the pool has been up (0 while it is not)            *)
(*   changes, faults   what may still happen (bounds)                      *)
(*                                                                         *)
(* Time passes in units of PROBE_CACHE; ages stop growing where nothing    *)
(* tells them apart any more.  A probe takes a fraction of a unit.         *)
(***************************************************************************)
EXTENDS Naturals, FiniteSets

CONSTANTS Runs,
          Cache,      \* PROBE_CACHE: a reading no older is used again
          Hold,       \* LANE_HOLD
          Repage,     \* DEGRADED_REPAGE_S
          MaxChanges, \* bound: changes of the pool and of the override
          MaxFaults   \* bound: deliveries that fail, daemons that die

ASSUME OutageAssumption ==
  /\ Cache \in Nat /\ Hold \in Nat /\ Repage \in Nat /\ Cache < Hold /\ Hold < Repage
  /\ MaxChanges \in Nat /\ MaxFaults \in Nat

VARIABLES pool, force, probe, alerted, paged, pageOpen, runs, daemon, ready,
          chan, owed, calm, changes, faults

world == <<pool, force, changes>>
books == <<alerted, paged, pageOpen>>
clocks == <<owed, calm>>
vars == <<world, probe, books, runs, daemon, ready, chan, clocks, faults>>

None == "none"
NoProbe == [exhausted |-> FALSE, age |-> Cache + 1, hold |-> 0]
NoPass == [at |-> "idle", active |-> FALSE, source |-> None, flipped |-> FALSE]

Least(a, b) == IF a < b THEN a ELSE b
Less(n) == IF n = 0 THEN 0 ELSE n - 1

Init ==
  /\ pool = "up" /\ force = "auto"
  /\ probe = NoProbe
  /\ alerted = FALSE /\ paged = Repage /\ pageOpen = FALSE
  /\ runs = [r \in Runs |-> "new"]
  /\ daemon = NoPass /\ ready = TRUE
  /\ chan = FALSE /\ owed = 0 /\ calm = Hold + 1
  /\ changes = MaxChanges /\ faults = MaxFaults

-----------------------------------------------------------------------------
(* The probe and its record.                                               *)

\* The proxy's answer to the sentinel: only a refusal counts as exhausted.
Exhausted == pool = "dry"

\* A held reading, or one no older than `age`.
Held == probe.hold > 0
Cached(age) == Held \/ probe.age <= age

\* record_probe: the row is replaced as a whole.
Reading(exhausted) == [exhausted |-> exhausted, age |-> 0, hold |-> 0]
LaneReading == [exhausted |-> TRUE, age |-> 0, hold |-> Hold]

-----------------------------------------------------------------------------
(* A worker (worker._detect_degraded, _flip_to_degraded).                  *)

Goes(r, at) == runs' = [runs EXCEPT ![r] = at]
On(active) == IF active THEN "standin" ELSE "primary"

\* Mutant: a held reading that is used is recorded again.
DetectRenews(r) ==
  /\ runs[r] = "new"
  /\ CASE force # "auto" -> Goes(r, On(force = "on")) /\ UNCHANGED probe
       [] force = "auto" /\ Cached(Cache) ->
            /\ Goes(r, On(probe.exhausted))
            /\ probe' = IF Held THEN LaneReading ELSE probe
       [] OTHER -> Goes(r, "asks") /\ UNCHANGED probe
  /\ UNCHANGED <<world, books, daemon, chan, clocks, faults, ready>>

\* The mode of a run, decided at its start: the override, else a reading that
\* still counts, else a probe of its own.
Detect(r) ==
  /\ runs[r] = "new"
  /\ CASE force # "auto" -> Goes(r, On(force = "on"))
       [] force = "auto" /\ Cached(Cache) -> Goes(r, On(probe.exhausted))
       [] OTHER -> Goes(r, "asks")
  /\ UNCHANGED <<world, probe, books, daemon, chan, clocks, faults, ready>>

\* The proxy answers, and then the answer is recorded.
Answered(exhausted) == IF exhausted THEN "refused" ELSE "answered"
Ask(r) ==
  /\ runs[r] = "asks"
  /\ Goes(r, Answered(Exhausted))
  /\ UNCHANGED <<world, probe, books, daemon, chan, clocks, faults, ready>>

Record(r) ==
  /\ runs[r] \in {"answered", "refused"}
  /\ probe' = Reading(runs[r] = "refused")
  /\ Goes(r, On(runs[r] = "refused"))
  /\ UNCHANGED <<world, books, daemon, chan, clocks, faults, ready>>

\* A lane of a run on primary models meets the pool: the run flips, and holds
\* the mode on for the runs after it.
MeetsPool(r) ==
  /\ runs[r] = "primary" /\ pool # "up"
  /\ Goes(r, "standin")
  /\ probe' = LaneReading
  /\ owed' = Hold
  /\ UNCHANGED <<world, books, daemon, chan, calm, faults, ready>>

\* A run ends, and another starts.
Over(r) ==
  /\ runs[r] \in {"primary", "standin"}
  /\ Goes(r, "new")
  /\ UNCHANGED <<world, probe, books, daemon, chan, clocks, faults, ready>>

-----------------------------------------------------------------------------
(* A pass of the daemon's task.                                            *)

Step(at) == daemon' = [daemon EXCEPT !.at = at]
Judged(active, source) ==
  daemon' = [at |-> "judged", active |-> active, source |-> source, flipped |-> FALSE]

\* detect with refresh: only a hold spares the probe.
Look ==
  /\ daemon.at = "idle" /\ ready
  /\ CASE force # "auto" -> Judged(force = "on", "forced")
       [] force = "auto" /\ Held -> Judged(probe.exhausted, "probe")
       [] OTHER -> Step("asks")
  /\ ready' = FALSE
  /\ UNCHANGED <<world, probe, books, runs, chan, clocks, faults>>

LookAsks ==
  /\ daemon.at = "asks"
  /\ Step(Answered(Exhausted))
  /\ UNCHANGED <<world, probe, books, runs, chan, clocks, faults, ready>>

LookRecords ==
  /\ daemon.at \in {"answered", "refused"}
  /\ probe' = Reading(daemon.at = "refused")
  /\ Judged(daemon.at = "refused", "probe")
  /\ UNCHANGED <<world, books, runs, chan, clocks, faults, ready>>

\* transition: the mode is on the books before anybody is told.
Transition ==
  /\ daemon.at = "judged"
  /\ alerted' = daemon.active
  /\ daemon' = [daemon EXCEPT !.at = "tell", !.flipped = alerted # daemon.active]
  /\ UNCHANGED <<world, probe, paged, pageOpen, runs, chan, clocks, faults, ready>>

\* Notifier.page: a copy to #claw and one to the operator; either is enough to
\* count as delivered.  Every copy that is lost is a fault.
Lost(claw, dm) == Cardinality({copy \in {<<"claw", claw>>, <<"dm", dm>>} : ~copy[2]})
Page(claw, dm) == Lost(claw, dm) <= faults /\ faults' = faults - Lost(claw, dm)

\* Mutant: the page goes out with the flip only.
DueOnFlip == daemon.flipped

\* No page yet, or the last is an interval old.
Due == paged = Repage

TellOutage ==
  /\ daemon.at = "tell" /\ daemon.active /\ daemon.source = "probe" /\ Due
  /\ \E claw, dm \in BOOLEAN :
       /\ Page(claw, dm)
       /\ chan' = (chan \/ claw)
       /\ IF claw \/ dm THEN Step("book") ELSE daemon' = NoPass
  /\ UNCHANGED <<world, probe, books, runs, clocks, ready>>

Book ==
  /\ daemon.at = "book"
  /\ paged' = 0 /\ pageOpen' = TRUE
  /\ daemon' = NoPass
  /\ UNCHANGED <<world, probe, alerted, runs, chan, clocks, faults, ready>>

\* A flip that is no page's business is said to the operator alone, whose
\* messages no property is about.
TellOperator ==
  /\ daemon.at = "tell" /\ daemon.active /\ ~(daemon.source = "probe" /\ Due)
  /\ daemon' = NoPass
  /\ UNCHANGED <<world, probe, books, runs, chan, clocks, faults, ready>>

\* The all-clear: to #claw when it has an open page and the models answer.
TellNormal ==
  /\ daemon.at = "tell" /\ ~daemon.active
  /\ IF daemon.flipped /\ pageOpen /\ daemon.source = "probe"
     THEN \E claw, dm \in BOOLEAN : Page(claw, dm) /\ chan' = (chan /\ ~claw)
     ELSE UNCHANGED <<chan, faults>>
  /\ Step("close")
  /\ UNCHANGED <<world, probe, books, runs, clocks, ready>>

Close ==
  /\ daemon.at = "close"
  /\ pageOpen' = FALSE
  /\ daemon' = NoPass
  /\ UNCHANGED <<world, probe, alerted, paged, runs, chan, clocks, faults, ready>>

\* The daemon dies and is started again.
Crash ==
  /\ daemon.at # "idle" /\ faults > 0
  /\ faults' = faults - 1
  /\ daemon' = NoPass /\ ready' = TRUE
  /\ UNCHANGED <<world, probe, books, runs, chan, clocks>>

-----------------------------------------------------------------------------
(* The world.                                                              *)

Pool(state) ==
  /\ pool # state /\ changes > 0
  /\ pool' = state /\ changes' = changes - 1
  /\ calm' = 0
  /\ UNCHANGED <<force, probe, books, runs, daemon, chan, owed, faults, ready>>

Override(mode) ==
  /\ force # mode /\ changes > 0
  /\ force' = mode /\ changes' = changes - 1
  /\ UNCHANGED <<pool, probe, books, runs, daemon, chan, clocks, faults, ready>>

Probing == {"asks", "answered", "refused"}
Tick ==
  /\ daemon.at \notin Probing /\ \A r \in Runs : runs[r] \notin Probing
  /\ probe' = [probe EXCEPT !.age = Least(@ + 1, Cache + 1), !.hold = Less(@)]
  /\ paged' = Least(paged + 1, Repage)
  /\ owed' = Less(owed)
  /\ calm' = IF pool = "up" THEN Least(calm + 1, Hold + 1) ELSE calm
  /\ ready' = TRUE
  /\ UNCHANGED <<world, alerted, pageOpen, runs, daemon, chan, faults>>

Worker(r) == Detect(r) \/ Ask(r) \/ Record(r) \/ MeetsPool(r) \/ Over(r)
Pass ==
  Look \/ LookAsks \/ LookRecords \/ Transition \/ TellOutage \/ Book \/ TellOperator
    \/ TellNormal \/ Close

Next ==
  \/ \E r \in Runs : Worker(r)
  \/ Pass \/ Crash \/ Tick
  \/ \E state \in {"up", "dry", "busy"} : Pool(state)
  \/ \E mode \in {"auto", "on", "off"} : Override(mode)

\* The daemon goes on, runs end, and time passes although probes come between.
Spec == Init /\ [][Next]_vars /\ WF_vars(Pass) /\ SF_vars(Tick)
          /\ \A r \in Runs : WF_vars(Worker(r))

-----------------------------------------------------------------------------
(* Properties.                                                             *)

\* An outage that stays, with nobody overriding it, ends up on #claw, although
\* copies are lost and the daemon dies between the flip, the page and its
\* record: "a page that fails to deliver is retried" (Daemon.t_degraded).
OutageIsPaged == <>[](pool = "dry" /\ force = "auto") => <>[]chan

\* With the pool up for good the mode ends by itself: no reading is renewed
\* without a probe, and the hold runs out (_cached_probe, Daemon.t_degraded).
ModeRecovers ==
  <>[](pool = "up" /\ force = "auto") =>
    <>[](~alerted /\ \A r \in Runs : runs[r] # "standin")

\* Without an override no run starts on stand-ins once the pool has been up for
\* as long as a hold lasts, whoever read or recorded what meanwhile.
NoStaleOutage ==
  [][\A r \in Runs :
       (runs[r] \in {"new", "refused"} /\ runs'[r] = "standin" /\ force = "auto") =>
         calm <= Hold]_vars

\* "hold=True for a lane's quota failure: the mode then stays on for LANE_HOLD
\* regardless of what the sentinel probe says" (degraded.record_probe).
HoldStands == owed > 0 => Held /\ probe.exhausted
=============================================================================
