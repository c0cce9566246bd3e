--------------------------- MODULE LanePoolProofs ---------------------------
(***************************************************************************)
(* What holds of the lane slots for any lanes, ranks, runs and sizes of    *)
(* the pool: the top slot of the pool at its largest is never held by a    *)
(* reviewer, a replay or a probe, and no lock outlives the step that       *)
(* needs it.  Two facts make these inductive: what a lane may try is read  *)
(* from a size no larger than MaxSlots, and a free slot is what a lane     *)
(* locks, which is why the smallest and the largest of a set of slots      *)
(* have to be there.                                                       *)
(***************************************************************************)
EXTENDS LanePool, WellFoundedInduction, TLAPS

Pools == {"model", "compare"}

SlotTypes ==
  /\ size \in 1..MaxSlots
  /\ slot \in [Pools -> [Index -> Lanes \cup {NoLane}]]
  /\ lane \in [Lanes -> Lane]

\* What a lane may try is never the last slot of the pool at its largest, unless it is a side lane.
MayBelowTop ==
  \A l \in Lanes : ~Side(l) /\ PoolOf[l] = "model" /\ MaxSlots > 1
                     => MaxSlots - 1 \notin lane[l].may

LanesInv == SlotTypes /\ MayBelowTop /\ TopIsForSides /\ LockedIsHeld

-----------------------------------------------------------------------------
(* Operators *)

\* A set of natural numbers that is not empty has a least element.
LEMMA LeastNat ==
  ASSUME NEW T, T \subseteq Nat, T # {}
  PROVE  \E i \in T : \A j \in T : i <= j
<1>1. \E i \in T : \A j \in T : <<j, i>> \notin OpToRel(<, Nat)
  BY WFMin, NatLessThanWellFounded, Zenon
<1>2. PICK i \in T : \A j \in T : <<j, i>> \notin OpToRel(<, Nat)
  BY <1>1
<1>3. ASSUME NEW j \in T PROVE ~(j < i)
  BY <1>2, Zenon DEF OpToRel
<1> QED BY <1>3

\* ... and a greatest one if it has a bound.
LEMMA GreatestNat ==
  ASSUME NEW n \in Nat, NEW T, T \subseteq 0..n, T # {}
  PROVE  \E i \in T : \A j \in T : j <= i
<1> DEFINE U == {n - i : i \in T}
<1>1. U \subseteq Nat /\ U # {}
  <2>1. \A i \in T : n - i \in Nat OBVIOUS
  <2>2. PICK i \in T : TRUE OBVIOUS
  <2>3. n - i \in U BY <2>2
  <2> QED BY <2>1, <2>3
<1> HIDE DEF U
<1>2. PICK u \in U : \A v \in U : u <= v BY <1>1, LeastNat
<1>3. PICK i \in T : u = n - i BY DEF U
<1>4. ASSUME NEW j \in T PROVE j <= i
  <2>1. n - j \in U BY DEF U
  <2> QED BY <1>2, <1>3, <2>1
<1> QED BY <1>4

\* The slot a lane locks first is one of those it found free.
LEMMA FirstOfFree ==
  ASSUME NEW l \in Lanes, NEW free, free \subseteq Index, free # {}
  PROVE  FirstOf(l, free) \in free
<1> DEFINE n == MaxSlots - 1
<1>0. n \in Nat /\ free \subseteq 0..n BY LanesAssumption DEF Index
<1> HIDE DEF n
<1>1. CASE Side(l) \/ Replay(l)
  <2>1. \E i \in free : \A j \in free : j <= i
    BY <1>0, GreatestNat
  <2> QED BY <1>1, <2>1 DEF FirstOf
<1>2. CASE ~(Side(l) \/ Replay(l))
  <2>1. \E i \in free : \A j \in free : i <= j
    <3>1. free \subseteq Nat BY <1>0
    <3> QED BY <3>1, LeastNat
  <2> QED BY <1>2, <2>1 DEF FirstOf
<1> QED BY <1>1, <1>2

\* The share of the replays is below the top slot.
LEMMA ShareBelowTop == ReplaySlots \subseteq {i \in Index : i <= size - 2}
BY DEF ReplaySlots

\* What the line allows is a set of slots, and for a reviewer or a replay not the top one.
LEMMA MayTakeBelowTop ==
  ASSUME NEW l \in Lanes, size \in 1..MaxSlots
  PROVE  /\ MayTake(l) \subseteq Index
         /\ ~Side(l) /\ PoolOf[l] = "model" /\ MaxSlots > 1 => MaxSlots - 1 \notin MayTake(l)
<1> USE LanesAssumption
<1>1. CASE Replay(l)
  <2>1. MayTake(l) \subseteq ReplaySlots BY <1>1 DEF MayTake
  <2>2. MayTake(l) \subseteq {i \in Index : i <= size - 2} BY <2>1, ShareBelowTop
  <2>3. MaxSlots - 1 \in MayTake(l) => MaxSlots - 1 <= size - 2 BY <2>2
  <2> QED BY <2>2, <2>3
<1>2. CASE ~Replay(l)
  <2>1. Count(l) \in 1..MaxSlots /\ (PoolOf[l] = "model" => Count(l) = size)
    BY DEF Count
  <2>2. /\ MayTake(l) \subseteq 0..(Count(l) - 1)
        /\ ~Side(l) => MayTake(l) \subseteq {i \in Index : i = 0 \/ i <= Count(l) - 2}
    BY <1>2, <2>1 DEF MayTake, Index
  <2>3. MayTake(l) \subseteq Index BY <2>1, <2>2 DEF Index
  <2>4. ASSUME ~Side(l), PoolOf[l] = "model", MaxSlots > 1, MaxSlots - 1 \in MayTake(l)
        PROVE  FALSE
    <3>1. MaxSlots - 1 = 0 \/ MaxSlots - 1 <= size - 2 BY <2>1, <2>2, <2>4
    <3> QED BY <3>1, <2>4
  <2> QED BY <2>3, <2>4
<1> QED BY <1>1, <1>2

\* Release leaves a table of slots in which l holds none and the others keep theirs.
LEMMA ReleaseFrees ==
  ASSUME SlotTypes, NEW l \in Lanes, Release(l)
  PROVE  /\ slot' \in [Pools -> [Index -> Lanes \cup {NoLane}]]
         /\ \A p \in Pools, i \in Index :
              /\ slot'[p][i] # l
              /\ slot'[p][i] # NoLane => slot'[p][i] = slot[p][i]
<1>1. NoLane # l BY LanesAssumption
<1> QED BY <1>1 DEF Release, SlotTypes, Pools

-----------------------------------------------------------------------------
(* The invariant holds at the start and is kept by every step *)

LEMMA InitInv == Init => LanesInv
<1> SUFFICES ASSUME Init PROVE LanesInv OBVIOUS
<1> USE LanesAssumption
<1>1. PICK s \in Scenarios : Init!(s) BY DEF Init
<1>2. size \in 1..MaxSlots BY <1>1
<1>3. slot = [p \in Pools |-> [i \in Index |-> NoLane]] BY <1>1 DEF Pools
<1>4. lane = [l \in Lanes |-> [pc |-> IF l \in s.come THEN "new" ELSE "end",
                              may |-> {}, at |-> NoSlot, again |-> FALSE]]
  BY <1>1
<1>5. SlotTypes
  <2>1. \A l \in Lanes : lane[l] \in Lane BY <1>4 DEF Lane, Pc
  <2>2. lane \in [Lanes -> Lane] BY <1>4, <2>1
  <2> QED BY <1>2, <1>3, <2>2 DEF SlotTypes
<1>6. MayBelowTop BY <1>4 DEF MayBelowTop
<1>7. TopIsForSides BY <1>3 DEF TopIsForSides, Pools, Index
<1>8. LockedIsHeld BY <1>3 DEF LockedIsHeld, Pools
<1> QED BY <1>5, <1>6, <1>7, <1>8 DEF LanesInv

\* A step of one lane that takes no slot: the slots it held it may give up, and it allows itself
\* nothing new.
LEMMA NothingTaken ==
  ASSUME LanesInv, NEW l \in Lanes, NEW rec \in Lane,
         lane' = [lane EXCEPT ![l] = rec], size' \in 1..MaxSlots,
         ~Side(l) /\ PoolOf[l] = "model" /\ MaxSlots > 1 => MaxSlots - 1 \notin rec.may,
         \/ Release(l)
         \/ /\ slot' = slot
            /\ \/ \A p \in Pools, i \in Index : slot[p][i] # l
               \/ rec.pc \in {"check", "got", "run"} /\ rec.at = lane[l].at
                    /\ lane[l].pc \in {"check", "got", "run"}
  PROVE  LanesInv'
<1> USE LanesAssumption
<1>1. slot' \in [Pools -> [Index -> Lanes \cup {NoLane}]]
  BY ReleaseFrees DEF LanesInv, SlotTypes
<1>2. \A p \in Pools, i \in Index : slot'[p][i] # NoLane => slot'[p][i] = slot[p][i]
  BY ReleaseFrees DEF LanesInv
<1>3. SlotTypes' BY <1>1 DEF LanesInv, SlotTypes
<1>4. MayBelowTop' BY DEF LanesInv, MayBelowTop, SlotTypes, Side
<1>5. TopIsForSides'
  BY <1>2 DEF LanesInv, TopIsForSides, Side, Pools, Index
<1>6. LockedIsHeld'
  <2> SUFFICES ASSUME NEW p \in Pools, NEW i \in Index, slot'[p][i] # NoLane
               PROVE  LET m == slot'[p][i]
                      IN  \/ lane'[m].pc \in {"check", "got", "run"} /\ lane'[m].at = i /\ PoolOf[m] = p
                          \/ lane'[m].pc = "probe" /\ p = "model"
    BY DEF LockedIsHeld, Pools
  <2> DEFINE m == slot'[p][i]
  <2>1. m = slot[p][i] /\ m \in Lanes BY <1>1, <1>2
  <2>2. \/ lane[m].pc \in {"check", "got", "run"} /\ lane[m].at = i /\ PoolOf[m] = p
        \/ lane[m].pc = "probe" /\ p = "model"
    BY <2>1 DEF LanesInv, LockedIsHeld, Pools
  <2>3. CASE m # l
    <3>1. lane'[m] = lane[m] BY <2>1, <2>3 DEF LanesInv, SlotTypes
    <3> QED BY <2>2, <3>1
  <2>4. CASE m = l
    <3>1. ~Release(l) BY <2>4, ReleaseFrees DEF LanesInv
    <3>2. /\ rec.pc \in {"check", "got", "run"} /\ rec.at = lane[l].at
          /\ lane[l].pc \in {"check", "got", "run"}
      BY <2>1, <2>4, <3>1
    <3>3. lane'[l] = rec BY DEF LanesInv, SlotTypes
    <3> QED BY <2>2, <2>4, <3>2, <3>3
  <2> QED BY <2>3, <2>4
<1> QED BY <1>3, <1>4, <1>5, <1>6 DEF LanesInv

\* A lane that holds no slot locks a free one.
LEMMA SlotTaken ==
  ASSUME LanesInv, NEW l \in Lanes, NEW rec \in Lane, NEW q \in Pools, NEW k \in Index,
         lane' = [lane EXCEPT ![l] = rec], size' = size,
         slot' = [slot EXCEPT ![q][k] = l], slot[q][k] = NoLane,
         \A p \in Pools, i \in Index : slot[p][i] # l,
         rec.may = {} \/ rec.may = lane[l].may,
         q = "model" /\ MaxSlots > 1 /\ ~Side(l) => k # MaxSlots - 1,
         \/ rec.pc \in {"check", "got"} /\ rec.at = k /\ PoolOf[l] = q
         \/ rec.pc = "probe" /\ q = "model"
  PROVE  LanesInv'
<1> USE LanesAssumption
<1>1. \A p \in Pools, i \in Index :
        slot'[p][i] = IF p = q /\ i = k THEN l ELSE slot[p][i]
  BY DEF LanesInv, SlotTypes
<1>2. SlotTypes' BY DEF LanesInv, SlotTypes
<1>3. MayBelowTop' BY DEF LanesInv, MayBelowTop, SlotTypes, Side
<1>4. TopIsForSides'
  BY <1>1 DEF LanesInv, TopIsForSides, Side, Pools, Index
<1>5. LockedIsHeld'
  <2> SUFFICES ASSUME NEW p \in Pools, NEW i \in Index, slot'[p][i] # NoLane
               PROVE  LET m == slot'[p][i]
                      IN  \/ lane'[m].pc \in {"check", "got", "run"} /\ lane'[m].at = i /\ PoolOf[m] = p
                          \/ lane'[m].pc = "probe" /\ p = "model"
    BY DEF LockedIsHeld, Pools
  <2>1. CASE p = q /\ i = k
    <3>1. slot'[p][i] = l /\ lane'[l] = rec BY <1>1, <2>1 DEF LanesInv, SlotTypes
    <3> QED BY <2>1, <3>1
  <2>2. CASE ~(p = q /\ i = k)
    <3> DEFINE m == slot[p][i]
    <3>1. slot'[p][i] = m /\ m # l /\ m \in Lanes BY <1>1, <2>2 DEF LanesInv, SlotTypes
    <3>2. lane'[m] = lane[m] BY <3>1 DEF LanesInv, SlotTypes
    <3>3. \/ lane[m].pc \in {"check", "got", "run"} /\ lane[m].at = i /\ PoolOf[m] = p
          \/ lane[m].pc = "probe" /\ p = "model"
      BY <3>1 DEF LanesInv, LockedIsHeld, Pools
    <3> QED BY <3>1, <3>2, <3>3
  <2> QED BY <2>1, <2>2
<1> QED BY <1>2, <1>3, <1>4, <1>5 DEF LanesInv

\* A lane that is in line, probing nothing and locking nothing, holds no slot.
LEMMA HoldsNone ==
  ASSUME LanesInv, NEW l \in Lanes, lane[l].pc \notin {"probe", "check", "got", "run"}
  PROVE  \A p \in Pools, i \in Index : slot[p][i] # l
<1> SUFFICES ASSUME NEW p \in Pools, NEW i \in Index, slot[p][i] = l PROVE FALSE OBVIOUS
<1>1. l # NoLane BY LanesAssumption
<1> QED BY <1>1 DEF LanesInv, LockedIsHeld, Pools

LEMMA ArriveStep ==
  ASSUME LanesInv, NEW l \in Lanes, Arrive(l)
  PROVE  LanesInv'
<1>1. PICK pc \in {"end", "line"} : lane' = [lane EXCEPT ![l].pc = pc]
  BY DEF Arrive, Goto
<1> DEFINE rec == [lane[l] EXCEPT !.pc = pc]
<1>2. rec \in Lane /\ rec.may = lane[l].may /\ lane' = [lane EXCEPT ![l] = rec]
  BY <1>1 DEF LanesInv, SlotTypes, Lane, Pc
<1>3. slot' = slot /\ size' \in 1..MaxSlots BY DEF Arrive, LanesInv, SlotTypes
<1>4. \A p \in Pools, i \in Index : slot[p][i] # l BY HoldsNone DEF Arrive
<1>5. ~Side(l) /\ PoolOf[l] = "model" /\ MaxSlots > 1 => MaxSlots - 1 \notin rec.may
  BY <1>2 DEF LanesInv, MayBelowTop
<1> HIDE DEF rec
<1> QED BY <1>2, <1>3, <1>4, <1>5, NothingTaken

LEMMA ReadStep ==
  ASSUME LanesInv, NEW l \in Lanes, Read(l)
  PROVE  LanesInv'
<1>1. PICK pc \in {"end", "line", "ask", "try"} :
        lane' = [lane EXCEPT ![l].may = MayTake(l), ![l].pc = pc]
  BY DEF Read
<1>2. size \in 1..MaxSlots BY DEF LanesInv, SlotTypes
<1> DEFINE rec == [lane[l] EXCEPT !.may = MayTake(l), !.pc = pc]
<1>3. rec \in Lane /\ rec.may = MayTake(l) /\ lane' = [lane EXCEPT ![l] = rec]
  BY <1>1, <1>2, MayTakeBelowTop DEF LanesInv, SlotTypes, Lane, Pc
<1>4. slot' = slot /\ size' \in 1..MaxSlots BY <1>2 DEF Read
<1>5. \A p \in Pools, i \in Index : slot[p][i] # l BY HoldsNone DEF Read
<1>6. ~Side(l) /\ PoolOf[l] = "model" /\ MaxSlots > 1 => MaxSlots - 1 \notin rec.may
  BY <1>2, <1>3, MayTakeBelowTop
<1> HIDE DEF rec
<1> QED BY <1>3, <1>4, <1>5, <1>6, NothingTaken

\* The record of a lane after a pass that got no slot.
LEMMA MissedRecord ==
  ASSUME SlotTypes, NEW l \in Lanes, Missed(l)
  PROVE  \E rec \in Lane : rec.may = {} /\ lane' = [lane EXCEPT ![l] = rec]
<1>1. PICK pc \in {"end", "line"} :
        lane' = [lane EXCEPT ![l].pc = pc, ![l].may = {}, ![l].at = NoSlot]
  BY DEF Missed
<1> DEFINE rec == [lane[l] EXCEPT !.pc = pc, !.may = {}, !.at = NoSlot]
<1>2. rec \in Lane /\ rec.may = {} /\ lane' = [lane EXCEPT ![l] = rec]
  BY <1>1 DEF SlotTypes, Lane, Pc
<1> QED BY <1>2

LEMMA AskStep ==
  ASSUME LanesInv, NEW l \in Lanes, Ask(l)
  PROVE  LanesInv'
<1> DEFINE reviewers == IF size = 1 THEN {0} ELSE 0..(size - 2)
           free == Free("model", reviewers)
           idle == \A m \in {m \in tickets : PoolOf[m] = "model" /\ ~Replay(m)} : ~Live(m)
<1>1. size \in 1..MaxSlots /\ size' = size BY DEF Ask, LanesInv, SlotTypes
<1>2. \A p \in Pools, i \in Index : slot[p][i] # l BY HoldsNone DEF Ask
<1>3. free \subseteq Index /\ (MaxSlots > 1 => MaxSlots - 1 \notin free)
  BY <1>1, LanesAssumption DEF Free, Index
<1>4. CASE ~(idle /\ free # {})
  <2>1. PICK pc \in {"end", "line"} : lane' = [lane EXCEPT ![l].pc = pc, ![l].may = {}]
    BY <1>4 DEF Ask
  <2> DEFINE rec == [lane[l] EXCEPT !.pc = pc, !.may = {}]
  <2>2. rec \in Lane /\ rec.may = {} /\ lane' = [lane EXCEPT ![l] = rec]
    BY <2>1 DEF LanesInv, SlotTypes, Lane, Pc
  <2>3. slot' = slot BY <1>4 DEF Ask
  <2> HIDE DEF rec, free, idle
  <2> QED BY <1>1, <1>2, <2>2, <2>3, NothingTaken
<1>5. CASE idle /\ free # {}
  <2> DEFINE k == CHOOSE i \in free : \A j \in free : i <= j
  <2>1. free # {} /\ slot' = [slot EXCEPT !["model"][k] = l] /\ Goto(l, "probe")
    BY <1>5 DEF Ask
  <2>2. k \in free
    <3>1. free \subseteq Nat BY <1>3 DEF Index
    <3> HIDE DEF free
    <3> QED BY <2>1, <3>1, LeastNat
  <2>3. k \in Index /\ slot["model"][k] = NoLane /\ (MaxSlots > 1 => k # MaxSlots - 1)
    BY <1>3, <2>2 DEF Free
  <2> DEFINE rec == [lane[l] EXCEPT !.pc = "probe"]
  <2>4. rec \in Lane /\ rec.may = lane[l].may /\ rec.pc = "probe" /\ lane' = [lane EXCEPT ![l] = rec]
    BY <2>1 DEF Goto, LanesInv, SlotTypes, Lane, Pc
  <2> HIDE DEF rec, k, free, idle
  <2> QED BY <1>1, <1>2, <2>1, <2>3, <2>4, SlotTaken DEF Pools
<1> QED BY <1>4, <1>5

LEMMA AnsweredStep ==
  ASSUME LanesInv, NEW l \in Lanes, Answered(l)
  PROVE  LanesInv'
<1> DEFINE rec == [lane[l] EXCEPT !.pc = "try"]
<1>1. rec \in Lane /\ rec.may = lane[l].may /\ lane' = [lane EXCEPT ![l] = rec]
  BY DEF Answered, Goto, LanesInv, SlotTypes, Lane, Pc
<1>2. Release(l) /\ size' \in 1..MaxSlots BY DEF Answered, LanesInv, SlotTypes
<1>3. ~Side(l) /\ PoolOf[l] = "model" /\ MaxSlots > 1 => MaxSlots - 1 \notin rec.may
  BY <1>1 DEF LanesInv, MayBelowTop
<1> HIDE DEF rec
<1> QED BY <1>1, <1>2, <1>3, NothingTaken

LEMMA TryStep ==
  ASSUME LanesInv, NEW l \in Lanes, Try(l)
  PROVE  LanesInv'
<1> DEFINE free == Free(PoolOf[l], lane[l].may)
<1>1. size \in 1..MaxSlots /\ size' = size BY DEF Try, LanesInv, SlotTypes
<1>2. \A p \in Pools, i \in Index : slot[p][i] # l BY HoldsNone DEF Try
<1>3. CASE free = {}
  <2>1. Missed(l) /\ slot' = slot BY <1>3 DEF Try
  <2>2. PICK rec \in Lane : rec.may = {} /\ lane' = [lane EXCEPT ![l] = rec]
    BY <2>1, MissedRecord DEF LanesInv
  <2> QED BY <1>1, <1>2, <2>1, <2>2, NothingTaken
<1>4. CASE free # {}
  <2> DEFINE i == FirstOf(l, free)
             rec == [lane[l] EXCEPT !.pc = IF Replay(l) THEN "check" ELSE "got", !.may = {}, !.at = i]
  <2>1. slot' = [slot EXCEPT ![PoolOf[l]][i] = l] /\ lane' = [lane EXCEPT ![l] = rec]
    BY <1>4 DEF Try, LanesInv, SlotTypes, Lane
  <2>2. free \subseteq Index /\ lane[l] \in Lane
    BY DEF Free, LanesInv, SlotTypes, Lane
  <2>3. i \in free
    <3> HIDE DEF free
    <3> QED BY <1>4, <2>2, FirstOfFree
  <2>4. i \in Index /\ slot[PoolOf[l]][i] = NoLane /\ i \in lane[l].may
    BY <2>2, <2>3 DEF Free
  <2> HIDE DEF i, free
  <2>5. rec \in Lane /\ rec.may = {} /\ rec.at = i /\ rec.pc \in {"check", "got"}
    BY <2>2, <2>4 DEF Lane, Pc
  <2>6. PoolOf[l] \in Pools BY LanesAssumption DEF Pools
  <2>7. PoolOf[l] = "model" /\ MaxSlots > 1 /\ ~Side(l) => i # MaxSlots - 1
    BY <2>4 DEF LanesInv, MayBelowTop
  <2> HIDE DEF rec
  <2> QED BY <1>1, <1>2, <2>1, <2>4, <2>5, <2>6, <2>7, SlotTaken
<1> QED BY <1>3, <1>4

LEMMA CheckStep ==
  ASSUME LanesInv, NEW l \in Lanes, Check(l)
  PROVE  LanesInv'
<1>1. size' \in 1..MaxSlots BY DEF Check, LanesInv, SlotTypes
<1>2. CASE lane[l].at \in ReplaySlots
  <2> DEFINE rec == [lane[l] EXCEPT !.pc = "got"]
  <2>1. /\ rec \in Lane /\ rec.may = lane[l].may /\ rec.at = lane[l].at /\ rec.pc = "got"
        /\ lane' = [lane EXCEPT ![l] = rec] /\ slot' = slot /\ lane[l].pc = "check"
    BY <1>2 DEF Check, Goto, LanesInv, SlotTypes, Lane, Pc
  <2>2. ~Side(l) /\ PoolOf[l] = "model" /\ MaxSlots > 1 => MaxSlots - 1 \notin rec.may
    BY <2>1 DEF LanesInv, MayBelowTop
  <2> HIDE DEF rec
  <2> QED BY <1>1, <2>1, <2>2, NothingTaken
<1>3. CASE lane[l].at \notin ReplaySlots
  <2>1. Release(l) /\ Missed(l) BY <1>3 DEF Check
  <2>2. PICK rec \in Lane : rec.may = {} /\ lane' = [lane EXCEPT ![l] = rec]
    BY <2>1, MissedRecord DEF LanesInv
  <2> QED BY <1>1, <2>1, <2>2, NothingTaken
<1> QED BY <1>2, <1>3

LEMMA StartStep ==
  ASSUME LanesInv, NEW l \in Lanes, Start(l)
  PROVE  LanesInv'
<1>1. size' \in 1..MaxSlots /\ lane[l].pc = "got" BY DEF Start, LanesInv, SlotTypes
<1>2. lane[l] \in Lane /\ (~Side(l) /\ PoolOf[l] = "model" /\ MaxSlots > 1 => MaxSlots - 1 \notin lane[l].may)
  BY DEF LanesInv, SlotTypes, MayBelowTop
<1>3. CASE RunOf[l] \in stopped /\ ~lane[l].again
  <2> DEFINE rec == [lane[l] EXCEPT !.pc = "end", !.at = NoSlot]
  <2>1. rec \in Lane /\ rec.may = lane[l].may /\ lane' = [lane EXCEPT ![l] = rec] /\ Release(l)
    BY <1>2, <1>3 DEF Start, LanesInv, SlotTypes, Lane, Pc
  <2> HIDE DEF rec
  <2> QED BY <1>1, <1>2, <2>1, NothingTaken
<1>4. CASE ~(RunOf[l] \in stopped /\ ~lane[l].again)
  <2> DEFINE rec == [lane[l] EXCEPT !.pc = "run"]
  <2>1. /\ rec \in Lane /\ rec.may = lane[l].may /\ rec.at = lane[l].at /\ rec.pc = "run"
        /\ lane' = [lane EXCEPT ![l] = rec] /\ slot' = slot
    BY <1>2, <1>4 DEF Start, Goto, LanesInv, SlotTypes, Lane, Pc
  <2> HIDE DEF rec
  <2> QED BY <1>1, <1>2, <2>1, NothingTaken
<1> QED BY <1>3, <1>4

LEMMA TurnStep ==
  ASSUME LanesInv, NEW l \in Lanes, Turn(l)
  PROVE  LanesInv'
<1> DEFINE rec == [lane[l] EXCEPT !.pc = "line", !.at = NoSlot, !.again = TRUE]
<1>1. rec \in Lane /\ rec.may = lane[l].may /\ lane' = [lane EXCEPT ![l] = rec]
  BY DEF Turn, LanesInv, SlotTypes, Lane, Pc
<1>2. Release(l) /\ size' \in 1..MaxSlots BY DEF Turn, LanesInv, SlotTypes
<1>3. ~Side(l) /\ PoolOf[l] = "model" /\ MaxSlots > 1 => MaxSlots - 1 \notin rec.may
  BY <1>1 DEF LanesInv, MayBelowTop
<1> HIDE DEF rec
<1> QED BY <1>1, <1>2, <1>3, NothingTaken

LEMMA FinishStep ==
  ASSUME LanesInv, NEW l \in Lanes, Finish(l)
  PROVE  LanesInv'
<1> DEFINE rec == [lane[l] EXCEPT !.pc = "end", !.at = NoSlot]
<1>1. rec \in Lane /\ rec.may = lane[l].may /\ lane' = [lane EXCEPT ![l] = rec]
  BY DEF Finish, LanesInv, SlotTypes, Lane, Pc
<1>2. Release(l) /\ size' \in 1..MaxSlots BY DEF Finish, LanesInv, SlotTypes
<1>3. ~Side(l) /\ PoolOf[l] = "model" /\ MaxSlots > 1 => MaxSlots - 1 \notin rec.may
  BY <1>1 DEF LanesInv, MayBelowTop
<1> HIDE DEF rec
<1> QED BY <1>1, <1>2, <1>3, NothingTaken

\* The kernel drops the locks of a process that dies, and of no other.
LEMMA DiesStep ==
  ASSUME LanesInv, NEW r \in Runs, Dies(r)
  PROVE  LanesInv'
<1> USE LanesAssumption
<1> DEFINE gone == [pc |-> "dead", may |-> {}, at |-> NoSlot, again |-> FALSE]
<1>1. \A p \in Pools, i \in Index :
        slot'[p][i] = IF slot[p][i] # NoLane /\ RunOf[slot[p][i]] = r THEN NoLane ELSE slot[p][i]
  BY DEF Dies, Pools
<1>2. \A l \in Lanes : lane'[l] = IF RunOf[l] = r /\ lane[l].pc # "end" THEN gone ELSE lane[l]
  BY DEF Dies
<1>3. gone \in Lane BY DEF Lane, Pc
<1>4. SlotTypes'
  <2>1. slot' \in [Pools -> [Index -> Lanes \cup {NoLane}]] BY DEF Dies, Pools, LanesInv, SlotTypes
  <2>2. lane' \in [Lanes -> Lane] BY <1>2, <1>3 DEF Dies, LanesInv, SlotTypes
  <2> QED BY <2>1, <2>2 DEF Dies, LanesInv, SlotTypes
<1>5. MayBelowTop' BY <1>2 DEF LanesInv, MayBelowTop, Side
<1>6. TopIsForSides' BY <1>1 DEF LanesInv, TopIsForSides, Side, Pools, Index
<1>7. LockedIsHeld'
  <2> SUFFICES ASSUME NEW p \in Pools, NEW i \in Index, slot'[p][i] # NoLane
               PROVE  LET m == slot'[p][i]
                      IN  \/ lane'[m].pc \in {"check", "got", "run"} /\ lane'[m].at = i /\ PoolOf[m] = p
                          \/ lane'[m].pc = "probe" /\ p = "model"
    BY DEF LockedIsHeld, Pools
  <2> DEFINE m == slot[p][i]
  <2>1. slot'[p][i] = m /\ m \in Lanes /\ RunOf[m] # r BY <1>1 DEF LanesInv, SlotTypes
  <2>2. lane'[m] = lane[m] BY <1>2, <2>1
  <2>3. \/ lane[m].pc \in {"check", "got", "run"} /\ lane[m].at = i /\ PoolOf[m] = p
        \/ lane[m].pc = "probe" /\ p = "model"
    BY <2>1 DEF LanesInv, LockedIsHeld, Pools
  <2> QED BY <2>1, <2>2, <2>3
<1> QED BY <1>4, <1>5, <1>6, <1>7 DEF LanesInv

LEMMA NextInv == LanesInv /\ [Next]_vars => LanesInv'
<1> SUFFICES ASSUME LanesInv, [Next]_vars PROVE LanesInv' OBVIOUS
<1>1. ASSUME NEW l \in Lanes, Arrive(l) PROVE LanesInv' BY <1>1, ArriveStep
<1>2. ASSUME NEW l \in Lanes, Polls(l) PROVE LanesInv'
  BY <1>2, ReadStep, AskStep, AnsweredStep, TryStep, CheckStep, StartStep DEF Polls
<1>3. ASSUME NEW l \in Lanes, Turn(l) PROVE LanesInv' BY <1>3, TurnStep
<1>4. ASSUME NEW l \in Lanes, Finish(l) PROVE LanesInv' BY <1>4, FinishStep
<1>5. ASSUME NEW r \in Runs, Dies(r) PROVE LanesInv' BY <1>5, DiesStep
<1>6. ASSUME size' \in 1..MaxSlots, slot' = slot, lane' = lane PROVE LanesInv'
  BY <1>6 DEF LanesInv, SlotTypes, MayBelowTop, TopIsForSides, LockedIsHeld, Side
<1>7. ASSUME NEW n \in 1..MaxSlots, Resize(n) PROVE LanesInv' BY <1>6, <1>7 DEF Resize
<1>8. ASSUME NEW r \in Runs, Stop(r) PROVE LanesInv'
  BY <1>6, <1>8 DEF Stop, LanesInv, SlotTypes
<1>9. CASE Clear BY <1>6, <1>9 DEF Clear, LanesInv, SlotTypes
<1>10. CASE UNCHANGED vars BY <1>6, <1>10 DEF vars, LanesInv, SlotTypes
<1> QED BY <1>1, <1>2, <1>3, <1>4, <1>5, <1>7, <1>8, <1>9, <1>10 DEF Next

-----------------------------------------------------------------------------
(* The theorems *)

\* The inductive invariant: types of the slots, what a lane may try, and the two properties below.
THEOREM LanesInvariant == Spec => []LanesInv
BY InitInv, NextInv, PTL DEF Spec

\* However the pool changes its size between a lane's look and its lock, the last slot of the
\* pool at its largest is never taken by a reviewer, a replay or a probe (_may_take, gpt_idle).
THEOREM TopSlot == Spec => []TopIsForSides
BY LanesInvariant, PTL DEF LanesInv

\* Whichever way a lane ends, no lock of it stays behind (gated, _acquire_replay).
THEOREM NoLockLeft == Spec => []LockedIsHeld
BY LanesInvariant, PTL DEF LanesInv
=============================================================================
