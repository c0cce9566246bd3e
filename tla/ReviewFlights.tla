--------------------------- MODULE ReviewFlights ---------------------------
(***************************************************************************)
(* What the scheduler promises of the runs of a pull request, without the  *)
(* tables, the polls and the processes that keep it: one review in flight  *)
(* per pull request, every run used once, and none that stays up for ever. *)
(***************************************************************************)
CONSTANTS Prs, RunIds

VARIABLES flight,   \* flight[p]: the run in flight for p, if any
          ended     \* runs that have landed

vars == <<flight, ended>>

Init == flight = [p \in Prs |-> {}] /\ ended = {}

TakeOff(p, r) ==
  /\ flight[p] = {}
  /\ r \notin ended /\ \A q \in Prs : r \notin flight[q]
  /\ flight' = [flight EXCEPT ![p] = {r}]
  /\ UNCHANGED ended

Land(p) ==
  /\ flight[p] # {}
  /\ flight' = [flight EXCEPT ![p] = {}]
  /\ ended' = ended \cup flight[p]

Next == \E p \in Prs : Land(p) \/ \E r \in RunIds : TakeOff(p, r)

Spec == Init /\ [][Next]_vars

FairSpec == Spec /\ \A p \in Prs : WF_vars(Land(p))
=============================================================================
