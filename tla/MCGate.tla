------------------------------- MODULE MCGate -------------------------------
(***************************************************************************)
(* Small scenes for Gate.                                                  *)
(***************************************************************************)
EXTENDS Gate

Of(draft, who, n, t, r, u, f) ==
  [draft |-> draft, people |-> who, changes |-> n, ticks |-> t, starts |-> r, updates |-> u, faults |-> f]

MCScenes ==
  {Of(FALSE, {"head"}, 1, 1, 2, 1, 1), Of(TRUE, {"draft", "head"}, 2, 1, 1, 0, 0),
   Of(FALSE, {"skip", "ask"}, 2, 1, 1, 0, 0), Of(FALSE, {"open", "delete"}, 1, 0, 1, 0, 0)}
MCClose == {Of(FALSE, {"open"}, 1, 0, 1, 0, 0)}
=============================================================================
