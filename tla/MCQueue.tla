------------------------------ MODULE MCQueue ------------------------------
(* Instances of ReviewQueue for TLC: how often the environment does each thing in each       *)
(* scenario, and which commits leave the pull request's own diff as it was.                  *)
EXTENDS ReviewQueue, TLC

Runs(n, bs) == [b \in Budgets |-> IF b = "run" THEN n ELSE IF b \in bs \cup {"open"} THEN 1 ELSE 0]
\* Every run may be overdue once, and once more for a reaper that died: no bound of its own.
Overdue(limit) == [limit EXCEPT !["timeout"] = limit["run"] + limit["crash"]]

Failing == Runs(3, {"push", "base", "timeout", "die", "gate"})
Asked == [Runs(3, {"reply", "timeout", "die"}) EXCEPT !["gate"] = 2]
Core == {Failing, Asked}

Mentioned == Runs(3, {"push", "mention"})
Chained == [Runs(3, {}) EXCEPT !["push"] = 2]
Returned == Runs(2, {"push", "back", "gate"})
Ticked == Runs(2, {"push", "flip", "manual"})
Talking == Runs(4, {"reply", "normal", "ci", "gate"})
Operated == Runs(2, {"push", "cli", "cancel"})
Merging == [Runs(2, {"close"}) EXCEPT !["open"] = 2]
Questions == {Merging, Mentioned, Chained, Returned, Ticked, Talking, Operated}

Restarted == Overdue(Runs(3, {"crash"}))
Pushed == Overdue(Runs(3, {"push"}))
Flipped == Overdue([Runs(2, {}) EXCEPT !["flip"] = 2])
Living == {Restarted, Pushed, Flipped}

StalePoll == {Overdue(Runs(2, {"push", "cli"}))}
Late == {Runs(2, {"push"})}
Replied == {Runs(2, {"reply"})}
Promised == {Runs(4, {"reply", "die"})}
Crashed == {Runs(2, {"crash", "timeout"})}

Pulls == Permutations(Prs)
SameDiff == [s \in Shas |-> 1]
FirstDiffers == [s \in Shas |-> IF s = 1 THEN 2 ELSE 1]
=============================================================================
