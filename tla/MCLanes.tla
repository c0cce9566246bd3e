------------------------------- MODULE MCLanes -------------------------------
(* Instances of LanePool for TLC: the lanes of two live runs, an audit, a comparison and a replay. *)
EXTENDS LanePool, TLC

CONSTANTS Verify, ReviewA, ReviewB, AuditSide, Second, Eval

MCRun == (Verify :> 2) @@ (ReviewA :> 1) @@ (ReviewB :> 2) @@ (AuditSide :> 3) @@ (Second :> 1) @@ (Eval :> 9)
MCRank == (Verify :> 2) @@ (ReviewA :> 4) @@ (ReviewB :> 4) @@ (AuditSide :> 5) @@ (Second :> 4) @@ (Eval :> 7)
MCPool == [l \in Lanes |-> IF l = Second THEN "compare" ELSE "model"]

Once(es) == [e \in Events |-> IF e \in es THEN 1 ELSE 0]
Scene(ls, n, es) == [come |-> ls, size |-> n, left |-> Once(es)]

Line == {Scene({Verify, ReviewA, ReviewB, AuditSide}, 2, {}),
         Scene({Verify, ReviewA, ReviewB, Eval}, 3, {"resize"}),
         Scene({Verify, ReviewA, ReviewB}, 2, {"die", "clear"}),
         Scene({ReviewA, ReviewB, Second, Eval}, 3, {"stop"})}
=============================================================================
