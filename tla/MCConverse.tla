----------------------------- MODULE MCConverse -----------------------------
(***************************************************************************)
(* Instances of Converse.                                                  *)
(***************************************************************************)
EXTENDS Converse

MCFindings == {"a", "b"}
MCSev == [h \in MCFindings |-> IF h = "a" THEN "blocking" ELSE "suggestion"]

Scene(n, finds, does) == [left |-> n, finds |-> finds, does |-> does]
MCReviews == Scene(3, MCFindings, {"reply", "resolve", "dismiss", "push", "ask", "old"})
MCFiling == Scene(3, MCFindings, {"reply", "crash", "no filing", "match", "create fails", "resolve fails",
                      "reply fails"})
MCCi == Scene(4, {"b"}, {"reply", "crash", "ci"})
MCWorlds == {MCReviews, MCFiling, MCCi}
MCDying == {Scene(2, MCFindings, {"reply", "crash"})}
MCCiOnly == {MCCi}
=============================================================================
