----------------------------- MODULE MCPipeline -----------------------------
(***************************************************************************)
(* Instances of Pipeline: two roles, a ladder of two models, one shard or  *)
(* two, and the days its models may have.                                  *)
(***************************************************************************)
EXTENDS Pipeline

MCRoles == {"general", "security"}
MCConfirmers == {"security"}
MCLadder == <<"best", "paid">>
MCStandin == [final |-> "standin"]

Plan(route, deep, audit, twins, confirm, threads) ==
  [route |-> route, deep |-> deep, audit |-> audit, twins |-> twins,
   confirm |-> confirm, threads |-> threads]

\* A gated review, one with a confirmation pass, a small change, a backlog
\* review with comparison lanes, a single stage, audits.
MCPlans ==
  {Plan("both", TRUE, None, FALSE, FALSE, FALSE),
   Plan("both", FALSE, None, FALSE, FALSE, FALSE),
   Plan("alone", TRUE, None, FALSE, TRUE, FALSE),
   Plan("alone", TRUE, None, FALSE, FALSE, TRUE),
   Plan("alone", TRUE, None, TRUE, FALSE, FALSE),
   Plan("single", TRUE, None, FALSE, FALSE, FALSE),
   Plan("both", TRUE, "full", FALSE, FALSE, FALSE)}

Day(bad) == [m \in Models |-> IF m \in DOMAIN bad THEN bad[m] ELSE "up"]
MCOutages == {Day(<< >>), Day([best |-> "broken"]), Day([final |-> "dry"])}
=============================================================================
