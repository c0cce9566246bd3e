------------------------------ MODULE MCRounds ------------------------------
(***************************************************************************)
(* Instances of Rounds: two findings, the title a regression of one of     *)
(* them is raised under, and the events the world has.                     *)
(***************************************************************************)
EXTENDS Rounds

MCHashes == {"a", "b", "r"}
MCTitles == {"a", "b"}
MCRetitle == [h \in MCTitles |-> "r"]
MCOneTitle == {"a"}
MCOneRetitle == [h \in MCOneTitle |-> "r"]
MCLanes == {"WITHDRAWN", "FIXED"}
MCSevs == {"blocking", "suggestion"}

\* Everything the world does.
MCWorld == {"push", "reply", "crash", "write fails", "lane fails", "resolve", "ask",
            "dismiss", "degraded", "migrated", "operator", "resolve fails", "twins"}
\* Findings that look alike, and a push.
MCAlike == {"twins", "push"}
\* A maintainer who dismisses a verdict, and asks for re-reviews.
MCDismissing == {"dismiss", "ask"}
\* A history, an author who replies, re-reviews.
MCRegress == {"reply", "migrated", "push"}
\* An author who replies, and workers that die.
MCDying == {"reply", "crash"}
=============================================================================
