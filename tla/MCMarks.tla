------------------------------ MODULE MCMarks ------------------------------
(***************************************************************************)
(* Small scenes for Marks.                                                 *)
(***************************************************************************)
EXTENDS Marks

Of(uses, people, n, r, p, f) ==
  [uses |-> uses, people |-> people, changes |-> n, starts |-> r, posts |-> p, faults |-> f]

\* Checks over pushes and back, re-reviews, a carried review, the label, a draft
\* and a close; labels over the same; one thing fails in most of them,
\* two where a write is refused and the daemon restarts.
MCScenes ==
  {Of("checks", {"push"}, 2, 1, 1, 1), Of("checks", {"push"}, 1, 2, 1, 0),
   Of("checks", {}, 0, 2, 2, 1), Of("checks", {"label", "close"}, 2, 1, 1, 1),
   Of("checks", {"draft"}, 2, 2, 1, 0),
   Of("labels", {"push"}, 2, 2, 1, 1), Of("labels", {"push"}, 1, 2, 1, 2),
   Of("labels", {"draft", "close"}, 2, 1, 1, 1)}

\* One commit that is asked for again and again.
MCAgain == {Of("checks", {}, 0, 2, 0, 2)}

\* A commit reviewed, and the branch reset to it.
MCBack == {Of("labels", {"push", "draft"}, 2, 1, 1, 0)}
=============================================================================
