------------------------------ MODULE MCAudits ------------------------------
(* Instances of Audits for TLC: three questions, each with the events it needs. *)
EXTENDS Audits

Of(kinds, counts) ==
  [kind: {kinds}, left: {[e \in Events |-> IF e \in DOMAIN counts THEN counts[e] ELSE 0]}]
First == CHOOSE p \in Pulls : TRUE
Both(k, l) == [p \in Pulls |-> IF p = First THEN k ELSE l]

\* Which merges are found: time passes, sweeps die, reviews come and go, a backfill.
Finding == Of(Both("full", "sync"), [tick |-> 4, merge |-> 2, sweep |-> 1, fail |-> 1])
Deciding == Of(Both("full", "excluded"), [tick |-> 2, merge |-> 2, judge |-> 1, sweep |-> 1, crash |-> 1, seed |-> 1])
\* What one audit says: attempts that fail or die anywhere, and the operator's retry.
Telling == Of(Both("light", "full"), [merge |-> 1, sweep |-> 1, run |-> 4, fail |-> 2, die |-> 1, retry |-> 1, seed |-> 1])
\* How reports travel: two audits, passes that fail or die.
Sending == Of(Both("light", "full"), [tick |-> 2, merge |-> 2, seed |-> 1, run |-> 2, index |-> 1, fail |-> 1])
Questions == Finding \cup Deciding \cup Telling \cup Sending
=============================================================================
