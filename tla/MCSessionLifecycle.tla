------------------------- MODULE MCSessionLifecycle -------------------------
(* SessionLifecycle for TLC: what an older version may have left. *)
EXTENDS SessionLifecycle, TLC

LeftNothing == {{}}

\* What the migrations are written for: a row without messages, over nothing or
\* over a transcript; an indexed session without a baseline; a record too large
\* to be read, over nothing or over a transcript; and one that recovery refuses,
\* such a record without the session's model.
LeftAnything ==
  {{}, {"row"}, {"row", "transcript"}, {"row", "messages", "transcript"},
   {"row", "messages", "model", "baseline", "oversized"},
   {"row", "messages", "model", "baseline", "oversized", "transcript"},
   {"row", "messages", "baseline", "oversized", "transcript"}}

\* What the theorems assume of the store that is found.
ASSUME LeftsAssumption == LeftsUnmarked /\ LeftsTraced /\ LeftsWhole

Symmetry == Permutations(Ids) \cup Permutations(Handles)
=============================================================================
