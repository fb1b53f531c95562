--------------------------- MODULE MCChatSession ---------------------------
(* Small instances of ChatSession for model checking. *)
EXTENDS ChatSession, TLC

\* The callers are interchangeable (not used where liveness is checked).
CallerSymmetry == Permutations(Callers)
=============================================================================
