----------------------------- MODULE RecoveryMC -----------------------------
(* The instances of Recovery that TLC checks. *)
EXTENDS RecoveryProperties, TLC

CONSTANTS a, b, c

\* Two fixes that undo each other, and a content that needs none.
Contents == {a, b, c}
UndoingFixes == (a :> b) @@ (b :> a) @@ (c :> None)
=============================================================================
