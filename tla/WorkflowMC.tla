----------------------------- MODULE WorkflowMC -----------------------------
(* The instances of Workflow that TLC checks. *)
EXTENDS WorkflowProperties, TLC

\* Contents are only compared, but for the test of being in SoundPlans.
ContentSymmetry == Permutations(SoundPlans)
=============================================================================
