----------------------------- MODULE DatasetMC -----------------------------
(* The instances of Dataset that TLC checks: two subtasks of one case, or  *)
(* one subtask of two or three.                                            *)
EXTENDS DatasetProperties

TwoSubtasks == <<1, 1>>
TwoCases == <<2>>
ThreeCases == <<3>>
=============================================================================
