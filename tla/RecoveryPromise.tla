-------------------------- MODULE RecoveryPromise --------------------------
(***************************************************************************)
(* What AgentRecoveryCoordinator.run promises its callers: a run ends, and *)
(* however often it is taken up again it never spends more than Budget     *)
(* calls of a repairing agent.  A run begins with nothing spent or, when   *)
(* it is resumed, with what it had spent before; the process may stop      *)
(* right after it has counted a call.                                      *)
(***************************************************************************)
EXTENDS Naturals

CONSTANT Budget

VARIABLES running, spent

vars == <<running, spent>>

Init == running = FALSE /\ spent = 0

Begin ==
  /\ ~running
  /\ running' = TRUE
  /\ spent' \in {0, spent}

Repair ==
  /\ running /\ spent < Budget
  /\ spent' = spent + 1
  /\ UNCHANGED running

End ==
  /\ running
  /\ running' = FALSE
  /\ spent' = spent \/ (spent < Budget /\ spent' = spent + 1)

Next == Begin \/ Repair \/ End

Safety == Init /\ [][Next]_vars

Spec == Safety /\ WF_vars(End)
=============================================================================
