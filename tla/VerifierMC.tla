----------------------------- MODULE VerifierMC -----------------------------
(* The instances of Verifier that TLC checks.                              *)
EXTENDS VerifierProperties

Case(subtask, fixed) == [subtask |-> subtask, fixed |-> fixed]
Free == FALSE
Fixed == TRUE

\* Two subtasks of three cases: the smoke phase has a job of each subtask, the
\* complete one the second seed of the first case and the third case.
TwoSubtasks ==
  [c \in 1 .. 3 |-> IF c = 1 THEN Case(1, Free) ELSE Case(2, Fixed)]
OneCase == [c \in 1 .. 1 |-> Case(1, Free)]

Short(ends) == [ends |-> ends, middle |-> "", cut |-> 0]
ShortInputs == {Short("a"), Short("b")}
\* Two long inputs that differ beyond what the preview keeps.
LongInputs == {[ends |-> "a", middle |-> m, cut |-> 1] : m \in {"m", "n"}}

Faultless == {{}}
\* Every single fault, and every pair.
Faulty == {F \in SUBSET StaticChecks : Cardinality(F) <= 2}
=============================================================================
