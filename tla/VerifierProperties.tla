------------------------- MODULE VerifierProperties -------------------------
(* What a verification promises to the recovery loop that asked for it.    *)
EXTENDS Verifier

Returned == verdict \notin {None, Raised}

\* A candidate is accepted (candidate_verifier.py:429) only if it passed every
\* static check, its three programs compiled, every job of the plan was generated,
\* validated and solved in this verification, and a case of a free construction has
\* two inputs that do differ.
AcceptSound ==
  Returned /\ verdict.ok =>
    /\ faults = {}
    /\ \A t \in Tasks : answers[t] = "ok"
    /\ \A c \in Cases : Plan[c].fixed
         \/ \E j, k \in Jobs : j[1] = c /\ k[1] = c /\ made[j] # made[k]

\* The inputs the verifier reads (candidate_verifier.py:473) are those that its own
\* candidate's generator wrote for the job, whatever containers of earlier
\* verifications still write to the workspace.
OwnInputs == \A j \in Jobs : seen[j] # None => made[j] # None /\ seen[j] = Shown(made[j])

Blames(program) == Returned /\ ~ verdict.ok /\ RepairTarget(verdict) = program
Fails(op, of) == answers[[op |-> op, of |-> of]] \in {"failed", "late"}

\* The program that _repair_target (agent_graphs.py:850) has rewritten is one whose
\* own run failed, or the generator for an input that the validator refuses; and
\* nothing else has failed before it: the solution compiles, and each job tried
\* before the one that fails was solved.
BlameFits ==
  /\ Blames("generator") =>
       \/ faults \cap {"generator_library_usage", "generator_runtime_parameters"} # {}
       \/ Fails("compile", "generator") /\ answers[[op |-> "compile", of |-> "solution"]] = "ok"
       \/ \E j \in Jobs :
            /\ Fails("generate", j) \/ Fails("validate", j)
            /\ \A k \in Jobs : Before(k, j) => ~ Fails("solve", k) /\ ~ Fails("generate", k)
       \/ Alike # {} /\ \A t \in Tasks : answers[t] = "ok"
  /\ Blames("validator") =>
       \/ "testlib_usage" \in faults
       \/ /\ Fails("compile", "validator")
          /\ \A r \in Roles \ {"validator"} : answers[[op |-> "compile", of |-> r]] = "ok"

\* A candidate is refused for a cause: a check that it fails, a run made in this
\* verification that failed, or two seeds that wrote the same.  A refusal that blames
\* neither program (it ends the repair, recovery_policies.py:564) has its cause
\* outside of both.
RefusedForCause ==
  Returned /\ ~ verdict.ok =>
    /\ \/ faults # {}
       \/ \E t \in Tasks : answers[t] \in {"failed", "late"}
       \/ \E j, k \in Jobs : j # k /\ j[1] = k[1] /\ made[j] = made[k]
    /\ RepairTarget(verdict) = None =>
         \/ faults # {}
         \/ Fails("compile", "solution")
         \/ \E j \in Jobs : Fails("solve", j)

\* candidate_verifier.py:423 tells the generator's author that different seeds gave
\* exactly the same input: then they did.
SameInputsOnly ==
  Returned =>
    \A check \in verdict.failing :
      check.op = "construction_diversity" =>
        \A j, k \in Jobs :
          j[1] = check.job[1] /\ k[1] = check.job[1] => made[j] = made[k]

\* A verification ends: no container left over from an earlier one keeps its slot
\* (sandbox.py:245) for good.
VerificationEnds == point # "idle" ~> point = "idle"
=============================================================================
