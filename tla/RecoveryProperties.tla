------------------------- MODULE RecoveryProperties -------------------------
(* What the recovery loop guarantees, and how the code is changed to break it. *)
EXTENDS Recovery

-----------------------------------------------------------------------------
(* Safety *)

\* A run never makes more than MaxRepairs repairs for each round it reached,
\* however often a failure of stage 6 or 7 has it taken up again
\* (agent_recovery.py:127 starts a resumed round with all repairs made).
RepairsBounded == sum # None => log.calls <= MaxRepairs * sum.round

\* A run never generates more often than the policy has rounds, resumed or
\* not: the round a resumed run continues is not generated again
\* (agent_recovery.py:103).
GenerationsBounded == sum # None => log.gens <= Rounds /\ sum.round <= Rounds

\* The manifest, the record and the loop count the repair calls in three
\* places, each written by another method (agent_recovery.py:245,
\* storage.py:168 and 188).  The record is never ahead of the manifest and at
\* most one call behind, and only when the process stopped between the two
\* writes of a run that is "running" ever since; in the loop, and in every
\* run that ended, they agree, and so they do where a run is taken up again.
BooksAgree ==
  sum # None =>
    /\ sum.repairs <= log.calls /\ log.calls <= sum.repairs + 1
    /\ sum.repairs # log.calls => ~Running /\ sum.status = "running"
    /\ Running => co.total = log.calls /\ sum.status = "running"
    /\ co.phase = "passed" \/ co.outcome = "passed" => sum.status = "passed"
    /\ co.outcome \in {"failed", "exhausted", "error"} => sum.status = "failed"
    /\ failure # None \/ (co.phase = "prepare" /\ co.pending # None) => sum.status = "passed"

\* When a run passes, the solution or the code template on disk is the very
\* candidate that was validated, after any mix of fixes, repairs, stops and
\* resumptions, unless the solution was replaced while that candidate was
\* being validated; then stage 5 has no template left, never another one
\* (recovery_policies.py:510 saves each candidate before it is looked at).
PassedIsVerified ==
  co.phase = "passed" /\ SavesCandidates =>
    draft = co.cur \/ (co.edited /\ (Stage = 5 => draft = None))

\* A run that has used up its rounds leaves no candidate behind where the
\* stage can generate another (agent_recovery.py:239).
ExhaustedClears == co.outcome = "exhausted" /\ CanRegenerate => draft = None

\* A candidate is fixed, repaired or given up only for a failure observed on
\* it, never for one observed on a candidate it replaced: README.md:31 of the
\* backend has the full verification rerun after every replacement.
EvidenceIsCurrent == co.phase \in {"failed", "repair"} => co.found.of = co.cur

\* A round is given up only after the repairs a round is allowed have been
\* made in it (agent_recovery.py:230 counts them in repairs_this_round).
RoundSpent == log.inRound = MaxRepairs
ExhaustedWhenSpent == [][Exhaust => RoundSpent]_vars

-----------------------------------------------------------------------------
(* Liveness and the abstract specification *)

\* A run always ends, although a fix costs no repair and deterministic fixes
\* may undo each other (agent_recovery.py:216 accepts each result once).
Terminates == co.phase # "idle" ~> co.phase = "idle"

\* To its caller the loop is the run that RecoveryPromise describes.
Promise == INSTANCE RecoveryPromise
  WITH Budget <- MaxRepairs * Rounds, running <- Running, spent <- log.calls

PromiseKept == Promise!Spec
PromiseSafe == Promise!Safety
=============================================================================
