------------------------------ MODULE Recovery ------------------------------
(***************************************************************************)
(* The bounded recovery loop of one stage of one project:                  *)
(* AgentRecoveryCoordinator.run with the policy of Stage, the problem      *)
(* locator, and the records of runs that ProjectStorage keeps.             *)
(*                                                                         *)
(* A run lets an agent generate a candidate, validates it, finds the stage *)
(* a failure belongs to, and fixes or repairs the candidate, for so many   *)
(* repairs a round and so many rounds.  The caller holds the project's     *)
(* lock, so no two runs of a project overlap; the request that replaces    *)
(* the solution takes no lock and comes at any await.  An action is what   *)
(* happens between two awaits, or less where the loop branches, and the    *)
(* process may stop between any two of its writes.                         *)
(***************************************************************************)
EXTENDS Integers

CONSTANTS
  None,        \* Python's None, a missing file
  Codes,       \* contents of a candidate
  FixOf,       \* the content policy.deterministic_fix makes of another, or None
  Stage,       \* policy.stage
  MaxRounds,   \* agent_recovery.MAX_GENERATION_ROUNDS
  MaxRepairs   \* agent_recovery.MAX_REPAIR_ATTEMPTS

ASSUME RecoveryAssumption ==
  /\ None \notin Codes
  /\ FixOf \in [Codes -> Codes \cup {None}]
  /\ Stage \in 1..5
  /\ MaxRounds \in Nat \ {0} /\ MaxRepairs \in Nat

VARIABLES
  sum,      \* record.recovery_summaries[Stage]
  log,      \* the manifest of that run under logs/agent-recovery
  draft,    \* what the stage keeps on disk: solution.cpp, the draft, the working template
  failure,  \* what record.last_error says of a failed stage 6 or 7
  co        \* the frame of AgentRecoveryCoordinator.run and of its policy

vars == <<sum, log, draft, failure, co>>

-----------------------------------------------------------------------------
(* The policies *)

CanRegenerate == Stage \in 3..5
Rounds == IF CanRegenerate THEN MaxRounds ELSE 1

\* The solution is rewritten in place, and so is the code template.
SavesCandidates == Stage \in {2, 5}

\* Agents 1 and 2 inherit a deterministic_fix that does nothing.
Fixed(c) == IF Stage \in {2, 4, 5} THEN FixOf[c] ELSE None

\* What a validation blames: the stage's own candidate; at stage 5 the
\* generator by its audit, one of the two files, the plan's runtime
\* parameters, the reference solution, or nothing it could attribute.
Kinds == {"rejected", "audit", "file", "plan", "solution", "unattributed"}
FailureKinds == IF Stage = 5 THEN Kinds \ {"rejected"} ELSE {"rejected"}

\* The failures of stages 6 and 7, which carry their failed check.
DownstreamKinds == {"file", "solution"}

\* of is history: the content of which the failure was observed.
Failure == [kind: Kinds, of: Codes]

\* A plan of the locator: the stage that owns the failure and whether its
\* artifacts may be written without asking the user.
Locate(kind) ==
  [root |-> CASE kind = "plan" -> 4 [] kind = "solution" -> 2 [] OTHER -> Stage,
   authorized |-> kind \notin {"solution", "unattributed"}]

AllowsStage(kind) == Locate(kind).authorized /\ Locate(kind).root = Stage

-----------------------------------------------------------------------------
(* Types *)

StageRecoverySummary ==
  [status: {"running", "passed", "failed"}, round: Nat, repairs: Nat]

\* calls is the manifest's repair_calls.  History: gens counts the fresh
\* generations, inRound the repairs since the last of them.
RunLog == [calls: Nat, gens: Nat, inRound: Nat]
EmptyLog == [calls |-> 0, gens |-> 0, inRound |-> 0]

Outcome == {"passed", "failed", "exhausted", "error", "interrupted"}

ASSUME NoneAssumption == None \notin StageRecoverySummary \cup Outcome

\* edited is history: the solution was replaced after cur had been saved.
Frame ==
  [phase: {"idle", "prepare", "generate", "validate", "failed", "repair", "passed"},
   round: Nat, this: Nat, total: Nat, cur: Codes \cup {None},
   fixes: SUBSET Codes, found: Failure \cup {None}, edited: BOOLEAN,
   pending: Failure \cup {None}, outcome: Outcome \cup {None}]

TypeOK ==
  /\ sum \in StageRecoverySummary \cup {None}
  /\ log \in RunLog
  /\ draft \in Codes \cup {None}
  /\ failure \in DownstreamKinds \cup {None}
  /\ co \in Frame

-----------------------------------------------------------------------------
(* Records of a run *)

NewFrame(round, this, total) ==
  [phase |-> "generate", round |-> round, this |-> this, total |-> total,
   cur |-> None, fixes |-> {}, found |-> None, edited |-> FALSE, pending |-> None,
   outcome |-> None]

Idle == [NewFrame(0, 0, 0) EXCEPT !.phase = "idle"]

\* The loop is running.
Running == co.phase \in {"generate", "validate", "failed", "repair"}

\* The request is cancelled, the process stops, or another exception escapes.
Stops == co' = [Idle EXCEPT !.outcome = "interrupted"]

\* storage.append_recovery_event writes the manifest, then the record with the
\* calls that the manifest counts.
Generated == log' = [log EXCEPT !.gens = @ + 1, !.inRound = 0]
Called == log' = [log EXCEPT !.calls = @ + 1, !.inRound = @ + 1]
Recorded(round, calls) == [sum EXCEPT !.round = round, !.repairs = calls]

\* Mutant: the repairs of the last round only.
FinishedAsOfRound(status) == [status |-> status, round |-> co.round, repairs |-> co.this]

\* storage.finish_recovery_run, with the loop's own counters.
FinishedAs(status) == [status |-> status, round |-> co.round, repairs |-> co.total]

\* A candidate reaches policy.validate, which saves it first at stage 5;
\* at stage 2 the repair has saved it.
Submitted(c) ==
  [co EXCEPT !.phase = "validate", !.cur = c, !.found = None, !.edited = FALSE]
\* Mutant: a candidate is validated without being saved.
SavedNever(c) == draft
Saved(c) == IF SavesCandidates THEN c ELSE draft

\* Mutants: a resumed round starts afresh, and every round goes on counting.
AttemptsAfresh(resumed, total) == 0
AttemptsCarried(resumed, total) == total

\* The repairs a round starts with: a resumed run goes on counting.
AttemptsAtStart(resumed, total) == IF resumed THEN total ELSE 0

StartRound(round) == IF round = 0 THEN 1 ELSE round

-----------------------------------------------------------------------------
(* Init and the actions *)

\* A project has its solution from the start, a draft of a later stage or none.
Init ==
  /\ sum = None /\ log = EmptyLog /\ failure = None /\ co = Idle
  /\ draft \in CASE Stage = 1 -> {None} [] Stage = 2 -> Codes [] OTHER -> Codes \cup {None}

\* Stage 5 takes its template and the failure of stage 6 or 7 it is to answer
\* before models analyse the plan; last_error is cleared as the stage begins.
Begin ==
  /\ Stage = 5 /\ co.phase = "idle"
  /\ co' = [Idle EXCEPT !.phase = "prepare", !.cur = draft,
                        !.pending = IF failure = None THEN None ELSE [kind |-> failure, of |-> draft]]
  /\ failure' = None
  /\ UNCHANGED <<sum, log, draft>>

\* A stop after the new manifest leaves the record at the run before.
Start ==
  /\ IF Stage = 5 THEN co.phase = "prepare" /\ co.pending = None ELSE co.phase = "idle"
  /\ sum' = [status |-> "running", round |-> 0, repairs |-> 0]
  /\ log' = EmptyLog
  /\ co' = NewFrame(StartRound(0), AttemptsAtStart(FALSE, 0), 0)
  /\ UNCHANGED <<draft, failure>>

\* The run that passed before the failure is taken up: the template that
\* stage 5 took is saved and validated again, its evidence is what failed.
Resume ==
  /\ co.phase = "prepare" /\ co.pending # None
  /\ sum' = [sum EXCEPT !.status = "running", !.round = StartRound(sum.round),
                        !.repairs = log.calls]
  /\ \/ /\ co' = [NewFrame(StartRound(sum.round), AttemptsAtStart(TRUE, sum.repairs), sum.repairs)
                    EXCEPT !.phase = "validate", !.cur = co.cur, !.pending = co.pending]
        /\ draft' = Saved(co.cur)
     \/ Stops /\ UNCHANGED draft
  /\ UNCHANGED <<log, failure>>

\* The analysis of the generator fails: nothing is left to resume.
PreparationFails ==
  /\ co.phase = "prepare"
  /\ co' = Idle
  /\ UNCHANGED <<sum, log, draft, failure>>

\* The solution's policy has nothing to generate: it submits the source.
GenerateReturns(c) ==
  /\ co.phase = "generate"
  /\ Stage = 2 => c = draft
  /\ Generated
  /\ \/ co' = Submitted(c) /\ sum' = Recorded(co.round, log.calls) /\ draft' = Saved(c)
     \/ Stops /\ sum' \in {sum, Recorded(co.round, log.calls)} /\ UNCHANGED draft
  /\ UNCHANGED failure

ValidatePasses ==
  /\ co.phase = "validate" /\ co.pending = None
  /\ co' = [Idle EXCEPT !.phase = "passed", !.cur = co.cur, !.edited = co.edited]
  /\ sum' = FinishedAs("passed")
  /\ UNCHANGED <<log, draft, failure>>

\* run_stage saves what the run returns, at once: the process can only stop.
SaveResult ==
  /\ co.phase = "passed"
  /\ co' = [Idle EXCEPT !.outcome = "passed", !.cur = co.cur, !.edited = co.edited]
  /\ draft' = IF CanRegenerate THEN co.cur ELSE draft
  /\ UNCHANGED <<sum, log, failure>>

\* At stage 5 the audit comes first and may fail; then the evidence a
\* resumed run was given is used up instead of verifying the candidate.
Found(kind) ==
  IF co.pending = None
  THEN /\ kind \in FailureKinds
       /\ co' = [co EXCEPT !.phase = "failed", !.found = [kind |-> kind, of |-> co.cur]]
  ELSE \/ /\ kind = "audit"
          /\ co' = [co EXCEPT !.phase = "failed", !.found = [kind |-> kind, of |-> co.cur]]
       \/ /\ kind = co.pending.kind
          /\ co' = [co EXCEPT !.phase = "failed", !.found = co.pending, !.pending = None]

\* The repair calls and the round are in the record since the candidate.
ValidateFails(kind) ==
  /\ co.phase = "validate"
  /\ Found(kind)
  /\ sum' = Recorded(co.round, log.calls)
  /\ UNCHANGED <<log, draft, failure>>

EndsAs(outcome) ==
  /\ co' = [Idle EXCEPT !.outcome = outcome]
  /\ sum' = FinishedAs("failed")

\* The failure is not this stage's to repair.
RouteElsewhere ==
  /\ co.phase = "failed" /\ ~AllowsStage(co.found.kind)
  /\ EndsAs("failed")
  /\ UNCHANGED <<log, draft, failure>>

\* Mutants: no test for a fix, and no memory of the fixes made.
FixAlways == TRUE
FixUnchecked == TRUE

FixApplies == Fixed(co.cur) # None
FixIsNew == Fixed(co.cur) \notin co.fixes \cup {co.cur}

Repairable == co.phase = "failed" /\ AllowsStage(co.found.kind)

Fix ==
  /\ Repairable /\ FixApplies /\ FixIsNew
  /\ co' = [Submitted(Fixed(co.cur)) EXCEPT !.fixes = @ \cup {Fixed(co.cur)}]
  /\ draft' = Saved(Fixed(co.cur))
  /\ UNCHANGED <<sum, log, failure>>

\* Mutant: a fix seen before replaces the candidate without a validation.
FixRefusedAdopts ==
  /\ Repairable /\ ~(FixApplies /\ FixIsNew)
  /\ co' = [co EXCEPT !.phase = "repair", !.cur = IF FixApplies THEN Fixed(@) ELSE @]
  /\ draft' = IF FixApplies THEN Saved(Fixed(co.cur)) ELSE draft
  /\ UNCHANGED <<sum, log, failure>>

\* No fix, or one seen before: the policy has saved it nevertheless.
FixRefused ==
  /\ Repairable /\ ~(FixApplies /\ FixIsNew)
  /\ co' = [co EXCEPT !.phase = "repair"]
  /\ draft' = IF FixApplies THEN Saved(Fixed(co.cur)) ELSE draft
  /\ UNCHANGED <<sum, log, failure>>

\* The solution's policy saves the source before the call is recorded, stage 5
\* its template after that.
RepairReturns(c) ==
  /\ co.phase = "repair" /\ co.this < MaxRepairs
  /\ \/ /\ Called
        /\ co' = [Submitted(c) EXCEPT !.this = @ + 1, !.total = @ + 1]
        /\ sum' = Recorded(co.round, log.calls + 1)
        /\ draft' = Saved(c)
     \/ /\ Stops
        /\ \/ UNCHANGED <<sum, log>>
           \/ Called /\ sum' \in {sum, Recorded(co.round, log.calls + 1)}
        /\ draft' = IF Stage = 2 THEN c ELSE draft
  /\ UNCHANGED failure

\* Mutant: an exhausted round keeps its candidate.
KeptDraft == draft

Cleared == IF CanRegenerate THEN None ELSE draft

\* The round has no repairs left: the next round, or the end of the run.
Exhaust ==
  /\ co.phase = "repair" /\ co.this >= MaxRepairs
  /\ draft' = Cleared
  /\ IF co.round < Rounds
     THEN /\ co' = [NewFrame(co.round + 1, AttemptsAtStart(FALSE, co.total), co.total)
                      EXCEPT !.fixes = co.fixes, !.pending = co.pending]
          /\ UNCHANGED sum
     ELSE EndsAs("exhausted") \/ (Stops /\ UNCHANGED sum)
  /\ UNCHANGED <<log, failure>>

\* The run waits for a model, the sandbox or the verifier.
Awaits ==
  \/ co.phase = "generate" /\ Stage # 2
  \/ co.phase = "validate" /\ Stage \in {2, 5}
  \/ co.phase = "repair" /\ co.this < MaxRepairs

\* What it waits for raises AppError.
EnvironmentStops ==
  /\ Awaits
  /\ EndsAs("error")
  /\ UNCHANGED <<log, draft, failure>>

\* Also between a manifest's last write and the record's.
Interrupted ==
  /\ co.phase # "idle"
  /\ Stops
  /\ UNCHANGED <<sum, log, draft, failure>>

\* Stage 6 or 7 fails on the code that passed, after its confirmation.
DownstreamFails(kind) ==
  /\ Stage = 5 /\ co.phase = "idle" /\ co.outcome = "passed"
  /\ failure' = kind
  /\ co' = [co EXCEPT !.outcome = None]
  /\ UNCHANGED <<sum, log, draft>>

\* Between two runs an edit puts the outcome of the last one out of date.
Edited(content) ==
  /\ draft' = content
  /\ failure' = None
  /\ co' = IF co.phase = "idle" THEN Idle ELSE [co EXCEPT !.edited = TRUE]
  /\ UNCHANGED <<sum, log>>

\* PUT solution takes no lock: the source is another, every later draft and
\* the working template are discarded, the summaries of runs stay.
UpdateSolution(c) ==
  /\ co.phase \in {"idle", "prepare"} \/ Awaits
  /\ Stage = 2 => c # draft
  /\ Edited(CASE Stage = 1 -> draft [] Stage = 2 -> c [] OTHER -> None)

\* PUT draft holds the lock: the user writes the stage's draft, or one it
\* depends on, which discards it; the draft as it is counts while it waits for
\* the user's confirmation only.
SaveUserDraft(content) ==
  /\ co.phase = "idle" /\ Stage \in 3..5
  /\ content = None => Stage # 3
  /\ content = draft => co.outcome = "passed"
  /\ Edited(content)

\* One turn of the loop, of what precedes it or of what follows.
Turn ==
  \/ co.phase = "prepare" /\ (Start \/ Resume \/ PreparationFails)
  \/ \E c \in Codes : GenerateReturns(c) \/ RepairReturns(c)
  \/ \E kind \in Kinds : ValidateFails(kind)
  \/ ValidatePasses \/ SaveResult
  \/ RouteElsewhere \/ Fix \/ FixRefused \/ Exhaust \/ EnvironmentStops

Next ==
  \/ Begin \/ Start
  \/ Turn
  \/ Interrupted
  \/ \E c \in Codes : UpdateSolution(c)
  \/ \E content \in Codes \cup {None} : SaveUserDraft(content)
  \/ \E kind \in DownstreamKinds : DownstreamFails(kind)

\* Every await of the loop is bounded by a timeout, so a run goes on.
Spec == Init /\ [][Next]_vars /\ WF_vars(Turn)
=============================================================================
