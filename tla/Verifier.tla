------------------------------ MODULE Verifier ------------------------------
(***************************************************************************)
(* Agent4CandidateVerifier.verify: the static checks of a candidate, then  *)
(* its compilation and trial runs, each a gather of container calls.       *)
(*                                                                         *)
(* A gather raises with the first of its calls that raises.  The others go *)
(* on: they hold slots of the sandbox and write to the preview directory   *)
(* of the one workspace that the next verification uses as well.           *)
(*                                                                         *)
(* What a binary is made of when its compilation ends is CompileCache's.   *)
(***************************************************************************)
EXTENDS Integers, FiniteSets

CONSTANTS
  None,        \* the absent value
  Raised,      \* what a verification ends with when one of its calls raises
  Plan,        \* the test cases of the plan in force, in its order: the
               \* subtask of each, and whether its construction mode is fixed
  Trials,      \* agent_trial_seeds_per_subtask
  BatchSize,   \* runner_batch_size
  Slots,       \* runner_concurrency
  Inputs,      \* what a generator may write
  Candidates,  \* for each candidate, the set of static checks it fails
  Verifications  \* bound: how many verifications follow one another

Cases == DOMAIN Plan
Roles == {"solution", "generator", "validator"}

\* The static checks in their order; the first two are made together.
StaticChecks ==
  {"input_format_contract", "agent4_library_context_bundle", "generator_library_usage",
   "testlib_usage", "plan", "runtime_parameters", "generator_runtime_parameters"}
Rank ==
  [c \in StaticChecks |->
     CASE c = "input_format_contract" -> 1
       [] c = "agent4_library_context_bundle" -> 2
       [] c = "generator_library_usage" -> 3
       [] c = "testlib_usage" -> 4
       [] c = "plan" -> 5
       [] c = "runtime_parameters" -> 6
       [] c = "generator_runtime_parameters" -> 7]

\* An input: its first and last characters, those between, and how many of
\* them the preview leaves out.
ASSUME PlanAssumption ==
  /\ Cases \subseteq Nat /\ Cases # {}
  /\ \A c \in Cases : Plan[c].fixed \in BOOLEAN
  /\ Trials \in Nat \ {0} /\ BatchSize \in Nat \ {0} /\ Slots \in Nat \ {0}
  /\ Candidates \subseteq SUBSET StaticChecks
  /\ \A i \in Inputs : i.cut \in Nat

-----------------------------------------------------------------------------
\* Mutant: one trial for every case.
TrialCountOfSetting(c) == Trials

\* A case whose construction is not fixed is tried with two seeds at least.
TrialCount(c) == IF Plan[c].fixed THEN Trials ELSE IF Trials < 2 THEN 2 ELSE Trials

\* A job generates one input: a case of the plan and an offset of the seed.
Jobs == {j \in Cases \X (0 .. Trials) : j[2] < TrialCount(j[1])}
Before(j, k) == j[1] < k[1] \/ (j[1] = k[1] /\ j[2] < k[2])
First(S) == CHOOSE j \in S : \A k \in S : ~ Before(k, j)

\* The smoke phase takes the first job of each subtask, the complete one the rest.
Smoke ==
  {j \in Jobs : \A k \in Jobs : Plan[k[1]].subtask = Plan[j[1]].subtask => ~ Before(k, j)}

\* A task is one run of a program: its answer is ok, failed or late.
Compiles == [op: {"compile"}, of: Roles]
Runs(op, S) == [op: {op}, of: S]
Tasks == Compiles \cup UNION {Runs(op, Jobs) : op \in {"generate", "validate", "solve"}}
Answers == {"ok", "failed", "late"}

\* Jobs go to the sandbox in chunks of consecutive ones.
Number(j, S) == Cardinality({k \in S : Before(k, j)}) \div BatchSize
Chunks(S) == {{k \in S : Number(k, S) = Number(j, S)} : j \in S}

\* A file of the preview directory is named afresh for each job (uuid4).
\* Mutant: it is named by its job.
PathOfJob(n, j) == <<0, j>>
Path(n, j) == <<n, j>>

\* _preview_content: of an input that is too long, its ends and how much is missing.
Cut == "<truncated>"
Shown(input) == IF input.cut = 0 THEN input ELSE [input EXCEPT !.middle = Cut]

VARIABLES
  round,    \* the number of the verification
  point,    \* the gather it waits for
  level,    \* the phase of the trial runs
  faults,   \* the static checks that its candidate fails
  calls,    \* calls of the sandbox not answered yet, also of earlier rounds
  slots,    \* those of the sandbox that are free
  answers,  \* what the calls of this round have answered
  preview,  \* the preview directory: an input for each path
  made,     \* history: the input that each job's own generator run wrote
  seen,     \* trial_contents: what the verifier read of it
  verdict   \* the execution it returned, or Raised

ASSUME NoneAssumption ==
  /\ None \notin Answers \cup Roles
  /\ None \notin Inputs \cup {Shown(i) : i \in Inputs}

vars == <<round, point, level, faults, calls, slots, answers, preview, made, seen, verdict>>

Calls == [round: 1 .. Verifications, tasks: SUBSET Tasks, runs: BOOLEAN]
Checks == [op: StaticChecks \cup {"compile", "generate", "validate", "solve",
                                  "construction_diversity"},
           role: Roles \cup {None}, job: Jobs \cup {None}]
Verdicts == [ok: BOOLEAN,
             category: {None, "input_format", "library_api", "generation_plan", "compile",
                        "timeout", "generation", "validation", "solution"},
             failing: SUBSET Checks]

TypeOK ==
  /\ round \in 0 .. Verifications
  /\ point \in {"idle", "compile", "generate", "solve"}
  /\ level \in {"smoke", "complete"}
  /\ faults \in Candidates \cup {{}}
  /\ calls \subseteq Calls
  /\ slots \in 0 .. Slots
  /\ answers \in [Tasks -> Answers \cup {None}]
  /\ DOMAIN preview \subseteq (0 .. Verifications) \X Jobs
  /\ \A p \in DOMAIN preview : preview[p] \in Inputs
  /\ made \in [Jobs -> Inputs \cup {None}]
  /\ seen \in [Jobs -> {Shown(i) : i \in Inputs} \cup {None}]
  /\ verdict \in Verdicts \cup {None, Raised}

Init ==
  /\ round = 0 /\ point = "idle" /\ level = "smoke" /\ faults = {}
  /\ calls = {} /\ slots = Slots
  /\ answers = [t \in Tasks |-> None]
  /\ preview = [p \in {} |-> None]
  /\ made = [j \in Jobs |-> None] /\ seen = [j \in Jobs |-> None]
  /\ verdict = None

JobsNow == IF level = "smoke" THEN Smoke ELSE Jobs \ Smoke

Ask(n, taskSets) == {[round |-> n, tasks |-> T, runs |-> FALSE] : T \in taskSets}
Own == {c \in calls : c.round = round}
Refused(category, failing) == [ok |-> FALSE, category |-> category, failing |-> failing]
Check(op) == [op |-> op, role |-> None, job |-> None]

-----------------------------------------------------------------------------
\* What the static checks of a candidate with these faults return.
StaticVerdict(F) ==
  LET f == CHOOSE f \in F : \A g \in F : Rank[f] <= Rank[g]
      together == {"input_format_contract", "agent4_library_context_bundle"}
      recorded == IF f \in together THEN F \cap together ELSE {f}
      category == CASE f = "input_format_contract" -> "input_format"
                    [] f \in {"plan", "runtime_parameters"} -> "generation_plan"
                    [] OTHER -> "library_api"
  IN Refused(category,
             {Check(g) : g \in recorded \ {"plan", "runtime_parameters"}})

\* Up to the first await: the workspace is prepared, its preview directory is
\* cleared, and the static checks are made.
Verify(F) ==
  /\ point = "idle" /\ round < Verifications
  /\ round' = round + 1
  /\ faults' = F
  /\ level' = "smoke"
  /\ preview' = [p \in {} |-> None]
  /\ answers' = [t \in Tasks |-> None]
  /\ made' = [j \in Jobs |-> None] /\ seen' = [j \in Jobs |-> None]
  /\ IF F # {}
     THEN /\ verdict' = StaticVerdict(F)
          /\ UNCHANGED <<point, calls>>
     ELSE /\ verdict' = None
          /\ point' = "compile"
          /\ calls' = calls \cup Ask(round + 1, {{t} : t \in Compiles})
  /\ UNCHANGED slots

-----------------------------------------------------------------------------
\* async with _slots: the container starts.
StartCall(c) ==
  /\ ~ c.runs /\ slots > 0
  /\ slots' = slots - 1
  /\ calls' = (calls \ {c}) \cup {[c EXCEPT !.runs = TRUE]}
  /\ UNCHANGED <<round, point, level, faults, answers, preview, made, seen, verdict>>

\* The runner solves what its validator accepts, and nothing else.
Sensible(T, a) ==
  \A t \in T : IF t.op = "solve"
             THEN a[t] # None <=> a[[op |-> "validate", of |-> t.of]] = "ok"
             ELSE a[t] # None

\* A container ends: the answers of its tasks, and what its generator wrote (one
\* that fails may leave a part of an input, or an empty file).
EndCall(c) ==
  /\ c.runs
  /\ calls' = calls \ {c} /\ slots' = slots + 1
  /\ \E a \in [c.tasks -> Answers \cup {None}] :
       /\ Sensible(c.tasks, a)
       /\ answers' = IF c.round # round THEN answers
                     ELSE [t \in Tasks |-> IF t \in c.tasks THEN a[t] ELSE answers[t]]
  /\ LET jobs == {j \in Jobs : [op |-> "generate", of |-> j] \in c.tasks}
     IN \E w \in [jobs -> Inputs] :
          /\ preview' = [p \in DOMAIN preview \cup {Path(c.round, j) : j \in jobs} |->
                           IF \E j \in jobs : p = Path(c.round, j)
                           THEN w[CHOOSE j \in jobs : p = Path(c.round, j)]
                           ELSE preview[p]]
          /\ made' = IF c.round # round THEN made
                     ELSE [j \in Jobs |-> IF j \in jobs THEN w[j] ELSE made[j]]
  /\ UNCHANGED <<round, point, level, faults, seen, verdict>>

\* Mutant: a call that raises keeps its slot.
SlotKept == slots

\* A call that raises gives its slot back as well.
SlotBack == slots + 1

\* With the first call that raises its gather raises, and the verification is over.
RaiseCall(c) ==
  /\ c.runs
  /\ calls' = calls \ {c} /\ slots' = SlotBack
  /\ IF c.round = round /\ point # "idle"
     THEN verdict' = Raised /\ point' = "idle"
     ELSE UNCHANGED <<verdict, point>>
  /\ UNCHANGED <<round, level, faults, answers, preview, made, seen>>

-----------------------------------------------------------------------------
\* A gather is over when each of its calls has ended.
Over(p) == point = p /\ Own = {}

Return(v) == verdict' = v /\ point' = "idle" /\ UNCHANGED calls
Await(p, taskSets) ==
  /\ point' = p
  /\ calls' = calls \cup Ask(round, taskSets)
  /\ UNCHANGED verdict
Generate(S) == Await("generate", {Runs("generate", T) : T \in Chunks(S)})
Solve(S) == Await("solve", {Runs("validate", T) \cup Runs("solve", T) : T \in Chunks(S)})

Answer(op, of) == answers[[op |-> op, of |-> of]]
Category(answer, category) == IF answer = "late" THEN "timeout" ELSE category

\* The results of the compilations are taken in the order of the roles.
EndCompile ==
  /\ Over("compile")
  /\ LET broken == {r \in Roles : Answer("compile", r) # "ok"}
         role == IF "solution" \in broken THEN "solution"
                 ELSE IF "generator" \in broken THEN "generator" ELSE "validator"
     IN IF broken = {} THEN Generate(JobsNow)
        ELSE Return(Refused(Category(Answer("compile", role), "compile"),
                            {[Check("compile") EXCEPT !.role = role]}))
  /\ UNCHANGED <<round, level, faults, slots, answers, preview, made, seen>>

\* The inputs are read in the order of the jobs, up to the first that failed.
EndGenerate ==
  /\ Over("generate")
  /\ LET broken == {j \in JobsNow : Answer("generate", j) # "ok"}
         job == First(broken)
         read == {j \in JobsNow : broken # {} => ~ Before(job, j)}
     IN /\ seen' = [j \in Jobs |-> IF j \in read THEN Shown(preview[Path(round, j)])
                                  ELSE seen[j]]
        /\ IF broken = {} THEN Solve(JobsNow)
           ELSE Return(Refused(Category(Answer("generate", job), "generation"),
                               {[Check("generate") EXCEPT !.job = job]}))
  /\ UNCHANGED <<round, level, faults, slots, answers, preview, made>>

\* Mutant: what was read of a case's inputs is not compared.
AlikeNever == {}

\* The cases of a free construction whose inputs look the same for every seed.
Alike ==
  {c \in Cases : ~ Plan[c].fixed
                 /\ Cardinality({seen[j] : j \in {j \in Jobs : j[1] = c}}) < 2}

\* What the last level returns when all its runs are fine.
Conclusion ==
  IF Alike = {} THEN [ok |-> TRUE, category |-> None, failing |-> {}]
  ELSE Refused("generation",
               {[Check("construction_diversity") EXCEPT
                  !.job = First({j \in Jobs : j[1] \in Alike})]})

\* A job whose solution was not run is refused without a failing check.
Unsolved(job) ==
  IF Answer("validate", job) # "ok"
  THEN Refused(Category(Answer("validate", job), "validation"), {[Check("validate") EXCEPT !.job = job]})
  ELSE IF Answer("solve", job) = None THEN Refused("solution", {})
  ELSE Refused(Category(Answer("solve", job), "solution"), {[Check("solve") EXCEPT !.job = job]})

EndSolve ==
  /\ Over("solve")
  /\ LET broken == {j \in JobsNow :
                      Answer("validate", j) # "ok" \/ Answer("solve", j) # "ok"}
     IN IF broken # {} THEN Return(Unsolved(First(broken))) /\ UNCHANGED level
        ELSE IF level = "smoke" /\ Smoke # Jobs
        THEN Generate(Jobs \ Smoke) /\ level' = "complete"
        ELSE Return(Conclusion) /\ UNCHANGED level
  /\ UNCHANGED <<round, faults, slots, answers, preview, made, seen>>

Resume == EndCompile \/ EndGenerate \/ EndSolve
Settle == Resume \/ \E c \in calls : StartCall(c) \/ EndCall(c) \/ RaiseCall(c)

\* The end of the bound: all verifications made, nothing left.
Done == round = Verifications /\ point = "idle" /\ calls = {} /\ UNCHANGED vars

Next == (\E F \in Candidates : Verify(F)) \/ Settle \/ Done
Spec == Init /\ [][Next]_vars

\* A container is stopped after its time, and a client gives up on one that does
\* not answer (_docker_request_timeout): calls end.
FairSpec == Spec /\ WF_vars(Settle)

-----------------------------------------------------------------------------
\* Mutant: the validator is taken for the one that failed.
TargetOfLax(check) ==
  IF check.role \in {"generator", "validator"} THEN check.role
  ELSE IF check.op \in {"generator_library_usage", "generator_runtime_parameters",
                        "construction_diversity", "generate"} THEN "generator"
  ELSE IF check.op \in {"testlib_usage", "validate", "solve"} THEN "validator" ELSE None

\* _repair_target: the program that a failing check asks to be rewritten.
TargetOf(check) ==
  IF check.role \in {"generator", "validator"} THEN check.role
  ELSE IF check.op \in {"generator_library_usage", "generator_runtime_parameters",
                        "construction_diversity", "generate", "validate"} THEN "generator"
  ELSE IF check.op = "testlib_usage" THEN "validator" ELSE None

RepairTarget(v) ==
  LET targets == {TargetOf(check) : check \in v.failing}
  IN IF Cardinality(targets) = 1 THEN CHOOSE t \in targets : TRUE ELSE None
=============================================================================
