------------------------------ MODULE Workflow ------------------------------
(***************************************************************************)
(* One project of the dataset builder, stages 2 to 8: the record kept by   *)
(* ProjectService, the artifacts kept by ProjectStorage, and the one task  *)
(* at a time that PipelineService and DatasetService run under the         *)
(* project's asyncio lock.                                                 *)
(*                                                                         *)
(* The server is a single event loop.  A handler runs without interruption *)
(* from one await to the next, so one action here is the code between two  *)
(* awaits.  The one writer that never takes the lock is PUT .../solution   *)
(* (api.py): EditsDuringTasks says whether it may run while a task waits,  *)
(* as the HTTP interface allows, or not, as the shipped page has it.       *)
(***************************************************************************)
EXTENDS Integers, FiniteSets

CONSTANTS
  None,             \* the absent value (Python's None, a missing file)
  Sources,          \* texts of the reference solution
  GoodSources,      \* those a compiler accepts
  Contents,         \* contents of a stage's draft, as _draft_content compares them
  SoundPlans,       \* those in which, as a stage 4 plan, every test case has its controls
  MaxInRev,         \* bound: input revisions
  MaxSubRev,        \* bound: subtask-plan revisions
  MaxWfRev,         \* bound: workflow revisions that edits and compiles may reach
  MaxFixes,         \* pipeline.MAX_SOLUTION_REPAIRS
  MaxDownstream,    \* pipeline.MAX_DOWNSTREAM_RECOVERIES
  EditsDuringTasks  \* may the solution be replaced while a task waits?

ASSUME WorkflowAssumption ==
  /\ GoodSources \subseteq Sources /\ SoundPlans \subseteq Contents
  /\ {MaxInRev, MaxSubRev, MaxWfRev, MaxFixes, MaxDownstream} \subseteq Nat
  /\ EditsDuringTasks \in BOOLEAN
  /\ None \notin Sources \cup Contents

VARIABLES
  rec,   \* ProjectRecord: project.json
  inp,   \* GlobalInput: the solution's source and the input revision
  disk,  \* the project directory: drafts, release, projection, batch, data
  op     \* the task that holds the project lock, between two of its awaits

vars == <<rec, inp, disk, op>>

-----------------------------------------------------------------------------
(* Types *)

Interactive == 3..5
Status == {"draft", "checking", "failed", "waiting_user", "passed"}
BatchStatus == {"generating", "generated", "validating", "completed", "failed"}

\* ai_confirmed is (waiting_user or passed), user_confirmed is passed, and
\* build_complete moves with export_ready: each is kept once here.
ProjectRecord ==
  [stage: 2..8, compiled: BOOLEAN, inRev: Nat, subRev: Nat, wfRev: Nat,
   codeIn: Nat \cup {None}, codeSub: Nat \cup {None}, threads: SUBSET {3, 4},
   st: [Interactive -> Status], gen: BOOLEAN, ready: BOOLEAN]

GlobalInput == [src: Sources, rev: Nat]

\* src and up are history: the solution and the upstream draft the content
\* was written against.  The revisions are the stamps a code draft carries.
Draft == [c: Contents, src: Sources, up: Contents \cup {None},
          inRev: Nat \cup {None}, subRev: Nat \cup {None}]

Stamp == [wf: Nat, in: Nat, sub: Nat, code: Contents]
Batch == [status: BatchStatus, stamp: Stamp, listed: BOOLEAN]

\* whole: every planned input is there.  code, plan and outs are history: the
\* generator, the plan and the solution the files came from.
Data == [code: Contents \cup {None}, plan: Contents, whole: BOOLEAN,
         outs: Sources \cup {None}]

ASSUME NoneAssumption == None \notin Draft \cup Batch \cup Data

Disk == [draft: [Interactive -> Draft \cup {None}], release: Draft \cup {None},
         proj: {"working", "release"}, batch: Batch \cup {None},
         data: Data \cup {None}]

\* What a stage's agent was given, and what building a batch was given.
Context == [src: Sources, up: Contents \cup {None}, in: Nat, sub: Nat]
Build == [man: Batch, plan: Contents, code: Contents \cup {None}, bin: Sources]

Phase == {"idle", "compile", "classify", "agent", "resume", "loop", "repair",
          "gencompile", "generating", "valcompile", "solving"}

Task == [at: Phase, auto: BOOLEAN, s: {2} \cup Interactive,
         snap: ProjectRecord \cup {None}, ctx: Context \cup {None},
         cand: Contents \cup {None}, bin: Sources \cup {None},
         build: Build \cup {None}, fixes: Nat, downs: Nat]

TypeOK ==
  /\ rec \in ProjectRecord
  /\ inp \in GlobalInput
  /\ disk \in Disk
  /\ op \in Task

-----------------------------------------------------------------------------
(* ProjectService: each method is a function of the record it loads *)

\* Mutant: the range starts one stage too late.
InvalidateFromNextButOne(r, s) ==
  [r EXCEPT !.st = [t \in Interactive |-> IF t > s + 1 THEN "draft" ELSE r.st[t]],
            !.threads = {t \in r.threads : t <= s}]

\* _invalidate_downstream
InvalidateDownstream(r, s) ==
  [r EXCEPT !.st = [t \in Interactive |-> IF t > s THEN "draft" ELSE r.st[t]],
            !.threads = {t \in r.threads : t <= s}]

NotBuilt(r) == [r EXCEPT !.gen = FALSE, !.ready = FALSE]
NoCode(r) == [r EXCEPT !.codeIn = None, !.codeSub = None]
SetStatus(r, s, status) ==
  [r EXCEPT !.st[s] = status, !.threads = r.threads \ {s}, !.stage = s]

\* Mutants: solution_compiled survives the edit; workflow_revision does not move.
SolutionUpdatedKeepsCompiled(r, rev) ==
  [NoCode(NotBuilt(InvalidateDownstream(r, 2)))
     EXCEPT !.inRev = rev, !.wfRev = r.wfRev + 1, !.stage = IF r.compiled THEN 3 ELSE 2]
SolutionUpdatedSameWorkflow(r, rev) ==
  [NoCode(NotBuilt(InvalidateDownstream(r, 2)))
     EXCEPT !.inRev = rev, !.compiled = FALSE, !.stage = 2]

\* update_solution, the part that touches the record
SolutionUpdated(r, rev) ==
  [NoCode(NotBuilt(InvalidateDownstream(r, 2)))
     EXCEPT !.inRev = rev, !.wfRev = r.wfRev + 1, !.compiled = FALSE, !.stage = 2]

\* Mutant: every accepted compile goes to stage 3, as if nothing had been done yet.
CompileAcceptedRestarts(r) == [r EXCEPT !.compiled = TRUE, !.stage = 3]

\* mark_solution_compiled
CompileAccepted(r) ==
  [r EXCEPT !.compiled = TRUE,
            !.stage = IF ~r.compiled \/ r.stage <= 2 THEN 3 ELSE r.stage]
ResetsOnReject(r) == r.compiled \/ r.stage > 2
CompileRejected(r) ==
  IF ResetsOnReject(r)
    THEN [NoCode(NotBuilt(InvalidateDownstream(r, 2)))
            EXCEPT !.compiled = FALSE, !.wfRev = r.wfRev + 1, !.stage = 2]
    ELSE [r EXCEPT !.compiled = FALSE, !.stage = 2]

\* save_user_draft
UserDraftSaved(r, s) ==
  [NoCode(NotBuilt(InvalidateDownstream(SetStatus(r, s, "draft"), s)))
     EXCEPT !.wfRev = r.wfRev + 1,
            !.subRev = IF s = 4 THEN r.subRev + 1 ELSE r.subRev]

\* set_stage_thread and the CHECKING mark of run_stage
BeginCheck(r, s) == [r EXCEPT !.st[s] = "checking", !.threads = r.threads \ {s}]

\* save_ai_result: export_ready is not among the fields it resets
AiResultSaved(r, s, confirmed, changed) ==
  LET base == [InvalidateDownstream(
                 SetStatus(r, s, IF confirmed THEN "waiting_user" ELSE "draft"), s)
                 EXCEPT !.gen = FALSE,
                        !.subRev = IF s = 4 /\ changed THEN r.subRev + 1 ELSE r.subRev]
  IN  IF s <= 4 THEN NoCode(base) ELSE base

\* confirm: the record it saves, and what it demands first
MayConfirm(r, s) == r.stage = s /\ r.st[s] \in {"waiting_user", "passed"}
Confirmed(r, s) ==
  LET base == [r EXCEPT !.st[s] = "passed", !.stage = s + 1,
                        !.threads = r.threads \ {s}]
  IN  IF s = 5 THEN [base EXCEPT !.codeIn = r.inRev, !.codeSub = r.subRev] ELSE base

\* mark_interactive_stage_failed, and prepare_auto_run_resume on the record
StageFailed(r, s) ==
  LET base == NotBuilt(InvalidateDownstream(SetStatus(r, s, "failed"), s))
  IN  IF s <= 4 THEN NoCode(base) ELSE base

\* mark_generation_complete, mark_validation_complete, mark_pipeline_failure
GenerationComplete(r) == [r EXCEPT !.gen = TRUE, !.ready = FALSE, !.stage = 7]
ValidationComplete(r) == [r EXCEPT !.ready = TRUE, !.stage = 8]
PipelineFailure(r) == [NotBuilt(r) EXCEPT !.stage = 5, !.st[5] = "draft"]

\* recover_interrupted_checks
Interrupted(r) == {s \in Interactive : r.st[s] = "checking"}
ChecksRecovered(r) ==
  [r EXCEPT !.st = [s \in Interactive |-> IF s \in Interrupted(r) THEN "failed" ELSE r.st[s]],
            !.threads = r.threads \ Interrupted(r)]

\* _check_stage_prerequisites
Prerequisites(r, s) == r.compiled /\ \A t \in Interactive : t < s => r.st[t] = "passed"

-----------------------------------------------------------------------------
(* ProjectStorage: each method is a function of the directory *)

Content(d, s) == IF d.draft[s] = None THEN None ELSE d.draft[s].c
Upstream(d, s) == IF s = 3 THEN None ELSE Content(d, s - 1)

\* _set_code_projection, _ensure_code_projection, and what the runner then finds
Project(d, to) == [d EXCEPT !.proj = to]
EnsureProjection(d) == Project(d, IF d.release = None THEN "working" ELSE "release")
Generated(d) == IF d.proj = "working" THEN Content(d, 5)
                ELSE IF d.release = None THEN None ELSE d.release.c

\* invalidate_downstream_artifacts
ArtifactsInvalidated(d, s) ==
  EnsureProjection(
    [d EXCEPT !.draft = [t \in Interactive |-> IF t > s THEN None ELSE d.draft[t]],
              !.release = IF s < 5 THEN None ELSE d.release,
              !.batch = None, !.data = None])

\* save_draft and save_code_draft
DraftSaved(d, s, draft) ==
  LET e == [d EXCEPT !.draft[s] = draft] IN IF s = 5 THEN Project(e, "working") ELSE e

\* Mutant: an exhausted round takes the released snapshot with it.
WorkingDraftAndReleaseCleared(d, s) ==
  EnsureProjection(
    [d EXCEPT !.draft = [t \in Interactive |-> IF t >= s THEN None ELSE d.draft[t]],
              !.release = None])

\* clear_working_draft
WorkingDraftCleared(d, s) ==
  EnsureProjection(
    [d EXCEPT !.draft = [t \in Interactive |-> IF t >= s THEN None ELSE d.draft[t]]])

\* freeze_code_release: what it demands, and the release it leaves
MayFreeze(r, d) ==
  /\ d.draft[5] # None
  /\ d.draft[5].inRev = r.inRev
  /\ d.draft[5].subRev = r.subRev

\* Mutant: a release that exists is taken for the confirmed one.
ReleaseFrozenOnce(d) ==
  Project([d EXCEPT !.release = IF d.release # None THEN d.release ELSE d.draft[5]], "release")

ReleaseFrozen(d) ==
  Project([d EXCEPT !.release = IF d.release # None /\ d.release.c = d.draft[5].c
                                  THEN d.release ELSE d.draft[5]], "release")

\* _manifest_matches
CurrentStamp(r, d) == [wf |-> r.wfRev, in |-> r.inRev, sub |-> r.subRev, code |-> d.release.c]
ManifestMatches(r, d) == d.release # None /\ d.batch.stamp = CurrentStamp(r, d)

\* The guards of generate_inputs, validate_and_solve and export
MayGenerate(r, d) ==
  /\ r.st[5] = "passed"
  /\ r.codeIn = r.inRev /\ r.codeSub = r.subRev
  /\ d.draft[4] # None
  /\ d.release # None
  /\ d.release.inRev = r.inRev /\ d.release.subRev = r.subRev
MayValidate(r, d) == r.gen /\ d.draft[4] # None /\ d.batch # None /\ ManifestMatches(r, d)
MayExport(r, d) ==
  /\ r.ready
  /\ d.batch # None => d.batch.status = "completed" /\ ManifestMatches(r, d)
  /\ d.data # None /\ d.data.outs # None

-----------------------------------------------------------------------------
(* Tasks *)

Idle == [at |-> "idle", auto |-> FALSE, s |-> 2, snap |-> None, ctx |-> None,
         cand |-> None, bin |-> None, build |-> None, fixes |-> 0, downs |-> 0]

\* The lock is released, or the loop of auto_run goes round.
Finished == IF op.auto THEN [Idle EXCEPT !.at = "loop", !.auto = TRUE, !.downs = op.downs]
            ELSE Idle

NewProject ==
  /\ rec = [stage |-> 2, compiled |-> FALSE, inRev |-> 1, subRev |-> 0, wfRev |-> 1,
            codeIn |-> None, codeSub |-> None, threads |-> {},
            st |-> [s \in Interactive |-> "draft"], gen |-> FALSE, ready |-> FALSE]
  /\ disk = [draft |-> [s \in Interactive |-> None], release |-> None,
             proj |-> "working", batch |-> None, data |-> None]

\* A project whose stage 4 was confirmed before its plan had to hold the
\* controls of every test case: what the rerouting of stage 5 is there for.
PlanDraft(c, up) == [c |-> c, src |-> inp.src, up |-> up, inRev |-> None, subRev |-> None]
KeptProject(c3, c4) ==
  /\ inp.src \in GoodSources
  /\ rec = [stage |-> 5, compiled |-> TRUE, inRev |-> 1, subRev |-> 1, wfRev |-> 1,
            codeIn |-> None, codeSub |-> None, threads |-> {},
            st |-> [s \in Interactive |-> IF s < 5 THEN "passed" ELSE "draft"],
            gen |-> FALSE, ready |-> FALSE]
  /\ disk = [draft |-> [s \in Interactive |->
                          CASE s = 3 -> PlanDraft(c3, None)
                            [] s = 4 -> PlanDraft(c4, c3)
                            [] s = 5 -> None],
             release |-> None, proj |-> "working", batch |-> None, data |-> None]

Init ==
  /\ inp \in [src: Sources, rev: {1}]
  /\ \/ NewProject
     \/ \E c3 \in Contents, c4 \in Contents \ SoundPlans : KeptProject(c3, c4)
  /\ op = Idle

\* Mutant: the input is saved, the record and the artifacts are left as they were.
ReplaceSolutionOnly(src) ==
  /\ src # inp.src /\ inp.rev < MaxInRev
  /\ inp' = [src |-> src, rev |-> inp.rev + 1]
  /\ UNCHANGED <<rec, disk>>

\* PUT .../solution.  The handler takes no lock.
ReplaceSolution(src) ==
  /\ src # inp.src /\ inp.rev < MaxInRev
  /\ inp' = [src |-> src, rev |-> inp.rev + 1]
  /\ rec' = SolutionUpdated(rec, inp.rev + 1)
  /\ disk' = ArtifactsInvalidated(disk, 2)

UpdateSolution(src) ==
  /\ op.at = "idle" \/ EditsDuringTasks
  /\ rec.wfRev < MaxWfRev
  /\ ReplaceSolution(src)
  /\ UNCHANGED op

\* PUT .../stages/{stage}/draft
SaveUserDraft(s, c) ==
  LET unchanged == Content(disk, s) = c
      waiting == rec.st[s] = "waiting_user" \/ s \in rec.threads
      stamped(rev) == IF s = 5 THEN rev ELSE None
      new == [c |-> c, src |-> inp.src, up |-> Upstream(disk, s),
              inRev |-> stamped(rec.inRev), subRev |-> stamped(rec.subRev)]
  IN  /\ op.at = "idle"
      /\ s <= rec.stage
      /\ s = 4 => disk.draft[3] # None
      /\ ~unchanged \/ waiting
      /\ rec.wfRev < MaxWfRev /\ (s = 4 => rec.subRev < MaxSubRev)
      /\ rec' = UserDraftSaved(rec, s)
      /\ disk' = ArtifactsInvalidated(DraftSaved(disk, s, new), s)
      /\ UNCHANGED <<inp, op>>

\* compile_solution
CompileStart ==
  /\ op.at = "idle"
  /\ op' = [Idle EXCEPT !.at = "compile", !.bin = inp.src]
  /\ UNCHANGED <<rec, inp, disk>>

CompileReturns(ok) ==
  /\ op.at = "compile"
  /\ ok => op.bin \in GoodSources
  /\ ~ok /\ ResetsOnReject(rec) => rec.wfRev < MaxWfRev
  /\ rec' = IF ok THEN CompileAccepted(rec) ELSE CompileRejected(rec)
  /\ disk' = IF ~ok /\ ResetsOnReject(rec) THEN ArtifactsInvalidated(disk, 2) ELSE disk
  /\ op' = Idle
  /\ UNCHANGED inp

-----------------------------------------------------------------------------
(* Stages 3 to 5 *)

ContextOf(s) == [src |-> inp.src, up |-> Upstream(disk, s), in |-> inp.rev, sub |-> rec.subRev]

AgentTask(s, auto) ==
  [Idle EXCEPT !.at = "agent", !.auto = auto, !.s = s, !.ctx = ContextOf(s),
               !.downs = op.downs]

\* run_stage without an instruction: it reaches the agent without an await.
RunStage(s) ==
  /\ op.at = "idle"
  /\ s = rec.stage /\ Prerequisites(rec, s)
  /\ ~(s = 5 /\ rec.st[5] = "waiting_user")
  /\ rec' = BeginCheck(rec, s)
  /\ op' = AgentTask(s, FALSE)
  /\ UNCHANGED <<inp, disk>>

\* run_stage with one: the record read before the routing call is the one it
\* checks and saves after it.
InstructStage(s) ==
  /\ op.at = "idle"
  /\ s = rec.stage /\ Prerequisites(rec, s)
  /\ op' = [AgentTask(s, FALSE) EXCEPT !.at = "classify", !.snap = rec]
  /\ UNCHANGED <<rec, inp, disk>>

ClassifyRevise ==
  /\ op.at = "classify"
  /\ rec' = BeginCheck(op.snap, op.s)
  /\ op' = [op EXCEPT !.at = "agent", !.snap = None]
  /\ UNCHANGED <<inp, disk>>

\* An answer, or a routing call that fails, writes nothing.
ClassifyAnswer ==
  /\ op.at = "classify"
  /\ op' = Idle
  /\ UNCHANGED <<rec, inp, disk>>

NewDraft(s, c, in, sub) ==
  [c |-> c, src |-> op.ctx.src, up |-> op.ctx.up,
   inRev |-> IF s = 5 THEN in ELSE None, subRev |-> IF s = 5 THEN sub ELSE None]

\* Agent4RecoveryPolicy._save: every candidate overwrites the working template.
\* Agent4Runner looks at the plan before it asks for one.
AgentSavesCandidate(c) ==
  /\ op.at = "agent" /\ op.s = 5 /\ op.ctx.up \in SoundPlans
  /\ disk' = DraftSaved(disk, 5, NewDraft(5, c, op.ctx.in, op.ctx.sub))
  /\ op' = [op EXCEPT !.cand = c]
  /\ UNCHANGED <<rec, inp>>

\* A recovery round is exhausted.
AgentClearsDraft ==
  /\ op.at = "agent"
  /\ disk' = WorkingDraftCleared(disk, op.s)
  /\ op' = [op EXCEPT !.cand = None]
  /\ UNCHANGED <<rec, inp>>

\* Mutant: a plan without the controls of every test case is let through.
AgentReturnsUnchecked(s, c) ==
  /\ op.at = "agent" /\ op.s = s
  /\ s = 5 => c = op.cand
  /\ s = 4 => disk.draft[3] # None
  /\ s = 4 /\ c # Content(disk, 4) => rec.subRev < MaxSubRev

\* The call returns c for stage s: for stage 5 the candidate it saved last.
\* validate_draft wants the plan of stage 3 before it takes one for stage 4,
\* which Agent3Validator has found to hold the controls of every test case.
AgentReturns(s, c) ==
  /\ op.at = "agent" /\ op.s = s
  /\ s = 5 => c = op.cand
  /\ s = 4 => disk.draft[3] # None /\ c \in SoundPlans
  /\ s = 4 /\ c # Content(disk, 4) => rec.subRev < MaxSubRev

\* The directory after save_ai_result: the code draft was already there as the
\* last candidate, so for stage 5 nothing has changed and nothing is cleared.
ResultSaved(s, c) ==
  LET saved == DraftSaved(disk, s, NewDraft(s, c, rec.inRev, rec.subRev))
  IN  IF c # Content(disk, s) THEN ArtifactsInvalidated(saved, s) ELSE saved

\* Mutant: stage 5 registers a thread too.
ThreadAlways(s) == {s}

\* Which stages wait on a LangGraph thread.
WaitingThread(s) == {s} \cap {3, 4}

\* A manual pass waits for the user.
AgentPasses(s, c) ==
  /\ ~op.auto /\ AgentReturns(s, c)
  /\ LET r == AiResultSaved(rec, s, TRUE, c # Content(disk, s))
     IN  rec' = [r EXCEPT !.threads = r.threads \cup WaitingThread(s)]
  /\ disk' = ResultSaved(s, c)
  /\ op' = Idle
  /\ UNCHANGED inp

\* A pass of auto_run is confirmed before the next await.
AgentPassesAuto(s, c) ==
  /\ op.auto /\ AgentReturns(s, c)
  /\ rec' = Confirmed(AiResultSaved(rec, s, TRUE, c # Content(disk, s)), s)
  /\ disk' = IF s = 5 THEN ReleaseFrozen(ResultSaved(5, c)) ELSE ResultSaved(s, c)
  /\ op' = Finished
  /\ UNCHANGED inp

\* Stage 5 alone may return what nobody may repair.
AgentRevises(c) ==
  /\ AgentReturns(5, c)
  /\ LET r == AiResultSaved(rec, 5, FALSE, c # Content(disk, 5))
     IN  rec' = IF op.auto THEN StageFailed(r, 5) ELSE r
  /\ disk' = ResultSaved(5, c)
  /\ op' = Idle
  /\ UNCHANGED inp

\* An exhausted recovery, an environment failure, an unexpected exception.
AgentFails ==
  /\ op.at = "agent"
  /\ rec' = StageFailed(rec, op.s)
  /\ op' = Idle
  /\ UNCHANGED <<inp, disk>>

\* auto_run: stage 5 finds the plan of stage 4 at fault, before or after it has
\* written code, and the recovery plan is rooted there.
AgentReroutes ==
  /\ op.at = "agent" /\ op.auto /\ op.s = 5
  /\ op.ctx.up \notin SoundPlans \/ Content(disk, 4) \notin SoundPlans
  /\ rec' = StageFailed(StageFailed(rec, 5), 4)
  /\ op' = Finished
  /\ UNCHANGED <<inp, disk>>

\* confirm_stage for stage 5 has no await.
ConfirmCode ==
  /\ op.at = "idle"
  /\ rec.st[5] = "waiting_user" /\ MayConfirm(rec, 5) /\ MayFreeze(rec, disk)
  /\ rec' = Confirmed(rec, 5)
  /\ disk' = ReleaseFrozen(disk)
  /\ UNCHANGED <<inp, op>>

\* confirm_stage for stages 3 and 4: the graph is resumed, then the record confirmed.
ConfirmStart(s) ==
  /\ op.at = "idle" /\ s \in rec.threads
  /\ op' = [Idle EXCEPT !.at = "resume", !.s = s]
  /\ UNCHANGED <<rec, inp, disk>>

ConfirmResumed ==
  /\ op.at = "resume" /\ MayConfirm(rec, op.s)
  /\ rec' = Confirmed(rec, op.s)
  /\ op' = Idle
  /\ UNCHANGED <<inp, disk>>

-----------------------------------------------------------------------------
(* auto_run *)

\* prepare_auto_run_resume reclaims the earliest stage left checking.
AutoRun ==
  /\ op.at = "idle"
  /\ \/ /\ Interrupted(rec) = {}
        /\ UNCHANGED <<rec, disk>>
     \/ \E s \in Interrupted(rec) :
          /\ \A t \in Interrupted(rec) : s <= t
          /\ rec' = StageFailed(rec, s)
          /\ disk' = ArtifactsInvalidated(disk, s)
  /\ op' = [Idle EXCEPT !.at = "loop", !.auto = TRUE]
  /\ UNCHANGED inp

AutoRepair ==
  /\ op.at = "loop" /\ ~rec.compiled
  /\ op' = [op EXCEPT !.at = "repair", !.bin = inp.src]
  /\ UNCHANGED <<rec, inp, disk>>

RepairCompiles ==
  /\ op.at = "repair" /\ op.bin \in GoodSources
  /\ rec' = CompileAccepted(rec)
  /\ op' = Finished
  /\ UNCHANGED <<inp, disk>>

\* A failed compile, a rewrite by the model, update_solution, a new compile.
RepairRewrites(src) ==
  /\ op.at = "repair" /\ op.fixes < MaxFixes
  /\ \/ ReplaceSolution(src)
     \/ src = inp.src /\ UNCHANGED <<rec, inp, disk>>
  /\ op' = [op EXCEPT !.bin = src, !.fixes = op.fixes + 1]

AutoStage(s) ==
  /\ op.at = "loop" /\ s = rec.stage /\ Prerequisites(rec, s)
  /\ rec' = BeginCheck(rec, s)
  /\ op' = AgentTask(s, TRUE)
  /\ UNCHANGED <<inp, disk>>

\* The turn's operation refuses: auto_run raises.
AutoRefused ==
  /\ op.at = "loop" /\ rec.compiled
  /\ \/ rec.stage \in Interactive /\ ~Prerequisites(rec, rec.stage)
     \/ rec.stage = 6 /\ ~MayGenerate(rec, disk)
     \/ rec.stage = 7 /\ ~MayValidate(rec, disk)
     \/ rec.stage = 8 /\ ~MayExport(rec, disk)
  /\ op' = Idle
  /\ UNCHANGED <<rec, inp, disk>>

-----------------------------------------------------------------------------
(* Stages 6 to 8 *)

\* Reached by a request of its own or from the loop of auto_run.
Turn(s) == op.at = "idle" \/ (op.at = "loop" /\ rec.compiled /\ rec.stage = s)

BuildTask(at, man) ==
  [op EXCEPT !.at = at,
             !.build = [man |-> man, plan |-> disk.draft[4].c,
                        code |-> Generated(Project(disk, "release")), bin |-> inp.src]]

\* generate_inputs up to its first await
GenerateStart ==
  LET man == [status |-> "generating", stamp |-> CurrentStamp(rec, disk), listed |-> FALSE]
  IN  /\ Turn(6) /\ MayGenerate(rec, disk)
      /\ disk' = [Project(disk, "release") EXCEPT !.batch = man]
      /\ op' = BuildTask("gencompile", man)
      /\ UNCHANGED <<rec, inp>>

GeneratorCompiled ==
  /\ op.at = "gencompile"
  /\ disk' = [disk EXCEPT !.data = [code |-> op.build.code, plan |-> op.build.plan,
                                    whole |-> FALSE, outs |-> None]]
  /\ op' = [op EXCEPT !.at = "generating"]
  /\ UNCHANGED <<rec, inp>>

\* An edit that cleared the directory meanwhile leaves any part of the files.
GenerateEnds(w) ==
  /\ op.at = "generating"
  /\ disk.data # None => w
  /\ disk' = [disk EXCEPT !.batch = [op.build.man EXCEPT !.status = "generated", !.listed = TRUE],
                          !.data = [code |-> op.build.code, plan |-> op.build.plan,
                                    whole |-> w, outs |-> None]]
  /\ rec' = GenerationComplete(rec)
  /\ op' = Finished
  /\ UNCHANGED inp

\* validate_and_solve up to its first await: it looks at the stamp, not the status
ValidateStart ==
  LET man == [disk.batch EXCEPT !.status = "validating"]
  IN  /\ Turn(7) /\ MayValidate(rec, disk)
      /\ disk' = [Project(disk, "release") EXCEPT !.batch = man]
      /\ op' = BuildTask("valcompile", man)
      /\ UNCHANGED <<rec, inp>>

SolutionCompiled ==
  /\ op.at = "valcompile" /\ op.build.bin \in GoodSources
  /\ disk.data # None /\ disk.data.whole
  /\ op' = [op EXCEPT !.at = "solving"]
  /\ UNCHANGED <<rec, inp, disk>>

ValidateEnds ==
  /\ op.at = "solving" /\ op.build.man.listed
  /\ disk' = [disk EXCEPT !.batch = [op.build.man EXCEPT !.status = "completed"],
                          !.data = IF disk.data = None THEN None
                                   ELSE [disk.data EXCEPT !.outs = op.build.bin]]
  /\ rec' = ValidationComplete(rec)
  /\ op' = Finished
  /\ UNCHANGED inp

\* _fail_to_agent4; auto_run goes on from stage 5 at most MaxDownstream times.
BuildFails ==
  /\ op.at \in {"gencompile", "generating", "valcompile", "solving"}
  /\ disk.release # None
  /\ rec' = PipelineFailure(rec)
  /\ disk' = [Project(disk, "release") EXCEPT
                !.batch = IF disk.batch = None THEN None
                          ELSE [disk.batch EXCEPT !.status = "failed"]]
  /\ op' = IF op.auto /\ op.downs < MaxDownstream
             THEN [Finished EXCEPT !.downs = op.downs + 1] ELSE Idle
  /\ UNCHANGED inp

Export ==
  /\ Turn(8) /\ MayExport(rec, disk)
  /\ disk' = IF disk.batch = None THEN disk ELSE Project(disk, "release")
  /\ op' = Idle
  /\ UNCHANGED <<rec, inp>>

-----------------------------------------------------------------------------
(* Failures *)

\* The container or the checkpointer is unavailable, a repair budget is spent:
\* the error leaves by a path that saves no record.
TaskStops ==
  /\ op.at \in {"compile", "resume", "repair", "gencompile", "generating",
                "valcompile", "solving"}
  /\ op' = Idle
  /\ UNCHANGED <<rec, inp, disk>>

\* A cancelled request passes every "except Exception".
Cancel ==
  /\ op.at = "agent"
  /\ op' = Idle
  /\ UNCHANGED <<rec, inp, disk>>

\* The process stops between two awaits and starts again (main.lifespan).
Restart ==
  /\ op # Idle \/ Interrupted(rec) # {}
  /\ rec' = ChecksRecovered(rec)
  /\ op' = Idle
  /\ UNCHANGED <<inp, disk>>

-----------------------------------------------------------------------------
AgentEnds ==
  \/ \E s \in Interactive, c \in Contents : AgentPasses(s, c) \/ AgentPassesAuto(s, c)
  \/ \E c \in Contents : AgentRevises(c)
  \/ AgentFails \/ AgentReroutes

\* What a task waits for: each of these takes it further.
Progress ==
  \/ \E ok \in BOOLEAN : CompileReturns(ok)
  \/ ClassifyRevise \/ ClassifyAnswer \/ AgentEnds \/ ConfirmResumed
  \/ AutoRepair \/ RepairCompiles \/ (\E src \in Sources : RepairRewrites(src))
  \/ (\E s \in Interactive : AutoStage(s)) \/ AutoRefused
  \/ GeneratorCompiled \/ (\E w \in BOOLEAN : GenerateEnds(w))
  \/ SolutionCompiled \/ ValidateEnds \/ BuildFails \/ TaskStops
  \/ op.at = "loop" /\ (GenerateStart \/ ValidateStart \/ Export)

Request ==
  \/ \E src \in Sources : UpdateSolution(src)
  \/ \E s \in Interactive, c \in Contents : SaveUserDraft(s, c)
  \/ CompileStart \/ AutoRun \/ ConfirmCode
  \/ \E s \in Interactive : RunStage(s) \/ InstructStage(s) \/ ConfirmStart(s)
  \/ op.at = "idle" /\ (GenerateStart \/ ValidateStart \/ Export)

Working == AgentClearsDraft \/ \E c \in Contents : AgentSavesCandidate(c)

Next == Request \/ Progress \/ Working \/ Cancel \/ Restart

Spec == Init /\ [][Next]_vars

\* Every awaited call returns (each has a timeout): no fairness for a user's
\* requests, for cancellations and restarts, or for any one outcome.
FairSpec == Spec /\ WF_vars(Progress)
=============================================================================
