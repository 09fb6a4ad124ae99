--------------------------- MODULE WorkflowProofs ---------------------------
(***************************************************************************)
(* Theorems about Workflow for every value of its constants.               *)
(***************************************************************************)
EXTENDS WorkflowProperties, TLAPS

-----------------------------------------------------------------------------
(* The methods of ProjectService turn a record into a record. *)

LEMMA InvalidateDownstreamType ==
  ASSUME NEW r \in ProjectRecord, NEW s \in 2..5
  PROVE  InvalidateDownstream(r, s) \in ProjectRecord
BY DEF InvalidateDownstream, ProjectRecord, Status, Interactive

LEMMA ResetTypes ==
  ASSUME NEW r \in ProjectRecord
  PROVE  NotBuilt(r) \in ProjectRecord /\ NoCode(r) \in ProjectRecord
BY DEF NotBuilt, NoCode, ProjectRecord

LEMMA SetStatusType ==
  ASSUME NEW r \in ProjectRecord, NEW s \in Interactive, NEW status \in Status
  PROVE  SetStatus(r, s, status) \in ProjectRecord
<1>1. r.threads \ {s} \in SUBSET {3, 4} /\ s \in 2..8
  BY DEF ProjectRecord, Interactive
<1>2. [r.st EXCEPT ![s] = status] \in [Interactive -> Status]
  BY DEF ProjectRecord
<1> QED
  BY <1>1, <1>2 DEF SetStatus, ProjectRecord

LEMMA SolutionUpdatedType ==
  ASSUME NEW r \in ProjectRecord, NEW rev \in Nat
  PROVE  SolutionUpdated(r, rev) \in ProjectRecord
<1> DEFINE q == NoCode(NotBuilt(InvalidateDownstream(r, 2)))
<1>1. q \in ProjectRecord
  BY InvalidateDownstreamType, ResetTypes
<1> HIDE DEF q
<1>2. r.wfRev + 1 \in Nat /\ 2 \in 2..8
  BY DEF ProjectRecord
<1>3. [q EXCEPT !.inRev = rev, !.wfRev = r.wfRev + 1, !.compiled = FALSE, !.stage = 2]
        \in ProjectRecord
  BY <1>1, <1>2 DEF ProjectRecord
<1> QED
  BY <1>3 DEF SolutionUpdated, q

LEMMA CompiledTypes ==
  ASSUME NEW r \in ProjectRecord
  PROVE  CompileAccepted(r) \in ProjectRecord /\ CompileRejected(r) \in ProjectRecord
<1> DEFINE q == NoCode(NotBuilt(InvalidateDownstream(r, 2)))
<1>1. q \in ProjectRecord
  BY InvalidateDownstreamType, ResetTypes
<1> HIDE DEF q
<1>2. r.wfRev + 1 \in Nat /\ 2 \in 2..8 /\ 3 \in 2..8 /\ r.stage \in 2..8
  BY DEF ProjectRecord
<1>3. [q EXCEPT !.compiled = FALSE, !.wfRev = r.wfRev + 1, !.stage = 2] \in ProjectRecord
  BY <1>1, <1>2 DEF ProjectRecord
<1>4. [r EXCEPT !.compiled = FALSE, !.stage = 2] \in ProjectRecord
  BY <1>2 DEF ProjectRecord
<1>5. CompileRejected(r) \in ProjectRecord
  BY <1>3, <1>4 DEF CompileRejected, q
<1>6. \A t \in 2..8 : [r EXCEPT !.compiled = TRUE, !.stage = t] \in ProjectRecord
  BY DEF ProjectRecord
<1>7. CompileAccepted(r) \in ProjectRecord
  <2>1. CASE ~r.compiled \/ r.stage <= 2
    BY <1>2, <1>6, <2>1 DEF CompileAccepted
  <2>2. CASE ~(~r.compiled \/ r.stage <= 2)
    BY <1>2, <1>6, <2>2 DEF CompileAccepted
  <2> QED
    BY <2>1, <2>2
<1> QED
  BY <1>5, <1>7

LEMMA UserDraftSavedType ==
  ASSUME NEW r \in ProjectRecord, NEW s \in Interactive
  PROVE  UserDraftSaved(r, s) \in ProjectRecord
<1> DEFINE q == NoCode(NotBuilt(InvalidateDownstream(SetStatus(r, s, "draft"), s)))
<1>1. q \in ProjectRecord
  BY SetStatusType, InvalidateDownstreamType, ResetTypes DEF Status, Interactive
<1> HIDE DEF q
<1>2. r.wfRev + 1 \in Nat /\ (IF s = 4 THEN r.subRev + 1 ELSE r.subRev) \in Nat
  BY DEF ProjectRecord
<1>3. \A w, n \in Nat : [q EXCEPT !.wfRev = w, !.subRev = n] \in ProjectRecord
  BY <1>1 DEF ProjectRecord
<1> QED
  BY <1>2, <1>3 DEF UserDraftSaved, q

LEMMA BeginCheckType ==
  ASSUME NEW r \in ProjectRecord, NEW s \in Interactive
  PROVE  BeginCheck(r, s) \in ProjectRecord
BY DEF BeginCheck, ProjectRecord, Status, Interactive

LEMMA AiResultSavedType ==
  ASSUME NEW r \in ProjectRecord, NEW s \in Interactive,
         NEW confirmed \in BOOLEAN, NEW changed \in BOOLEAN
  PROVE  AiResultSaved(r, s, confirmed, changed) \in ProjectRecord
<1> DEFINE q == InvalidateDownstream(
                  SetStatus(r, s, IF confirmed THEN "waiting_user" ELSE "draft"), s)
           b == [q EXCEPT !.gen = FALSE,
                          !.subRev = IF s = 4 /\ changed THEN r.subRev + 1 ELSE r.subRev]
<1>1. q \in ProjectRecord
  BY SetStatusType, InvalidateDownstreamType DEF Status, Interactive
<1> HIDE DEF q
<1>2. (IF s = 4 /\ changed THEN r.subRev + 1 ELSE r.subRev) \in Nat
  BY DEF ProjectRecord
<1>3. \A n \in Nat : [q EXCEPT !.gen = FALSE, !.subRev = n] \in ProjectRecord
  BY <1>1 DEF ProjectRecord
<1>4. b \in ProjectRecord
  BY <1>2, <1>3
<1> HIDE DEF b
<1>5. AiResultSaved(r, s, confirmed, changed) = IF s <= 4 THEN NoCode(b) ELSE b
  BY DEF AiResultSaved, b, q
<1> QED
  BY <1>4, <1>5, ResetTypes

LEMMA ConfirmedType ==
  ASSUME NEW r \in ProjectRecord, NEW s \in Interactive
  PROVE  Confirmed(r, s) \in ProjectRecord
<1> DEFINE b == [r EXCEPT !.st[s] = "passed", !.stage = s + 1, !.threads = r.threads \ {s}]
<1>1. r.threads \ {s} \in SUBSET {3, 4} /\ s + 1 \in 2..8
  BY DEF ProjectRecord, Interactive
<1>2. [r.st EXCEPT ![s] = "passed"] \in [Interactive -> Status]
  BY DEF ProjectRecord, Status
<1>3. b \in ProjectRecord
  BY <1>1, <1>2 DEF ProjectRecord
<1> HIDE DEF b
<1>4. r.inRev \in Nat \cup {None} /\ r.subRev \in Nat \cup {None}
  BY DEF ProjectRecord
<1>5. [b EXCEPT !.codeIn = r.inRev, !.codeSub = r.subRev] \in ProjectRecord
  BY <1>3, <1>4 DEF ProjectRecord
<1> QED
  BY <1>3, <1>5 DEF Confirmed, b

LEMMA StageFailedType ==
  ASSUME NEW r \in ProjectRecord, NEW s \in Interactive
  PROVE  StageFailed(r, s) \in ProjectRecord
<1> DEFINE q == NotBuilt(InvalidateDownstream(SetStatus(r, s, "failed"), s))
<1>1. q \in ProjectRecord
  BY SetStatusType, InvalidateDownstreamType, ResetTypes DEF Status, Interactive
<1> HIDE DEF q
<1>2. StageFailed(r, s) = IF s <= 4 THEN NoCode(q) ELSE q
  BY DEF StageFailed, q
<1> QED
  BY <1>1, <1>2, ResetTypes

LEMMA BuildTypes ==
  ASSUME NEW r \in ProjectRecord
  PROVE  /\ GenerationComplete(r) \in ProjectRecord
         /\ ValidationComplete(r) \in ProjectRecord
         /\ PipelineFailure(r) \in ProjectRecord
<1>1. /\ {5, 7, 8} \subseteq 2..8
      /\ [r.st EXCEPT ![5] = "draft"] \in [Interactive -> Status]
  BY DEF ProjectRecord, Status, Interactive
<1>2. GenerationComplete(r) \in ProjectRecord /\ ValidationComplete(r) \in ProjectRecord
  BY <1>1 DEF GenerationComplete, ValidationComplete, ProjectRecord
<1>3. [r EXCEPT !.gen = FALSE, !.ready = FALSE, !.stage = 5, !.st[5] = "draft"] \in ProjectRecord
  BY <1>1 DEF ProjectRecord
<1>4. PipelineFailure(r) \in ProjectRecord
  BY <1>3 DEF PipelineFailure, NotBuilt, ProjectRecord
<1> QED
  BY <1>2, <1>4

LEMMA ChecksRecoveredType ==
  ASSUME NEW r \in ProjectRecord
  PROVE  ChecksRecovered(r) \in ProjectRecord
BY DEF ChecksRecovered, Interrupted, ProjectRecord, Status, Interactive

-----------------------------------------------------------------------------
(* The methods of ProjectStorage turn a directory into a directory. *)

LEMMA ContentType ==
  ASSUME NEW d \in Disk, NEW s \in Interactive
  PROVE  Content(d, s) \in Contents \cup {None}
BY DEF Content, Disk, Draft

LEMMA UpstreamType ==
  ASSUME NEW d \in Disk, NEW s \in Interactive
  PROVE  Upstream(d, s) \in Contents \cup {None}
BY ContentType DEF Upstream, Interactive

LEMMA ProjectType ==
  ASSUME NEW d \in Disk, NEW to \in {"working", "release"}
  PROVE  Project(d, to) \in Disk
BY DEF Project, Disk

LEMMA EnsureProjectionType ==
  ASSUME NEW d \in Disk
  PROVE  EnsureProjection(d) \in Disk
BY ProjectType DEF EnsureProjection

LEMMA GeneratedType ==
  ASSUME NEW d \in Disk
  PROVE  Generated(d) \in Contents \cup {None}
BY ContentType DEF Generated, Disk, Draft, Interactive

LEMMA ArtifactsInvalidatedType ==
  ASSUME NEW d \in Disk, NEW s \in 2..5
  PROVE  ArtifactsInvalidated(d, s) \in Disk
<1> DEFINE e == [d EXCEPT !.draft = [t \in Interactive |-> IF t > s THEN None ELSE d.draft[t]],
                          !.release = IF s < 5 THEN None ELSE d.release,
                          !.batch = None, !.data = None]
<1>1. e \in Disk
  BY DEF Disk
<1> HIDE DEF e
<1> QED
  BY <1>1, EnsureProjectionType DEF ArtifactsInvalidated, e

LEMMA DraftSavedType ==
  ASSUME NEW d \in Disk, NEW s \in Interactive, NEW draft \in Draft
  PROVE  DraftSaved(d, s, draft) \in Disk
<1> DEFINE e == [d EXCEPT !.draft[s] = draft]
<1>1. e \in Disk
  BY DEF Disk
<1> HIDE DEF e
<1>2. DraftSaved(d, s, draft) = IF s = 5 THEN Project(e, "working") ELSE e
  BY DEF DraftSaved, e
<1> QED
  BY <1>1, <1>2, ProjectType

LEMMA WorkingDraftClearedType ==
  ASSUME NEW d \in Disk, NEW s \in Interactive
  PROVE  WorkingDraftCleared(d, s) \in Disk
<1> DEFINE e == [d EXCEPT !.draft = [t \in Interactive |-> IF t >= s THEN None ELSE d.draft[t]]]
<1>1. e \in Disk
  BY DEF Disk
<1> HIDE DEF e
<1> QED
  BY <1>1, EnsureProjectionType DEF WorkingDraftCleared, e

LEMMA ReleaseFrozenType ==
  ASSUME NEW d \in Disk
  PROVE  ReleaseFrozen(d) \in Disk
<1> DEFINE e == [d EXCEPT !.release = IF d.release # None /\ d.release.c = d.draft[5].c
                                        THEN d.release ELSE d.draft[5]]
<1>1. d.release \in Draft \cup {None} /\ d.draft[5] \in Draft \cup {None}
  BY DEF Disk, Interactive
<1>2. \A x \in Draft \cup {None} : [d EXCEPT !.release = x] \in Disk
  BY DEF Disk
<1>3. e \in Disk
  BY <1>1, <1>2
<1> HIDE DEF e
<1> QED
  BY <1>3, ProjectType DEF ReleaseFrozen, e

-----------------------------------------------------------------------------
(* The task that holds the lock. *)

Building == {"gencompile", "generating", "valcompile", "solving"}

\* A task that will use a field has set it: what TypeOK needs to be inductive.
TaskSet ==
  /\ op.at = "classify" => op.snap \in ProjectRecord
  /\ op.at \in {"classify", "agent"} => op.ctx \in Context /\ op.s \in Interactive
  /\ op.at \in Building => op.build \in Build
  /\ op.at = "resume" => op.s \in {3, 4}

TypeInv == TypeOK /\ TaskSet

LEMMA IdleType == Idle \in Task /\ Idle.at = "idle"
BY DEF Idle, Task, Phase

LEMMA FinishedType ==
  ASSUME op \in Task
  PROVE  Finished \in Task /\ Finished.at \in {"idle", "loop"}
<1>1. [Idle EXCEPT !.at = "loop", !.auto = TRUE, !.downs = op.downs] \in Task
  BY DEF Idle, Task, Phase
<1> QED
  BY <1>1, IdleType DEF Finished, Idle

LEMMA ContextType ==
  ASSUME TypeOK, NEW s \in Interactive
  PROVE  ContextOf(s) \in Context
BY UpstreamType DEF ContextOf, Context, TypeOK, GlobalInput, ProjectRecord

LEMMA AgentTaskType ==
  ASSUME TypeOK, NEW s \in Interactive, NEW auto \in BOOLEAN
  PROVE  /\ AgentTask(s, auto) \in Task
         /\ AgentTask(s, auto).at = "agent"
         /\ AgentTask(s, auto).s = s
         /\ AgentTask(s, auto).ctx \in Context
<1>1. op.downs \in Nat
  BY DEF TypeOK, Task
<1>2. \A c \in Context :
        [Idle EXCEPT !.at = "agent", !.auto = auto, !.s = s, !.ctx = c, !.downs = op.downs] \in Task
  BY <1>1 DEF Idle, Task, Phase
<1> QED
  BY <1>2, ContextType DEF AgentTask, Idle

LEMMA NewDraftType ==
  ASSUME op.ctx \in Context, NEW s \in Interactive, NEW c \in Contents,
         NEW in \in Nat, NEW sub \in Nat
  PROVE  NewDraft(s, c, in, sub) \in Draft
<1>1. (IF s = 5 THEN in ELSE None) \in Nat \cup {None}
  OBVIOUS
<1>2. (IF s = 5 THEN sub ELSE None) \in Nat \cup {None}
  OBVIOUS
<1> QED
  BY <1>1, <1>2 DEF NewDraft, Draft, Context

LEMMA ResultSavedType ==
  ASSUME TypeOK, op.ctx \in Context, NEW s \in Interactive, NEW c \in Contents
  PROVE  ResultSaved(s, c) \in Disk
<1>1. rec.inRev \in Nat /\ rec.subRev \in Nat /\ disk \in Disk /\ s \in 2..5
  BY DEF TypeOK, ProjectRecord, Interactive
<1>2. DraftSaved(disk, s, NewDraft(s, c, rec.inRev, rec.subRev)) \in Disk
  BY <1>1, NewDraftType, DraftSavedType
<1> QED
  BY <1>1, <1>2, ArtifactsInvalidatedType DEF ResultSaved

LEMMA StampType ==
  ASSUME TypeOK, disk.release # None
  PROVE  CurrentStamp(rec, disk) \in Stamp
BY DEF CurrentStamp, Stamp, TypeOK, ProjectRecord, Disk, Draft

LEMMA BuildTaskType ==
  ASSUME TypeOK, disk.draft[4] # None, NEW at \in Building, NEW man \in Batch
  PROVE  /\ BuildTask(at, man) \in Task
         /\ BuildTask(at, man).at = at
         /\ BuildTask(at, man).build \in Build
<1> DEFINE code == Generated(Project(disk, "release"))
           b == [man |-> man, plan |-> disk.draft[4].c, code |-> code, bin |-> inp.src]
<1>1. code \in Contents \cup {None}
  BY GeneratedType, ProjectType DEF TypeOK
<1> HIDE DEF code
<1>2. disk.draft[4].c \in Contents /\ inp.src \in Sources
  BY DEF TypeOK, Disk, Draft, GlobalInput, Interactive
<1>3. b \in Build
  BY <1>1, <1>2 DEF Build
<1>4. BuildTask(at, man) = [op EXCEPT !.at = at, !.build = b]
  BY DEF BuildTask, code
<1> HIDE DEF b
<1>5. at \in Phase /\ op \in Task
  BY DEF Phase, Building, TypeOK
<1>6. [op EXCEPT !.at = at, !.build = b] \in Task
  BY <1>3, <1>5 DEF Task
<1> QED
  BY <1>3, <1>4, <1>5, <1>6 DEF Task
LEMMA TypeInit == Init => TypeInv
<1> SUFFICES ASSUME Init PROVE TypeInv
  OBVIOUS
<1>1. inp \in GlobalInput /\ op = Idle
  BY DEF Init, GlobalInput
<1>2. rec \in ProjectRecord /\ disk \in Disk
  <2>1. CASE NewProject
    <3>1. [s \in Interactive |-> "draft"] \in [Interactive -> Status]
      BY DEF Status
    <3>2. rec \in ProjectRecord
      BY <2>1, <3>1 DEF NewProject, ProjectRecord
    <3>3. disk \in Disk
      BY <2>1 DEF NewProject, Disk
    <3> QED
      BY <3>2, <3>3
  <2>2. ASSUME NEW c3 \in Contents, NEW c4 \in Contents \ SoundPlans, KeptProject(c3, c4)
        PROVE  rec \in ProjectRecord /\ disk \in Disk
    <3>1. [s \in Interactive |-> IF s < 5 THEN "passed" ELSE "draft"] \in [Interactive -> Status]
      BY DEF Status
    <3>2. rec \in ProjectRecord
      BY <2>2, <3>1 DEF KeptProject, ProjectRecord
    <3>3. PlanDraft(c3, None) \in Draft /\ PlanDraft(c4, c3) \in Draft
      BY <1>1 DEF PlanDraft, Draft, GlobalInput
    <3>4. [s \in Interactive |-> CASE s = 3 -> PlanDraft(c3, None)
                                  [] s = 4 -> PlanDraft(c4, c3)
                                  [] s = 5 -> None] \in [Interactive -> Draft \cup {None}]
      BY <3>3 DEF Interactive
    <3>5. disk \in Disk
      BY <2>2, <3>4 DEF KeptProject, Disk
    <3> QED
      BY <3>2, <3>5
  <2> QED
    BY <2>1, <2>2 DEF Init
<1> QED
  BY <1>1, <1>2, IdleType DEF TypeInv, TypeOK, TaskSet, Building

\* Every task that ends with no stage to come leaves nothing to check of op.
LEMMA TaskEnded ==
  ASSUME TypeOK, op' \in {Idle, Finished}
  PROVE  op' \in Task /\ TaskSet'
<1>1. op' \in Task /\ op'.at \in {"idle", "loop"}
  BY IdleType, FinishedType DEF TypeOK
<1> QED
  BY <1>1 DEF TaskSet, Building

LEMMA ReplaceSolutionType ==
  ASSUME TypeOK, NEW src \in Sources, ReplaceSolution(src)
  PROVE  rec' \in ProjectRecord /\ inp' \in GlobalInput /\ disk' \in Disk
<1>1. inp.rev + 1 \in Nat
  BY DEF TypeOK, GlobalInput
<1> QED
  BY <1>1, SolutionUpdatedType, ArtifactsInvalidatedType
  DEF ReplaceSolution, TypeOK, GlobalInput

LEMMA TypeStep ==
  ASSUME TypeInv, [Next]_vars
  PROVE  TypeInv'
<1> USE DEF TypeInv
<1>0. TypeOK /\ TaskSet /\ rec \in ProjectRecord /\ inp \in GlobalInput /\ disk \in Disk /\ op \in Task
  BY DEF TypeOK
<1>stages. Interactive \subseteq 2..5 /\ 3 \in Interactive /\ 4 \in Interactive /\ 5 \in Interactive
  BY DEF Interactive
<1>1. ASSUME NEW src \in Sources, UpdateSolution(src) PROVE TypeInv'
  BY <1>0, <1>1, ReplaceSolutionType DEF UpdateSolution, TypeOK, TaskSet
<1>2. ASSUME NEW s \in Interactive, NEW c \in Contents, SaveUserDraft(s, c) PROVE TypeInv'
  <2> DEFINE new == [c |-> c, src |-> inp.src, up |-> Upstream(disk, s),
                     inRev |-> IF s = 5 THEN rec.inRev ELSE None,
                     subRev |-> IF s = 5 THEN rec.subRev ELSE None]
  <2>1. /\ (IF s = 5 THEN rec.inRev ELSE None) \in Nat \cup {None}
        /\ (IF s = 5 THEN rec.subRev ELSE None) \in Nat \cup {None}
        /\ inp.src \in Sources
    BY <1>0 DEF ProjectRecord, GlobalInput
  <2>2. new \in Draft
    BY <1>0, <2>1, UpstreamType DEF Draft
  <2>3. /\ rec' = UserDraftSaved(rec, s)
        /\ disk' = ArtifactsInvalidated(DraftSaved(disk, s, new), s)
        /\ inp' = inp /\ op' = op
    BY <1>2 DEF SaveUserDraft
  <2> HIDE DEF new
  <2> QED
    BY <1>0, <1>stages, <2>2, <2>3, UserDraftSavedType, DraftSavedType, ArtifactsInvalidatedType
    DEF TypeOK, TaskSet
<1>3. CASE CompileStart
  <2>1. [Idle EXCEPT !.at = "compile", !.bin = inp.src] \in Task
    BY <1>0 DEF Idle, Task, Phase, GlobalInput
  <2>2. op' \in Task /\ op'.at = "compile"
    BY <1>3, <2>1 DEF CompileStart, Idle
  <2> QED
    BY <1>0, <1>3, <2>2 DEF CompileStart, TypeOK, TaskSet, Building
<1>4. ASSUME NEW ok \in BOOLEAN, CompileReturns(ok) PROVE TypeInv'
  <2>1. rec' \in ProjectRecord /\ disk' \in Disk /\ inp' = inp
    BY <1>0, <1>4, CompiledTypes, ArtifactsInvalidatedType DEF CompileReturns
  <2> QED
    BY <1>0, <1>4, <2>1, TaskEnded DEF CompileReturns, TypeOK
<1>5. ASSUME NEW s \in Interactive, RunStage(s) PROVE TypeInv'
  BY <1>0, <1>5, BeginCheckType, AgentTaskType DEF RunStage, TypeOK, TaskSet, Building
<1>6. ASSUME NEW s \in Interactive, InstructStage(s) PROVE TypeInv'
  <2> DEFINE t == AgentTask(s, FALSE)
  <2>1. t \in Task /\ t.s = s /\ t.ctx \in Context
    BY <1>0, AgentTaskType
  <2> HIDE DEF t
  <2>2. [t EXCEPT !.at = "classify", !.snap = rec] \in Task
    BY <1>0, <2>1 DEF Task, Phase
  <2>3. op' = [t EXCEPT !.at = "classify", !.snap = rec]
    BY <1>6 DEF InstructStage, t
  <2>4. op' \in Task /\ op'.at = "classify" /\ op'.snap = rec /\ op'.s = s /\ op'.ctx \in Context
    BY <2>1, <2>2, <2>3 DEF Task
  <2> QED
    BY <1>0, <1>6, <2>4 DEF InstructStage, TypeOK, TaskSet, Building
<1>7. CASE ClassifyRevise
  <2>1. op' = [op EXCEPT !.at = "agent", !.snap = None] /\ op.at = "classify"
    BY <1>7 DEF ClassifyRevise
  <2>2. op' \in Task
    BY <1>0, <2>1 DEF Task, Phase
  <2>3. op'.at = "agent" /\ op'.ctx = op.ctx /\ op'.s = op.s
    BY <1>0, <2>1 DEF Task
  <2> QED
    BY <1>0, <1>7, <2>1, <2>2, <2>3, BeginCheckType DEF ClassifyRevise, TypeOK, TaskSet, Building
<1>8. CASE ClassifyAnswer
  BY <1>0, <1>8, TaskEnded DEF ClassifyAnswer, TypeOK
<1>9. ASSUME NEW c \in Contents, AgentSavesCandidate(c) PROVE TypeInv'
  <2>1. NewDraft(5, c, op.ctx.in, op.ctx.sub) \in Draft
    BY <1>0, <1>9, <1>stages, NewDraftType DEF AgentSavesCandidate, TaskSet, Context
  <2>2. op' = [op EXCEPT !.cand = c] /\ op.at = "agent"
    BY <1>9 DEF AgentSavesCandidate
  <2>3. op' \in Task /\ op'.at = op.at /\ op'.ctx = op.ctx /\ op'.s = op.s
    BY <1>0, <2>2 DEF Task
  <2> QED
    BY <1>0, <1>9, <1>stages, <2>1, <2>2, <2>3, DraftSavedType
    DEF AgentSavesCandidate, TypeOK, TaskSet, Building
<1>10. CASE AgentClearsDraft
  <2>1. op' = [op EXCEPT !.cand = None] /\ op.at = "agent"
    BY <1>10 DEF AgentClearsDraft
  <2>2. op' \in Task /\ op'.at = op.at /\ op'.ctx = op.ctx /\ op'.s = op.s
    BY <1>0, <2>1 DEF Task
  <2> QED
    BY <1>0, <1>10, <2>1, <2>2, WorkingDraftClearedType
    DEF AgentClearsDraft, TypeOK, TaskSet, Building
<1>11. ASSUME NEW s \in Interactive, NEW c \in Contents, AgentPasses(s, c) PROVE TypeInv'
  <2>1. op.ctx \in Context
    BY <1>0, <1>11 DEF AgentPasses, AgentReturns, TaskSet
  <2> DEFINE r == AiResultSaved(rec, s, TRUE, c # Content(disk, s))
  <2>2. r \in ProjectRecord
    BY <1>0, AiResultSavedType
  <2>3. rec' = [r EXCEPT !.threads = r.threads \cup WaitingThread(s)]
    BY <1>11 DEF AgentPasses
  <2> HIDE DEF r
  <2>4. r.threads \cup WaitingThread(s) \in SUBSET {3, 4}
    BY <2>2 DEF ProjectRecord, WaitingThread
  <2>5. rec' \in ProjectRecord
    BY <2>2, <2>3, <2>4 DEF ProjectRecord
  <2> QED
    BY <1>0, <1>11, <2>1, <2>5, ResultSavedType, TaskEnded DEF AgentPasses, TypeOK
<1>12. ASSUME NEW s \in Interactive, NEW c \in Contents, AgentPassesAuto(s, c) PROVE TypeInv'
  <2>1. op.ctx \in Context
    BY <1>0, <1>12 DEF AgentPassesAuto, AgentReturns, TaskSet
  <2>2. rec' \in ProjectRecord
    BY <1>0, <1>12, AiResultSavedType, ConfirmedType DEF AgentPassesAuto
  <2>3. disk' \in Disk
    BY <1>0, <1>12, <1>stages, <2>1, ResultSavedType, ReleaseFrozenType DEF AgentPassesAuto
  <2> QED
    BY <1>0, <1>12, <2>2, <2>3, TaskEnded DEF AgentPassesAuto, TypeOK
<1>13. ASSUME NEW c \in Contents, AgentRevises(c) PROVE TypeInv'
  <2>1. op.ctx \in Context
    BY <1>0, <1>13 DEF AgentRevises, AgentReturns, TaskSet
  <2>2. rec' \in ProjectRecord
    BY <1>0, <1>13, <1>stages, AiResultSavedType, StageFailedType DEF AgentRevises
  <2> QED
    BY <1>0, <1>13, <1>stages, <2>1, <2>2, ResultSavedType, TaskEnded DEF AgentRevises, TypeOK
<1>14. CASE AgentFails
  <2>1. op.s \in Interactive
    BY <1>0, <1>14 DEF AgentFails, TaskSet
  <2> QED
    BY <1>0, <1>14, <2>1, StageFailedType, TaskEnded DEF AgentFails, TypeOK
<1>15. CASE AgentReroutes
  BY <1>0, <1>15, <1>stages, StageFailedType, TaskEnded DEF AgentReroutes, TypeOK
<1>16. CASE ConfirmCode
  BY <1>0, <1>16, <1>stages, ConfirmedType, ReleaseFrozenType DEF ConfirmCode, TypeOK, TaskSet
<1>17. ASSUME NEW s \in Interactive, ConfirmStart(s) PROVE TypeInv'
  <2>1. [Idle EXCEPT !.at = "resume", !.s = s] \in Task
    BY <1>17 DEF Idle, Task, Phase
  <2>2. op' \in Task /\ op'.at = "resume" /\ op'.s = s /\ s \in {3, 4}
    BY <1>0, <1>17, <2>1 DEF ConfirmStart, Idle, ProjectRecord
  <2> QED
    BY <1>0, <1>17, <2>2 DEF ConfirmStart, TypeOK, TaskSet, Building
<1>18. CASE ConfirmResumed
  BY <1>0, <1>18, <1>stages, ConfirmedType, TaskEnded DEF ConfirmResumed, TypeOK, TaskSet
<1>19. CASE AutoRun
  <2>1. [Idle EXCEPT !.at = "loop", !.auto = TRUE] \in Task
    BY DEF Idle, Task, Phase
  <2>2. op' \in Task /\ op'.at = "loop"
    BY <1>19, <2>1 DEF AutoRun, Idle
  <2>3. rec' \in ProjectRecord /\ disk' \in Disk
    BY <1>0, <1>19, <1>stages, StageFailedType, ArtifactsInvalidatedType DEF AutoRun, Interrupted
  <2> QED
    BY <1>0, <1>19, <2>2, <2>3 DEF AutoRun, TypeOK, TaskSet, Building
<1>20. CASE AutoRepair
  <2>1. op' = [op EXCEPT !.at = "repair", !.bin = inp.src] /\ inp.src \in Sources
    BY <1>0, <1>20 DEF AutoRepair, GlobalInput
  <2>2. op' \in Task /\ op'.at = "repair"
    BY <1>0, <2>1 DEF Task, Phase
  <2> QED
    BY <1>0, <1>20, <2>2 DEF AutoRepair, TypeOK, TaskSet, Building
<1>21. CASE RepairCompiles
  BY <1>0, <1>21, CompiledTypes, TaskEnded DEF RepairCompiles, TypeOK
<1>22. ASSUME NEW src \in Sources, RepairRewrites(src) PROVE TypeInv'
  <2>1. op' = [op EXCEPT !.bin = src, !.fixes = op.fixes + 1] /\ op.at = "repair"
    BY <1>22 DEF RepairRewrites
  <2>2. op.fixes + 1 \in Nat
    BY <1>0 DEF Task
  <2>3. op' \in Task /\ op'.at = "repair"
    BY <1>0, <2>1, <2>2 DEF Task
  <2>4. rec' \in ProjectRecord /\ inp' \in GlobalInput /\ disk' \in Disk
    BY <1>0, <1>22, ReplaceSolutionType DEF RepairRewrites
  <2> QED
    BY <2>3, <2>4 DEF TypeOK, TaskSet, Building
<1>23. ASSUME NEW s \in Interactive, AutoStage(s) PROVE TypeInv'
  BY <1>0, <1>23, BeginCheckType, AgentTaskType DEF AutoStage, TypeOK, TaskSet, Building
<1>24. CASE AutoRefused
  BY <1>0, <1>24, TaskEnded DEF AutoRefused, TypeOK
<1>25. CASE GenerateStart
  <2> DEFINE man == [status |-> "generating", stamp |-> CurrentStamp(rec, disk), listed |-> FALSE]
  <2>1. disk.release # None /\ disk.draft[4] # None
    BY <1>25 DEF GenerateStart, MayGenerate
  <2>2. man \in Batch
    BY <1>0, <2>1, StampType DEF Batch, BatchStatus
  <2>3. /\ disk' = [Project(disk, "release") EXCEPT !.batch = man]
        /\ op' = BuildTask("gencompile", man)
        /\ rec' = rec /\ inp' = inp
    BY <1>25 DEF GenerateStart
  <2> HIDE DEF man
  <2>4. disk' \in Disk
    BY <1>0, <2>2, <2>3 DEF Project, Disk
  <2>5. op' \in Task /\ op'.at = "gencompile" /\ op'.build \in Build
    BY <1>0, <2>1, <2>2, <2>3, BuildTaskType DEF Building
  <2> QED
    BY <1>0, <2>3, <2>4, <2>5 DEF TypeOK, TaskSet, Building
<1>26. CASE GeneratorCompiled
  <2>1. op.build \in Build /\ op.at = "gencompile"
    BY <1>0, <1>26 DEF GeneratorCompiled, TaskSet, Building
  <2> DEFINE data == [code |-> op.build.code, plan |-> op.build.plan, whole |-> FALSE, outs |-> None]
  <2>2. data \in Data
    BY <2>1 DEF Data, Build
  <2>3. disk' = [disk EXCEPT !.data = data] /\ op' = [op EXCEPT !.at = "generating"]
    BY <1>26 DEF GeneratorCompiled
  <2> HIDE DEF data
  <2>4. disk' \in Disk
    BY <1>0, <2>2, <2>3 DEF Disk
  <2>5. op' \in Task /\ op'.at = "generating" /\ op'.build = op.build
    BY <1>0, <2>3 DEF Task, Phase
  <2> QED
    BY <1>0, <1>26, <2>1, <2>4, <2>5 DEF GeneratorCompiled, TypeOK, TaskSet, Building
<1>27. ASSUME NEW w \in BOOLEAN, GenerateEnds(w) PROVE TypeInv'
  <2>1. op.build \in Build
    BY <1>0, <1>27 DEF GenerateEnds, TaskSet, Building
  <2> DEFINE man == [op.build.man EXCEPT !.status = "generated", !.listed = TRUE]
             data == [code |-> op.build.code, plan |-> op.build.plan, whole |-> w, outs |-> None]
  <2>2. man \in Batch /\ data \in Data
    BY <2>1 DEF Build, Batch, BatchStatus, Data
  <2>3. disk' = [disk EXCEPT !.batch = man, !.data = data]
    BY <1>27 DEF GenerateEnds
  <2> HIDE DEF man, data
  <2>4. disk' \in Disk
    BY <1>0, <2>2, <2>3 DEF Disk
  <2> QED
    BY <1>0, <1>27, <2>4, BuildTypes, TaskEnded DEF GenerateEnds, TypeOK
<1>28. CASE ValidateStart
  <2> DEFINE man == [disk.batch EXCEPT !.status = "validating"]
  <2>1. disk.batch # None /\ disk.draft[4] # None
    BY <1>28 DEF ValidateStart, MayValidate
  <2>2. man \in Batch
    BY <1>0, <2>1 DEF Disk, Batch, BatchStatus
  <2>3. /\ disk' = [Project(disk, "release") EXCEPT !.batch = man]
        /\ op' = BuildTask("valcompile", man)
        /\ rec' = rec /\ inp' = inp
    BY <1>28 DEF ValidateStart
  <2> HIDE DEF man
  <2>4. disk' \in Disk
    BY <1>0, <2>2, <2>3 DEF Project, Disk
  <2>5. op' \in Task /\ op'.at = "valcompile" /\ op'.build \in Build
    BY <1>0, <2>1, <2>2, <2>3, BuildTaskType DEF Building
  <2> QED
    BY <1>0, <2>3, <2>4, <2>5 DEF TypeOK, TaskSet, Building
<1>29. CASE SolutionCompiled
  <2>1. op.build \in Build /\ op' = [op EXCEPT !.at = "solving"]
    BY <1>0, <1>29 DEF SolutionCompiled, TaskSet, Building
  <2>2. op' \in Task /\ op'.at = "solving" /\ op'.build = op.build
    BY <1>0, <2>1 DEF Task, Phase
  <2> QED
    BY <1>0, <1>29, <2>1, <2>2 DEF SolutionCompiled, TypeOK, TaskSet, Building
<1>30. CASE ValidateEnds
  <2>1. op.build \in Build
    BY <1>0, <1>30 DEF ValidateEnds, TaskSet, Building
  <2> DEFINE man == [op.build.man EXCEPT !.status = "completed"]
             data == IF disk.data = None THEN None ELSE [disk.data EXCEPT !.outs = op.build.bin]
  <2>2. man \in Batch
    BY <2>1 DEF Build, Batch, BatchStatus
  <2>3. data \in Data \cup {None}
    BY <1>0, <2>1 DEF Build, Data, Disk
  <2>4. disk' = [disk EXCEPT !.batch = man, !.data = data]
    BY <1>30 DEF ValidateEnds
  <2> HIDE DEF man, data
  <2>5. disk' \in Disk
    BY <1>0, <2>2, <2>3, <2>4 DEF Disk
  <2> QED
    BY <1>0, <1>30, <2>5, BuildTypes, TaskEnded DEF ValidateEnds, TypeOK
<1>31. CASE BuildFails
  <2> DEFINE man == IF disk.batch = None THEN None ELSE [disk.batch EXCEPT !.status = "failed"]
  <2>1. man \in Batch \cup {None}
    BY <1>0 DEF Disk, Batch, BatchStatus
  <2>2. disk' = [Project(disk, "release") EXCEPT !.batch = man]
    BY <1>31 DEF BuildFails
  <2> HIDE DEF man
  <2>3. disk' \in Disk
    BY <1>0, <2>1, <2>2 DEF Project, Disk
  <2>4. op.downs + 1 \in Nat /\ Finished \in Task /\ Finished.at \in {"idle", "loop"}
    BY <1>0, FinishedType DEF Task
  <2>5. /\ [Finished EXCEPT !.downs = op.downs + 1] \in Task
        /\ [Finished EXCEPT !.downs = op.downs + 1].at \in {"idle", "loop"}
    BY <2>4 DEF Task
  <2>6. op' \in Task /\ op'.at \in {"idle", "loop"}
    BY <1>31, <2>5, IdleType DEF BuildFails
  <2> QED
    BY <1>0, <1>31, <2>3, <2>6, BuildTypes DEF BuildFails, TypeOK, TaskSet, Building
<1>32. CASE Export
  BY <1>0, <1>32, ProjectType, TaskEnded DEF Export, TypeOK
<1>33. CASE TaskStops
  BY <1>0, <1>33, TaskEnded DEF TaskStops, TypeOK
<1>34. CASE Cancel
  BY <1>0, <1>34, TaskEnded DEF Cancel, TypeOK
<1>35. CASE Restart
  BY <1>0, <1>35, ChecksRecoveredType, TaskEnded DEF Restart, TypeOK
<1>36. CASE UNCHANGED vars
  BY <1>0, <1>36 DEF vars, TypeOK, TaskSet
<1> QED
  BY <1>1, <1>2, <1>3, <1>4, <1>5, <1>6, <1>7, <1>8, <1>9, <1>10, <1>11, <1>12, <1>13, <1>14,
     <1>15, <1>16, <1>17, <1>18, <1>19, <1>20, <1>21, <1>22, <1>23, <1>24, <1>25, <1>26, <1>27,
     <1>28, <1>29, <1>30, <1>31, <1>32, <1>33, <1>34, <1>35, <1>36
  DEF Next, Request, Progress, Working, AgentEnds

\* Whatever the instance and whoever edits what, the record, the directory and
\* the running task stay within their types.
THEOREM TypeCorrect == Spec => []TypeOK
<1>1. TypeInv => TypeOK
  BY DEF TypeInv
<1> QED
  BY TypeInit, TypeStep, <1>1, PTL DEF Spec

-----------------------------------------------------------------------------
(* Who may touch the released snapshot. *)

LEMMA ReleaseOfOperations ==
  ASSUME NEW d \in Disk, NEW s \in 2..5
  PROVE  /\ \A to \in {"working", "release"} : Project(d, to).release = d.release
         /\ EnsureProjection(d).release = d.release
         /\ ArtifactsInvalidated(d, s).release = IF s < 5 THEN None ELSE d.release
         /\ WorkingDraftCleared(d, s).release = d.release
<1>1. \A to \in {"working", "release"} : Project(d, to).release = d.release
  BY DEF Project, Disk
<1>2. EnsureProjection(d).release = d.release
  BY <1>1 DEF EnsureProjection
<1>3. ArtifactsInvalidated(d, s).release = IF s < 5 THEN None ELSE d.release
  BY DEF ArtifactsInvalidated, EnsureProjection, Project, Disk
<1>4. WorkingDraftCleared(d, s).release = d.release
  BY DEF WorkingDraftCleared, EnsureProjection, Project, Disk
<1> QED
  BY <1>1, <1>2, <1>3, <1>4

LEMMA DraftSavedKeeps ==
  ASSUME NEW d \in Disk, NEW s \in Interactive, NEW draft \in Draft
  PROVE  /\ DraftSaved(d, s, draft).release = d.release
         /\ DraftSaved(d, s, draft).draft[s] = draft
BY DEF DraftSaved, Project, Disk

LEMMA ReplaceSolutionRelease ==
  ASSUME TypeOK, NEW src \in Sources, ReplaceSolution(src)
  PROVE  disk'.release = None /\ rec'.stage = 2
<1>1. disk'.release = None
  BY ReleaseOfOperations DEF ReplaceSolution, TypeOK
<1>2. SolutionUpdated(rec, inp.rev + 1).stage = 2
  BY DEF SolutionUpdated, NoCode, NotBuilt, InvalidateDownstream, TypeOK, ProjectRecord
<1> QED
  BY <1>1, <1>2 DEF ReplaceSolution

\* Saving a stage's result: the release goes with a changed plan or input
\* requirement, and what was saved is the stage's draft now.
LEMMA ResultSavedRelease ==
  ASSUME TypeOK, op.ctx \in Context, NEW s \in Interactive, NEW c \in Contents
  PROVE  /\ ResultSaved(s, c).release = IF s < 5 /\ c # Content(disk, s) THEN None ELSE disk.release
         /\ Content(ResultSaved(s, c), s) = c
         /\ ResultSaved(s, c).draft[s] # None /\ ResultSaved(s, c).draft[s].c = c
<1> DEFINE n == NewDraft(s, c, rec.inRev, rec.subRev)
           saved == DraftSaved(disk, s, n)
<1>1. n \in Draft /\ n.c = c /\ n # None /\ disk \in Disk /\ s \in 2..5
  <2>1. n \in Draft
    BY NewDraftType DEF TypeOK, ProjectRecord
  <2>2. n.c = c
    BY DEF NewDraft
  <2>3. n # None
    BY <2>1, NoneAssumption
  <2> QED
    BY <2>1, <2>2, <2>3 DEF TypeOK, Interactive
<1> HIDE DEF n
<1>2. saved \in Disk /\ saved.release = disk.release /\ saved.draft[s] = n
  BY <1>1, DraftSavedType, DraftSavedKeeps
<1> HIDE DEF saved
<1>3. ResultSaved(s, c) = IF c # Content(disk, s) THEN ArtifactsInvalidated(saved, s) ELSE saved
  BY DEF ResultSaved, saved, n
<1>4. ArtifactsInvalidated(saved, s).draft[s] = n
  BY <1>1, <1>2 DEF ArtifactsInvalidated, EnsureProjection, Project, Disk
<1>5. ArtifactsInvalidated(saved, s).release = IF s < 5 THEN None ELSE disk.release
  BY <1>1, <1>2, ReleaseOfOperations
<1>6. ResultSaved(s, c).draft[s] = n
  BY <1>2, <1>3, <1>4
<1>7. ResultSaved(s, c).release = IF s < 5 /\ c # Content(disk, s) THEN None ELSE disk.release
  BY <1>2, <1>3, <1>5
<1> QED
  BY <1>1, <1>6, <1>7 DEF Content

LEMMA ReleaseFrozenFits ==
  ASSUME NEW d \in Disk, d.draft[5] # None
  PROVE  /\ ReleaseFrozen(d).release # None
         /\ ReleaseFrozen(d).release.c = Content(ReleaseFrozen(d), 5)
<1> DEFINE x == IF d.release # None /\ d.release.c = d.draft[5].c THEN d.release ELSE d.draft[5]
           e == [d EXCEPT !.release = x]
<1>1. x # None /\ x.c = d.draft[5].c
  OBVIOUS
<1> HIDE DEF x
<1>2. ReleaseFrozen(d) = Project(e, "release")
  BY DEF ReleaseFrozen, x
<1>3. Project(e, "release").release = x /\ Project(e, "release").draft = d.draft
  BY DEF Project, Disk
<1> QED
  BY <1>1, <1>2, <1>3 DEF Content

LEMMA ReleaseStepHolds ==
  ASSUME TypeInv, [Next]_vars
  PROVE  ReleaseStep
<1>0. TypeOK /\ TaskSet /\ rec \in ProjectRecord /\ disk \in Disk /\ 2 \in 2..5 /\ 5 \in Interactive
  BY DEF TypeInv, TypeOK, Interactive
<1>kept. disk'.release = disk.release => ReleaseStep
  BY DEF ReleaseStep
<1>1. ASSUME NEW src \in Sources, ReplaceSolution(src) PROVE ReleaseStep
  BY <1>0, <1>1, ReplaceSolutionRelease DEF ReleaseStep
<1>2. ASSUME NEW s \in Interactive, NEW c \in Contents, SaveUserDraft(s, c) PROVE ReleaseStep
  <2> DEFINE new == [c |-> c, src |-> inp.src, up |-> Upstream(disk, s),
                     inRev |-> IF s = 5 THEN rec.inRev ELSE None,
                     subRev |-> IF s = 5 THEN rec.subRev ELSE None]
             e == DraftSaved(disk, s, new)
  <2>1. new \in Draft
    <3>1. /\ (IF s = 5 THEN rec.inRev ELSE None) \in Nat \cup {None}
          /\ (IF s = 5 THEN rec.subRev ELSE None) \in Nat \cup {None}
          /\ inp.src \in Sources
      BY <1>0 DEF TypeOK, ProjectRecord, GlobalInput
    <3> QED
      BY <1>0, <3>1, UpstreamType DEF Draft
  <2>2. disk' = ArtifactsInvalidated(e, s) /\ rec' = UserDraftSaved(rec, s)
    BY <1>2 DEF SaveUserDraft
  <2> HIDE DEF new
  <2>3. e \in Disk /\ e.release = disk.release /\ s \in 2..5
    BY <1>0, <2>1, DraftSavedType, DraftSavedKeeps, SMTT(30) DEF Interactive
  <2> HIDE DEF e
  <2>4. disk'.release = IF s < 5 THEN None ELSE disk.release
    BY <2>2, <2>3, ReleaseOfOperations
  <2>5. UserDraftSaved(rec, s).stage = s
    BY <1>0 DEF UserDraftSaved, NoCode, NotBuilt, InvalidateDownstream, SetStatus, ProjectRecord
  <2> QED
    BY <2>2, <2>4, <2>5 DEF ReleaseStep
<1>3. ASSUME NEW ok \in BOOLEAN, CompileReturns(ok) PROVE ReleaseStep
  <2>1. CASE ~ok /\ ResetsOnReject(rec)
    <3>1. disk'.release = None
      BY <1>0, <1>3, <2>1, ReleaseOfOperations DEF CompileReturns
    <3>2. CompileRejected(rec).stage = 2
      BY <1>0 DEF CompileRejected, NoCode, NotBuilt, InvalidateDownstream, ProjectRecord
    <3> QED
      BY <1>3, <2>1, <3>1, <3>2 DEF CompileReturns, ReleaseStep
  <2>2. CASE ~(~ok /\ ResetsOnReject(rec))
    BY <1>3, <2>2, <1>kept DEF CompileReturns
  <2> QED
    BY <2>1, <2>2
<1>4. ASSUME NEW s \in Interactive, NEW c \in Contents,
             AgentReturns(s, c), disk' = ResultSaved(s, c),
             s < 5 => rec'.stage < 5 \/ s = 4
      PROVE  ReleaseStep
  <2>1. op.ctx \in Context
    BY <1>0, <1>4 DEF AgentReturns, TaskSet
  <2> QED
    BY <1>0, <1>4, <2>1, ResultSavedRelease DEF ReleaseStep, Interactive
<1>5. ASSUME NEW s \in Interactive, NEW c \in Contents, AgentPasses(s, c) PROVE ReleaseStep
  <2> DEFINE r == AiResultSaved(rec, s, TRUE, c # Content(disk, s))
  <2>1. r.stage = s /\ r \in ProjectRecord
    <3>1. r.stage = s
      BY <1>0 DEF AiResultSaved, NoCode, InvalidateDownstream, SetStatus, ProjectRecord
    <3> QED
      BY <1>0, <3>1, AiResultSavedType
  <2>2. rec' = [r EXCEPT !.threads = r.threads \cup WaitingThread(s)]
    BY <1>5 DEF AgentPasses
  <2> HIDE DEF r
  <2>3. rec'.stage = s
    BY <2>1, <2>2 DEF ProjectRecord
  <2> QED
    BY <1>4, <1>5, <2>3 DEF AgentPasses
<1>6. ASSUME NEW s \in Interactive, NEW c \in Contents, AgentPassesAuto(s, c) PROVE ReleaseStep
  <2> DEFINE r == AiResultSaved(rec, s, TRUE, c # Content(disk, s))
  <2>1. r \in ProjectRecord /\ rec' = Confirmed(r, s)
    BY <1>0, <1>6, AiResultSavedType DEF AgentPassesAuto
  <2> HIDE DEF r
  <2>2. rec'.stage = s + 1 /\ rec'.st[s] = "passed"
    BY <2>1 DEF Confirmed, ProjectRecord
  <2>3. CASE s < 5
    <3>1. rec'.stage < 5 \/ s = 4
      BY <2>2, <2>3 DEF Interactive
    <3>2. AgentReturns(s, c) /\ disk' = ResultSaved(s, c)
      BY <1>6, <2>3 DEF AgentPassesAuto
    <3> QED
      BY <1>4, <3>1, <3>2
  <2>4. CASE s = 5
    <3>1. op.ctx \in Context
      BY <1>0, <1>6 DEF AgentPassesAuto, AgentReturns, TaskSet
    <3>2. /\ ResultSaved(5, c) \in Disk /\ ResultSaved(5, c).draft[5] # None
          /\ disk' = ReleaseFrozen(ResultSaved(5, c))
      BY <1>0, <1>6, <2>4, <3>1, ResultSavedType, ResultSavedRelease DEF AgentPassesAuto
    <3>3. disk'.release # None /\ disk'.release.c = Content(disk', 5)
      BY <3>2, ReleaseFrozenFits
    <3>4. rec'.st[5] = "passed"
      BY <2>2, <2>4
    <3> QED
      BY <3>3, <3>4 DEF ReleaseStep
  <2> QED
    BY <2>3, <2>4 DEF Interactive
<1>7. ASSUME NEW c \in Contents, AgentRevises(c) PROVE ReleaseStep
  <2>1. AgentReturns(5, c) /\ disk' = ResultSaved(5, c) /\ ~(5 < 5)
    BY <1>7 DEF AgentRevises
  <2> QED
    BY <1>0, <1>4, <2>1
<1>8. CASE ConfirmCode
  <2>1. disk.draft[5] # None /\ disk' = ReleaseFrozen(disk) /\ rec' = Confirmed(rec, 5)
    BY <1>8 DEF ConfirmCode, MayFreeze
  <2>2. Confirmed(rec, 5).st[5] = "passed"
    BY <1>0 DEF Confirmed, ProjectRecord
  <2> QED
    BY <1>0, <2>1, <2>2, ReleaseFrozenFits DEF ReleaseStep
<1>9. CASE AutoRun
  <2>1. CASE disk' = disk
    BY <2>1, <1>kept
  <2>2. ASSUME NEW s \in Interactive, rec' = StageFailed(rec, s), disk' = ArtifactsInvalidated(disk, s)
        PROVE  ReleaseStep
    <3>1. StageFailed(rec, s).stage = s
      BY <1>0 DEF StageFailed, NoCode, NotBuilt, InvalidateDownstream, SetStatus, ProjectRecord
    <3>2. s \in 2..5
      BY DEF Interactive
    <3>3. disk'.release = IF s < 5 THEN None ELSE disk.release
      BY <1>0, <2>2, <3>2, ReleaseOfOperations
    <3> QED
      BY <2>2, <3>1, <3>3 DEF ReleaseStep
  <2> QED
    BY <1>9, <2>1, <2>2 DEF AutoRun, Interrupted
<1>10. ASSUME NEW c \in Contents, AgentSavesCandidate(c) PROVE ReleaseStep
  <2>1. NewDraft(5, c, op.ctx.in, op.ctx.sub) \in Draft
    BY <1>0, <1>10, NewDraftType DEF AgentSavesCandidate, TaskSet, Context
  <2> QED
    BY <1>0, <1>10, <2>1, <1>kept, DraftSavedKeeps DEF AgentSavesCandidate
<1>11. CASE AgentClearsDraft
  <2>1. op.s \in 2..5
    BY <1>0, <1>11 DEF AgentClearsDraft, TaskSet, Interactive
  <2> QED
    BY <1>0, <1>11, <2>1, <1>kept, ReleaseOfOperations DEF AgentClearsDraft
<1>12. ASSUME NEW src \in Sources, UpdateSolution(src) PROVE ReleaseStep
  BY <1>1, <1>12 DEF UpdateSolution
<1>13. ASSUME NEW src \in Sources, RepairRewrites(src) PROVE ReleaseStep
  BY <1>1, <1>13, <1>kept DEF RepairRewrites
<1>14. CASE \/ GenerateStart \/ ValidateStart \/ BuildFails \/ Export
            \/ GeneratorCompiled \/ ValidateEnds \/ \E w \in BOOLEAN : GenerateEnds(w)
  <2>1. Project(disk, "release").release = disk.release /\ Project(disk, "release") \in Disk
    BY <1>0, ReleaseOfOperations, ProjectType
  <2>2. disk'.release = disk.release
    BY <1>0, <1>14, <2>1
    DEF GenerateStart, ValidateStart, BuildFails, Export, GeneratorCompiled, ValidateEnds,
        GenerateEnds, Disk
  <2> QED
    BY <2>2, <1>kept
<1>15. CASE UNCHANGED disk
  BY <1>15, <1>kept
<1> QED
  <2>1. CASE UNCHANGED vars
    BY <2>1, <1>15 DEF vars
  <2>2. CASE Request
    BY <2>2, <1>2, <1>8, <1>9, <1>12, <1>14, <1>15
    DEF Request, CompileStart, RunStage, InstructStage, ConfirmStart
  <2>3. CASE Progress
    BY <2>3, <1>3, <1>5, <1>6, <1>7, <1>13, <1>14, <1>15
    DEF Progress, AgentEnds, ClassifyRevise, ClassifyAnswer, AgentFails, AgentReroutes,
        ConfirmResumed, AutoRepair, RepairCompiles, AutoStage, AutoRefused, SolutionCompiled,
        TaskStops
  <2>4. CASE Working \/ Cancel \/ Restart
    BY <2>4, <1>10, <1>11, <1>15 DEF Working, Cancel, Restart
  <2> QED
    BY <2>1, <2>2, <2>3, <2>4 DEF Next

\* No failure, rerun, cancellation or restart of stages 5 to 7, and no edit of
\* the solution in their midst, loses a released snapshot: it is only replaced by
\* a newly confirmed one or removed when the workflow goes back before stage 5.
THEOREM ReleaseSurvives == Spec => ReleaseKept
<1>1. TypeInv /\ [Next]_vars => [ReleaseStep]_vars
  BY ReleaseStepHolds
<1> QED
  BY TypeInit, TypeStep, <1>1, PTL DEF Spec, ReleaseKept

-----------------------------------------------------------------------------
(* When nobody replaces the solution while a task waits, the stages of a  *)
(* project stay in order and its revisions only grow.                      *)


\* q is r after an operation that leaves the input alone.
Follows(q, r) == q.inRev = r.inRev /\ q.subRev >= r.subRev /\ q.wfRev >= r.wfRev

LEMMA SolutionUpdatedOrdered ==
  ASSUME NEW r \in ProjectRecord, NEW rev \in Nat
  PROVE  /\ Ordered(SolutionUpdated(r, rev))
         /\ SolutionUpdated(r, rev).inRev = rev
         /\ SolutionUpdated(r, rev).subRev = r.subRev
         /\ SolutionUpdated(r, rev).wfRev = r.wfRev + 1
BY DEF SolutionUpdated, InvalidateDownstream, NotBuilt, NoCode, ProjectRecord, Ordered, Interactive

LEMMA CompileOrdered ==
  ASSUME NEW r \in ProjectRecord, Ordered(r)
  PROVE  /\ Ordered(CompileAccepted(r)) /\ Follows(CompileAccepted(r), r)
         /\ Ordered(CompileRejected(r)) /\ Follows(CompileRejected(r), r)
BY DEF CompileAccepted, CompileRejected, ResetsOnReject, InvalidateDownstream, NotBuilt, NoCode,
       ProjectRecord, Ordered, Follows, Interactive

LEMMA UserDraftSavedOrdered ==
  ASSUME NEW r \in ProjectRecord, NEW s \in Interactive, Ordered(r), s <= r.stage
  PROVE  Ordered(UserDraftSaved(r, s)) /\ Follows(UserDraftSaved(r, s), r)
BY DEF UserDraftSaved, SetStatus, InvalidateDownstream, NotBuilt, NoCode,
       ProjectRecord, Ordered, Follows, Interactive

LEMMA BeginCheckOrdered ==
  ASSUME NEW r \in ProjectRecord, NEW s \in Interactive, Ordered(r), s = r.stage
  PROVE  /\ Ordered(BeginCheck(r, s)) /\ Follows(BeginCheck(r, s), r)
         /\ BeginCheck(r, s).stage = s
BY DEF BeginCheck, ProjectRecord, Ordered, Follows, Interactive

LEMMA ConfirmedOrdered ==
  ASSUME NEW r \in ProjectRecord, NEW s \in Interactive, Ordered(r), s = r.stage
  PROVE  Ordered(Confirmed(r, s)) /\ Follows(Confirmed(r, s), r)
BY DEF Confirmed, ProjectRecord, Ordered, Follows, Interactive

\* In order but for the thread that a manual run registers next.
NearlyOrdered(r, s) ==
  /\ r.stage = s /\ r.compiled /\ ~r.gen /\ ~r.ready /\ r.threads = {}
  /\ r.st[s] \in {"waiting_user", "draft"}
  /\ \A t \in Interactive : (t < s => r.st[t] = "passed") /\ (t > s => r.st[t] = "draft")

LEMMA AiResultSavedOrdered ==
  ASSUME NEW r \in ProjectRecord, NEW s \in Interactive, Ordered(r), s = r.stage,
         NEW confirmed \in BOOLEAN, NEW changed \in BOOLEAN
  PROVE  LET q == AiResultSaved(r, s, confirmed, changed)
         IN  NearlyOrdered(q, s) /\ Follows(q, r)
             /\ (q.st[s] = "waiting_user" <=> confirmed)
<1> DEFINE q == AiResultSaved(r, s, confirmed, changed)
<1>1. Follows(q, r) /\ q.stage = s /\ q.compiled /\ ~q.gen /\ ~q.ready
  BY DEF AiResultSaved, SetStatus, InvalidateDownstream, NoCode,
         ProjectRecord, Ordered, Follows, Interactive
<1>2. q.threads = {}
  <2>1. q.threads = {t \in r.threads \ {s} : t <= s}
    BY DEF AiResultSaved, SetStatus, InvalidateDownstream, NoCode, ProjectRecord, Interactive
  <2>2. \A t \in r.threads : t = s
    BY DEF ProjectRecord, Ordered, Interactive
  <2> QED
    BY <2>1, <2>2
<1>3. /\ q.st[s] = IF confirmed THEN "waiting_user" ELSE "draft"
      /\ \A t \in Interactive : (t < s => q.st[t] = "passed") /\ (t > s => q.st[t] = "draft")
  BY DEF AiResultSaved, SetStatus, InvalidateDownstream, NoCode, ProjectRecord, Ordered, Interactive
<1> QED
  BY <1>1, <1>2, <1>3 DEF NearlyOrdered

\* The three ways on from there: wait, confirm at once, leave it to be revised.
LEMMA NearlyOrderedGoesOn ==
  ASSUME NEW r \in ProjectRecord, NEW s \in Interactive, NearlyOrdered(r, s)
  PROVE  /\ r.st[s] = "waiting_user" =>
              Ordered([r EXCEPT !.threads = r.threads \cup WaitingThread(s)])
         /\ Ordered(Confirmed(r, s)) /\ Follows(Confirmed(r, s), r)
         /\ s = 5 => Ordered(r)
<1>1. ASSUME r.st[s] = "waiting_user"
      PROVE  Ordered([r EXCEPT !.threads = r.threads \cup WaitingThread(s)])
  <2> DEFINE q == [r EXCEPT !.threads = r.threads \cup WaitingThread(s)]
  <2>1. /\ q.threads = {s} \cap {3, 4}
        /\ q.stage = r.stage /\ q.compiled = r.compiled /\ q.gen = r.gen /\ q.ready = r.ready
        /\ q.st = r.st
    BY DEF NearlyOrdered, WaitingThread, ProjectRecord
  <2> HIDE DEF q
  <2>2. ASSUME NEW t \in {3, 4} PROVE t \in q.threads <=> q.st[t] = "waiting_user"
    <3>1. t \in q.threads <=> t = s
      BY <2>1
    <3>2. t # s => q.st[t] \in {"passed", "draft"}
      BY <2>1 DEF NearlyOrdered, Interactive
    <3> QED
      BY <1>1, <2>1, <3>1, <3>2
  <2>3. \A t \in Interactive : (t < q.stage <=> q.st[t] = "passed") /\ (t > q.stage => q.st[t] = "draft")
    BY <1>1, <2>1 DEF NearlyOrdered, Interactive
  <2>4. /\ q.compiled <=> q.stage >= 3
        /\ q.gen <=> q.stage >= 7
        /\ q.ready <=> q.stage = 8
    BY <2>1 DEF NearlyOrdered, Interactive, ProjectRecord
  <2> QED
    BY <2>2, <2>3, <2>4 DEF q, Ordered
<1>2. Ordered(Confirmed(r, s)) /\ Follows(Confirmed(r, s), r)
  BY DEF NearlyOrdered, Confirmed, ProjectRecord, Ordered, Follows, Interactive
<1>3. s = 5 => Ordered(r)
  BY DEF NearlyOrdered, Ordered, ProjectRecord, Interactive
<1> QED
  BY <1>1, <1>2, <1>3

LEMMA StageFailedOrdered ==
  ASSUME NEW r \in ProjectRecord, NEW s \in Interactive, Ordered(r), s <= r.stage
  PROVE  /\ Ordered(StageFailed(r, s)) /\ Follows(StageFailed(r, s), r)
         /\ StageFailed(r, s).stage = s
BY DEF StageFailed, SetStatus, InvalidateDownstream, NotBuilt, NoCode,
       ProjectRecord, Ordered, Follows, Interactive

LEMMA BuildOrdered ==
  ASSUME NEW r \in ProjectRecord, Ordered(r), r.stage >= 6
  PROVE  /\ Ordered(GenerationComplete(r)) /\ Follows(GenerationComplete(r), r)
         /\ Ordered(PipelineFailure(r)) /\ Follows(PipelineFailure(r), r)
         /\ r.stage >= 7 => Ordered(ValidationComplete(r)) /\ Follows(ValidationComplete(r), r)
BY DEF GenerationComplete, PipelineFailure, ValidationComplete, NotBuilt,
       ProjectRecord, Ordered, Follows, Interactive

LEMMA ChecksRecoveredOrdered ==
  ASSUME NEW r \in ProjectRecord, Ordered(r)
  PROVE  Ordered(ChecksRecovered(r)) /\ Follows(ChecksRecovered(r), r)
BY DEF ChecksRecovered, Interrupted, ProjectRecord, Ordered, Follows, Interactive
-----------------------------------------------------------------------------
(* The inductive invariant *)

\* A task still finds the record the way it left it: what nobody may change
\* under its feet.
TaskFits ==
  /\ op.at = "classify" => op.snap = rec /\ op.s = rec.stage /\ rec.compiled
  /\ op.at = "agent" => op.s = rec.stage
  /\ op.at \in {"gencompile", "generating"} => rec.stage >= 6
  /\ op.at \in {"valcompile", "solving"} => rec.stage >= 7

StageInv == TypeInv /\ StageOrder /\ TaskFits

LEMMA StageInit == Init => StageInv
<1> SUFFICES ASSUME Init PROVE StageOrder /\ TaskFits
  BY TypeInit DEF StageInv
<1>1. inp.rev = 1 /\ op.at = "idle"
  BY DEF Init, Idle
<1>2. CASE NewProject
  BY <1>1, <1>2 DEF NewProject, StageOrder, Ordered, TaskFits, Interactive
<1>3. ASSUME NEW c3 \in Contents, NEW c4 \in Contents \ SoundPlans, KeptProject(c3, c4)
      PROVE  StageOrder /\ TaskFits
  BY <1>1, <1>3 DEF KeptProject, StageOrder, Ordered, TaskFits, Interactive
<1> QED
  BY <1>2, <1>3 DEF Init

\* A task that ends, and a record that follows the one it found.
LEMMA EndsOrdered ==
  ASSUME TypeOK, StageOrder, inp' = inp, Ordered(rec'), Follows(rec', rec),
         op'.at \in {"idle", "loop", "compile", "resume", "repair"}
  PROVE  StageOrder' /\ TaskFits' /\ Grow
<1>1. StageOrder'
  BY DEF StageOrder, Ordered, Follows
<1>2. TaskFits'
  BY DEF TaskFits
<1>3. rec.inRev \in Nat
  BY DEF TypeOK, ProjectRecord
<1> QED
  BY <1>1, <1>2, <1>3 DEF Grow, Follows

LEMMA ReplaceSolutionOrdered ==
  ASSUME TypeOK, StageOrder, NEW src \in Sources, ReplaceSolution(src),
         op'.at \in {"idle", "repair"}
  PROVE  StageOrder' /\ TaskFits' /\ Grow
<1>1. rec \in ProjectRecord /\ inp.rev + 1 \in Nat /\ rec.inRev = inp.rev
  BY DEF TypeOK, GlobalInput, StageOrder
<1>2. rec' = SolutionUpdated(rec, inp.rev + 1) /\ inp'.rev = inp.rev + 1
  BY DEF ReplaceSolution
<1>3. rec.wfRev \in Nat /\ rec.subRev \in Nat
  BY <1>1 DEF ProjectRecord
<1>4. Ordered(rec') /\ rec'.inRev = inp'.rev /\ rec'.subRev = rec.subRev /\ rec'.wfRev = rec.wfRev + 1
  BY <1>1, <1>2, SolutionUpdatedOrdered
<1>5. StageOrder'
  BY <1>4 DEF StageOrder, Ordered
<1>6. inp.rev \in Nat
  BY DEF TypeOK, GlobalInput
<1>7. Grow
  BY <1>1, <1>2, <1>3, <1>4, <1>6 DEF Grow
<1>8. TaskFits'
  BY DEF TaskFits
<1> QED
  BY <1>5, <1>7, <1>8

\* A step of a task that goes on, with the record as it was.
LEMMA RecordKept ==
  ASSUME TypeOK, StageOrder, UNCHANGED <<rec, inp>>
  PROVE  StageOrder' /\ Ordered(rec') /\ Follows(rec', rec) /\ Grow
<1>1. rec.inRev \in Nat /\ rec.subRev \in Nat /\ rec.wfRev \in Nat
  BY DEF TypeOK, ProjectRecord
<1> QED
  BY <1>1 DEF StageOrder, Ordered, Follows, Grow

\* A stage that goes into checking.
LEMMA CheckBegun ==
  ASSUME TypeOK, StageOrder, inp' = inp, NEW s \in Interactive, s = rec.stage,
         rec' = BeginCheck(rec, s), op'.at = "agent", op'.s = s
  PROVE  StageOrder' /\ TaskFits' /\ Grow
<1>1. Ordered(rec') /\ Follows(rec', rec) /\ rec'.stage = s
  BY BeginCheckOrdered DEF TypeOK, StageOrder
<1>2. StageOrder'
  BY <1>1 DEF StageOrder, Ordered, Follows
<1>3. Grow
  BY <1>1 DEF Grow, Follows, TypeOK, ProjectRecord
<1> QED
  BY <1>1, <1>2, <1>3 DEF TaskFits

LEMMA FollowsTransitive ==
  ASSUME NEW p \in ProjectRecord, NEW q \in ProjectRecord, NEW r \in ProjectRecord,
         Follows(r, q), Follows(q, p)
  PROVE  Follows(r, p)
BY DEF Follows, ProjectRecord

LEMMA StageStep ==
  ASSUME ~EditsDuringTasks, StageInv, [Next]_vars
  PROVE  StageOrder' /\ TaskFits' /\ Grow
<1>0. /\ TypeOK /\ TaskSet /\ StageOrder /\ TaskFits /\ Ordered(rec)
      /\ rec \in ProjectRecord /\ op \in Task /\ rec.stage \in 2..8
  BY DEF StageInv, TypeInv, TypeOK, StageOrder, ProjectRecord
<1>stages. 3 \in Interactive /\ 4 \in Interactive /\ 5 \in Interactive
  BY DEF Interactive
<1>idle. Idle.at = "idle" /\ Finished.at \in {"idle", "loop"}
  BY <1>0, IdleType, FinishedType
<1>1. ASSUME NEW src \in Sources, UpdateSolution(src) PROVE StageOrder' /\ TaskFits' /\ Grow
  BY <1>0, <1>1, ReplaceSolutionOrdered DEF UpdateSolution
<1>2. ASSUME NEW s \in Interactive, NEW c \in Contents, SaveUserDraft(s, c)
      PROVE  StageOrder' /\ TaskFits' /\ Grow
  BY <1>0, <1>2, UserDraftSavedOrdered, EndsOrdered DEF SaveUserDraft
<1>3. CASE CompileStart
  BY <1>0, <1>3, RecordKept, EndsOrdered DEF CompileStart, Idle
<1>4. ASSUME NEW ok \in BOOLEAN, CompileReturns(ok) PROVE StageOrder' /\ TaskFits' /\ Grow
  BY <1>0, <1>4, <1>idle, CompileOrdered, EndsOrdered DEF CompileReturns
<1>5. ASSUME NEW s \in Interactive, RunStage(s) PROVE StageOrder' /\ TaskFits' /\ Grow
  <2>1. op'.at = "agent" /\ op'.s = s
    BY <1>0, <1>5, AgentTaskType DEF RunStage
  <2>2. inp' = inp /\ s = rec.stage /\ rec' = BeginCheck(rec, s)
    BY <1>5 DEF RunStage
  <2> QED
    BY <1>0, <2>1, <2>2, BeginCheckOrdered, CheckBegun
<1>6. ASSUME NEW s \in Interactive, InstructStage(s) PROVE StageOrder' /\ TaskFits' /\ Grow
  <2> DEFINE t == AgentTask(s, FALSE)
  <2>1. t \in Task /\ t.s = s
    BY <1>0, AgentTaskType
  <2> HIDE DEF t
  <2>2. op' = [t EXCEPT !.at = "classify", !.snap = rec] /\ rec' = rec /\ inp' = inp
        /\ s = rec.stage /\ rec.compiled
    BY <1>6 DEF InstructStage, Prerequisites, t
  <2>3. op'.at = "classify" /\ op'.snap = rec /\ op'.s = s
    BY <2>1, <2>2 DEF Task
  <2> QED
    BY <1>0, <2>2, <2>3, RecordKept DEF TaskFits
<1>7. CASE ClassifyRevise
  <2>1. /\ op' = [op EXCEPT !.at = "agent", !.snap = None] /\ op.at = "classify"
        /\ rec' = BeginCheck(op.snap, op.s) /\ inp' = inp
    BY <1>7 DEF ClassifyRevise
  <2>2. op'.at = "agent" /\ op'.s = op.s
    BY <1>0, <2>1 DEF Task
  <2>3. op.snap = rec /\ op.s = rec.stage /\ op.s \in Interactive
    BY <1>0, <2>1 DEF TaskFits, TaskSet
  <2> QED
    BY <1>0, <2>1, <2>2, <2>3, BeginCheckOrdered, CheckBegun
<1>8. CASE ClassifyAnswer
  BY <1>0, <1>8, <1>idle, RecordKept, EndsOrdered DEF ClassifyAnswer
<1>9. ASSUME NEW c \in Contents, AgentSavesCandidate(c) PROVE StageOrder' /\ TaskFits' /\ Grow
  <2>1. /\ op' = [op EXCEPT !.cand = c] /\ op.at = "agent" /\ op.s = 5
        /\ rec' = rec /\ inp' = inp
    BY <1>9 DEF AgentSavesCandidate
  <2>2. op'.at = "agent" /\ op'.s = op.s
    BY <1>0, <2>1 DEF Task
  <2> QED
    BY <1>0, <2>1, <2>2, RecordKept DEF TaskFits
<1>10. CASE AgentClearsDraft
  <2>1. op' = [op EXCEPT !.cand = None] /\ op.at = "agent" /\ rec' = rec /\ inp' = inp
    BY <1>10 DEF AgentClearsDraft
  <2>2. op'.at = "agent" /\ op'.s = op.s
    BY <1>0, <2>1 DEF Task
  <2> QED
    BY <1>0, <2>1, <2>2, RecordKept DEF TaskFits
<1>11. ASSUME NEW s \in Interactive, NEW c \in Contents, AgentPasses(s, c)
       PROVE  StageOrder' /\ TaskFits' /\ Grow
  <2> DEFINE r == AiResultSaved(rec, s, TRUE, c # Content(disk, s))
  <2>1. /\ op.at = "agent" /\ s = op.s /\ op' = Idle /\ inp' = inp
        /\ rec' = [r EXCEPT !.threads = r.threads \cup WaitingThread(s)]
    BY <1>11 DEF AgentPasses, AgentReturns
  <2>2. s = rec.stage
    BY <1>0, <2>1 DEF TaskFits
  <2>3. r \in ProjectRecord /\ NearlyOrdered(r, s) /\ Follows(r, rec) /\ r.st[s] = "waiting_user"
    BY <1>0, <2>2, AiResultSavedType, AiResultSavedOrdered
  <2> HIDE DEF r
  <2>4. Ordered(rec')
    BY <2>1, <2>3, NearlyOrderedGoesOn
  <2>5. Follows(rec', rec)
    BY <2>1, <2>3 DEF Follows, ProjectRecord
  <2> QED
    BY <1>0, <1>idle, <2>1, <2>4, <2>5, EndsOrdered
<1>12. ASSUME NEW s \in Interactive, NEW c \in Contents, AgentPassesAuto(s, c)
       PROVE  StageOrder' /\ TaskFits' /\ Grow
  <2> DEFINE r == AiResultSaved(rec, s, TRUE, c # Content(disk, s))
  <2>1. op.at = "agent" /\ s = op.s /\ op' = Finished /\ inp' = inp /\ rec' = Confirmed(r, s)
    BY <1>12 DEF AgentPassesAuto, AgentReturns
  <2>2. s = rec.stage
    BY <1>0, <2>1 DEF TaskFits
  <2>3. r \in ProjectRecord /\ NearlyOrdered(r, s) /\ Follows(r, rec)
    BY <1>0, <2>2, AiResultSavedType, AiResultSavedOrdered
  <2> HIDE DEF r
  <2>4. Ordered(rec') /\ Follows(rec', r) /\ rec' \in ProjectRecord
    BY <2>1, <2>3, NearlyOrderedGoesOn, ConfirmedType
  <2>5. Follows(rec', rec)
    BY <1>0, <2>3, <2>4, FollowsTransitive
  <2> QED
    BY <1>0, <1>idle, <2>1, <2>4, <2>5, EndsOrdered
<1>13. ASSUME NEW c \in Contents, AgentRevises(c) PROVE StageOrder' /\ TaskFits' /\ Grow
  <2> DEFINE r == AiResultSaved(rec, 5, FALSE, c # Content(disk, 5))
  <2>1. /\ op.at = "agent" /\ 5 = op.s /\ op' = Idle /\ inp' = inp
        /\ rec' = IF op.auto THEN StageFailed(r, 5) ELSE r
    BY <1>13 DEF AgentRevises, AgentReturns
  <2>2. 5 = rec.stage
    BY <1>0, <2>1 DEF TaskFits
  <2>3. r \in ProjectRecord /\ NearlyOrdered(r, 5) /\ Follows(r, rec)
    BY <1>0, <1>stages, <2>2, AiResultSavedType, AiResultSavedOrdered
  <2> HIDE DEF r
  <2>4. Ordered(r) /\ 5 <= r.stage
    <3>1. Ordered(r)
      BY <1>stages, <2>3, NearlyOrderedGoesOn
    <3>2. r.stage = 5
      BY <2>3 DEF NearlyOrdered
    <3> QED
      BY <3>1, <3>2
  <2>5. /\ StageFailed(r, 5) \in ProjectRecord
        /\ Ordered(StageFailed(r, 5)) /\ Follows(StageFailed(r, 5), r)
    BY <1>stages, <2>3, <2>4, StageFailedType, StageFailedOrdered
  <2>6. Follows(StageFailed(r, 5), rec)
    BY <1>0, <2>3, <2>5, FollowsTransitive
  <2> QED
    BY <1>0, <1>idle, <2>1, <2>3, <2>4, <2>5, <2>6, EndsOrdered
<1>14. CASE AgentFails
  <2>1. op.s = rec.stage /\ op.s \in Interactive /\ op.s <= rec.stage
    BY <1>0, <1>14 DEF AgentFails, TaskFits, TaskSet
  <2> QED
    BY <1>0, <1>14, <1>idle, <2>1, StageFailedOrdered, EndsOrdered DEF AgentFails
<1>15. CASE AgentReroutes
  <2> DEFINE r == StageFailed(rec, 5)
  <2>1. rec.stage = 5 /\ 5 <= rec.stage
    BY <1>0, <1>15 DEF AgentReroutes, TaskFits
  <2>2. r \in ProjectRecord /\ Ordered(r) /\ Follows(r, rec) /\ 4 <= r.stage
    BY <1>0, <1>stages, <2>1, StageFailedType, StageFailedOrdered
  <2>3. rec' = StageFailed(r, 4) /\ op' = Finished /\ inp' = inp
    BY <1>15 DEF AgentReroutes
  <2> HIDE DEF r
  <2>4. rec' \in ProjectRecord /\ Ordered(rec') /\ Follows(rec', r)
    BY <1>stages, <2>2, <2>3, StageFailedType, StageFailedOrdered
  <2>5. Follows(rec', rec)
    BY <1>0, <2>2, <2>4, FollowsTransitive
  <2> QED
    BY <1>0, <1>idle, <2>3, <2>4, <2>5, EndsOrdered
<1>16. CASE ConfirmCode
  <2>1. 5 = rec.stage /\ op.at = "idle" /\ op' = op /\ inp' = inp /\ rec' = Confirmed(rec, 5)
    BY <1>16 DEF ConfirmCode, MayConfirm
  <2> QED
    BY <1>0, <1>stages, <2>1, ConfirmedOrdered, EndsOrdered
<1>17. ASSUME NEW s \in Interactive, ConfirmStart(s) PROVE StageOrder' /\ TaskFits' /\ Grow
  BY <1>0, <1>17, RecordKept, EndsOrdered DEF ConfirmStart, Idle
<1>18. CASE ConfirmResumed
  <2>1. op.s = rec.stage /\ op.s \in Interactive
    BY <1>0, <1>18, <1>stages DEF ConfirmResumed, MayConfirm, TaskSet
  <2> QED
    BY <1>0, <1>18, <1>idle, <2>1, ConfirmedOrdered, EndsOrdered DEF ConfirmResumed
<1>19. CASE AutoRun
  <2>1. op'.at = "loop" /\ inp' = inp
    BY <1>19 DEF AutoRun, Idle
  <2>2. CASE rec' = rec
    BY <1>0, <2>1, <2>2, RecordKept, EndsOrdered
  <2>3. ASSUME NEW s \in Interrupted(rec), rec' = StageFailed(rec, s)
        PROVE  StageOrder' /\ TaskFits' /\ Grow
    <3>1. s \in Interactive /\ rec.st[s] = "checking"
      BY DEF Interrupted
    <3>2. s <= rec.stage
      BY <1>0, <3>1 DEF Ordered, Interactive
    <3> QED
      BY <1>0, <2>1, <2>3, <3>1, <3>2, StageFailedOrdered, EndsOrdered
  <2> QED
    BY <1>19, <2>2, <2>3 DEF AutoRun
<1>20. CASE AutoRepair
  <2>1. op' = [op EXCEPT !.at = "repair", !.bin = inp.src] /\ rec' = rec /\ inp' = inp
    BY <1>20 DEF AutoRepair
  <2>2. op'.at = "repair"
    BY <1>0, <2>1 DEF Task
  <2> QED
    BY <1>0, <2>1, <2>2, RecordKept, EndsOrdered
<1>21. CASE RepairCompiles
  BY <1>0, <1>21, <1>idle, CompileOrdered, EndsOrdered DEF RepairCompiles
<1>22. ASSUME NEW src \in Sources, RepairRewrites(src) PROVE StageOrder' /\ TaskFits' /\ Grow
  <2>1. /\ op' = [op EXCEPT !.bin = src, !.fixes = op.fixes + 1] /\ op.at = "repair"
        /\ ReplaceSolution(src) \/ (rec' = rec /\ inp' = inp)
    BY <1>22 DEF RepairRewrites
  <2>2. op'.at = "repair"
    BY <1>0, <2>1 DEF Task
  <2> QED
    BY <1>0, <2>1, <2>2, ReplaceSolutionOrdered, RecordKept, EndsOrdered
<1>23. ASSUME NEW s \in Interactive, AutoStage(s) PROVE StageOrder' /\ TaskFits' /\ Grow
  <2>1. op'.at = "agent" /\ op'.s = s
    BY <1>0, <1>23, AgentTaskType DEF AutoStage
  <2>2. inp' = inp /\ s = rec.stage /\ rec' = BeginCheck(rec, s)
    BY <1>23 DEF AutoStage
  <2> QED
    BY <1>0, <2>1, <2>2, BeginCheckOrdered, CheckBegun
<1>24. CASE AutoRefused
  BY <1>0, <1>24, <1>idle, RecordKept, EndsOrdered DEF AutoRefused
<1>25. CASE GenerateStart
  <2>1. /\ rec' = rec /\ inp' = inp /\ rec.st[5] = "passed" /\ disk.draft[4] # None
        /\ op'.at = "gencompile"
    BY <1>0, <1>25 DEF GenerateStart, MayGenerate, BuildTask, Task
  <2>2. rec.stage >= 6
    BY <1>0, <1>stages, <2>1 DEF Ordered
  <2> QED
    BY <1>0, <2>1, <2>2, RecordKept DEF TaskFits
<1>26. CASE GeneratorCompiled
  <2>1. op'.at = "generating" /\ op.at = "gencompile" /\ rec' = rec /\ inp' = inp
    BY <1>0, <1>26 DEF GeneratorCompiled, Task
  <2> QED
    BY <1>0, <2>1, RecordKept DEF TaskFits
<1>27. ASSUME NEW w \in BOOLEAN, GenerateEnds(w) PROVE StageOrder' /\ TaskFits' /\ Grow
  <2>1. rec.stage >= 6 /\ rec' = GenerationComplete(rec) /\ inp' = inp /\ op' = Finished
    BY <1>0, <1>27 DEF GenerateEnds, TaskFits
  <2> QED
    BY <1>0, <1>idle, <2>1, BuildOrdered, EndsOrdered
<1>28. CASE ValidateStart
  <2>1. rec' = rec /\ inp' = inp /\ rec.gen /\ op'.at = "valcompile"
    BY <1>0, <1>28 DEF ValidateStart, MayValidate, BuildTask, Task
  <2>2. rec.stage >= 7
    BY <1>0, <2>1 DEF Ordered
  <2> QED
    BY <1>0, <2>1, <2>2, RecordKept DEF TaskFits
<1>29. CASE SolutionCompiled
  <2>1. op'.at = "solving" /\ op.at = "valcompile" /\ rec' = rec /\ inp' = inp
    BY <1>0, <1>29 DEF SolutionCompiled, Task
  <2> QED
    BY <1>0, <2>1, RecordKept DEF TaskFits
<1>30. CASE ValidateEnds
  <2>1. rec.stage >= 7 /\ rec' = ValidationComplete(rec) /\ inp' = inp /\ op' = Finished
    BY <1>0, <1>30 DEF ValidateEnds, TaskFits
  <2>2. rec.stage >= 6
    BY <1>0, <2>1
  <2> QED
    BY <1>0, <1>idle, <2>1, <2>2, BuildOrdered, EndsOrdered
<1>31. CASE BuildFails
  <2>1. rec.stage >= 6 /\ rec' = PipelineFailure(rec) /\ inp' = inp
    BY <1>0, <1>31 DEF BuildFails, TaskFits
  <2>2. [Finished EXCEPT !.downs = op.downs + 1].at \in {"idle", "loop"}
    BY <1>0, <1>idle, FinishedType DEF Task
  <2>3. op'.at \in {"idle", "loop"}
    BY <1>31, <1>idle, <2>2 DEF BuildFails
  <2> QED
    BY <1>0, <2>1, <2>3, BuildOrdered, EndsOrdered
<1>32. CASE Export
  BY <1>0, <1>32, <1>idle, RecordKept, EndsOrdered DEF Export
<1>33. CASE TaskStops
  BY <1>0, <1>33, <1>idle, RecordKept, EndsOrdered DEF TaskStops
<1>34. CASE Cancel
  BY <1>0, <1>34, <1>idle, RecordKept, EndsOrdered DEF Cancel
<1>35. CASE Restart
  BY <1>0, <1>35, <1>idle, ChecksRecoveredOrdered, EndsOrdered DEF Restart
<1>36. CASE UNCHANGED vars
  BY <1>0, <1>36, RecordKept DEF vars, TaskFits
<1> QED
  BY <1>1, <1>2, <1>3, <1>4, <1>5, <1>6, <1>7, <1>8, <1>9, <1>10, <1>11, <1>12, <1>13, <1>14,
     <1>15, <1>16, <1>17, <1>18, <1>19, <1>20, <1>21, <1>22, <1>23, <1>24, <1>25, <1>26, <1>27,
     <1>28, <1>29, <1>30, <1>31, <1>32, <1>33, <1>34, <1>35, <1>36
  DEF Next, Request, Progress, Working, AgentEnds

\* When the solution is only replaced while no task runs (the page that ships
\* disables its editor meanwhile), the stages stay in order, however the tasks
\* end, fail, are cancelled or are cut off by a restart.
THEOREM StagesInOrder ==
  ASSUME ~EditsDuringTasks
  PROVE  Spec => []StageOrder
<1>1. StageInv /\ [Next]_vars => StageInv'
  BY TypeStep, StageStep DEF StageInv
<1>2. StageInv => StageOrder
  BY DEF StageInv
<1> QED
  BY StageInit, <1>1, <1>2, PTL DEF Spec

\* Under the same condition no revision is used twice, so that a stamp which
\* matches was written for the present solution and plan.
THEOREM RevisionsOnlyGrow ==
  ASSUME ~EditsDuringTasks
  PROVE  Spec => RevisionsGrow
<1>1. StageInv /\ [Next]_vars => StageInv'
  BY TypeStep, StageStep DEF StageInv
<1>2. StageInv /\ [Next]_vars => [Grow]_vars
  BY StageStep
<1> QED
  BY StageInit, <1>1, <1>2, PTL DEF Spec, RevisionsGrow

=============================================================================
