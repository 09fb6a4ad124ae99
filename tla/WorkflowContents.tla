-------------------------- MODULE WorkflowContents --------------------------
(***************************************************************************)
(* What the artifacts of a project are worth: the work that was confirmed  *)
(* is that of the present solution, and an archive is one consistent       *)
(* dataset.                                                                *)
(***************************************************************************)
EXTENDS WorkflowProofs

-----------------------------------------------------------------------------
(* What the operations leave of the record and of the directory *)

Held == {"waiting_user", "passed"}

\* An operation that holds no stage that was not held before.
Demotes(q, r) ==
  /\ \A s \in Interactive : q.st[s] \in Held => r.st[s] \in Held
  /\ q.st[5] = "passed" => /\ r.st[5] = "passed"
                           /\ q.codeIn = r.codeIn /\ q.codeSub = r.codeSub
                           /\ q.subRev = r.subRev

LEMMA Demotions ==
  ASSUME NEW r \in ProjectRecord
  PROVE  /\ Demotes(CompileAccepted(r), r) /\ Demotes(CompileRejected(r), r)
         /\ Demotes(GenerationComplete(r), r) /\ Demotes(ValidationComplete(r), r)
         /\ Demotes(PipelineFailure(r), r) /\ Demotes(ChecksRecovered(r), r)
         /\ \A s \in Interactive : /\ Demotes(UserDraftSaved(r, s), r)
                                   /\ Demotes(BeginCheck(r, s), r)
                                   /\ Demotes(StageFailed(r, s), r)
<1> USE DEF Demotes, Held, ProjectRecord, Interactive
<1>1. Demotes(CompileAccepted(r), r)
  BY DEF CompileAccepted
<1>2. Demotes(CompileRejected(r), r)
  BY DEF CompileRejected, ResetsOnReject, NoCode, NotBuilt, InvalidateDownstream
<1>3. Demotes(GenerationComplete(r), r) /\ Demotes(ValidationComplete(r), r)
  BY DEF GenerationComplete, ValidationComplete
<1>4. Demotes(PipelineFailure(r), r)
  BY DEF PipelineFailure, NotBuilt
<1>5. Demotes(ChecksRecovered(r), r)
  BY DEF ChecksRecovered, Interrupted
<1>6. ASSUME NEW s \in Interactive PROVE Demotes(UserDraftSaved(r, s), r)
  BY DEF UserDraftSaved, SetStatus, NoCode, NotBuilt, InvalidateDownstream
<1>7. ASSUME NEW s \in Interactive PROVE Demotes(BeginCheck(r, s), r)
  BY DEF BeginCheck
<1>8. ASSUME NEW s \in Interactive PROVE Demotes(StageFailed(r, s), r)
  BY DEF StageFailed, SetStatus, NoCode, NotBuilt, InvalidateDownstream
<1> QED
  BY <1>1, <1>2, <1>3, <1>4, <1>5, <1>6, <1>7, <1>8

LEMMA ArtifactsInvalidatedFields ==
  ASSUME NEW d \in Disk, NEW s \in 2..5
  PROVE  LET e == ArtifactsInvalidated(d, s)
         IN  /\ e.batch = None /\ e.data = None
             /\ e.release = IF s < 5 THEN None ELSE d.release
             /\ \A t \in Interactive : e.draft[t] = IF t > s THEN None ELSE d.draft[t]
BY DEF ArtifactsInvalidated, EnsureProjection, Project, Disk

LEMMA DraftSavedFields ==
  ASSUME NEW d \in Disk, NEW s \in Interactive, NEW draft \in Draft
  PROVE  LET e == DraftSaved(d, s, draft)
         IN  /\ e.batch = d.batch /\ e.data = d.data /\ e.release = d.release
             /\ \A t \in Interactive : e.draft[t] = IF t = s THEN draft ELSE d.draft[t]
BY DEF DraftSaved, Project, Disk

LEMMA WorkingDraftClearedFields ==
  ASSUME NEW d \in Disk, NEW s \in Interactive
  PROVE  LET e == WorkingDraftCleared(d, s)
         IN  /\ e.batch = d.batch /\ e.data = d.data /\ e.release = d.release
             /\ \A t \in Interactive : e.draft[t] = IF t >= s THEN None ELSE d.draft[t]
BY DEF WorkingDraftCleared, EnsureProjection, Project, Disk

LEMMA ReleaseFrozenFields ==
  ASSUME NEW d \in Disk
  PROVE  LET e == ReleaseFrozen(d)
         IN  /\ e.batch = d.batch /\ e.data = d.data /\ e.draft = d.draft /\ e.proj = "release"
             /\ e.release = IF d.release # None /\ d.release.c = d.draft[5].c
                              THEN d.release ELSE d.draft[5]
<1> DEFINE x == IF d.release # None /\ d.release.c = d.draft[5].c THEN d.release ELSE d.draft[5]
           e == [d EXCEPT !.release = x]
<1> HIDE DEF x
<1>1. ReleaseFrozen(d) = Project(e, "release")
  BY DEF ReleaseFrozen, x
<1>2. LET p == Project(e, "release")
      IN  /\ p.release = x /\ p.draft = d.draft /\ p.batch = d.batch /\ p.data = d.data
          /\ p.proj = "release"
  BY DEF Project, Disk
<1> QED
  BY <1>1, <1>2 DEF x

\* The draft a user saves.
UserDraft(s, c) ==
  [c |-> c, src |-> inp.src, up |-> Upstream(disk, s),
   inRev |-> IF s = 5 THEN rec.inRev ELSE None, subRev |-> IF s = 5 THEN rec.subRev ELSE None]

LEMMA UserDraftFields ==
  ASSUME TypeOK, NEW s \in Interactive, NEW c \in Contents, SaveUserDraft(s, c)
  PROVE  /\ disk'.batch = None /\ disk'.data = None
         /\ disk'.release = IF s < 5 THEN None ELSE disk.release
         /\ \A t \in Interactive :
              /\ t < s => disk'.draft[t] = disk.draft[t]
              /\ t > s => disk'.draft[t] = None
         /\ rec' = UserDraftSaved(rec, s) /\ inp' = inp /\ op' = op /\ op.at = "idle"
<1> DEFINE new == UserDraft(s, c)
           e == DraftSaved(disk, s, new)
<1>1. /\ (IF s = 5 THEN rec.inRev ELSE None) \in Nat \cup {None}
      /\ (IF s = 5 THEN rec.subRev ELSE None) \in Nat \cup {None}
      /\ inp.src \in Sources /\ disk \in Disk
  BY DEF TypeOK, ProjectRecord, GlobalInput
<1>2. new \in Draft
  BY <1>1, UpstreamType DEF Draft, UserDraft
<1>3. /\ disk' = ArtifactsInvalidated(e, s)
      /\ rec' = UserDraftSaved(rec, s) /\ inp' = inp /\ op' = op /\ op.at = "idle"
  BY DEF SaveUserDraft, UserDraft
<1> HIDE DEF new
<1>4. e \in Disk /\ s \in 2..5
  BY <1>1, <1>2, DraftSavedType DEF Interactive
<1>5. /\ e.release = disk.release
      /\ \A t \in Interactive : e.draft[t] = IF t = s THEN new ELSE disk.draft[t]
  BY <1>1, <1>2, DraftSavedFields
<1> HIDE DEF e
<1>6. /\ disk'.batch = None /\ disk'.data = None
      /\ disk'.release = IF s < 5 THEN None ELSE e.release
      /\ \A t \in Interactive : disk'.draft[t] = IF t > s THEN None ELSE e.draft[t]
  BY <1>3, <1>4, ArtifactsInvalidatedFields
<1>7. \A t \in Interactive : (t < s => disk'.draft[t] = disk.draft[t])
                             /\ (t > s => disk'.draft[t] = None)
  BY <1>5, <1>6 DEF Interactive
<1> QED
  BY <1>3, <1>5, <1>6, <1>7

LEMMA ResultSavedFields ==
  ASSUME TypeOK, op.ctx \in Context, NEW s \in Interactive, NEW c \in Contents
  PROVE  LET e == ResultSaved(s, c)
             changed == c # Content(disk, s)
         IN  /\ e \in Disk
             /\ e.draft[s] = NewDraft(s, c, rec.inRev, rec.subRev) /\ e.draft[s] # None
             /\ \A t \in Interactive : t < s => e.draft[t] = disk.draft[t]
             /\ changed => e.batch = None /\ e.data = None
             /\ ~changed => /\ e.batch = disk.batch /\ e.data = disk.data
                            /\ \A t \in Interactive : t # s => e.draft[t] = disk.draft[t]
             /\ e.release = IF s < 5 /\ changed THEN None ELSE disk.release
<1> DEFINE n == NewDraft(s, c, rec.inRev, rec.subRev)
           saved == DraftSaved(disk, s, n)
           changed == c # Content(disk, s)
<1>1. disk \in Disk /\ s \in 2..5 /\ rec.inRev \in Nat /\ rec.subRev \in Nat
  BY DEF TypeOK, ProjectRecord, Interactive
<1>2. n \in Draft /\ n # None
  BY <1>1, NewDraftType, NoneAssumption
<1> HIDE DEF n
<1>3. /\ saved \in Disk
      /\ saved.batch = disk.batch /\ saved.data = disk.data /\ saved.release = disk.release
      /\ \A t \in Interactive : saved.draft[t] = IF t = s THEN n ELSE disk.draft[t]
  BY <1>1, <1>2, DraftSavedType, DraftSavedFields
<1> HIDE DEF saved
<1>4. LET e == ArtifactsInvalidated(saved, s)
      IN  /\ e.batch = None /\ e.data = None
          /\ e.release = IF s < 5 THEN None ELSE saved.release
          /\ \A t \in Interactive : e.draft[t] = IF t > s THEN None ELSE saved.draft[t]
  BY <1>1, <1>3, ArtifactsInvalidatedFields
<1>5. ResultSaved(s, c) = IF changed THEN ArtifactsInvalidated(saved, s) ELSE saved
  BY DEF ResultSaved, saved, n
<1>6. ResultSaved(s, c) \in Disk
  BY ResultSavedType
<1>7. ResultSaved(s, c).draft[s] = n
      /\ \A t \in Interactive : t < s => ResultSaved(s, c).draft[t] = disk.draft[t]
  BY <1>3, <1>4, <1>5 DEF Interactive
<1>8. /\ changed => ResultSaved(s, c).batch = None /\ ResultSaved(s, c).data = None
      /\ ~changed => /\ ResultSaved(s, c).batch = disk.batch /\ ResultSaved(s, c).data = disk.data
                     /\ \A t \in Interactive : t # s => ResultSaved(s, c).draft[t] = disk.draft[t]
      /\ ResultSaved(s, c).release = IF s < 5 /\ changed THEN None ELSE disk.release
  BY <1>3, <1>4, <1>5
<1> QED
  BY <1>2, <1>6, <1>7, <1>8 DEF n

\* The record after a result: nothing above s is held, and the revisions move
\* only with a changed plan.
LEMMA AiResultFields ==
  ASSUME NEW r \in ProjectRecord, NEW s \in Interactive, NEW confirmed \in BOOLEAN,
         NEW changed \in BOOLEAN
  PROVE  LET q == AiResultSaved(r, s, confirmed, changed)
         IN  /\ \A t \in Interactive : t < s => q.st[t] = r.st[t]
             /\ \A t \in Interactive : t > s => q.st[t] = "draft"
             /\ q.inRev = r.inRev /\ q.wfRev = r.wfRev /\ q.compiled = r.compiled
             /\ s # 4 => q.subRev = r.subRev
             /\ q.gen = FALSE /\ q.ready = r.ready
BY DEF AiResultSaved, SetStatus, InvalidateDownstream, NoCode, ProjectRecord, Interactive

LEMMA AiResultUnchanged ==
  ASSUME NEW r \in ProjectRecord, NEW s \in Interactive, NEW confirmed \in BOOLEAN
  PROVE  AiResultSaved(r, s, confirmed, FALSE).subRev = r.subRev
BY DEF AiResultSaved, SetStatus, InvalidateDownstream, NoCode, ProjectRecord, Interactive

LEMMA AiResultStatus ==
  ASSUME NEW r \in ProjectRecord, NEW s \in Interactive, NEW changed \in BOOLEAN
  PROVE  /\ AiResultSaved(r, s, TRUE, changed).st[s] = "waiting_user"
         /\ AiResultSaved(r, s, FALSE, changed).st[s] = "draft"
BY DEF AiResultSaved, SetStatus, InvalidateDownstream, NoCode, ProjectRecord, Interactive

\* The same of the record that is there: a result that passes, and one for revision.
PassedRecord(s, c) == AiResultSaved(rec, s, TRUE, c # Content(disk, s))
RevisedRecord(c) == AiResultSaved(rec, 5, FALSE, c # Content(disk, 5))

LEMMA AiResultPassed ==
  ASSUME TypeOK, NEW s \in Interactive, NEW c \in Contents
  PROVE  LET q == PassedRecord(s, c)
         IN  /\ q \in ProjectRecord
             /\ \A t \in Interactive : t < s => q.st[t] = rec.st[t]
             /\ q.st[s] = "waiting_user"
             /\ q.inRev = rec.inRev /\ q.wfRev = rec.wfRev /\ q.compiled = rec.compiled
             /\ s # 4 => q.subRev = rec.subRev
             /\ c = Content(disk, s) => q.subRev = rec.subRev
             /\ q.gen = FALSE /\ q.ready = rec.ready
<1> DEFINE q == AiResultSaved(rec, s, TRUE, c # Content(disk, s))
<1>1. q \in ProjectRecord
  BY AiResultSavedType DEF TypeOK
<1>2. \A t \in Interactive : t < s => q.st[t] = rec.st[t]
  BY AiResultFields DEF TypeOK
<1>4. q.st[s] = "waiting_user"
  BY AiResultStatus DEF TypeOK
<1>5. q.inRev = rec.inRev /\ q.wfRev = rec.wfRev /\ q.compiled = rec.compiled
  BY AiResultFields DEF TypeOK
<1>6. s # 4 => q.subRev = rec.subRev
  BY AiResultFields DEF TypeOK
<1>7. ASSUME c = Content(disk, s) PROVE q.subRev = rec.subRev
  BY <1>7, AiResultUnchanged DEF TypeOK
<1>8. q.gen = FALSE /\ q.ready = rec.ready
  BY AiResultFields DEF TypeOK
<1> HIDE DEF q
<1>9. c = Content(disk, s) => q.subRev = rec.subRev
  BY <1>7
<1> QED
  BY <1>1, <1>2, <1>4, <1>5, <1>6, <1>8, <1>9 DEF q, PassedRecord

LEMMA PassedResets ==
  ASSUME TypeOK, NEW s \in Interactive, NEW c \in Contents,
         NEW t \in Interactive, t > s
  PROVE  PassedRecord(s, c).st[t] = "draft"
BY AiResultFields DEF TypeOK, PassedRecord

LEMMA AiResultRevised ==
  ASSUME TypeOK, NEW c
  PROVE  LET q == RevisedRecord(c)
         IN  /\ q \in ProjectRecord
             /\ \A t \in Interactive : t < 5 => q.st[t] = rec.st[t]
             /\ q.st[5] = "draft"
             /\ q.inRev = rec.inRev /\ q.wfRev = rec.wfRev /\ q.compiled = rec.compiled
             /\ q.subRev = rec.subRev
             /\ q.gen = FALSE /\ q.ready = rec.ready
<1> DEFINE q == AiResultSaved(rec, 5, FALSE, c # Content(disk, 5))
<1>0. 5 \in Interactive
  BY DEF Interactive
<1>1. q \in ProjectRecord
  BY <1>0, AiResultSavedType DEF TypeOK
<1>2. \A t \in Interactive : t < 5 => q.st[t] = rec.st[t]
  BY <1>0, AiResultFields DEF TypeOK
<1>3. q.st[5] = "draft"
  BY <1>0, AiResultStatus DEF TypeOK
<1>4. q.inRev = rec.inRev /\ q.wfRev = rec.wfRev /\ q.compiled = rec.compiled
  BY <1>0, AiResultFields DEF TypeOK
<1>5. 5 # 4 => q.subRev = rec.subRev
  BY <1>0, AiResultFields DEF TypeOK
<1>6. q.gen = FALSE /\ q.ready = rec.ready
  BY <1>0, AiResultFields DEF TypeOK
<1> HIDE DEF q
<1>7. q.subRev = rec.subRev
  BY <1>5
<1> QED
  BY <1>1, <1>2, <1>3, <1>4, <1>6, <1>7 DEF q, RevisedRecord

LEMMA ConfirmedFields ==
  ASSUME NEW r \in ProjectRecord, NEW s \in Interactive
  PROVE  LET q == Confirmed(r, s)
         IN  /\ \A t \in Interactive : q.st[t] = IF t = s THEN "passed" ELSE r.st[t]
             /\ q.stage = s + 1
             /\ q.inRev = r.inRev /\ q.subRev = r.subRev /\ q.wfRev = r.wfRev
             /\ q.compiled = r.compiled /\ q.gen = r.gen /\ q.ready = r.ready
             /\ s = 5 => q.codeIn = r.inRev /\ q.codeSub = r.subRev
             /\ s # 5 => q.codeIn = r.codeIn /\ q.codeSub = r.codeSub
BY DEF Confirmed, ProjectRecord, Interactive

LEMMA SolutionUpdatedFields ==
  ASSUME NEW r \in ProjectRecord, NEW rev \in Nat
  PROVE  LET q == SolutionUpdated(r, rev)
         IN  /\ \A t \in Interactive : q.st[t] = "draft"
             /\ ~q.compiled /\ ~q.gen /\ ~q.ready
             /\ q.wfRev = r.wfRev + 1 /\ q.subRev = r.subRev /\ q.inRev = rev
BY DEF SolutionUpdated, NoCode, NotBuilt, InvalidateDownstream, ProjectRecord, Interactive

LEMMA ReplaceSolutionFields ==
  ASSUME TypeOK, NEW src \in Sources, ReplaceSolution(src)
  PROVE  /\ \A t \in Interactive : rec'.st[t] = "draft" /\ disk'.draft[t] = None
         /\ ~rec'.compiled /\ ~rec'.gen /\ ~rec'.ready
         /\ rec'.wfRev = rec.wfRev + 1
         /\ disk'.release = None /\ disk'.batch = None /\ disk'.data = None
         /\ inp'.src = src
<1>1. rec \in ProjectRecord /\ inp.rev + 1 \in Nat /\ disk \in Disk /\ 2 \in 2..5
  BY DEF TypeOK, GlobalInput
<1>2. /\ rec' = SolutionUpdated(rec, inp.rev + 1) /\ disk' = ArtifactsInvalidated(disk, 2)
      /\ inp'.src = src
  BY DEF ReplaceSolution
<1>3. \A t \in Interactive : disk'.draft[t] = None
  BY <1>1, <1>2, ArtifactsInvalidatedFields DEF Interactive
<1> QED
  BY <1>1, <1>2, <1>3, SolutionUpdatedFields, ArtifactsInvalidatedFields

-----------------------------------------------------------------------------
(* Confirmed work, while nobody edits under a task *)

\* A task works on the solution and the drafts that are still there when it ends.
TaskCurrent ==
  /\ op.at \in {"compile", "repair"} => op.bin = inp.src
  /\ op.at \in {"classify", "agent"} =>
       op.ctx.src = inp.src /\ op.ctx.up = Upstream(disk, op.s)
  /\ op.at = "agent" => rec.st[op.s] = "checking"

\* A release that has not been removed carries the present revisions.
ReleaseStamped ==
  disk.release # None =>
    disk.release.inRev = rec.inRev /\ disk.release.subRev = rec.subRev

WorkInv == ConfirmedIsCurrent /\ ReleaseStamped /\ ReleaseFits
ContentsInv == StageInv /\ CompiledIsCurrent /\ TaskCurrent /\ WorkInv

\* What is held stays as it was, and the release unless it goes.
LEMMA WorkKept ==
  ASSUME TypeOK, WorkInv, inp' = inp, Demotes(rec', rec), rec'.inRev = rec.inRev,
         rec'.subRev = rec.subRev \/ disk'.release = None,
         disk'.release \in {None, disk.release},
         \A s \in Interactive : rec'.st[s] \in Held =>
           \A t \in Interactive : t <= s => disk'.draft[t] = disk.draft[t],
         rec'.st[5] = "passed" => disk'.release = disk.release /\ disk'.proj = disk.proj
  PROVE  WorkInv'
<1>1. ASSUME NEW s \in Interactive, rec'.st[s] \in Held
      PROVE  /\ disk'.draft[s] # None
             /\ disk'.draft[s].src = inp'.src
             /\ disk'.draft[s].up = Upstream(disk', s)
  <2>1. /\ disk.draft[s] # None
        /\ disk.draft[s].src = inp.src
        /\ disk.draft[s].up = Upstream(disk, s)
    BY <1>1 DEF WorkInv, ConfirmedIsCurrent, Demotes, Held
  <2>2. \A t \in Interactive : t <= s => disk'.draft[t] = disk.draft[t]
    BY <1>1
  <2>3. disk'.draft[s] = disk.draft[s]
    BY <2>2 DEF Interactive
  <2>4. Upstream(disk', s) = Upstream(disk, s)
    BY <2>2 DEF Upstream, Content, Interactive
  <2> QED
    BY <2>1, <2>3, <2>4
<1>2. ConfirmedIsCurrent'
  BY <1>1 DEF ConfirmedIsCurrent, Held
<1>3. ReleaseStamped'
  BY DEF WorkInv, ReleaseStamped
<1>4. ASSUME rec'.st[5] = "passed"
      PROVE  MayGenerate(rec', disk') /\ disk'.release.c = Content(disk', 5) /\ disk'.proj = "release"
  <2>1. /\ rec.st[5] = "passed" /\ rec'.codeIn = rec.codeIn /\ rec'.codeSub = rec.codeSub
        /\ rec'.subRev = rec.subRev /\ disk'.release = disk.release /\ disk'.proj = disk.proj
    BY <1>4 DEF Demotes
  <2>2. disk'.draft[4] = disk.draft[4] /\ disk'.draft[5] = disk.draft[5]
    BY <1>4 DEF Held, Interactive
  <2>3. MayGenerate(rec, disk) /\ disk.release.c = Content(disk, 5) /\ disk.proj = "release"
    BY <2>1 DEF WorkInv, ReleaseFits
  <2> QED
    BY <1>4, <2>1, <2>2, <2>3 DEF MayGenerate, Content
<1> QED
  BY <1>2, <1>3, <1>4 DEF WorkInv, ReleaseFits

\* Nothing is held and nothing is released any more.
LEMMA WorkReset ==
  ASSUME \A s \in Interactive : rec'.st[s] = "draft", disk'.release = None
  PROVE  WorkInv'
<1>1. 5 \in Interactive
  BY DEF Interactive
<1> QED
  BY <1>1 DEF WorkInv, ConfirmedIsCurrent, ReleaseStamped, ReleaseFits

\* A task that ends with the sources and a compile flag it may trust.
LEMMA EndsCurrent ==
  ASSUME op'.at \in {"idle", "loop", "resume"} \union Building PROVE TaskCurrent'
BY DEF TaskCurrent, Building

\* A result of stage s, saved: it is current, and so is what lies before it.
LEMMA ResultCurrent ==
  ASSUME TypeOK, TaskSet, ConfirmedIsCurrent, TaskCurrent, TaskFits, StageOrder,
         NEW s \in Interactive, NEW c \in Contents, AgentReturns(s, c)
  PROVE  LET d == ResultSaved(s, c)
         IN  /\ \A t \in Interactive : t <= s =>
                  d.draft[t] # None /\ d.draft[t].src = inp.src /\ d.draft[t].up = Upstream(d, t)
             /\ d.draft[s].c = c
             /\ s = 5 => d.draft[5].inRev = rec.inRev /\ d.draft[5].subRev = rec.subRev
<1> DEFINE d == ResultSaved(s, c)
<1>1. op.at = "agent" /\ op.s = s /\ s = rec.stage /\ op.ctx \in Context
  BY DEF AgentReturns, TaskFits, TaskSet
<1>2. /\ d.draft[s] = NewDraft(s, c, rec.inRev, rec.subRev) /\ d.draft[s] # None
      /\ \A t \in Interactive : t < s => d.draft[t] = disk.draft[t]
  BY <1>1, ResultSavedFields
<1> HIDE DEF d
<1>3. \A t \in Interactive : t <= s => Upstream(d, t) = Upstream(disk, t)
  BY <1>2 DEF Upstream, Content, Interactive
<1>4. /\ d.draft[s].src = inp.src /\ d.draft[s].up = Upstream(d, s) /\ d.draft[s].c = c
      /\ s = 5 => d.draft[s].inRev = rec.inRev /\ d.draft[s].subRev = rec.subRev
  BY <1>1, <1>2, <1>3 DEF NewDraft, TaskCurrent, Interactive
<1>5. \A t \in Interactive : t < s => rec.st[t] = "passed"
  BY <1>1 DEF StageOrder, Ordered
<1>6. \A t \in Interactive : t < s =>
        d.draft[t] # None /\ d.draft[t].src = inp.src /\ d.draft[t].up = Upstream(d, t)
  BY <1>2, <1>3, <1>5 DEF ConfirmedIsCurrent, Interactive
<1>7. \A t \in Interactive : t <= s => t < s \/ t = s
  BY DEF Interactive
<1> QED
  BY <1>2, <1>4, <1>6, <1>7 DEF d

LEMMA ContentsInit == Init => ContentsInv
<1> SUFFICES ASSUME Init PROVE CompiledIsCurrent /\ TaskCurrent /\ WorkInv
  BY StageInit DEF ContentsInv
<1>1. op.at = "idle"
  BY DEF Init, Idle
<1>2. TaskCurrent
  BY <1>1 DEF TaskCurrent
<1>3. CASE NewProject
  BY <1>2, <1>3 DEF NewProject, CompiledIsCurrent, WorkInv, ConfirmedIsCurrent, ReleaseStamped,
                    ReleaseFits, Interactive
<1>4. ASSUME NEW c3 \in Contents, NEW c4 \in Contents \ SoundPlans, KeptProject(c3, c4)
      PROVE  CompiledIsCurrent /\ WorkInv
  <2>1. CompiledIsCurrent /\ ReleaseStamped
    BY <1>4 DEF KeptProject, CompiledIsCurrent, ReleaseStamped
  <2>2. ReleaseFits
    BY <1>4 DEF KeptProject, ReleaseFits, Interactive
  <2>3. disk.draft[3] = PlanDraft(c3, None) /\ disk.draft[4] = PlanDraft(c4, c3)
    BY <1>4 DEF KeptProject, Interactive
  <2>4. PlanDraft(c3, None) \in Draft /\ PlanDraft(c4, c3) \in Draft
    BY <1>4 DEF PlanDraft, Draft, KeptProject, Init
  <2>5. disk.draft[3] # None /\ disk.draft[4] # None
    BY <2>3, <2>4, NoneAssumption
  <2>6. \A s \in Interactive : rec.st[s] \in {"waiting_user", "passed"} => s = 3 \/ s = 4
    BY <1>4 DEF KeptProject, Interactive
  <2>7. /\ disk.draft[3].src = inp.src /\ disk.draft[3].up = None
        /\ disk.draft[4].src = inp.src /\ disk.draft[4].up = disk.draft[3].c
    BY <2>3 DEF PlanDraft
  <2>8. Upstream(disk, 3) = None /\ Upstream(disk, 4) = disk.draft[3].c
    BY <2>5 DEF Upstream, Content
  <2>9. ConfirmedIsCurrent
    BY <2>5, <2>6, <2>7, <2>8 DEF ConfirmedIsCurrent
  <2> QED
    BY <2>1, <2>2, <2>9 DEF WorkInv
<1> QED
  BY <1>2, <1>3, <1>4 DEF Init

\* A step that leaves the directory alone.
LEMMA DirectoryKept ==
  ASSUME TypeOK, WorkInv, inp' = inp, disk' = disk, Demotes(rec', rec),
         rec'.inRev = rec.inRev, rec'.subRev = rec.subRev
  PROVE  WorkInv'
BY WorkKept

LEMMA DemotesSame == \A r : Demotes(r, r)
BY DEF Demotes

\* The step to a stage's agent.
LEMMA AgentCurrent ==
  ASSUME TypeOK, WorkInv, inp' = inp, disk' = disk,
         NEW s \in Interactive, rec' = BeginCheck(rec, s),
         op'.at = "agent", op'.s = s,
         op'.ctx.src = inp.src, op'.ctx.up = Upstream(disk, s)
  PROVE  TaskCurrent' /\ WorkInv' /\ rec'.compiled = rec.compiled
<1>1. /\ rec'.st[s] = "checking" /\ rec'.inRev = rec.inRev /\ rec'.subRev = rec.subRev
      /\ rec'.compiled = rec.compiled
  BY DEF BeginCheck, TypeOK, ProjectRecord
<1>2. Demotes(rec', rec)
  BY Demotions DEF TypeOK
<1> QED
  BY <1>1, <1>2, DirectoryKept DEF TaskCurrent

LEMMA AgentTaskContext ==
  ASSUME TypeOK, NEW s \in Interactive, NEW auto \in BOOLEAN
  PROVE  /\ AgentTask(s, auto).at = "agent" /\ AgentTask(s, auto).s = s
         /\ AgentTask(s, auto).ctx.src = inp.src
         /\ AgentTask(s, auto).ctx.up = Upstream(disk, s)
BY DEF AgentTask, Idle, ContextOf

\* What the record and the directory keep when a stage has failed, and the
\* drafts after it may go.
LEMMA FailedFields ==
  ASSUME NEW r \in ProjectRecord, NEW s \in Interactive
  PROVE  LET q == StageFailed(r, s)
         IN  /\ q.inRev = r.inRev /\ q.subRev = r.subRev /\ q.wfRev = r.wfRev
             /\ q.compiled = r.compiled /\ ~q.gen /\ ~q.ready
             /\ \A t \in Interactive : t < s => q.st[t] = r.st[t]
             /\ q.st[s] = "failed"
             /\ \A t \in Interactive : t > s => q.st[t] = "draft"
BY DEF StageFailed, SetStatus, InvalidateDownstream, NotBuilt, NoCode, ProjectRecord, Interactive

LEMMA CompileFields ==
  ASSUME NEW r \in ProjectRecord
  PROVE  /\ CompileAccepted(r).inRev = r.inRev /\ CompileAccepted(r).subRev = r.subRev
         /\ CompileRejected(r).inRev = r.inRev /\ CompileRejected(r).subRev = r.subRev
         /\ ~CompileRejected(r).compiled
         /\ ResetsOnReject(r) => \A t \in Interactive : CompileRejected(r).st[t] = "draft"
BY DEF CompileAccepted, CompileRejected, ResetsOnReject, InvalidateDownstream, NotBuilt, NoCode,
       ProjectRecord, Interactive

LEMMA BuildFields ==
  ASSUME NEW r \in ProjectRecord
  PROVE  /\ GenerationComplete(r).inRev = r.inRev /\ GenerationComplete(r).subRev = r.subRev
         /\ ValidationComplete(r).inRev = r.inRev /\ ValidationComplete(r).subRev = r.subRev
         /\ PipelineFailure(r).inRev = r.inRev /\ PipelineFailure(r).subRev = r.subRev
         /\ ChecksRecovered(r).inRev = r.inRev /\ ChecksRecovered(r).subRev = r.subRev
         /\ GenerationComplete(r).compiled = r.compiled /\ ValidationComplete(r).compiled = r.compiled
         /\ PipelineFailure(r).compiled = r.compiled /\ ChecksRecovered(r).compiled = r.compiled
         /\ PipelineFailure(r).st[5] = "draft"
BY DEF GenerationComplete, ValidationComplete, PipelineFailure, ChecksRecovered, NotBuilt,
       ProjectRecord, Interactive

LEMMA UserDraftRecord ==
  ASSUME NEW r \in ProjectRecord, NEW s \in Interactive
  PROVE  LET q == UserDraftSaved(r, s)
         IN  /\ q.inRev = r.inRev /\ q.wfRev = r.wfRev + 1 /\ q.compiled = r.compiled
             /\ s # 4 => q.subRev = r.subRev
             /\ ~q.gen /\ ~q.ready
             /\ \A t \in Interactive : t >= s => q.st[t] = "draft"
BY DEF UserDraftSaved, SetStatus, InvalidateDownstream, NotBuilt, NoCode, ProjectRecord, Interactive

\* A step of stages 6 to 8: the drafts and the release stay, the runner may be
\* pointed at the release.
LEMMA BuildKept ==
  ASSUME TypeOK, WorkInv, inp' = inp, Demotes(rec', rec),
         rec'.inRev = rec.inRev, rec'.subRev = rec.subRev,
         disk'.draft = disk.draft, disk'.release = disk.release,
         disk'.proj \in {disk.proj, "release"}
  PROVE  WorkInv'
<1>1. ASSUME rec'.st[5] = "passed" PROVE disk'.proj = disk.proj
  BY <1>1 DEF Demotes, WorkInv, ReleaseFits
<1> QED
  BY <1>1, WorkKept

\* A result saved and not yet a confirmed code draft.
LEMMA ResultWork ==
  ASSUME TypeOK, TaskSet, StageOrder, TaskFits, TaskCurrent, WorkInv,
         NEW s \in Interactive, NEW c \in Contents, AgentReturns(s, c),
         inp' = inp, disk' = ResultSaved(s, c), rec'.inRev = rec.inRev,
         (s = 4 /\ c # Content(disk, s)) \/ rec'.subRev = rec.subRev,
         \A t \in Interactive : t > s => rec'.st[t] = "draft",
         rec'.st[5] # "passed"
  PROVE  WorkInv'
<1>1. op.ctx \in Context
  BY DEF AgentReturns, TaskSet
<1>2. \A t \in Interactive : t <= s =>
        /\ disk'.draft[t] # None /\ disk'.draft[t].src = inp.src
        /\ disk'.draft[t].up = Upstream(disk', t)
  BY ResultCurrent DEF WorkInv
<1>3. \A t \in Interactive : rec'.st[t] \in {"waiting_user", "passed"} => t <= s
  BY DEF Interactive
<1>4. ConfirmedIsCurrent'
  BY <1>2, <1>3 DEF ConfirmedIsCurrent
<1>5. disk'.release = IF s < 5 /\ c # Content(disk, s) THEN None ELSE disk.release
  BY <1>1, ResultSavedFields
<1>6. ReleaseStamped'
  BY <1>5 DEF WorkInv, ReleaseStamped
<1> QED
  BY <1>4, <1>6 DEF WorkInv, ReleaseFits

\* The code draft d is confirmed and frozen.
LEMMA FreezeWork ==
  ASSUME NEW d \in Disk, TypeOK,
         \A t \in Interactive :
           d.draft[t] # None /\ d.draft[t].src = inp.src /\ d.draft[t].up = Upstream(d, t),
         d.draft[5].inRev = rec.inRev, d.draft[5].subRev = rec.subRev,
         d.release # None => d.release.inRev = rec.inRev /\ d.release.subRev = rec.subRev,
         disk' = ReleaseFrozen(d), inp' = inp,
         rec'.inRev = rec.inRev, rec'.subRev = rec.subRev,
         rec'.codeIn = rec.inRev, rec'.codeSub = rec.subRev
  PROVE  WorkInv'
<1>1. /\ disk'.draft = d.draft /\ disk'.proj = "release"
      /\ disk'.release = IF d.release # None /\ d.release.c = d.draft[5].c
                           THEN d.release ELSE d.draft[5]
  BY ReleaseFrozenFields
<1>2. \A t \in Interactive : Upstream(disk', t) = Upstream(d, t)
  BY <1>1 DEF Upstream, Content
<1>3. 4 \in Interactive /\ 5 \in Interactive
  BY DEF Interactive
<1>4. /\ disk'.release # None /\ disk'.release.c = d.draft[5].c
      /\ disk'.release.inRev = rec.inRev /\ disk'.release.subRev = rec.subRev
  BY <1>1, <1>3
<1>5. ConfirmedIsCurrent'
  BY <1>1, <1>2 DEF ConfirmedIsCurrent
<1>6. ReleaseStamped'
  BY <1>4 DEF ReleaseStamped
<1>7. ReleaseFits'
  BY <1>1, <1>3, <1>4 DEF ReleaseFits, MayGenerate, Content
<1> QED
  BY <1>5, <1>6, <1>7 DEF WorkInv

LEMMA ContentsStep ==
  ASSUME ~EditsDuringTasks, ContentsInv, [Next]_vars
  PROVE  CompiledIsCurrent' /\ TaskCurrent' /\ WorkInv'
<1> DEFINE Goal == CompiledIsCurrent' /\ TaskCurrent' /\ WorkInv'
<1>0. /\ TypeOK /\ TaskSet /\ StageOrder /\ TaskFits /\ Ordered(rec)
      /\ CompiledIsCurrent /\ TaskCurrent /\ WorkInv
      /\ rec \in ProjectRecord /\ disk \in Disk /\ op \in Task /\ inp \in GlobalInput
      /\ rec.stage \in 2..8
  BY DEF ContentsInv, StageInv, TypeInv, TypeOK, StageOrder, ProjectRecord
<1>type. TypeOK
  BY <1>0
<1>stages. 3 \in Interactive /\ 4 \in Interactive /\ 5 \in Interactive /\ Interactive \subseteq 2..5
  BY DEF Interactive
<1>idle. Idle.at = "idle" /\ Finished.at \in {"idle", "loop"}
  BY <1>0, IdleType, FinishedType
<1>same. ASSUME rec' = rec, inp' = inp, disk' = disk, op'.at \in {"idle", "loop", "resume"} \union Building
         PROVE  Goal
  BY <1>0, <1>same, DemotesSame, DirectoryKept, EndsCurrent DEF CompiledIsCurrent
<1>1. ASSUME NEW src \in Sources, UpdateSolution(src) PROVE Goal
  BY <1>0, <1>1, ReplaceSolutionFields, WorkReset, EndsCurrent DEF UpdateSolution, CompiledIsCurrent
<1>2. ASSUME NEW s \in Interactive, NEW c \in Contents, SaveUserDraft(s, c) PROVE Goal
  <2>1. /\ disk'.release = IF s < 5 THEN None ELSE disk.release
        /\ \A t \in Interactive : t < s => disk'.draft[t] = disk.draft[t]
        /\ rec' = UserDraftSaved(rec, s) /\ inp' = inp /\ op' = op /\ op.at = "idle"
    BY <1>0, <1>2, UserDraftFields
  <2>2. /\ rec'.inRev = rec.inRev /\ rec'.compiled = rec.compiled
        /\ s # 4 => rec'.subRev = rec.subRev
        /\ \A t \in Interactive : t >= s => rec'.st[t] = "draft"
    BY <1>0, <2>1, UserDraftRecord
  <2>3. Demotes(rec', rec)
    BY <1>0, <2>1, Demotions
  <2>4. \A t \in Interactive : rec'.st[t] \in Held =>
          \A u \in Interactive : u <= t => disk'.draft[u] = disk.draft[u]
    BY <2>1, <2>2 DEF Held, Interactive
  <2>5. rec'.st[5] # "passed" /\ (rec'.subRev = rec.subRev \/ disk'.release = None)
    BY <2>1, <2>2 DEF Interactive
  <2>6. WorkInv'
    BY <1>0, <2>1, <2>2, <2>3, <2>4, <2>5, WorkKept
  <2> QED
    BY <1>0, <2>1, <2>2, <2>6, EndsCurrent DEF CompiledIsCurrent
<1>3. CASE CompileStart
  <2>1. op'.at = "compile" /\ op'.bin = inp.src /\ rec' = rec /\ inp' = inp /\ disk' = disk
    BY <1>3 DEF CompileStart, Idle
  <2> QED
    BY <1>0, <2>1, DemotesSame, DirectoryKept DEF CompiledIsCurrent, TaskCurrent
<1>4. ASSUME NEW ok \in BOOLEAN, CompileReturns(ok) PROVE Goal
  <2>1. op.bin = inp.src /\ inp' = inp /\ op' = Idle /\ (ok => op.bin \in GoodSources)
    BY <1>0, <1>4 DEF CompileReturns, TaskCurrent
  <2>2. CASE ok
    <3>1. rec' = CompileAccepted(rec) /\ disk' = disk
      BY <1>4, <2>2 DEF CompileReturns
    <3> QED
      BY <1>0, <1>idle, <2>1, <2>2, <3>1, CompileFields, Demotions, DirectoryKept, EndsCurrent
      DEF CompiledIsCurrent
  <2>3. CASE ~ok
    <3>1. rec' = CompileRejected(rec)
          /\ disk' = IF ResetsOnReject(rec) THEN ArtifactsInvalidated(disk, 2) ELSE disk
      BY <1>4, <2>3 DEF CompileReturns
    <3>2. CASE ResetsOnReject(rec)
      <4>1. disk'.release = None
        BY <1>0, <3>1, <3>2, ArtifactsInvalidatedFields
      <4> QED
        BY <1>0, <1>idle, <2>1, <3>1, <3>2, <4>1, CompileFields, WorkReset, EndsCurrent
        DEF CompiledIsCurrent
    <3>3. CASE ~ResetsOnReject(rec)
      BY <1>0, <1>idle, <2>1, <3>1, <3>3, CompileFields, Demotions, DirectoryKept, EndsCurrent
      DEF CompiledIsCurrent
    <3> QED
      BY <3>2, <3>3
  <2> QED
    BY <2>2, <2>3
<1>5. ASSUME NEW s \in Interactive, RunStage(s) PROVE Goal
  <2>1. rec' = BeginCheck(rec, s) /\ op' = AgentTask(s, FALSE) /\ inp' = inp /\ disk' = disk
    BY <1>5 DEF RunStage
  <2> QED
    BY <1>0, <2>1, AgentTaskContext, AgentCurrent DEF CompiledIsCurrent
<1>6. ASSUME NEW s \in Interactive, InstructStage(s) PROVE Goal
  <2> DEFINE t == AgentTask(s, FALSE)
  <2>1. t \in Task /\ t.s = s /\ t.ctx.src = inp.src /\ t.ctx.up = Upstream(disk, s)
    BY <1>0, AgentTaskType, AgentTaskContext
  <2> HIDE DEF t
  <2>2. op' = [t EXCEPT !.at = "classify", !.snap = rec] /\ rec' = rec /\ inp' = inp /\ disk' = disk
    BY <1>6 DEF InstructStage, t
  <2>3. op'.at = "classify" /\ op'.s = s /\ op'.ctx = t.ctx
    BY <2>1, <2>2 DEF Task
  <2>4. TaskCurrent'
    BY <2>1, <2>2, <2>3 DEF TaskCurrent
  <2> QED
    BY <1>0, <2>2, <2>4, DemotesSame, DirectoryKept DEF CompiledIsCurrent
<1>7. CASE ClassifyRevise
  <2>1. /\ op' = [op EXCEPT !.at = "agent", !.snap = None] /\ op.at = "classify"
        /\ rec' = BeginCheck(op.snap, op.s) /\ inp' = inp /\ disk' = disk
    BY <1>7 DEF ClassifyRevise
  <2>2. op'.at = "agent" /\ op'.s = op.s /\ op'.ctx = op.ctx
    BY <1>0, <2>1 DEF Task
  <2>3. /\ op.snap = rec /\ op.s \in Interactive
        /\ op.ctx.src = inp.src /\ op.ctx.up = Upstream(disk, op.s)
    BY <1>0, <2>1 DEF TaskFits, TaskSet, TaskCurrent
  <2> QED
    BY <1>0, <2>1, <2>2, <2>3, AgentCurrent DEF CompiledIsCurrent
<1>8. CASE ClassifyAnswer
  BY <1>8, <1>same, <1>idle DEF ClassifyAnswer
<1>9. ASSUME NEW c \in Contents, AgentSavesCandidate(c) PROVE Goal
  <2> DEFINE n == NewDraft(5, c, op.ctx.in, op.ctx.sub)
  <2>1. n \in Draft
    BY <1>0, <1>9, <1>stages, NewDraftType DEF AgentSavesCandidate, TaskSet, Context
  <2>2. /\ op.at = "agent" /\ op.s = 5 /\ op' = [op EXCEPT !.cand = c]
        /\ disk' = DraftSaved(disk, 5, n) /\ rec' = rec /\ inp' = inp
    BY <1>9 DEF AgentSavesCandidate
  <2> HIDE DEF n
  <2>3. op'.at = "agent" /\ op'.s = 5 /\ op'.ctx = op.ctx /\ rec.st[5] = "checking"
    BY <1>0, <2>2 DEF Task, TaskCurrent
  <2>4. disk'.release = disk.release
        /\ \A t \in Interactive : t < 5 => disk'.draft[t] = disk.draft[t]
    BY <1>0, <1>stages, <2>1, <2>2, DraftSavedFields
  <2>5. Upstream(disk', 5) = Upstream(disk, 5)
    BY <1>stages, <2>4 DEF Upstream, Content
  <2>6. TaskCurrent'
    BY <1>0, <2>2, <2>3, <2>5 DEF TaskCurrent
  <2>7. \A t \in Interactive : rec'.st[t] \in Held =>
          \A u \in Interactive : u <= t => disk'.draft[u] = disk.draft[u]
    BY <2>2, <2>3, <2>4 DEF Held, Interactive
  <2>8. WorkInv'
    BY <1>0, <2>2, <2>3, <2>4, <2>7, DemotesSame, WorkKept
  <2> QED
    BY <1>0, <2>2, <2>6, <2>8 DEF CompiledIsCurrent
<1>10. CASE AgentClearsDraft
  <2>1. /\ op.at = "agent" /\ op.s \in Interactive /\ op' = [op EXCEPT !.cand = None]
        /\ disk' = WorkingDraftCleared(disk, op.s) /\ rec' = rec /\ inp' = inp
    BY <1>0, <1>10 DEF AgentClearsDraft, TaskSet
  <2>2. op'.at = "agent" /\ op'.s = op.s /\ op'.ctx = op.ctx
        /\ rec.st[op.s] = "checking" /\ op.s = rec.stage
    BY <1>0, <2>1 DEF Task, TaskCurrent, TaskFits
  <2>3. disk'.release = disk.release
        /\ \A t \in Interactive : t < op.s => disk'.draft[t] = disk.draft[t]
    BY <1>0, <2>1, WorkingDraftClearedFields DEF Interactive
  <2>4. Upstream(disk', op.s) = Upstream(disk, op.s)
    BY <2>1, <2>3 DEF Upstream, Content, Interactive
  <2>5. TaskCurrent'
    BY <1>0, <2>1, <2>2, <2>4 DEF TaskCurrent
  <2>6. \A t \in Interactive : rec.st[t] \in Held => t < op.s
    BY <1>0, <2>1, <2>2 DEF Ordered, Held, Interactive
  <2>7. \A t \in Interactive : rec'.st[t] \in Held =>
          \A u \in Interactive : u <= t => disk'.draft[u] = disk.draft[u]
    BY <2>1, <2>3, <2>6 DEF Interactive
  <2>8. rec.st[5] # "passed"
    BY <1>stages, <2>1, <2>6 DEF Held, Interactive
  <2>9. WorkInv'
    BY <1>0, <2>1, <2>3, <2>7, <2>8, DemotesSame, WorkKept
  <2> QED
    BY <1>0, <2>1, <2>5, <2>9 DEF CompiledIsCurrent
<1>11. ASSUME NEW s \in Interactive, NEW c \in Contents, AgentPasses(s, c) PROVE Goal
  <2> DEFINE r == PassedRecord(s, c)
  <2>1. /\ AgentReturns(s, c) /\ disk' = ResultSaved(s, c) /\ inp' = inp /\ op' = Idle
        /\ rec' = [r EXCEPT !.threads = r.threads \cup WaitingThread(s)]
    BY <1>11 DEF AgentPasses, PassedRecord
  <2>2. /\ r \in ProjectRecord
        /\ r.inRev = rec.inRev /\ r.compiled = rec.compiled
        /\ r.st[s] = "waiting_user" /\ \A t \in Interactive : t > s => r.st[t] = "draft"
    <3>1. r \in ProjectRecord
      BY <1>type, AiResultPassed
    <3>2. r.inRev = rec.inRev /\ r.compiled = rec.compiled
      BY <1>type, AiResultPassed
    <3>3. r.st[s] = "waiting_user"
      BY <1>type, AiResultPassed
    <3>4. ASSUME NEW t \in Interactive, t > s PROVE r.st[t] = "draft"
      BY <1>type, <3>4, PassedResets
    <3> QED
      BY <3>1, <3>2, <3>3, <3>4
  <2>plan. s # 4 => r.subRev = rec.subRev
    BY <1>type, AiResultPassed
  <2>same. ASSUME c = Content(disk, s) PROVE r.subRev = rec.subRev
    BY <1>type, <2>same, AiResultPassed
  <2> HIDE DEF r
  <2>3. /\ rec'.inRev = r.inRev /\ rec'.subRev = r.subRev /\ rec'.st = r.st
        /\ rec'.compiled = r.compiled
    BY <2>1, <2>2 DEF ProjectRecord
  <2>4. rec'.st[5] # "passed"
    BY <1>stages, <2>2, <2>3 DEF Interactive
  <2>5. WorkInv'
    BY <1>0, <2>1, <2>2, <2>same, <2>plan, <2>3, <2>4, ResultWork
  <2> QED
    BY <1>0, <1>idle, <2>1, <2>2, <2>3, <2>5, EndsCurrent DEF CompiledIsCurrent
<1>12. ASSUME NEW s \in Interactive, NEW c \in Contents, AgentPassesAuto(s, c) PROVE Goal
  <2> DEFINE r == PassedRecord(s, c)
  <2>1. /\ AgentReturns(s, c) /\ inp' = inp /\ op' = Finished /\ rec' = Confirmed(r, s)
        /\ disk' = IF s = 5 THEN ReleaseFrozen(ResultSaved(5, c)) ELSE ResultSaved(s, c)
    BY <1>12 DEF AgentPassesAuto, PassedRecord
  <2>2. /\ r \in ProjectRecord
        /\ r.inRev = rec.inRev /\ r.compiled = rec.compiled
        /\ \A t \in Interactive : t > s => r.st[t] = "draft"
    <3>1. r \in ProjectRecord
      BY <1>type, AiResultPassed
    <3>2. r.inRev = rec.inRev /\ r.compiled = rec.compiled
      BY <1>type, AiResultPassed
    <3>3. ASSUME NEW t \in Interactive, t > s PROVE r.st[t] = "draft"
      BY <1>type, <3>3, PassedResets
    <3> QED
      BY <3>1, <3>2, <3>3
  <2>plan. s # 4 => r.subRev = rec.subRev
    BY <1>type, AiResultPassed
  <2>same. ASSUME c = Content(disk, s) PROVE r.subRev = rec.subRev
    BY <1>type, <2>same, AiResultPassed
  <2> HIDE DEF r
  <2>3. /\ rec'.inRev = r.inRev /\ rec'.subRev = r.subRev /\ rec'.compiled = r.compiled
        /\ \A t \in Interactive : rec'.st[t] = IF t = s THEN "passed" ELSE r.st[t]
        /\ s = 5 => rec'.codeIn = r.inRev /\ rec'.codeSub = r.subRev
    BY <2>1, <2>2, ConfirmedFields
  <2>4. CompiledIsCurrent' /\ TaskCurrent'
    BY <1>0, <1>idle, <2>1, <2>2, <2>3, EndsCurrent DEF CompiledIsCurrent
  <2>5. CASE s # 5
    <3>1. rec'.st[5] # "passed" /\ \A t \in Interactive : t > s => rec'.st[t] = "draft"
      BY <1>stages, <2>2, <2>3, <2>5 DEF Interactive
    <3>2. WorkInv'
      BY <1>0, <2>1, <2>2, <2>same, <2>plan, <2>3, <2>5, <3>1, ResultWork
    <3> QED
      BY <2>4, <3>2
  <2>6. CASE s = 5
    <3> DEFINE d == ResultSaved(5, c)
    <3>1. op.ctx \in Context
      BY <1>0, <2>1 DEF AgentReturns, TaskSet
    <3>2. d \in Disk /\ d.release = disk.release
      BY <1>0, <1>stages, <3>1, ResultSavedFields
    <3>3. /\ \A t \in Interactive : t <= 5 =>
               d.draft[t] # None /\ d.draft[t].src = inp.src /\ d.draft[t].up = Upstream(d, t)
          /\ d.draft[5].inRev = rec.inRev /\ d.draft[5].subRev = rec.subRev
      BY <1>0, <1>stages, <2>1, <2>6, ResultCurrent DEF WorkInv
    <3>4. disk' = ReleaseFrozen(d)
      BY <2>1, <2>6
    <3> HIDE DEF d
    <3>5. \A t \in Interactive :
            d.draft[t] # None /\ d.draft[t].src = inp.src /\ d.draft[t].up = Upstream(d, t)
      BY <3>3 DEF Interactive
    <3>6. WorkInv'
      BY <1>0, <2>1, <2>2, <2>plan, <2>3, <2>6, <3>2, <3>3, <3>4, <3>5, FreezeWork
      DEF WorkInv, ReleaseStamped
    <3> QED
      BY <2>4, <3>6
  <2> QED
    BY <2>5, <2>6
<1>13. ASSUME NEW c \in Contents, AgentRevises(c) PROVE Goal
  <2> DEFINE r == RevisedRecord(c)
  <2>1. /\ AgentReturns(5, c) /\ disk' = ResultSaved(5, c) /\ inp' = inp /\ op' = Idle
        /\ rec' = IF op.auto THEN StageFailed(r, 5) ELSE r
    BY <1>13 DEF AgentRevises, RevisedRecord
  <2>2. /\ r \in ProjectRecord
        /\ r.inRev = rec.inRev /\ r.compiled = rec.compiled /\ r.subRev = rec.subRev
        /\ r.st[5] = "draft"
    BY <1>0, <1>stages, AiResultRevised
  <2> HIDE DEF r
  <2>3. /\ rec'.inRev = rec.inRev /\ rec'.compiled = rec.compiled /\ rec'.subRev = rec.subRev
        /\ rec'.st[5] # "passed"
    BY <1>stages, <2>1, <2>2, FailedFields
  <2>4. \A t \in Interactive : t > 5 => rec'.st[t] = "draft"
    BY DEF Interactive
  <2>5. WorkInv'
    BY <1>0, <1>stages, <2>1, <2>3, <2>4, ResultWork
  <2> QED
    BY <1>0, <1>idle, <2>1, <2>3, <2>5, EndsCurrent DEF CompiledIsCurrent
<1>14. CASE AgentFails
  <2>1. op.s \in Interactive /\ rec' = StageFailed(rec, op.s) /\ op' = Idle /\ inp' = inp /\ disk' = disk
    BY <1>0, <1>14 DEF AgentFails, TaskSet
  <2> QED
    BY <1>0, <1>idle, <2>1, FailedFields, Demotions, DirectoryKept, EndsCurrent DEF CompiledIsCurrent
<1>15. CASE AgentReroutes
  <2> DEFINE r == StageFailed(rec, 5)
  <2>1. rec' = StageFailed(r, 4) /\ op' = Finished /\ inp' = inp /\ disk' = disk
    BY <1>15 DEF AgentReroutes
  <2>2. /\ r \in ProjectRecord /\ Demotes(r, rec)
        /\ r.inRev = rec.inRev /\ r.compiled = rec.compiled /\ r.subRev = rec.subRev
    BY <1>0, <1>stages, StageFailedType, Demotions, FailedFields
  <2> HIDE DEF r
  <2>3. /\ Demotes(rec', r) /\ rec'.st[5] = "draft"
        /\ rec'.inRev = r.inRev /\ rec'.compiled = r.compiled /\ rec'.subRev = r.subRev
    BY <1>stages, <2>1, <2>2, Demotions, FailedFields
  <2>4. Demotes(rec', rec)
    BY <2>2, <2>3 DEF Demotes
  <2> QED
    BY <1>0, <1>idle, <2>1, <2>2, <2>3, <2>4, DirectoryKept, EndsCurrent DEF CompiledIsCurrent
<1>16. CASE ConfirmCode
  <2>1. /\ rec.st[5] = "waiting_user" /\ rec.stage = 5 /\ op.at = "idle"
        /\ disk.draft[5].inRev = rec.inRev /\ disk.draft[5].subRev = rec.subRev
        /\ rec' = Confirmed(rec, 5) /\ disk' = ReleaseFrozen(disk) /\ inp' = inp /\ op' = op
    BY <1>16 DEF ConfirmCode, MayConfirm, MayFreeze
  <2>2. /\ rec'.inRev = rec.inRev /\ rec'.subRev = rec.subRev /\ rec'.compiled = rec.compiled
        /\ rec'.codeIn = rec.inRev /\ rec'.codeSub = rec.subRev
    BY <1>0, <1>stages, <2>1, ConfirmedFields
  <2>3. \A t \in Interactive : rec.st[t] \in {"waiting_user", "passed"}
    BY <1>0, <2>1 DEF Ordered, Interactive
  <2>4. \A t \in Interactive : /\ disk.draft[t] # None /\ disk.draft[t].src = inp.src
                               /\ disk.draft[t].up = Upstream(disk, t)
    BY <1>0, <2>3 DEF WorkInv, ConfirmedIsCurrent
  <2>5. WorkInv'
    BY <1>0, <2>1, <2>2, <2>4, FreezeWork DEF WorkInv, ReleaseStamped
  <2> QED
    BY <1>0, <2>1, <2>2, <2>5, EndsCurrent DEF CompiledIsCurrent
<1>17. ASSUME NEW s \in Interactive, ConfirmStart(s) PROVE Goal
  BY <1>17, <1>same DEF ConfirmStart, Idle
<1>18. CASE ConfirmResumed
  <2>1. /\ op.s \in {3, 4} /\ rec.st[op.s] \in {"waiting_user", "passed"}
        /\ rec' = Confirmed(rec, op.s) /\ op' = Idle /\ inp' = inp /\ disk' = disk
    BY <1>0, <1>18 DEF ConfirmResumed, MayConfirm, TaskSet
  <2>2. /\ \A t \in Interactive : rec'.st[t] = IF t = op.s THEN "passed" ELSE rec.st[t]
        /\ rec'.inRev = rec.inRev /\ rec'.subRev = rec.subRev /\ rec'.compiled = rec.compiled
        /\ rec'.codeIn = rec.codeIn /\ rec'.codeSub = rec.codeSub
    BY <1>0, <1>stages, <2>1, ConfirmedFields
  <2>3. Demotes(rec', rec)
    BY <1>stages, <2>1, <2>2 DEF Demotes, Held
  <2> QED
    BY <1>0, <1>idle, <2>1, <2>2, <2>3, DirectoryKept, EndsCurrent DEF CompiledIsCurrent
<1>19. CASE AutoRun
  <2>1. op'.at = "loop" /\ inp' = inp
    BY <1>19 DEF AutoRun, Idle
  <2>2. CASE rec' = rec /\ disk' = disk
    BY <1>same, <2>1, <2>2
  <2>3. ASSUME NEW s \in Interactive, rec' = StageFailed(rec, s), disk' = ArtifactsInvalidated(disk, s)
        PROVE  Goal
    <3>1. /\ rec'.inRev = rec.inRev /\ rec'.subRev = rec.subRev /\ rec'.compiled = rec.compiled
          /\ rec'.st[s] = "failed" /\ \A t \in Interactive : t > s => rec'.st[t] = "draft"
      BY <1>0, <2>3, FailedFields
    <3>2. /\ disk'.release = IF s < 5 THEN None ELSE disk.release
          /\ \A t \in Interactive : t <= s => disk'.draft[t] = disk.draft[t]
      BY <1>0, <1>stages, <2>3, ArtifactsInvalidatedFields DEF Interactive
    <3>3. Demotes(rec', rec)
      BY <1>0, <2>3, Demotions
    <3>4. \A t \in Interactive : rec'.st[t] \in Held =>
            \A u \in Interactive : u <= t => disk'.draft[u] = disk.draft[u]
      BY <3>1, <3>2 DEF Held, Interactive
    <3>5. rec'.st[5] # "passed"
      BY <1>stages, <3>1 DEF Interactive
    <3>6. WorkInv'
      BY <1>0, <2>1, <3>1, <3>2, <3>3, <3>4, <3>5, WorkKept
    <3> QED
      BY <1>0, <2>1, <3>1, <3>6, EndsCurrent DEF CompiledIsCurrent
  <2> QED
    BY <1>19, <2>2, <2>3 DEF AutoRun, Interrupted
<1>20. CASE AutoRepair
  <2>1. op' = [op EXCEPT !.at = "repair", !.bin = inp.src] /\ rec' = rec /\ inp' = inp /\ disk' = disk
    BY <1>20 DEF AutoRepair
  <2>2. op'.at = "repair" /\ op'.bin = inp.src
    BY <1>0, <2>1 DEF Task
  <2> QED
    BY <1>0, <2>1, <2>2, DemotesSame, DirectoryKept DEF CompiledIsCurrent, TaskCurrent
<1>21. CASE RepairCompiles
  <2>1. /\ op.bin = inp.src /\ op.bin \in GoodSources
        /\ rec' = CompileAccepted(rec) /\ op' = Finished /\ inp' = inp /\ disk' = disk
    BY <1>0, <1>21 DEF RepairCompiles, TaskCurrent
  <2> QED
    BY <1>0, <1>idle, <2>1, CompileFields, Demotions, DirectoryKept, EndsCurrent DEF CompiledIsCurrent
<1>22. ASSUME NEW src \in Sources, RepairRewrites(src) PROVE Goal
  <2>1. /\ op' = [op EXCEPT !.bin = src, !.fixes = op.fixes + 1] /\ op.at = "repair"
        /\ ReplaceSolution(src) \/ (src = inp.src /\ rec' = rec /\ inp' = inp /\ disk' = disk)
    BY <1>22 DEF RepairRewrites
  <2>2. op'.at = "repair" /\ op'.bin = src
    BY <1>0, <2>1 DEF Task
  <2>3. CASE ReplaceSolution(src)
    BY <1>0, <2>2, <2>3, ReplaceSolutionFields, WorkReset DEF CompiledIsCurrent, TaskCurrent
  <2>4. CASE src = inp.src /\ rec' = rec /\ inp' = inp /\ disk' = disk
    BY <1>0, <2>2, <2>4, DemotesSame, DirectoryKept DEF CompiledIsCurrent, TaskCurrent
  <2> QED
    BY <2>1, <2>3, <2>4
<1>23. ASSUME NEW s \in Interactive, AutoStage(s) PROVE Goal
  <2>1. rec' = BeginCheck(rec, s) /\ op' = AgentTask(s, TRUE) /\ inp' = inp /\ disk' = disk
    BY <1>23 DEF AutoStage
  <2> QED
    BY <1>0, <2>1, AgentTaskContext, AgentCurrent DEF CompiledIsCurrent
<1>24. CASE AutoRefused
  BY <1>24, <1>same, <1>idle DEF AutoRefused
<1>25. ASSUME NEW man, NEW at \in {"gencompile", "valcompile"},
              disk' = [Project(disk, "release") EXCEPT !.batch = man],
              op' = BuildTask(at, man), rec' = rec, inp' = inp
       PROVE  Goal
  <2>1. disk'.draft = disk.draft /\ disk'.release = disk.release /\ disk'.proj = "release"
    BY <1>0, <1>25 DEF Project, Disk
  <2>2. op'.at \in Building
    BY <1>0, <1>25 DEF BuildTask, Task, Building
  <2> QED
    BY <1>0, <1>25, <2>1, <2>2, DemotesSame, BuildKept, EndsCurrent DEF CompiledIsCurrent
<1>28. CASE GenerateStart \/ ValidateStart
  <2>1. CASE GenerateStart
    BY <1>25, <2>1 DEF GenerateStart
  <2>2. CASE ValidateStart
    BY <1>25, <2>2 DEF ValidateStart
  <2> QED
    BY <1>28, <2>1, <2>2
<1>26. CASE GeneratorCompiled
  <2>1. /\ disk'.draft = disk.draft /\ disk'.release = disk.release /\ disk'.proj = disk.proj
        /\ op'.at = "generating" /\ rec' = rec /\ inp' = inp
    BY <1>0, <1>26 DEF GeneratorCompiled, Disk, Task
  <2> QED
    BY <1>0, <2>1, DemotesSame, BuildKept, EndsCurrent DEF CompiledIsCurrent, Building
<1>27. ASSUME NEW w \in BOOLEAN, GenerateEnds(w) PROVE Goal
  <2>1. /\ disk'.draft = disk.draft /\ disk'.release = disk.release /\ disk'.proj = disk.proj
        /\ op' = Finished /\ rec' = GenerationComplete(rec) /\ inp' = inp
    BY <1>0, <1>27 DEF GenerateEnds, Disk
  <2> QED
    BY <1>0, <1>idle, <2>1, BuildFields, Demotions, BuildKept, EndsCurrent DEF CompiledIsCurrent
<1>29. CASE SolutionCompiled
  <2>1. op'.at = "solving" /\ rec' = rec /\ inp' = inp /\ disk' = disk
    BY <1>0, <1>29 DEF SolutionCompiled, Task
  <2> QED
    BY <1>same, <2>1 DEF Building
<1>30. CASE ValidateEnds
  <2>1. /\ disk'.draft = disk.draft /\ disk'.release = disk.release /\ disk'.proj = disk.proj
        /\ op' = Finished /\ rec' = ValidationComplete(rec) /\ inp' = inp
    BY <1>0, <1>30 DEF ValidateEnds, Disk
  <2> QED
    BY <1>0, <1>idle, <2>1, BuildFields, Demotions, BuildKept, EndsCurrent DEF CompiledIsCurrent
<1>31. CASE BuildFails
  <2>1. /\ disk'.draft = disk.draft /\ disk'.release = disk.release /\ disk'.proj = "release"
        /\ rec' = PipelineFailure(rec) /\ inp' = inp
    BY <1>0, <1>31 DEF BuildFails, Project, Disk
  <2>2. [Finished EXCEPT !.downs = op.downs + 1].at = Finished.at
    BY <1>0, FinishedType DEF Task
  <2>3. op'.at \in {"idle", "loop"}
    BY <1>31, <1>idle, <2>2 DEF BuildFails
  <2> QED
    BY <1>0, <2>1, <2>3, BuildFields, Demotions, BuildKept, EndsCurrent DEF CompiledIsCurrent
<1>32. CASE Export
  <2>1. /\ disk'.draft = disk.draft /\ disk'.release = disk.release
        /\ disk'.proj \in {disk.proj, "release"}
        /\ rec' = rec /\ inp' = inp /\ op' = Idle
    BY <1>0, <1>32 DEF Export, Project, Disk
  <2> QED
    BY <1>0, <1>idle, <2>1, DemotesSame, BuildKept, EndsCurrent DEF CompiledIsCurrent
<1>33. CASE TaskStops
  BY <1>33, <1>same, <1>idle DEF TaskStops
<1>34. CASE Cancel
  BY <1>34, <1>same, <1>idle DEF Cancel
<1>35. CASE Restart
  <2>1. rec' = ChecksRecovered(rec) /\ op' = Idle /\ inp' = inp /\ disk' = disk
    BY <1>35 DEF Restart
  <2> QED
    BY <1>0, <1>idle, <2>1, BuildFields, Demotions, DirectoryKept, EndsCurrent DEF CompiledIsCurrent
<1>36. CASE UNCHANGED vars
  <2>1. rec' = rec /\ inp' = inp /\ disk' = disk /\ op' = op
    BY <1>36 DEF vars
  <2> QED
    BY <1>0, <2>1, DemotesSame, DirectoryKept DEF CompiledIsCurrent, TaskCurrent
<1> QED
  BY <1>1, <1>2, <1>3, <1>4, <1>5, <1>6, <1>7, <1>8, <1>9, <1>10, <1>11, <1>12, <1>13, <1>14,
     <1>15, <1>16, <1>17, <1>18, <1>19, <1>20, <1>21, <1>22, <1>23, <1>24, <1>26, <1>27, <1>28,
     <1>29, <1>30, <1>31, <1>32, <1>33, <1>34, <1>35, <1>36
  DEF Next, Request, Progress, Working, AgentEnds

LEMMA ContentsNext == ASSUME ~EditsDuringTasks PROVE ContentsInv /\ [Next]_vars => ContentsInv'
<1> SUFFICES ASSUME ContentsInv, [Next]_vars PROVE ContentsInv'
  OBVIOUS
<1>1. StageInv'
  BY TypeStep, StageStep DEF ContentsInv, StageInv
<1>2. CompiledIsCurrent' /\ TaskCurrent' /\ WorkInv'
  BY ContentsStep
<1> QED
  BY <1>1, <1>2 DEF ContentsInv

LEMMA ContentsAlways == ASSUME ~EditsDuringTasks PROVE Spec => []ContentsInv
<1>1. Init => ContentsInv
  BY ContentsInit
<1>2. ContentsInv /\ [Next]_vars => ContentsInv'
  BY ContentsNext
<1> QED
  BY <1>1, <1>2, PTL DEF Spec

\* As long as nobody edits under a task, solution_compiled is true of the source
\* that is stored: mark_solution_compiled judges what was compiled, and every
\* writer of the source takes the flag back (project_service.py 214-270).
THEOREM CompiledStaysCurrent == ASSUME ~EditsDuringTasks PROVE Spec => []CompiledIsCurrent
<1>1. ContentsInv => CompiledIsCurrent
  BY DEF ContentsInv
<1> QED
  BY <1>1, ContentsAlways, PTL

\* Under the same assumption, what waits for the user or was accepted was written
\* against the solution and the upstream draft that are there now, through every
\* rerun, failure, reroute, cancellation and restart.
THEOREM ConfirmedStaysCurrent == ASSUME ~EditsDuringTasks PROVE Spec => []ConfirmedIsCurrent
<1>1. ContentsInv => ConfirmedIsCurrent
  BY DEF ContentsInv, WorkInv
<1> QED
  BY <1>1, ContentsAlways, PTL

\* Under the same assumption, stages 6 and 7 find the release they were promised:
\* the confirmed code, at the record's revisions, under the runner.
THEOREM ReleaseStaysFit == ASSUME ~EditsDuringTasks PROVE Spec => []ReleaseFits
<1>1. ContentsInv => ReleaseFits
  BY DEF ContentsInv, WorkInv
<1> QED
  BY <1>1, ContentsAlways, PTL

-----------------------------------------------------------------------------
(* The archive, whoever edits and whenever *)

\* What run_stage read before the routing call is still there, or an edit has
\* taken everything that could tell the difference.
SnapFits ==
  op.at = "classify" =>
    /\ op.snap.compiled /\ op.snap.stage = op.s
    /\ op.snap = rec \/ (disk.draft[4] = None /\ disk.batch = None)

\* Code is held only on a compiled solution, as long as there is a plan.
CodeFits ==
  disk.draft[4] # None =>
    /\ rec.st[5] \in Held => rec.compiled
    /\ rec.st[5] = "passed" => rec.stage >= 6
    /\ op.at = "agent" => rec.st[5] # "passed"
    /\ op.at = "agent" /\ op.s = 5 => rec.compiled

\* Answers are not found without a manifest.
Unlisted == disk.batch = None /\ disk.data # None => disk.data.outs = None

Live(stamp) == stamp.wf = rec.wfRev /\ stamp.in = rec.inRev /\ stamp.sub = rec.subRev

\* What the manifest says of the files, when its stamp is of the present revisions.
Listed ==
  disk.batch.listed =>
    /\ disk.data # None /\ disk.data.whole /\ disk.data.code = disk.batch.stamp.code
    /\ disk.draft[4] = None \/ disk.data.plan = disk.draft[4].c
Solved ==
  disk.batch.status = "completed" => disk.batch.listed /\ disk.data.outs = inp.src
BatchFits ==
  disk.batch # None =>
    disk.batch.stamp.wf < rec.wfRev \/ (Live(disk.batch.stamp) /\ Listed /\ Solved)

\* gen and ready are only set on top of confirmed code.
BuiltFits ==
  (rec.gen \/ rec.ready) /\ disk.batch # None /\ disk.batch.stamp.wf >= rec.wfRev =>
    rec.st[5] = "passed" /\ disk.draft[4] # None

\* A build runs on the manifest it wrote, or on one an edit has outdated.
Outdated == op.build.man.stamp.wf < rec.wfRev /\ disk.batch = None
InPlace ==
  /\ disk.batch = op.build.man /\ Live(op.build.man.stamp)
  /\ op.build.man.status # "completed"
  /\ op.at \in {"gencompile", "generating"} => ~op.build.man.listed
  /\ op.at = "generating" => disk.data # None
  /\ op.build.man.stamp.code = op.build.code
  /\ rec.st[5] = "passed" /\ disk.draft[4] # None
  /\ op.build.plan = disk.draft[4].c /\ op.build.bin = inp.src
BuildFits == op.at \in Building => Outdated \/ InPlace

ArchiveInv == SnapFits /\ CodeFits /\ Unlisted /\ BatchFits /\ BuiltFits /\ BuildFits

Quiet == {"idle", "loop", "resume", "compile", "repair"}

\* What passes the guard of export is what the invariant speaks of.
LEMMA ArchiveSound == ASSUME TypeOK, ArchiveInv PROVE ExportSound
<1> SUFFICES ASSUME MayExport(rec, disk)
             PROVE  /\ disk.data.whole /\ disk.data.outs = inp.src
                    /\ disk.data.plan = Content(disk, 4)
                    /\ disk.data.code = Generated(IF disk.batch = None THEN disk
                                                   ELSE Project(disk, "release"))
  BY DEF ExportSound
<1>1. rec.ready /\ disk.data # None /\ disk.data.outs # None
  BY DEF MayExport
<1>2. disk.batch # None
  BY <1>1 DEF ArchiveInv, Unlisted
<1>3. disk.batch.status = "completed" /\ disk.release # None
      /\ disk.batch.stamp = CurrentStamp(rec, disk)
  BY <1>2 DEF MayExport, ManifestMatches
<1>4. disk.batch.stamp.wf = rec.wfRev /\ disk.batch.stamp.code = disk.release.c /\ rec.wfRev \in Nat
  BY <1>3 DEF CurrentStamp, TypeOK, ProjectRecord
<1>5. Listed /\ Solved
  BY <1>2, <1>4 DEF ArchiveInv, BatchFits
<1>6. disk.draft[4] # None
  BY <1>1, <1>2, <1>4 DEF ArchiveInv, BuiltFits
<1>7. /\ disk.data.whole /\ disk.data.outs = inp.src /\ disk.data.code = disk.release.c
      /\ disk.data.plan = disk.draft[4].c
  BY <1>3, <1>4, <1>5, <1>6 DEF Listed, Solved
<1>8. Generated(Project(disk, "release")) = disk.release.c
  BY <1>3 DEF Generated, Project, TypeOK, Disk
<1> QED
  BY <1>2, <1>6, <1>7, <1>8 DEF Content

LEMMA ArchiveInit == Init => ArchiveInv
<1> SUFFICES ASSUME Init PROVE ArchiveInv
  OBVIOUS
<1>1. op.at = "idle"
  BY DEF Init, Idle
<1>2. disk.batch = None /\ disk.data = None /\ rec.st[5] = "draft"
  BY DEF Init, NewProject, KeptProject, Interactive
<1> QED
  BY <1>1, <1>2 DEF ArchiveInv, SnapFits, CodeFits, Unlisted, BatchFits, BuiltFits, BuildFits,
                    Building, Held

LEMMA NoTask == ASSUME op'.at \in Quiet PROVE SnapFits' /\ BuildFits'
BY DEF Quiet, SnapFits, BuildFits, Building

\* Nothing that was built is left, and no code is held.
LEMMA ArchiveCleared ==
  ASSUME disk'.batch = None, disk'.data = None, rec'.st[5] \notin Held, op'.at \in Quiet
  PROVE  ArchiveInv'
<1>1. op'.at # "agent"
  BY DEF Quiet
<1> QED
  BY <1>1, NoTask DEF ArchiveInv, CodeFits, Unlisted, BatchFits, BuiltFits, Held

\* The solution is replaced: under a task, or by one.
LEMMA ArchiveReplaced ==
  ASSUME TypeInv, ArchiveInv, disk'.draft[4] = None, disk'.batch = None, disk'.data = None,
         rec'.wfRev = rec.wfRev + 1, op' = op \/ op'.at \in Quiet
  PROVE  ArchiveInv'
<1>1. CodeFits' /\ Unlisted' /\ BatchFits' /\ BuiltFits'
  BY DEF CodeFits, Unlisted, BatchFits, BuiltFits
<1>2. SnapFits'
  BY DEF ArchiveInv, SnapFits, Quiet
<1>3. ASSUME op' = op, op.at \in Building PROVE Outdated'
  <2>1. op.build.man.stamp.wf \in Nat /\ rec.wfRev \in Nat
    BY <1>3 DEF TypeInv, TypeOK, TaskSet, Build, Batch, Stamp, ProjectRecord
  <2>2. op.build.man.stamp.wf <= rec.wfRev
    BY <1>3, <2>1 DEF ArchiveInv, BuildFits, Outdated, InPlace, Live
  <2> QED
    BY <1>3, <2>1, <2>2 DEF Outdated
<1>4. BuildFits'
  BY <1>3 DEF BuildFits, Quiet, Building
<1> QED
  BY <1>1, <1>2, <1>4 DEF ArchiveInv

SameRevisions == rec'.wfRev = rec.wfRev /\ rec'.inRev = rec.inRev /\ rec'.subRev = rec.subRev
SameBatch == disk'.batch = disk.batch /\ disk'.data = disk.data
PlanKept ==
  disk'.draft[4] # None => disk.draft[4] # None /\ disk'.draft[4].c = disk.draft[4].c

LEMMA BatchKept ==
  ASSUME ArchiveInv, inp' = inp, SameRevisions, SameBatch, PlanKept
  PROVE  Unlisted' /\ BatchFits'
<1>1. Unlisted'
  BY DEF ArchiveInv, Unlisted, SameBatch
<1>2. ASSUME disk.batch # None, Live(disk.batch.stamp), Listed, Solved
      PROVE  Live(disk.batch.stamp)' /\ Listed' /\ Solved'
  BY <1>2 DEF Live, Listed, Solved, SameBatch, SameRevisions, PlanKept
<1>3. BatchFits'
  BY <1>2 DEF ArchiveInv, BatchFits, SameBatch, SameRevisions
<1> QED
  BY <1>1, <1>3

\* A step that ends outside the stages and the builds and leaves the files: it
\* holds code and claims a build only where that was so before.
LEMMA ArchiveEnds ==
  ASSUME ArchiveInv, inp' = inp, SameRevisions, SameBatch, PlanKept, op'.at \in Quiet,
         rec.st[5] \in Held \/ rec'.st[5] \notin Held, rec'.st[5] = "passed" => rec.st[5] = "passed",
         rec.compiled => rec'.compiled \/ rec'.st[5] \notin Held,
         rec'.st[5] = "passed" /\ rec.compiled => rec'.stage >= 6 \/ rec'.stage = rec.stage,
         rec'.gen \/ rec'.ready =>
           (rec.gen \/ rec.ready) /\ rec'.st[5] = rec.st[5] /\ disk'.draft[4] = disk.draft[4]
  PROVE  ArchiveInv'
<1>1. SnapFits' /\ BuildFits' /\ op'.at # "agent"
  BY NoTask DEF Quiet
<1>2. Unlisted' /\ BatchFits'
  BY BatchKept
<1>3. CodeFits'
  BY <1>1 DEF ArchiveInv, CodeFits, PlanKept, Held
<1>4. BuiltFits'
  BY DEF ArchiveInv, BuiltFits, SameRevisions, SameBatch
<1> QED
  BY <1>1, <1>2, <1>3, <1>4 DEF ArchiveInv

LEMMA ArchiveQuiet ==
  ASSUME ArchiveInv, rec' = rec, inp' = inp, op'.at \in Quiet,
         disk'.draft[4] = disk.draft[4], disk'.batch = disk.batch, disk'.data = disk.data
  PROVE  ArchiveInv'
<1>1. SameRevisions /\ SameBatch /\ PlanKept
  BY DEF SameRevisions, SameBatch, PlanKept
<1> QED
  BY <1>1, ArchiveEnds

\* The step to the agent of the stage the record is at.
LEMMA ArchiveAgent ==
  ASSUME TypeOK, ArchiveInv, NEW s \in Interactive, s = rec.stage, rec.compiled,
         rec' = BeginCheck(rec, s), inp' = inp, disk' = disk, op'.at = "agent", op'.s = s
  PROVE  ArchiveInv'
<1>1. /\ SameRevisions /\ SameBatch /\ PlanKept
      /\ rec'.compiled /\ rec'.stage = s /\ rec'.gen = rec.gen /\ rec'.ready = rec.ready
      /\ rec'.st[5] = IF s = 5 THEN "checking" ELSE rec.st[5]
  BY DEF BeginCheck, TypeOK, ProjectRecord, Interactive, SameRevisions, SameBatch, PlanKept
<1>2. disk.draft[4] # None => rec.st[5] # "passed"
  BY DEF ArchiveInv, CodeFits, Interactive
<1>3. SnapFits' /\ BuildFits'
  BY DEF SnapFits, BuildFits, Building
<1>4. Unlisted' /\ BatchFits'
  BY <1>1, BatchKept
<1>5. CodeFits'
  BY <1>1, <1>2 DEF CodeFits
<1>6. BuiltFits'
  BY <1>1, <1>2 DEF ArchiveInv, BuiltFits, SameRevisions
<1> QED
  BY <1>3, <1>4, <1>5, <1>6 DEF ArchiveInv

\* An agent's result, saved.
LEMMA ResultArchive ==
  ASSUME TypeInv, ArchiveInv, NEW s \in Interactive, NEW c \in Contents, AgentReturns(s, c),
         inp' = inp, op'.at \in Quiet,
         disk'.draft = ResultSaved(s, c).draft, disk'.batch = ResultSaved(s, c).batch,
         disk'.data = ResultSaved(s, c).data,
         rec'.wfRev = rec.wfRev, rec'.inRev = rec.inRev,
         c = Content(disk, s) => rec'.subRev = rec.subRev,
         rec'.compiled = rec.compiled, ~rec'.gen, rec'.ready => rec.ready,
         s # 5 => rec'.st[5] \notin Held, rec'.st[5] = "passed" => rec'.stage >= 6
  PROVE  ArchiveInv'
<1>1. TypeOK /\ op.at = "agent" /\ op.s = s /\ op.ctx \in Context
  BY DEF TypeInv, TaskSet, AgentReturns
<1>2. /\ disk'.draft[s] = NewDraft(s, c, rec.inRev, rec.subRev)
      /\ \A t \in Interactive : t < s => disk'.draft[t] = disk.draft[t]
      /\ c # Content(disk, s) => disk'.batch = None /\ disk'.data = None
      /\ c = Content(disk, s) =>
           /\ disk'.batch = disk.batch /\ disk'.data = disk.data
           /\ \A t \in Interactive : t # s => disk'.draft[t] = disk.draft[t]
  BY <1>1, ResultSavedFields
<1>3. 4 \in Interactive /\ 5 \in Interactive
  BY DEF Interactive
<1>4. s = 5 => disk'.draft[4] = disk.draft[4]
  BY <1>2, <1>3
<1>5. SnapFits' /\ BuildFits' /\ op'.at # "agent"
  BY NoTask DEF Quiet
<1>6. CodeFits'
  BY <1>1, <1>4, <1>5 DEF ArchiveInv, CodeFits
<1>7. CASE c # Content(disk, s)
  BY <1>2, <1>5, <1>6, <1>7 DEF ArchiveInv, Unlisted, BatchFits, BuiltFits
<1>8. CASE c = Content(disk, s)
  <2>1. disk.draft[s] # None /\ disk.draft[s].c = c /\ disk'.draft[s].c = c
    BY <1>2, <1>8, WorkflowAssumption, SMTT(30) DEF Content, NewDraft
  <2>2. SameRevisions /\ SameBatch /\ PlanKept
    BY <1>2, <1>3, <1>8, <2>1 DEF SameRevisions, SameBatch, PlanKept
  <2>3. Unlisted' /\ BatchFits'
    BY <2>2, BatchKept
  <2>4. BuiltFits'
    BY <1>1, <2>2 DEF ArchiveInv, BuiltFits, CodeFits, SameRevisions, SameBatch
  <2> QED
    BY <1>5, <1>6, <2>3, <2>4 DEF ArchiveInv
<1> QED
  BY <1>7, <1>8

\* The answers are written over the data that is there.
LEMMA DataHere ==
  ASSUME TypeOK, disk.data # None, NEW bin \in Sources
  PROVE  LET e == [disk.data EXCEPT !.outs = bin]
         IN  /\ e # None /\ e.whole = disk.data.whole /\ e.code = disk.data.code
             /\ e.plan = disk.data.plan /\ e.outs = bin
<1>1. disk.data \in Data
  BY DEF TypeOK, Disk
<1> QED
  BY <1>1, NoneAssumption DEF Data

LEMMA ArchiveStep ==
  ASSUME TypeInv, ArchiveInv, [Next]_vars
  PROVE  ArchiveInv'
<1>0. /\ TypeOK /\ TaskSet /\ rec \in ProjectRecord /\ disk \in Disk /\ op \in Task
      /\ inp \in GlobalInput
      /\ SnapFits /\ CodeFits /\ Unlisted /\ BatchFits /\ BuiltFits /\ BuildFits
  BY DEF TypeInv, TypeOK, ArchiveInv
<1>type. TypeOK
  BY <1>0
<1>stages. 3 \in Interactive /\ 4 \in Interactive /\ 5 \in Interactive
  BY DEF Interactive
<1>idle. Idle.at = "idle" /\ Idle.at \in Quiet /\ Finished.at \in Quiet
  BY <1>0, IdleType, FinishedType DEF Quiet
<1>replaced. ASSUME NEW src \in Sources, ReplaceSolution(src), op' = op \/ op'.at \in Quiet
             PROVE  ArchiveInv'
  BY <1>0, <1>stages, <1>replaced, ReplaceSolutionFields, ArchiveReplaced
<1>1. ASSUME NEW src \in Sources, UpdateSolution(src) PROVE ArchiveInv'
  BY <1>1, <1>replaced DEF UpdateSolution
<1>2. ASSUME NEW s \in Interactive, NEW c \in Contents, SaveUserDraft(s, c) PROVE ArchiveInv'
  <2>1. /\ disk'.batch = None /\ disk'.data = None
        /\ rec' = UserDraftSaved(rec, s) /\ op' = op /\ op.at = "idle"
    BY <1>0, <1>2, UserDraftFields
  <2>2. rec'.st[5] = "draft"
    BY <1>0, <1>stages, <2>1, UserDraftRecord DEF Interactive
  <2> QED
    BY <2>1, <2>2, ArchiveCleared DEF Held, Quiet
<1>3. CASE CompileStart
  <2>1. op'.at = "compile" /\ rec' = rec /\ inp' = inp /\ disk' = disk
    BY <1>3 DEF CompileStart, Idle
  <2> QED
    BY <2>1, ArchiveQuiet DEF Quiet
<1>accepted. ASSUME rec' = CompileAccepted(rec), inp' = inp, disk' = disk, op'.at \in Quiet
             PROVE  ArchiveInv'
  <2>1. /\ SameRevisions /\ SameBatch /\ PlanKept
        /\ rec'.compiled /\ rec'.st = rec.st /\ rec'.gen = rec.gen /\ rec'.ready = rec.ready
        /\ rec.compiled => rec'.stage = rec.stage \/ rec.stage <= 2
    BY <1>0, <1>accepted DEF CompileAccepted, ProjectRecord, SameRevisions, SameBatch, PlanKept
  <2>2. SnapFits' /\ BuildFits' /\ Unlisted' /\ BatchFits' /\ op'.at # "agent"
    BY <1>accepted, <2>1, NoTask, BatchKept DEF Quiet
  <2>3. rec.stage \in 2..8
    BY <1>0 DEF ProjectRecord
  <2>4. CodeFits'
    BY <1>0, <1>accepted, <2>1, <2>2, <2>3 DEF CodeFits, Held
  <2>5. BuiltFits'
    BY <1>0, <1>accepted, <2>1 DEF BuiltFits, SameRevisions
  <2> QED
    BY <2>2, <2>4, <2>5 DEF ArchiveInv
<1>4. ASSUME NEW ok \in BOOLEAN, CompileReturns(ok) PROVE ArchiveInv'
  <2>1. inp' = inp /\ op' = Idle
    BY <1>4 DEF CompileReturns
  <2>2. CASE ok
    <3>1. rec' = CompileAccepted(rec) /\ disk' = disk
      BY <1>4, <2>2 DEF CompileReturns
    <3> QED
      BY <1>idle, <1>accepted, <2>1, <3>1
  <2>3. CASE ~ok /\ ResetsOnReject(rec)
    <3>1. rec' = CompileRejected(rec) /\ disk' = ArtifactsInvalidated(disk, 2)
      BY <1>4, <2>3 DEF CompileReturns
    <3>2. rec'.st[5] = "draft"
      BY <1>0, <1>stages, <2>3, <3>1, CompileFields
    <3>3. disk'.batch = None /\ disk'.data = None
      BY <1>0, <3>1, ArtifactsInvalidatedFields
    <3> QED
      BY <1>idle, <2>1, <3>2, <3>3, ArchiveCleared DEF Held
  <2>4. CASE ~ok /\ ~ResetsOnReject(rec)
    <3>1. rec' = [rec EXCEPT !.compiled = FALSE, !.stage = 2] /\ disk' = disk /\ ~rec.compiled
      BY <1>4, <2>4 DEF CompileReturns, CompileRejected, ResetsOnReject
    <3>2. /\ SameRevisions /\ SameBatch /\ PlanKept
          /\ ~rec'.compiled /\ rec'.st = rec.st /\ rec'.gen = rec.gen /\ rec'.ready = rec.ready
      BY <1>0, <3>1 DEF ProjectRecord, SameRevisions, SameBatch, PlanKept
    <3>3. SnapFits' /\ BuildFits' /\ Unlisted' /\ BatchFits' /\ op'.at # "agent"
      BY <1>idle, <2>1, <3>2, NoTask, BatchKept DEF Quiet
    <3>4. CodeFits'
      BY <1>0, <3>1, <3>2, <3>3 DEF CodeFits, Held
    <3>5. BuiltFits'
      BY <1>0, <3>1, <3>2 DEF BuiltFits, SameRevisions
    <3> QED
      BY <3>3, <3>4, <3>5 DEF ArchiveInv
  <2> QED
    BY <2>2, <2>3, <2>4
<1>5. ASSUME NEW s \in Interactive, RunStage(s) PROVE ArchiveInv'
  <2>1. /\ rec' = BeginCheck(rec, s) /\ op' = AgentTask(s, FALSE) /\ inp' = inp /\ disk' = disk
        /\ s = rec.stage /\ rec.compiled
    BY <1>5 DEF RunStage, Prerequisites
  <2> QED
    BY <1>0, <2>1, AgentTaskContext, ArchiveAgent
<1>6. ASSUME NEW s \in Interactive, InstructStage(s) PROVE ArchiveInv'
  <2> DEFINE t == AgentTask(s, FALSE)
  <2>1. t \in Task /\ t.s = s
    BY <1>0, AgentTaskType, AgentTaskContext
  <2> HIDE DEF t
  <2>2. /\ op' = [t EXCEPT !.at = "classify", !.snap = rec] /\ rec' = rec /\ inp' = inp
        /\ disk' = disk /\ s = rec.stage /\ rec.compiled
    BY <1>6 DEF InstructStage, Prerequisites, t
  <2>3. op'.at = "classify" /\ op'.s = s /\ op'.snap = rec
    BY <2>1, <2>2 DEF Task
  <2>4. SameRevisions /\ SameBatch /\ PlanKept
    BY <2>2 DEF SameRevisions, SameBatch, PlanKept
  <2>5. SnapFits' /\ BuildFits'
    BY <2>2, <2>3 DEF SnapFits, BuildFits, Building
  <2>6. CodeFits' /\ BuiltFits'
    BY <1>0, <2>2, <2>3 DEF CodeFits, BuiltFits
  <2> QED
    BY <2>2, <2>4, <2>5, <2>6, BatchKept DEF ArchiveInv
<1>7. CASE ClassifyRevise
  <2>1. /\ op' = [op EXCEPT !.at = "agent", !.snap = None] /\ op.at = "classify"
        /\ rec' = BeginCheck(op.snap, op.s) /\ inp' = inp /\ disk' = disk
    BY <1>7 DEF ClassifyRevise
  <2>2. op'.at = "agent" /\ op'.s = op.s /\ op.s \in Interactive
    BY <1>0, <2>1 DEF Task, TaskSet
  <2>3. CASE op.snap = rec
    BY <1>0, <2>1, <2>2, <2>3, ArchiveAgent DEF SnapFits
  <2>4. CASE disk.draft[4] = None /\ disk.batch = None
    BY <1>0, <2>1, <2>2, <2>4
    DEF ArchiveInv, SnapFits, CodeFits, Unlisted, BatchFits, BuiltFits, BuildFits, Building
  <2> QED
    BY <1>0, <2>1, <2>3, <2>4 DEF SnapFits
<1>8. CASE ClassifyAnswer
  BY <1>8, <1>idle, ArchiveQuiet DEF ClassifyAnswer
<1>9. ASSUME NEW c \in Contents, AgentSavesCandidate(c) PROVE ArchiveInv'
  <2>1. /\ op.at = "agent" /\ op' = [op EXCEPT !.cand = c] /\ rec' = rec /\ inp' = inp
        /\ disk' = DraftSaved(disk, 5, NewDraft(5, c, op.ctx.in, op.ctx.sub))
        /\ op.ctx \in Context
    BY <1>0, <1>9 DEF AgentSavesCandidate, TaskSet
  <2>2. op'.at = "agent" /\ op'.s = op.s
    BY <1>0, <2>1 DEF Task
  <2>3. op.ctx.in \in Nat /\ op.ctx.sub \in Nat
    BY <2>1 DEF Context
  <2>4. NewDraft(5, c, op.ctx.in, op.ctx.sub) \in Draft
    BY <1>0, <1>stages, <2>1, <2>3, NewDraftType
  <2>5. disk'.batch = disk.batch /\ disk'.data = disk.data /\ disk'.draft[4] = disk.draft[4]
    BY <1>0, <1>stages, <2>1, <2>4, DraftSavedFields
  <2>6. SameRevisions /\ SameBatch /\ PlanKept
    BY <2>1, <2>5 DEF SameRevisions, SameBatch, PlanKept
  <2>7. SnapFits' /\ BuildFits'
    BY <2>2 DEF SnapFits, BuildFits, Building
  <2>8. CodeFits' /\ BuiltFits'
    BY <1>0, <2>1, <2>2, <2>5 DEF CodeFits, BuiltFits
  <2> QED
    BY <2>1, <2>6, <2>7, <2>8, BatchKept DEF ArchiveInv
<1>10. CASE AgentClearsDraft
  <2>1. /\ op.at = "agent" /\ op.s \in Interactive /\ op' = [op EXCEPT !.cand = None]
        /\ disk' = WorkingDraftCleared(disk, op.s) /\ rec' = rec /\ inp' = inp
    BY <1>0, <1>10 DEF AgentClearsDraft, TaskSet
  <2>2. op'.at = "agent" /\ op'.s = op.s
    BY <1>0, <2>1 DEF Task
  <2>3. /\ disk'.batch = disk.batch /\ disk'.data = disk.data
        /\ disk'.draft[4] = IF 4 >= op.s THEN None ELSE disk.draft[4]
    BY <1>0, <1>stages, <2>1, WorkingDraftClearedFields
  <2>4. SameRevisions /\ SameBatch /\ PlanKept
    BY <2>1, <2>3 DEF SameRevisions, SameBatch, PlanKept
  <2>5. SnapFits' /\ BuildFits'
    BY <2>2 DEF SnapFits, BuildFits, Building
  <2>6. CodeFits'
    BY <1>0, <2>1, <2>2, <2>3 DEF CodeFits
  <2>7. BuiltFits'
    BY <1>0, <2>1, <2>3 DEF BuiltFits, CodeFits
  <2> QED
    BY <2>1, <2>4, <2>5, <2>6, <2>7, BatchKept DEF ArchiveInv
<1>11. ASSUME NEW s \in Interactive, NEW c \in Contents, AgentPasses(s, c) PROVE ArchiveInv'
  <2> DEFINE r == PassedRecord(s, c)
  <2>1. /\ AgentReturns(s, c) /\ disk' = ResultSaved(s, c) /\ inp' = inp /\ op' = Idle
        /\ rec' = [r EXCEPT !.threads = r.threads \cup WaitingThread(s)]
    BY <1>11 DEF AgentPasses, PassedRecord
  <2>2. /\ r \in ProjectRecord /\ r.gen = FALSE /\ r.ready = rec.ready
        /\ r.inRev = rec.inRev /\ r.wfRev = rec.wfRev /\ r.compiled = rec.compiled
        /\ r.st[s] = "waiting_user"
    BY <1>type, AiResultPassed
  <2>same. ASSUME c = Content(disk, s) PROVE r.subRev = rec.subRev
    BY <1>type, <2>same, AiResultPassed
  <2>code. s # 5 => r.st[5] = "draft"
    BY <1>type, <1>stages, PassedResets DEF Interactive
  <2> HIDE DEF r
  <2>3. /\ rec'.inRev = r.inRev /\ rec'.wfRev = r.wfRev /\ rec'.subRev = r.subRev
        /\ rec'.st = r.st /\ rec'.compiled = r.compiled /\ rec'.gen = r.gen /\ rec'.ready = r.ready
    BY <2>1, <2>2 DEF ProjectRecord
  <2> QED
    BY <1>idle, <2>1, <2>2, <2>same, <2>code, <2>3, ResultArchive DEF Held
<1>12. ASSUME NEW s \in Interactive, NEW c \in Contents, AgentPassesAuto(s, c) PROVE ArchiveInv'
  <2> DEFINE r == PassedRecord(s, c)
             d == ResultSaved(s, c)
  <2>1. /\ AgentReturns(s, c) /\ inp' = inp /\ op' = Finished /\ rec' = Confirmed(r, s)
        /\ disk' = IF s = 5 THEN ReleaseFrozen(d) ELSE d
    BY <1>12 DEF AgentPassesAuto, PassedRecord
  <2>2. /\ r \in ProjectRecord /\ r.gen = FALSE /\ r.ready = rec.ready
        /\ r.inRev = rec.inRev /\ r.wfRev = rec.wfRev /\ r.compiled = rec.compiled
    BY <1>type, AiResultPassed
  <2>same. ASSUME c = Content(disk, s) PROVE r.subRev = rec.subRev
    BY <1>type, <2>same, AiResultPassed
  <2>code. s # 5 => r.st[5] = "draft"
    BY <1>type, <1>stages, PassedResets DEF Interactive
  <2> HIDE DEF r
  <2>3. /\ rec'.inRev = r.inRev /\ rec'.wfRev = r.wfRev /\ rec'.subRev = r.subRev
        /\ rec'.compiled = r.compiled /\ rec'.gen = r.gen /\ rec'.ready = r.ready
        /\ rec'.stage = s + 1 /\ rec'.st[5] = IF 5 = s THEN "passed" ELSE r.st[5]
    BY <1>stages, <2>1, <2>2, ConfirmedFields
  <2>4. op.ctx \in Context
    BY <1>0, <2>1 DEF AgentReturns, TaskSet
  <2>5. d \in Disk
    BY <1>type, <2>4, ResultSavedFields
  <2>6. disk'.draft = d.draft /\ disk'.batch = d.batch /\ disk'.data = d.data
    BY <2>1, <2>5, ReleaseFrozenFields
  <2> HIDE DEF d
  <2> QED
    BY <1>idle, <2>1, <2>2, <2>same, <2>code, <2>3, <2>6, ResultArchive DEF Held, d
<1>13. ASSUME NEW c \in Contents, AgentRevises(c) PROVE ArchiveInv'
  <2> DEFINE r == RevisedRecord(c)
  <2>1. /\ AgentReturns(5, c) /\ disk' = ResultSaved(5, c) /\ inp' = inp /\ op' = Idle
        /\ rec' = IF op.auto THEN StageFailed(r, 5) ELSE r
    BY <1>13 DEF AgentRevises, RevisedRecord
  <2>2. /\ r \in ProjectRecord /\ r.gen = FALSE /\ r.ready = rec.ready
        /\ r.inRev = rec.inRev /\ r.wfRev = rec.wfRev /\ r.compiled = rec.compiled
        /\ r.subRev = rec.subRev /\ r.st[5] = "draft"
    BY <1>type, AiResultRevised
  <2> HIDE DEF r
  <2>3. /\ rec'.inRev = rec.inRev /\ rec'.wfRev = rec.wfRev /\ rec'.subRev = rec.subRev
        /\ rec'.compiled = rec.compiled /\ ~rec'.gen /\ (rec'.ready => rec.ready)
        /\ rec'.st[5] # "passed"
    BY <1>stages, <2>1, <2>2, FailedFields
  <2> QED
    BY <1>idle, <1>stages, <2>1, <2>3, ResultArchive
<1>failed. ASSUME NEW r \in ProjectRecord, NEW s \in Interactive, rec' = StageFailed(r, s),
                  r.inRev = rec.inRev, r.subRev = rec.subRev, r.wfRev = rec.wfRev,
                  inp' = inp, disk' = disk, op'.at \in Quiet
           PROVE  ArchiveInv'
  <2>1. /\ rec'.inRev = rec.inRev /\ rec'.wfRev = rec.wfRev /\ rec'.subRev = rec.subRev
        /\ ~rec'.gen /\ ~rec'.ready /\ rec'.st[5] \notin Held
    BY <1>stages, <1>failed, FailedFields DEF Interactive, Held
  <2>2. SameRevisions /\ SameBatch /\ PlanKept
    BY <1>failed, <2>1 DEF SameRevisions, SameBatch, PlanKept
  <2> QED
    BY <1>failed, <2>1, <2>2, ArchiveEnds DEF Held
<1>14. CASE AgentFails
  <2>1. op.s \in Interactive /\ rec' = StageFailed(rec, op.s) /\ op' = Idle /\ inp' = inp /\ disk' = disk
    BY <1>0, <1>14 DEF AgentFails, TaskSet
  <2> QED
    BY <1>0, <1>idle, <1>failed, <2>1
<1>15. CASE AgentReroutes
  <2> DEFINE r == StageFailed(rec, 5)
  <2>1. rec' = StageFailed(r, 4) /\ op' = Finished /\ inp' = inp /\ disk' = disk
    BY <1>15 DEF AgentReroutes
  <2>2. r \in ProjectRecord /\ r.inRev = rec.inRev /\ r.subRev = rec.subRev /\ r.wfRev = rec.wfRev
    BY <1>0, <1>stages, StageFailedType, FailedFields
  <2> HIDE DEF r
  <2> QED
    BY <1>idle, <1>stages, <1>failed, <2>1, <2>2
<1>16. CASE ConfirmCode
  <2>1. /\ rec.st[5] = "waiting_user" /\ rec.stage = 5 /\ op.at = "idle"
        /\ rec' = Confirmed(rec, 5) /\ disk' = ReleaseFrozen(disk) /\ inp' = inp /\ op' = op
    BY <1>16 DEF ConfirmCode, MayConfirm
  <2>2. /\ rec'.inRev = rec.inRev /\ rec'.subRev = rec.subRev /\ rec'.wfRev = rec.wfRev
        /\ rec'.compiled = rec.compiled /\ rec'.gen = rec.gen /\ rec'.ready = rec.ready
        /\ rec'.stage = 6
    BY <1>0, <1>stages, <2>1, ConfirmedFields
  <2>3. disk'.draft = disk.draft /\ disk'.batch = disk.batch /\ disk'.data = disk.data
    BY <1>0, <2>1, ReleaseFrozenFields
  <2>4. SameRevisions /\ SameBatch /\ PlanKept
    BY <2>2, <2>3 DEF SameRevisions, SameBatch, PlanKept
  <2>5. SnapFits' /\ BuildFits'
    BY <2>1, NoTask DEF Quiet
  <2>6. CodeFits' /\ BuiltFits'
    BY <1>0, <2>1, <2>2, <2>3 DEF CodeFits, BuiltFits, Held
  <2> QED
    BY <2>1, <2>4, <2>5, <2>6, BatchKept DEF ArchiveInv
<1>17. ASSUME NEW s \in Interactive, ConfirmStart(s) PROVE ArchiveInv'
  <2>1. op'.at = "resume" /\ rec' = rec /\ inp' = inp /\ disk' = disk
    BY <1>17 DEF ConfirmStart, Idle
  <2> QED
    BY <2>1, ArchiveQuiet DEF Quiet
<1>18. CASE ConfirmResumed
  <2>1. /\ op.s \in {3, 4} /\ rec.stage = op.s
        /\ rec' = Confirmed(rec, op.s) /\ op' = Idle /\ inp' = inp /\ disk' = disk
    BY <1>0, <1>18 DEF ConfirmResumed, MayConfirm, TaskSet
  <2>2. /\ rec'.st[5] = rec.st[5] /\ rec'.compiled = rec.compiled
        /\ rec'.inRev = rec.inRev /\ rec'.subRev = rec.subRev /\ rec'.wfRev = rec.wfRev
        /\ rec'.gen = rec.gen /\ rec'.ready = rec.ready
    BY <1>0, <1>stages, <2>1, ConfirmedFields
  <2>3. SameRevisions /\ SameBatch /\ PlanKept
    BY <2>1, <2>2 DEF SameRevisions, SameBatch, PlanKept
  <2>4. SnapFits' /\ BuildFits' /\ op'.at # "agent"
    BY <1>idle, <2>1, NoTask
  <2>5. CodeFits' /\ BuiltFits'
    BY <1>0, <2>1, <2>2, <2>4 DEF CodeFits, BuiltFits
  <2> QED
    BY <2>1, <2>3, <2>4, <2>5, BatchKept DEF ArchiveInv
<1>19. CASE AutoRun
  <2>1. op'.at \in Quiet /\ inp' = inp
    BY <1>19 DEF AutoRun, Idle, Quiet
  <2>2. CASE rec' = rec /\ disk' = disk
    BY <2>1, <2>2, ArchiveQuiet
  <2>3. ASSUME NEW s \in Interactive, rec' = StageFailed(rec, s), disk' = ArtifactsInvalidated(disk, s)
        PROVE  ArchiveInv'
    <3>1. rec'.st[5] \notin Held
      BY <1>0, <1>stages, <2>3, FailedFields DEF Interactive, Held
    <3>2. disk'.batch = None /\ disk'.data = None
      BY <1>0, <2>3, ArtifactsInvalidatedFields DEF Interactive
    <3> QED
      BY <2>1, <3>1, <3>2, ArchiveCleared
  <2> QED
    BY <1>19, <2>2, <2>3 DEF AutoRun, Interrupted
<1>20. CASE AutoRepair
  <2>1. op'.at = "repair" /\ rec' = rec /\ inp' = inp /\ disk' = disk
    BY <1>0, <1>20 DEF AutoRepair, Task
  <2> QED
    BY <2>1, ArchiveQuiet DEF Quiet
<1>21. CASE RepairCompiles
  BY <1>21, <1>idle, <1>accepted DEF RepairCompiles
<1>22. ASSUME NEW src \in Sources, RepairRewrites(src) PROVE ArchiveInv'
  <2>1. /\ op' = [op EXCEPT !.bin = src, !.fixes = op.fixes + 1] /\ op.at = "repair"
        /\ ReplaceSolution(src) \/ (src = inp.src /\ rec' = rec /\ inp' = inp /\ disk' = disk)
    BY <1>22 DEF RepairRewrites
  <2>2. op'.at \in Quiet
    BY <1>0, <2>1 DEF Task, Quiet
  <2> QED
    BY <1>replaced, <2>1, <2>2, ArchiveQuiet
<1>23. ASSUME NEW s \in Interactive, AutoStage(s) PROVE ArchiveInv'
  <2>1. /\ rec' = BeginCheck(rec, s) /\ op' = AgentTask(s, TRUE) /\ inp' = inp /\ disk' = disk
        /\ s = rec.stage /\ rec.compiled
    BY <1>23 DEF AutoStage, Prerequisites
  <2> QED
    BY <1>0, <2>1, AgentTaskContext, ArchiveAgent
<1>24. CASE AutoRefused
  BY <1>24, <1>idle, ArchiveQuiet DEF AutoRefused
<1>building. ASSUME NEW s, NEW man \in Batch, Live(man.stamp), man.status # "completed",
                    man.stamp.code = disk.release.c, disk.release # None,
                    rec.st[5] = "passed", disk.draft[4] # None,
                    disk' = [Project(disk, "release") EXCEPT !.batch = man],
                    rec' = rec, inp' = inp, op' = BuildTask(s, man),
                    \/ s = "gencompile" /\ ~man.listed
                    \/ s = "valcompile" /\ (man.listed => Listed')
             PROVE  ArchiveInv'
  <2>1. /\ disk'.batch = man /\ disk'.data = disk.data /\ disk'.draft = disk.draft
        /\ man # None /\ Generated(Project(disk, "release")) = man.stamp.code
    BY <1>0, <1>building, NoneAssumption DEF Project, Generated, Disk
  <2>2. op'.at = s /\ op'.build = [man |-> man, plan |-> disk.draft[4].c,
                                  code |-> man.stamp.code, bin |-> inp.src]
    BY <1>0, <1>building, <2>1 DEF BuildTask, Task
  <2>3. op'.build.man = man /\ op'.build.plan = disk.draft[4].c
        /\ op'.build.code = man.stamp.code /\ op'.build.bin = inp.src
    BY <2>2
  <2>4. SnapFits' /\ Unlisted' /\ Live(man.stamp)'
    BY <1>building, <2>1, <2>2 DEF SnapFits, Unlisted, Live
  <2>5. CodeFits'
    BY <1>0, <1>building, <2>1, <2>2 DEF CodeFits
  <2>6. Listed'
    BY <1>building, <2>1 DEF Listed
  <2>7. Solved'
    BY <1>building, <2>1 DEF Solved
  <2>8. BatchFits'
    BY <1>building, <2>1, <2>6, <2>7 DEF BatchFits, Live
  <2>9. BuiltFits'
    BY <1>building, <2>1 DEF BuiltFits
  <2>10. InPlace'
    BY <1>building, <2>1, <2>2, <2>3, <2>4 DEF InPlace, Live
  <2> QED
    BY <2>4, <2>5, <2>8, <2>9, <2>10 DEF ArchiveInv, BuildFits
<1>25. CASE GenerateStart
  <2> DEFINE man == [status |-> "generating", stamp |-> CurrentStamp(rec, disk), listed |-> FALSE]
  <2>1. /\ rec.st[5] = "passed" /\ disk.draft[4] # None /\ disk.release # None
        /\ disk' = [Project(disk, "release") EXCEPT !.batch = man]
        /\ op' = BuildTask("gencompile", man) /\ rec' = rec /\ inp' = inp
    BY <1>25 DEF GenerateStart, MayGenerate
  <2>2. disk.release.c \in Contents
    BY <1>0, <2>1 DEF Disk, Draft
  <2>3. CurrentStamp(rec, disk) \in Stamp
    BY <1>0, <2>2 DEF CurrentStamp, Stamp, ProjectRecord
  <2>4. man \in Batch /\ man.stamp = CurrentStamp(rec, disk) /\ man.status = "generating" /\ ~man.listed
    BY <2>3 DEF Batch, BatchStatus
  <2> HIDE DEF man
  <2>5. Live(man.stamp) /\ man.stamp.code = disk.release.c /\ man.status # "completed"
    BY <2>4 DEF Live, CurrentStamp
  <2> QED
    BY <1>building, <2>1, <2>4, <2>5
<1>26. CASE GeneratorCompiled
  <2> DEFINE new == [code |-> op.build.code, plan |-> op.build.plan, whole |-> FALSE, outs |-> None]
  <2>1. /\ op.at = "gencompile" /\ op' = [op EXCEPT !.at = "generating"]
        /\ disk' = [disk EXCEPT !.data = new] /\ rec' = rec /\ inp' = inp
    BY <1>26 DEF GeneratorCompiled
  <2>2. op.build \in Build
    BY <1>0, <2>1 DEF TaskSet, Building
  <2>3. new \in Data /\ new.outs = None
    BY <2>2 DEF Build, Data
  <2>4. /\ disk'.data = new /\ disk'.data # None /\ disk'.batch = disk.batch /\ disk'.draft = disk.draft
        /\ op'.at = "generating" /\ op'.build = op.build
    BY <1>0, <2>1, <2>3, NoneAssumption DEF Disk, Task
  <2> HIDE DEF new
  <2>5. SnapFits' /\ CodeFits' /\ Unlisted' /\ BuiltFits'
    BY <1>0, <2>1, <2>3, <2>4 DEF SnapFits, CodeFits, Unlisted, BuiltFits
  <2>6. CASE Outdated
    BY <2>1, <2>4, <2>5, <2>6 DEF ArchiveInv, BatchFits, BuildFits, Outdated
  <2>7. CASE InPlace
    <3>1. InPlace'
      BY <2>1, <2>4, <2>7 DEF InPlace, Live
    <3>2. BatchFits'
      BY <2>1, <2>4, <2>7 DEF InPlace, BatchFits, Live, Listed, Solved
    <3> QED
      BY <2>5, <3>1, <3>2 DEF ArchiveInv, BuildFits
  <2> QED
    BY <1>0, <2>1, <2>6, <2>7 DEF BuildFits, Building
<1>27. ASSUME NEW w \in BOOLEAN, GenerateEnds(w) PROVE ArchiveInv'
  <2> DEFINE man == [op.build.man EXCEPT !.status = "generated", !.listed = TRUE]
             new == [code |-> op.build.code, plan |-> op.build.plan, whole |-> w, outs |-> None]
  <2>1. /\ op.at = "generating" /\ (disk.data # None => w) /\ op' = Finished /\ inp' = inp
        /\ disk' = [disk EXCEPT !.batch = man, !.data = new] /\ rec' = GenerationComplete(rec)
    BY <1>27 DEF GenerateEnds
  <2>2. op.build \in Build /\ op.build.man \in Batch
    BY <1>0, <2>1 DEF TaskSet, Building, Build
  <2>3. /\ new \in Data /\ man \in Batch /\ man.stamp = op.build.man.stamp /\ man.listed
        /\ man.status = "generated"
    BY <2>2 DEF Build, Data, Batch, BatchStatus
  <2>4. /\ disk'.data = new /\ disk'.data # None /\ disk'.batch = man /\ disk'.batch # None
        /\ disk'.draft = disk.draft
    BY <1>0, <2>1, <2>3, NoneAssumption DEF Disk
  <2>5. /\ new.code = op.build.code /\ new.plan = op.build.plan /\ new.whole = w
    OBVIOUS
  <2> HIDE DEF man, new
  <2>6. /\ rec'.inRev = rec.inRev /\ rec'.subRev = rec.subRev /\ rec'.wfRev = rec.wfRev
        /\ rec'.compiled = rec.compiled /\ rec'.st = rec.st /\ rec'.stage = 7
    BY <1>0, <2>1 DEF GenerationComplete, ProjectRecord
  <2>7. SnapFits' /\ BuildFits' /\ Unlisted' /\ op'.at # "agent"
    BY <1>idle, <2>1, <2>4, NoTask DEF Unlisted, Quiet
  <2>8. CodeFits'
    BY <1>0, <2>4, <2>6, <2>7 DEF CodeFits
  <2>9. CASE Outdated
    <3>1. man.stamp.wf < rec.wfRev /\ man.stamp.wf \in Nat /\ rec.wfRev \in Nat
      BY <1>0, <2>2, <2>3, <2>9 DEF Outdated, Batch, Stamp, ProjectRecord
    <3>2. BatchFits' /\ BuiltFits'
      BY <2>4, <2>6, <3>1 DEF BatchFits, BuiltFits
    <3> QED
      BY <2>7, <2>8, <3>2 DEF ArchiveInv
  <2>10. CASE InPlace
    <3>1. w
      BY <2>1, <2>10 DEF InPlace
    <3>2. Listed' /\ Solved'
      BY <2>1, <2>3, <2>4, <2>5, <2>10, <3>1 DEF InPlace, Listed, Solved
    <3>3. BatchFits'
      BY <2>3, <2>4, <2>6, <2>10, <3>2 DEF InPlace, BatchFits, Live
    <3>4. BuiltFits'
      BY <2>4, <2>6, <2>10 DEF InPlace, BuiltFits
    <3> QED
      BY <2>7, <2>8, <3>3, <3>4 DEF ArchiveInv
  <2> QED
    BY <1>0, <2>1, <2>9, <2>10 DEF BuildFits, Building
<1>28. CASE ValidateStart
  <2> DEFINE man == [disk.batch EXCEPT !.status = "validating"]
  <2>1. /\ rec.gen /\ disk.draft[4] # None /\ disk.batch # None /\ disk.release # None
        /\ disk.batch.stamp = CurrentStamp(rec, disk)
        /\ disk' = [Project(disk, "release") EXCEPT !.batch = man]
        /\ op' = BuildTask("valcompile", man) /\ rec' = rec /\ inp' = inp
    BY <1>28 DEF ValidateStart, MayValidate, ManifestMatches
  <2>2. disk.batch \in Batch /\ rec.wfRev \in Nat
    BY <1>0, <2>1 DEF Disk, ProjectRecord
  <2>3. man \in Batch /\ man.stamp = disk.batch.stamp /\ man.status = "validating"
        /\ man.listed = disk.batch.listed
    BY <2>2 DEF Batch, BatchStatus
  <2>4. /\ disk'.batch = man /\ disk'.data = disk.data /\ disk'.draft = disk.draft
    BY <1>0, <2>1 DEF Project, Disk
  <2> HIDE DEF man
  <2>5. Live(disk.batch.stamp) /\ disk.batch.stamp.code = disk.release.c
    BY <2>1 DEF Live, CurrentStamp
  <2>6. Listed /\ rec.st[5] = "passed"
    BY <1>0, <2>1, <2>2, <2>5 DEF BatchFits, BuiltFits, Live
  <2>7. Listed'
    BY <2>3, <2>4, <2>6 DEF Listed
  <2> QED
    BY <1>building, <2>1, <2>3, <2>5, <2>6, <2>7
<1>29. CASE SolutionCompiled
  <2>1. /\ op.at = "valcompile" /\ op'.at = "solving" /\ op'.build = op.build
        /\ rec' = rec /\ inp' = inp /\ disk' = disk
    BY <1>0, <1>29 DEF SolutionCompiled, Task
  <2>2. SnapFits' /\ CodeFits' /\ Unlisted' /\ BatchFits' /\ BuiltFits'
    BY <1>0, <2>1
    DEF SnapFits, CodeFits, Unlisted, BatchFits, Live, Listed, Solved, BuiltFits
  <2>3. BuildFits'
    BY <1>0, <2>1 DEF BuildFits, Building, Outdated, InPlace, Live
  <2> QED
    BY <2>2, <2>3 DEF ArchiveInv
<1>30. CASE ValidateEnds
  <2> DEFINE man == [op.build.man EXCEPT !.status = "completed"]
             new == IF disk.data = None THEN None ELSE [disk.data EXCEPT !.outs = op.build.bin]
  <2>1. /\ op.at = "solving" /\ op.build.man.listed /\ op' = Finished /\ inp' = inp
        /\ disk' = [disk EXCEPT !.batch = man, !.data = new] /\ rec' = ValidationComplete(rec)
    BY <1>30 DEF ValidateEnds
  <2>2. op.build.man \in Batch /\ op.build.bin \in Sources
    BY <1>0, <2>1 DEF TaskSet, Building, Build
  <2>3. /\ man \in Batch /\ man.stamp = op.build.man.stamp /\ man.listed
        /\ man.status = "completed"
    BY <2>1, <2>2 DEF Batch, BatchStatus
  <2>4. /\ disk'.data = new /\ disk'.batch = man /\ disk'.batch # None /\ disk'.draft = disk.draft
    BY <1>0, <2>1, <2>3, NoneAssumption DEF Disk
  <2> HIDE DEF man
  <2>5. /\ rec'.inRev = rec.inRev /\ rec'.subRev = rec.subRev /\ rec'.wfRev = rec.wfRev
        /\ rec'.compiled = rec.compiled /\ rec'.st = rec.st /\ rec'.stage = 8
    BY <1>0, <2>1 DEF ValidationComplete, ProjectRecord
  <2>6. SnapFits' /\ BuildFits' /\ Unlisted' /\ op'.at # "agent"
    BY <1>idle, <2>1, <2>4, NoTask DEF Unlisted, Quiet
  <2>7. CodeFits'
    BY <1>0, <2>4, <2>5, <2>6 DEF CodeFits
  <2>8. CASE Outdated
    <3>1. man.stamp.wf < rec.wfRev /\ man.stamp.wf \in Nat /\ rec.wfRev \in Nat
      BY <1>0, <2>2, <2>3, <2>8 DEF Outdated, Batch, Stamp, ProjectRecord
    <3>2. BatchFits' /\ BuiltFits'
      BY <2>4, <2>5, <3>1 DEF BatchFits, BuiltFits
    <3> QED
      BY <2>6, <2>7, <3>2 DEF ArchiveInv
  <2>9. CASE InPlace
    <3>1. /\ disk.batch = op.build.man /\ Live(disk.batch.stamp) /\ disk.batch.listed
          /\ rec.wfRev \in Nat /\ disk.batch # None
      BY <1>0, <2>1, <2>2, <2>9, NoneAssumption DEF InPlace, ProjectRecord
    <3>2. disk.data # None /\ disk.data.whole /\ disk.data.code = disk.batch.stamp.code
          /\ (disk.draft[4] = None \/ disk.data.plan = disk.draft[4].c)
      BY <1>0, <3>1 DEF BatchFits, Live, Listed
    <3>3. /\ new # None /\ new.whole /\ new.code = disk.batch.stamp.code /\ new.outs = inp.src
          /\ new.plan = disk.data.plan
      BY <1>0, <2>2, <2>9, <3>2, DataHere DEF InPlace
    <3> HIDE DEF new
    <3>4. Listed' /\ Solved'
      BY <2>1, <2>3, <2>4, <3>1, <3>2, <3>3 DEF Listed, Solved
    <3>5. BatchFits'
      BY <2>3, <2>4, <2>5, <2>9, <3>4 DEF InPlace, BatchFits, Live
    <3>6. BuiltFits'
      BY <2>4, <2>5, <2>9 DEF InPlace, BuiltFits
    <3> QED
      BY <2>6, <2>7, <3>5, <3>6 DEF ArchiveInv
  <2> QED
    BY <1>0, <2>1, <2>8, <2>9 DEF BuildFits, Building
<1>31. CASE BuildFails
  <2>1. /\ disk'.draft = disk.draft /\ disk'.data = disk.data
        /\ disk'.batch = IF disk.batch = None THEN None ELSE [disk.batch EXCEPT !.status = "failed"]
        /\ rec' = PipelineFailure(rec) /\ inp' = inp
    BY <1>0, <1>31 DEF BuildFails, Project, Disk
  <2>2. [Finished EXCEPT !.downs = op.downs + 1].at = Finished.at
    BY <1>0, FinishedType DEF Task
  <2>3. op'.at \in Quiet
    BY <1>31, <1>idle, <2>2 DEF BuildFails
  <2>4. /\ rec'.inRev = rec.inRev /\ rec'.subRev = rec.subRev /\ rec'.wfRev = rec.wfRev
        /\ ~rec'.gen /\ ~rec'.ready /\ rec'.st[5] = "draft"
    BY <1>0, <1>stages, <2>1 DEF PipelineFailure, NotBuilt, ProjectRecord
  <2>5. SnapFits' /\ BuildFits' /\ CodeFits' /\ BuiltFits'
    BY <2>3, <2>4, NoTask DEF CodeFits, BuiltFits, Held, Quiet
  <2>6. CASE disk.batch = None
    BY <1>0, <2>1, <2>5, <2>6 DEF ArchiveInv, Unlisted, BatchFits
  <2>7. CASE disk.batch # None
    <3>1. disk.batch \in Batch
      BY <1>0, <2>7 DEF Disk
    <3>2. /\ disk'.batch \in Batch /\ disk'.batch.status = "failed"
          /\ disk'.batch.stamp = disk.batch.stamp /\ disk'.batch.listed = disk.batch.listed
      BY <2>1, <2>7, <3>1 DEF Batch, BatchStatus
    <3>3. disk'.batch # None
      BY <3>2, NoneAssumption
    <3>4. Listed => Listed'
      BY <2>1, <3>2 DEF Listed
    <3>5. BatchFits'
      BY <1>0, <2>1, <2>4, <2>7, <3>2, <3>4 DEF BatchFits, Live, Solved
    <3> QED
      BY <2>5, <3>3, <3>5 DEF ArchiveInv, Unlisted
  <2> QED
    BY <2>6, <2>7
<1>32. CASE Export
  <2>1. /\ disk'.draft = disk.draft /\ disk'.batch = disk.batch /\ disk'.data = disk.data
        /\ rec' = rec /\ inp' = inp /\ op' = Idle
    BY <1>0, <1>32 DEF Export, Project, Disk
  <2> QED
    BY <1>idle, <2>1, ArchiveQuiet
<1>33. CASE TaskStops
  BY <1>33, <1>idle, ArchiveQuiet DEF TaskStops
<1>34. CASE Cancel
  BY <1>34, <1>idle, ArchiveQuiet DEF Cancel
<1>35. CASE Restart
  <2>1. rec' = ChecksRecovered(rec) /\ op' = Idle /\ inp' = inp /\ disk' = disk
    BY <1>35 DEF Restart
  <2>2. /\ rec'.inRev = rec.inRev /\ rec'.subRev = rec.subRev /\ rec'.wfRev = rec.wfRev
        /\ rec'.compiled = rec.compiled /\ rec'.stage = rec.stage
        /\ rec'.gen = rec.gen /\ rec'.ready = rec.ready
        /\ rec'.st[5] = IF rec.st[5] = "checking" THEN "failed" ELSE rec.st[5]
    BY <1>0, <1>stages, <2>1 DEF ChecksRecovered, Interrupted, ProjectRecord
  <2>3. SameRevisions /\ SameBatch /\ PlanKept
    BY <2>1, <2>2 DEF SameRevisions, SameBatch, PlanKept
  <2>4. SnapFits' /\ BuildFits' /\ op'.at # "agent"
    BY <1>idle, <2>1, NoTask DEF Quiet
  <2>5. CodeFits' /\ BuiltFits'
    BY <1>0, <2>1, <2>2, <2>4 DEF CodeFits, BuiltFits, Held
  <2> QED
    BY <2>1, <2>3, <2>4, <2>5, BatchKept DEF ArchiveInv
<1>36. CASE UNCHANGED vars
  <2>1. rec' = rec /\ inp' = inp /\ disk' = disk /\ op' = op
    BY <1>36 DEF vars
  <2> QED
    BY <1>0, <2>1 DEF ArchiveInv, SnapFits, CodeFits, Unlisted, BatchFits, Live, Listed, Solved,
                      BuiltFits, BuildFits, Outdated, InPlace
<1> QED
  BY <1>1, <1>2, <1>3, <1>4, <1>5, <1>6, <1>7, <1>8, <1>9, <1>10, <1>11, <1>12, <1>13, <1>14,
     <1>15, <1>16, <1>17, <1>18, <1>19, <1>20, <1>21, <1>22, <1>23, <1>24, <1>25, <1>26, <1>27,
     <1>28, <1>29, <1>30, <1>31, <1>32, <1>33, <1>34, <1>35, <1>36
  DEF Next, Request, Progress, Working, AgentEnds

\* Whatever passes the checks of export is one consistent dataset, also when the
\* solution is replaced under a running task: the archive is guarded by the stamp
\* of its manifest, not by the lock the edit does not take (api.py, PUT
\* .../solution; dataset_service.py, _manifest_matches).
THEOREM ExportIsSound == Spec => []ExportSound
<1>1. Init => TypeInv /\ ArchiveInv
  BY TypeInit, ArchiveInit
<1>2. TypeInv /\ ArchiveInv /\ [Next]_vars => (TypeInv /\ ArchiveInv)'
  BY TypeStep, ArchiveStep
<1>3. TypeInv /\ ArchiveInv => ExportSound
  BY ArchiveSound DEF TypeInv
<1> QED
  BY <1>1, <1>2, <1>3, PTL DEF Spec

=============================================================================
