-------------------------------- MODULE Store --------------------------------
(***************************************************************************)
(* The directory of a project, file by file, and a process that stops      *)
(* between two writes.  Workflow takes each method of ProjectStorage and   *)
(* ProjectService as one step; here a method is the sequence of its file   *)
(* operations, and a stop leaves what the first of them have done.         *)
(*                                                                         *)
(* A file is written beside its name and renamed over it (write_text), so  *)
(* one operation here is one rename, link or removal; a directory is       *)
(* removed entry by entry.  The methods run without an await, or under the *)
(* project's lock: between two of them nothing else writes.                *)
(***************************************************************************)
EXTENDS Naturals, Sequences, SequencesExt

CONSTANTS
  None, Sources, GoodSources, Contents, SoundPlans,           \* as in Workflow
  MaxInRev, MaxSubRev, MaxWfRev, MaxFixes, MaxDownstream, EditsDuringTasks,
  Outlines,    \* contents of the draft of stage 3, which no other draft has
  Tests,       \* test cases of a plan, each a pair of files
  Crashing,    \* the methods in which the process may stop
  MaxCrashes   \* bound: stops of the process

\* Working directories: one in use, one being written, and one left by every stop.
Dirs == 1 .. MaxCrashes + 2
Sides == {"json", "code"}

Texts(s) == IF s = 3 THEN Outlines ELSE Contents \ Outlines

VARIABLES disk, crashes
vars == <<disk, crashes>>

\* The code draft is read through the link current-code.
Draft5(d) == IF d.current = None \/ d.work[d.current] = None THEN None ELSE d.work[d.current].draft

\* load_code_release: there is a release when there is a release.json.
Release(d) == IF "json" \in d.released.parts THEN d.released.draft ELSE None

\* The directory as Workflow has it.
Abstract(d) ==
  [draft |-> [s \in 3..5 |-> IF s = 5 THEN Draft5(d) ELSE d.plans[s]],
   release |-> Release(d),
   proj |-> IF d.projection = "release" THEN "release" ELSE "working",
   batch |-> d.batch,
   data |-> IF d.data.tests = {} THEN None
            ELSE [code |-> d.data.code, plan |-> d.data.plan, outs |-> d.data.outs,
                  whole |-> d.data.tests = Tests]]

W == INSTANCE Workflow WITH rec <- disk.record, inp <- disk.input,
                            disk <- Abstract(disk), op <- None

NoRelease == [draft |-> None, parts |-> {}]
NoData == [tests |-> {}, code |-> None, plan |-> None, outs |-> None]

Disk ==
  [source: Sources, input: W!GlobalInput, record: W!ProjectRecord,
   plans: [3..4 -> W!Draft \cup {None}],
   work: [Dirs -> [draft: W!Draft, whole: BOOLEAN] \cup {None}],
   current: Dirs \cup {None},
   released: [draft: W!Draft, parts: SUBSET Sides] \cup {NoRelease},
   history: SUBSET W!Draft,
   projection: {"none", "working", "release"},
   batch: W!Batch \cup {None},
   data: [tests: SUBSET Tests, code: Contents \cup {None}, plan: Contents \cup {None},
          outs: Sources \cup {None}]]

ASSUME StoreAssumption ==
  /\ GoodSources \subseteq Sources /\ SoundPlans \subseteq Contents /\ Outlines \subseteq Contents
  /\ {MaxInRev, MaxSubRev, MaxWfRev, MaxFixes, MaxDownstream, MaxCrashes} \subseteq Nat
  /\ EditsDuringTasks \in BOOLEAN /\ IsFiniteSet(Tests)
  /\ None \notin Sources \cup Contents \cup Dirs
  /\ None \notin W!Draft \cup W!Batch \cup W!Data \cup [draft: W!Draft, whole: BOOLEAN]

TypeOK == disk \in Disk /\ crashes \in 0..MaxCrashes

-----------------------------------------------------------------------------
(* Methods of the storage: the sequences of what they do to a directory d. *)
(* An operation is the record of the entries it changes.                   *)

\* An entry is then what the last of the operations on it has made it.
After(d, ops) ==
  [entry \in DOMAIN d |->
     LET writes == {i \in DOMAIN ops : entry \in DOMAIN ops[i]}
     IN  IF writes = {} THEN d[entry] ELSE ops[Max(writes)][entry]]

\* ops, and then what the directory they leave calls for.
Then(d, ops, More(_)) == ops \o More(After(d, ops))

\* _set_code_projection: the link is removed and made again.
Projected(d, to) ==
  IF d.projection = to THEN <<>> ELSE <<[projection |-> "none"], [projection |-> to]>>

\* _ensure_code_projection
EnsureProjected(d) == Projected(d, IF Release(d) # None THEN "release" ELSE "working")

Written(d, s, draft) == <<[plans |-> [d.plans EXCEPT ![s] = draft]]>>

\* Mutant: the link is switched to a directory that is still being written.
CodeSavedLate(d, draft) ==
  LET new == CHOOSE n \in Dirs : d.work[n] = None
      work(whole) == [d.work EXCEPT ![new] = [draft |-> draft, whole |-> whole]]
      switched == <<[work |-> work(FALSE)], [current |-> new], [work |-> work(TRUE)]>>
  IN  switched \o Projected(d, "working")
        \o IF d.current = None THEN <<>> ELSE <<[work |-> [work(TRUE) EXCEPT ![d.current] = None]]>>

\* save_code_draft
CodeSaved(d, draft) ==
  LET new == CHOOSE n \in Dirs : d.work[n] = None
      work(whole) == [d.work EXCEPT ![new] = [draft |-> draft, whole |-> whole]]
  IN  <<[work |-> work(FALSE)], [work |-> work(TRUE)], [current |-> new]>>
        \o Projected(d, "working")
        \o IF d.current = None THEN <<>> ELSE <<[work |-> [work(TRUE) EXCEPT ![d.current] = None]]>>

\* _discard_working_template
Discarded(d) == <<[current |-> None], [work |-> [n \in Dirs |-> None]]>>

\* rmtree of released-code, which takes its entries in any order: first goes first.
ReleaseRemoved(d, first) ==
  IF d.released.parts = {} THEN <<>>
  ELSE <<[released |-> [d.released EXCEPT !.parts = @ \ {first}]], [released |-> NoRelease]>>

\* The plans from stage s on are unlinked, one after the other.
PlansRemoved(d, s) ==
  LET without(gone) == [plans |-> [t \in 3..4 |-> IF t \in gone THEN None ELSE d.plans[t]]]
  IN  (IF s <= 3 THEN <<without({3})>> ELSE <<>>)
      \o (IF s <= 4 THEN <<without({t \in 3..4 : t >= s})>> ELSE <<>>)

\* clear_directory, for data
DataCleared(d) ==
  LET gone == SetToSeq(d.data.tests)
  IN  [i \in DOMAIN gone |->
         [data |-> IF i = Len(gone) THEN NoData
                   ELSE [d.data EXCEPT !.tests = @ \ Range(SubSeq(gone, 1, i))]]]

\* invalidate_downstream_artifacts
Invalidated(d, s, first) ==
  LET code == IF s = 5 THEN <<>> ELSE Discarded(d) \o ReleaseRemoved(d, first)
  IN  Then(d, PlansRemoved(d, s + 1) \o code, EnsureProjected) \o <<[batch |-> None]>> \o DataCleared(d)

\* Mutant: the link generated is left as it is.
WorkingClearedOnly(d, s) == PlansRemoved(d, s) \o Discarded(d)

\* clear_working_draft
WorkingCleared(d, s) == Then(d, PlansRemoved(d, s) \o Discarded(d), EnsureProjected)

\* freeze_code_release.  A directory released-code without a release.json is in
\* the way of the rename.
MayReplace(d) == Release(d) # None \/ d.released.parts = {}
SameRelease(d) == Release(d) # None /\ Release(d).c = Draft5(d).c
Renamed(d) == <<[released |-> [draft |-> Draft5(d), parts |-> Sides]]>>

\* Mutant: the release before is overwritten, not archived.
FrozenOver(d) ==
  (IF SameRelease(d) THEN <<>> ELSE Renamed(d)) \o Projected(d, "release")

Frozen(d) ==
  (IF SameRelease(d) THEN <<>>
   ELSE (IF Release(d) = None THEN <<>>
         ELSE <<[released |-> NoRelease, history |-> d.history \cup {Release(d)}]>>) \o Renamed(d))
  \o Projected(d, "release")

\* verify_code_release
Verified(d) == Release(d) # None /\ d.released.parts = Sides

-----------------------------------------------------------------------------
(* The process *)

Checking(d) == \E s \in 3..5 : d.record.st[s] = "checking"
Restarted(d) == [d EXCEPT !.record = W!ChecksRecovered(d.record)]

\* A method runs to its end, or stops before one of its operations.
Run(method, ops) ==
  \/ disk' = After(disk, ops) /\ UNCHANGED crashes
  \/ /\ method \in Crashing /\ crashes < MaxCrashes
     /\ \E k \in 0 .. Len(ops) - 1 : disk' = Restarted(After(disk, SubSeq(ops, 1, k)))
     /\ crashes' = crashes + 1

Saved(r) == <<[record |-> r]>>

\* update_solution
UpdateSolution(src) ==
  LET in == [src |-> src, rev |-> disk.input.rev + 1]
  IN  /\ ~Checking(disk)
      /\ src # disk.input.src /\ in.rev <= MaxInRev /\ disk.record.wfRev < MaxWfRev
      /\ \E first \in Sides :
           Run("solution", <<[source |-> src], [input |-> in]>> \o Invalidated(disk, 2, first)
                             \o Saved(W!SolutionUpdated(disk.record, in.rev)))

\* compile_solution: the runner may turn down a source that it took before (a
\* time limit).  The input's compile state is left out.
CompileSolution(ok) ==
  LET reset == ~ok /\ W!ResetsOnReject(disk.record)
  IN  /\ ~Checking(disk)
      /\ ok => disk.source \in GoodSources
      /\ reset => disk.record.wfRev < MaxWfRev
      /\ \E first \in Sides :
           Run("compile", (IF reset THEN Invalidated(disk, 2, first) ELSE <<>>)
                  \o Saved(IF ok THEN W!CompileAccepted(disk.record) ELSE W!CompileRejected(disk.record)))

Draft(s, c, in, sub) ==
  [c |-> c, src |-> disk.input.src, up |-> W!Upstream(Abstract(disk), s),
   inRev |-> IF s = 5 THEN in ELSE None, subRev |-> IF s = 5 THEN sub ELSE None]
Drafted(s, c) ==
  LET draft == Draft(s, c, disk.record.inRev, disk.record.subRev)
  IN  IF s = 5 THEN CodeSaved(disk, draft) ELSE Written(disk, s, draft)
Changed(s, c) == W!Content(Abstract(disk), s) # c

\* save_user_draft
SaveUserDraft(s, c) ==
  /\ ~Checking(disk)
  /\ s <= disk.record.stage
  /\ s = 4 => disk.plans[3] # None
  /\ Changed(s, c) \/ disk.record.st[s] = "waiting_user" \/ s \in disk.record.threads
  /\ disk.record.wfRev < MaxWfRev /\ (s = 4 => disk.record.subRev < MaxSubRev)
  /\ \E first \in Sides :
       Run("draft", Then(disk, Drafted(s, c), LAMBDA e : Invalidated(e, s, first))
                      \o Saved(W!UserDraftSaved(disk.record, s)))

RunStage(s) ==
  /\ ~Checking(disk)
  /\ s = disk.record.stage /\ W!Prerequisites(disk.record, s)
  /\ Run("check", Saved(W!BeginCheck(disk.record, s)))

\* Agent4RecoveryPolicy._save
AgentSavesCandidate(c) ==
  /\ disk.record.st[5] = "checking"
  /\ Run("candidate", CodeSaved(disk, Draft(5, c, disk.input.rev, disk.record.subRev)))

AgentClearsDraft ==
  /\ disk.record.st[5] = "checking" /\ Draft5(disk) # None
  /\ Run("clear", WorkingCleared(disk, 5))

\* save_ai_result of a stage that passed; set_stage_thread loads the record again
\* and saves it with the thread the stage waits on.
AgentPasses(s, c) ==
  /\ disk.record.st[s] = "checking"
  /\ s = 5 => ~Changed(5, c)
  /\ s = 4 => disk.plans[3] # None
  /\ s = 4 /\ Changed(s, c) => disk.record.subRev < MaxSubRev
  /\ LET passed == W!AiResultSaved(disk.record, s, TRUE, Changed(s, c))
     IN  \E first \in Sides :
           Run(IF s = 5 THEN "result" ELSE "plan",
               (IF Changed(s, c) THEN Then(disk, Drafted(s, c), LAMBDA e : Invalidated(e, s, first))
                ELSE Drafted(s, c))
               \o Saved(passed)
               \o (IF s = 5 THEN <<>> ELSE Saved([passed EXCEPT !.threads = @ \cup {s}])))

\* A request is cancelled in a check, and auto_run takes the project up again:
\* prepare_auto_run_resume saves the record first.
AutoResume(s) ==
  /\ disk.record.st[s] = "checking"
  /\ \E first \in Sides :
       Run("resume", Saved(W!StageFailed(disk.record, s)) \o Invalidated(disk, s, first))

AgentFails(s) ==
  /\ disk.record.st[s] = "checking"
  /\ Run("check", Saved(W!StageFailed(disk.record, s)))

\* The record of confirm; pop_stage_thread loads it and saves it again.
ConfirmedSaved(s) ==
  LET confirmed == W!Confirmed(disk.record, s)
  IN  IF s = 5 THEN Saved(confirmed)
      ELSE Saved([confirmed EXCEPT !.threads = disk.record.threads]) \o Saved(confirmed)

\* Mutant: the record is saved before the code is frozen.
ConfirmRecordFirst(s) ==
  /\ ~Checking(disk)
  /\ disk.record.st[s] = "waiting_user" /\ W!MayConfirm(disk.record, s)
  /\ s < 5 => s \in disk.record.threads
  /\ s = 5 => W!MayFreeze(disk.record, Abstract(disk)) /\ (SameRelease(disk) \/ MayReplace(disk))
  /\ Run("confirm", ConfirmedSaved(s) \o (IF s = 5 THEN Frozen(disk) ELSE <<>>))

\* confirm_stage
Confirm(s) ==
  /\ ~Checking(disk)
  /\ disk.record.st[s] = "waiting_user" /\ W!MayConfirm(disk.record, s)
  /\ s < 5 => s \in disk.record.threads
  /\ s = 5 => W!MayFreeze(disk.record, Abstract(disk)) /\ (SameRelease(disk) \/ MayReplace(disk))
  /\ Run("confirm", (IF s = 5 THEN Frozen(disk) ELSE <<>>) \o ConfirmedSaved(s))

\* generate_inputs, which writes one test case after the other
Generate ==
  LET d == disk
      man(status) == [status |-> status, stamp |-> W!CurrentStamp(d.record, Abstract(d)),
                      listed |-> status # "generating"]
      data(tests) == [tests |-> tests, code |-> d.released.draft.c, plan |-> d.plans[4].c, outs |-> None]
      order == SetToSeq(Tests)
  IN  /\ ~Checking(d) /\ W!MayGenerate(d.record, Abstract(d)) /\ Verified(d)
      /\ Run("generate", Projected(d, "release") \o <<[batch |-> man("generating")]>> \o DataCleared(d)
               \o [i \in DOMAIN order |-> [data |-> data(Range(SubSeq(order, 1, i)))]]
               \o <<[batch |-> man("generated")]>> \o Saved(W!GenerationComplete(d.record)))

\* validate_and_solve: the answers are written one after the other, but an export
\* waits for export_ready.
Validate ==
  LET d == disk
      man(status) == [d.batch EXCEPT !.status = status]
  IN  /\ ~Checking(d) /\ W!MayValidate(d.record, Abstract(d)) /\ Verified(d)
      /\ d.source \in GoodSources /\ d.data.tests = Tests /\ d.batch.listed
      /\ Run("validate", Projected(d, "release")
               \o <<[batch |-> man("validating")], [data |-> [d.data EXCEPT !.outs = d.source]],
                    [batch |-> man("completed")]>>
               \o Saved(W!ValidationComplete(d.record)))

\* _fail_to_agent4
BuildFails ==
  LET d == disk
  IN  /\ ~Checking(d) /\ d.record.stage \in {6, 7} /\ Verified(d)
      /\ Run("fail", Projected(d, "release")
               \o (IF d.batch = None THEN <<>> ELSE <<[batch |-> [d.batch EXCEPT !.status = "failed"]]>>)
               \o Saved(W!PipelineFailure(d.record)))

\* The link generated leads to the two programs.
Linked(d) ==
  \/ d.projection = "release" /\ "code" \in d.released.parts
  \/ d.projection = "working" /\ Draft5(d) # None

\* Mutant: the manifest is not compared with the record.
MayExportAny(d) ==
  /\ d.record.ready
  /\ Linked(d)
  /\ d.data.tests # {} /\ d.data.outs # None

\* What export asks for; with no manifest it takes what is there.
MayExport(d) ==
  /\ d.record.ready
  /\ d.batch # None => Verified(d) /\ d.batch.status = "completed" /\ W!ManifestMatches(d.record, Abstract(d))
  /\ d.batch = None => Linked(d)
  /\ d.data.tests # {} /\ d.data.outs # None

Export == MayExport(disk) /\ Run("export", IF disk.batch = None THEN <<>> ELSE Projected(disk, "release"))

\* The process stops between two methods.
Stop ==
  /\ Checking(disk)
  /\ disk' = Restarted(disk)
  /\ UNCHANGED crashes

\* A project that has come to stage 5.
Init ==
  \E src \in GoodSources, c3 \in Texts(3), c4 \in Texts(4) :
    LET plan(c, up) == [c |-> c, src |-> src, up |-> up, inRev |-> None, subRev |-> None]
    IN  /\ disk =
             [source |-> src, input |-> [src |-> src, rev |-> 1],
              record |-> [stage |-> 5, compiled |-> TRUE, inRev |-> 1, subRev |-> 1, wfRev |-> 1,
                          codeIn |-> None, codeSub |-> None, threads |-> {},
                          st |-> [s \in 3..5 |-> IF s < 5 THEN "passed" ELSE "draft"],
                          gen |-> FALSE, ready |-> FALSE],
              plans |-> [s \in 3..4 |-> IF s = 3 THEN plan(c3, None) ELSE plan(c4, c3)],
              work |-> [n \in Dirs |-> None], current |-> None, released |-> NoRelease,
              history |-> {}, projection |-> "working", batch |-> None, data |-> NoData]
        /\ crashes = 0

Next ==
  \/ \E src \in Sources : UpdateSolution(src)
  \/ \E ok \in BOOLEAN : CompileSolution(ok)
  \/ \E s \in 3..5 : \E c \in Texts(s) : SaveUserDraft(s, c) \/ AgentPasses(s, c)
  \/ \E s \in 3..5 : RunStage(s) \/ AgentFails(s) \/ AutoResume(s) \/ Confirm(s)
  \/ \E c \in Texts(5) : AgentSavesCandidate(c)
  \/ AgentClearsDraft \/ Generate \/ Validate \/ BuildFails \/ Export \/ Stop

Spec == Init /\ [][Next]_vars
=============================================================================
