# Verification of the test-data builder

The repository (`src/`) builds test data for competitive-programming problems.
A user gives a problem and a reference solution; a backend (`src/backend/app`,
FastAPI on one event loop) takes the project through eight stages with the help
of language-model agents and a Docker sandbox, and exports a zip of inputs and
answers. These TLA+ modules model the backend's control: who may change which
part of a project, when, and what is left after a failure, a cancelled request
or a restart.

## 1. Inventory

| part | code | state it keeps | operations | how it is reached |
|---|---|---|---|---|
| project record | `services/project_service.py`, `models.py` | `project.json`: stage, statuses, revisions, flags, threads; `input.json`: the solution and its revision | create, edit the solution, save a user's or an agent's draft, confirm, mark compiled / generated / validated / failed, reclaim interrupted checks | called by the pipeline, the dataset service and, without the lock, by `PUT .../solution` |
| stage pipeline | `services/pipeline.py` | one `asyncio.Lock` per project; the local variables of a running task | compile, run / instruct / confirm a stage, `auto_run`, preview | HTTP; awaits the sandbox, the agents, the checkpointer |
| dataset build | `services/dataset.py` | `state/batch.json`, `data/` | generate inputs, validate and solve, export | pipeline lock; awaits the sandbox |
| project storage | `storage.py` | drafts, working template, released snapshot and its history, the `generated` symlink, recovery logs | save, clear, freeze, verify, project, clear directories | everyone |
| recovery loop | `services/agent_recovery.py`, `recovery_policies.py` | a recovery summary per run: round, repairs, events | generate, validate, fix, repair, reroute, exhaust | pipeline, agent graphs |
| agent graphs | `services/agent_graphs.py` | LangGraph threads and their checkpoints | run, resume, route an instruction | pipeline |
| diagnostics | `recovery_diagnostics.py` | none | locate a failure | recovery loop |
| candidate verifier | `candidate_verifier.py` | the verification workspace and its preview directory | static checks, compile, trial runs, verdict | recovery loop of stage 5 |
| sandbox | `services/sandbox.py`, `docker/runner` | cache of compiled binaries, one lock per binary, the slots of the runner | compile, batches of generate / solve | pipeline, dataset, verifier |
| model settings | `services/model_configuration.py`, `api.py` | the configuration file and its lock, the model the graphs point at | update, test, replace the model | HTTP |
| model client | `services/model_client.py` | one HTTP client per model, opened on first use | the attempts of a call, closing | agent graphs |
| contracts | `agent_validators.py`, `runtime_parameters.py`, ... | none | checks of drafts and code | recovery policies |
| page | `demo前端样式设计/app.js` | none that lasts | the requests above | the user |

What makes it hard:

* **One event loop, many awaits.** A handler is atomic from one await to the
  next; a project's tasks are serialised by a lock, but `PUT .../solution`
  (`api.py` 127-130) takes none and may run at any await of a task.
* **Three stores that must agree.** `project.json`, `input.json` and the files
  of the project are written one after the other; revision numbers tie them.
* **Tasks that stop half-way.** A request is cancelled, a container is not
  available, the process restarts: a stage is left `checking`, a batch
  `generating`, a release without its record.
* **Calls that outlive their task.** `asyncio.gather` raises with the first call
  that raises and leaves the others running, and a container goes on after its
  request has timed out: both write files and hold slots when the task is gone.
* **Files that are written one after the other.** A stop between two renames
  leaves a directory that no method would have left.
* **Loops that send each other back.** Stages 6 and 7 send `auto_run` back to
  stage 5 (bounded), stage 5 to stage 4 (not bounded by a counter).

## 2. Modules

| module | models | state |
|---|---|---|
| `Workflow` | one project from creation to export | `rec` (project.json), `inp` (input.json), `disk` (drafts, release, symlink, batch, data), `op` (the task that holds the lock) |
| `WorkflowProperties` | its promises | |
| `WorkflowMC` | the instances for TLC | |
| `WorkflowProofs` | types, the survival of the released snapshot, order of the stages and growth of the revisions, proved | |
| `WorkflowContents` | what confirmed work, a release and an archive are worth, proved | |
| `Recovery` | the runs of the recovery loop of one stage | `sum` (the record's summary), `log` (the run's directory), `draft` (what the stage keeps on disk), `failure` (the failure of stage 6 or 7 in `last_error`), `co` (the frame of `AgentRecoveryCoordinator.run`) |
| `RecoveryPromise` | the abstract specification: a run ends within a budget of repairs | `running`, `spent` |
| `RecoveryProperties` | the loop's promises, and the refinement of `RecoveryPromise` | |
| `RecoveryMC` | the instances for TLC: three contents, two of which the fixes turn into each other | |
| `RecoveryProofs` | the safety promises and the refinement's safety, proved | |
| `Dataset` | stages 6 to 8 file by file | `rec` (the fields they read), `disk` (template, release, manifest, every file of `data/`), `op` (the task), `calls` (batch calls in the order of their slots), `strays` (containers without a call), `wipe` (artifacts being removed) |
| `CompileCache` | `compile` for one binary | `src`, `bin` (the files), `cache` (the entry), `queue` and `at` (the lock), `key`, `job` (its holder), `stray` |
| `ModelSettings` | the settings and the clients in use | `config`, `cur` (the model in use), `client`, `task`, `queue` and `at` (the lock), `broken` (history) |
| `Store` | the directory of a project, one file operation at a time | `disk` (every file by its role), `crashes` |
| `Verifier` | `Agent4CandidateVerifier.verify` | `faults` (what the candidate is), `point` (where `verify` is), the calls and answers of its gathers, the files of its previews, the slots, the verdict |
| `DatasetProperties`, `CompileCacheProperties`, `ModelSettingsProperties`, `StoreProperties`, `VerifierProperties` | their promises | |
| `DatasetMC`, `CompileCacheMC`, `ModelSettingsMC`, `StoreMC`, `VerifierMC` | their instances for TLC | |
| `DatasetProofs`, `StoreProofs`, `CompileCacheProofs`, `ModelSettingsProofs`, `VerifierProofs` | what of it is proved | |

How they fit together. `Workflow` is the whole system with its parts taken as
single steps or single awaits; each of the others opens one of these:

* its await `agent` is a whole run of `Recovery`, of which it sees the outcome;
  in stage 5 a validation of `Recovery` is a verification of `Verifier`;
* its awaits `generating` and `solving`, and its export, are tasks of `Dataset`;
* its await `compile`, and those of `Dataset` and `Verifier`, are calls of
  `CompileCache`;
* its operators for `ProjectStorage` and `ProjectService` are sequences of file
  operations in `Store`. `Store` holds an INSTANCE of `Workflow` over the
  abstraction of its directory, uses its operators on the record, and
  `AgreesWithWorkflow` compares the two, method by method.

`Recovery` implements `RecoveryPromise`. The other parts are checked separately,
each with what surrounds it as nondeterministic as the code allows.

### Workflow

An action is the code between two awaits, with every record and file it
writes. Methods of `ProjectService` are operators from record to record,
methods of `ProjectStorage` operators from directory to directory; an action
composes them the way the handler calls them. `op.at` says at which await the
task that holds the lock is:

| `op.at` | the await |
|---|---|
| `compile` | the sandbox, in `compile_solution` |
| `classify` | the model that routes an instruction, in `run_stage` |
| `agent` | the agent of stage `op.s` |
| `resume` | the LangGraph thread of stage 3 or 4, in `confirm_stage` |
| `loop` | none: the head of `auto_run`'s loop |
| `repair` | compile and rewrite of the solution, in `auto_run` |
| `gencompile`, `generating` | the two awaits of `generate_inputs` |
| `valcompile`, `solving` | the two awaits of `validate_and_solve` |

`op.ctx`, `op.snap`, `op.build` and `op.bin` are the local variables that live
across the await: what the agent was given, the record read before the routing
call, the plan, code and solution a build read when it started.

What is folded: `ai_confirmed`, `user_confirmed` and `build_complete` follow
from the status and from `export_ready` and are not kept; `failed_stage_threads`
is only ever cleared by the code, so it is always empty; a draft's text is a
model value, compared as `_draft_content` compares it. Fields named *history* in
the module (`src`, `up` in a draft, `code`, `plan`, `outs` in the data) are not
in the program: they remember what a file was made from, for the properties.
The branch of `auto_run` for a compiled solution at stage 2 is left out because
`mark_solution_compiled` saves both fields in one record: `StageOrder` shows
that the state it is for is never reached. An instruction that revises exists
for every stage; rerouting happens from stage 5 to stage 4 only, the one root
other than 2 and 5 the diagnostics emit.

### Recovery

`Stage` selects the policy: 1 to 4 are agents 1 and 2, the solution's and agent
3's, 5 is agent 4. What differs between them is a handful of operators: `Rounds`,
`SavesCandidates`, `Fixed`, `FailureKinds`. `co.phase` is where the loop is:

| `co.phase` | the code |
|---|---|
| `idle` | no run |
| `prepare` | stage 5 has taken its template and the failure to answer; models analyse the plan |
| `generate` | `await policy.generate_fresh` |
| `validate` | `await policy.validate` |
| `failed` | the locator has its plan: reroute, fix, or go on |
| `repair` | the test of the repairs made, then `await policy.repair` |
| `passed` | the run has returned; `run_stage` has yet to save its candidate |

`round`, `this`, `total`, `cur` and `fixes` are the loop's local variables
(`repairs_this_round`, `total_repairs`, `current`, `deterministic_fixes`),
`pending` is agent 4's `_pending_execution`. A candidate is a model value;
`FixOf` says which other the policy's deterministic fix makes of it. A failure
is what the locator tells apart: who owns it and whether that stage may write.
`of` in a failure, `gens` and `inRound` in the log are history.

What is folded: `Turn` is one branch of the loop. Response contract and business
contract failures are one kind, since the loop treats them alike; a response
failure of agent 4 does not arise, because the model client returns only text
that is not empty. The branch for a failure that is not repairable is not
reached: the locator refuses such a failure first.

Two things come from outside at any point. The process may stop between any two
writes: a manifest is written before the record that repeats it (`storage.py` 168
and 188), so each action that writes both has an alternative that stops in
between, and one that stops before the candidate is saved. And `PUT .../solution`
(`UpdateSolution`) comes at every await: it takes no lock and discards the drafts
and the working template under a run (`edited` remembers it). A user's edit of
a draft needs the lock and comes between runs (`SaveUserDraft`).
`PreparationFails` is there because `last_error` is cleared as a stage begins,
before the run is resumed: an error in between leaves the failure forgotten. Left
out: a template that no longer matches the format contract when it is resumed
(agent 4 then generates a new one).

### Dataset

Three kinds of actors write the project directory at once: the event loop, the
thread that packs an archive (`asyncio.to_thread`), and the containers, which
write the files of their chunk one after the other. An action of the event loop
is again the code between two awaits; a container's is one file opened or one
file finished; the thread's is one file packed. `gather` is modelled by what it
does when a chunk raises: the task ends, its other calls keep their place in the
queue for a slot (`mine` turns false) and their containers become `strays`.
Files hold history: the whole output of a job of the present batch, a part of
it, or anything older.

What makes `PackSound` hold although the solution may be replaced while the
thread packs is an order in the code nobody wrote down:
`invalidate_downstream_artifacts` removes the release before `batch.json` and
the data, and `export` lists the data before it opens the two programs. An
archive that lists too little therefore fails on the programs. The mutants swap
these orders.

Folded: `output_file` of a test case is `done`; sizes and elapsed times are left
out; stages 2 to 5 are what they leave for stage 6.

### CompileCache

One project and one role, hence one lock and one entry. `compile` reads and
digests the source in a thread, looks the entry up, checks the binary's digest,
runs the container and digests what it left; each of these is an await
(`at`). What else touches the files: an edit of the source (of the project,
which also clears `bin/`, or of the verification workspace, which does not), and
a container whose call is gone; both may fall into a call. A binary is named by the
source it is made of; a link that is killed leaves the old binary, none, or half of
one. `calm` is history: nothing else has written source or binary since the call read
its key. An entry keeps the `calm` of the call that made it.

### ModelSettings

The file, the settings and the model are replaced without an await in between,
so they are one variable; closing the old client is the await. A task uses the
model its graph points at when a run begins (`NextRun`), the client is opened by
the first call, and a call that is tried again uses the client of its first
attempt. `MayAsk` (no task is running) is decided before the lock is waited for, and a
save that has waited is applied when it is woken (`Wake`), whatever runs by then.
`swapped` in a task is history: that has happened to it. `broken` keeps the `swapped`
of every task that met a closed client.

### Store

Every method of `ProjectStorage` and `ProjectService` that `Workflow` takes as
one step is here the sequence of its renames, links and removals (`write_text`
writes beside the name and renames). `Run(method, ops)` performs all of them, or,
if the method is in `Crashing`, stops before any one of them and restarts, which
reclaims interrupted checks. Directories are removed entry by entry.

Folded: the draft of stage 3 has contents of its own (`Outlines`; the texts of the
stages are never compared with each other); a test case is the
pair of its files; the compile state in `input.json`, partly removed working
directories and temporary files, which nothing reads, are left out. `AutoResume`
is a check that was cancelled together with the `auto_run` that takes it up. Some
methods save the record twice: `set_stage_thread` after `save_ai_result`, and
`pop_stage_thread` after `confirm` (`pipeline.py` 200-208, 278-279). The verdict of
`CompileSolution` may turn down a source that was accepted before, since the runner
has a time limit; `mark_solution_compiled` then removes the artifacts before it saves
the record. The two plans are unlinked one after the other.
An operation is the record of the entries it changes; after a sequence of them an
entry is what the last operation on it has made it (`After`).

### Verifier

`Plan` gives the cases, `TrialCount` the seeds of each; `Smoke` and its complement
are the two phases; `Chunks` what goes to one container. A gather waits for the
calls of its round (`Own`); it raises when one of them raises, and the rest go on
into the next verification, which clears the preview directory and starts its
own. Static checks are the set of those the candidate fails, in their order.
`TargetOf` is `_repair_target` of `agent_graphs.py`. An input is what the
comparison of seeds sees of it: its ends, its middle and the number left out.
`made` is history: what each job's own generator run wrote. The runner solves an
input exactly if the validator accepts it, so the branch for an input that was
accepted and not solved is not reached.

## 3. Runs

| run | instance | shows |
|---|---|---|
| `quiet` | edits between tasks only; two solutions (one compiles), three contents (two sound plans, symmetric), 2 input, 3 plan and 4 workflow revisions | all invariants and action properties of `Workflow` |
| `race` | edits at every await, under fairness; a solution that compiles and one that does not, 3 input and workflow revisions, two repairs, three downstream recoveries (the code's number) | exports stay sound, every task gives the lock back |
| `edit_in_agent` | edits at every await | a place where the missing lock shows (section 5) |
| `recovery_code` | agent 4, three rounds, five repairs | the budget of repairs and generations holds across resumptions; the books agree but for a call that a stop kept from the record; what passed is on disk unless the solution was replaced meanwhile; every run ends; `RecoveryPromise` is implemented |
| `recovery_plan` | agent 3, three rounds, five repairs | evidence is current, a round is given up only when spent |
| `dataset_build` | two subtasks of one case, chunks of one, two slots, three revisions, two contents of the template, under fairness | what a completed manifest lists is whole; an archive is one whole batch beside its code; every task ends |
| `dataset_faults` | one subtask of two cases on one slot, one call or container that outlives its task, a stop while artifacts are removed | a manifest is completed only with every case and its answer |
| `compile_cache` | two callers, three sources (one rejected), edits and left-over containers at any moment, under fairness | entries and answers name the right binary but for a call that was itself disturbed; every call is answered |
| `model_settings` | two tasks, two clients, three models, saves and tests that wait for the lock, under fairness | a task's configuration changes and its client is closed under it only by a save that had waited; every request is served |
| `store_tasks` | one stop, anywhere in any method but the two edits of a user; two solutions, one outline, two contents of plans and codes (symmetric), two test cases | the working template is whole, exports are current and complete, confirmed code is kept, releases are traced; `Workflow`'s steps are the methods', on a torn directory too |
| `store_edit` | one stop in `update_solution` | an export that mixes two solutions (section 5) |
| `verifier` | three cases of two subtasks, four jobs in chunks of one, two slots, two verifications, any candidate with at most two static faults, under fairness | acceptance and blame are right, inputs are the candidate's own, a verification ends |

Further configurations, run by hand, are kept beside them: `WorkflowEdits.cfg`
(two solutions that compile and a fourth workflow revision, without fairness),
`StoreSolution.cfg` (a stop while the solution is replaced: confirmed code is
kept), `VerifierBatches.cfg` (chunks of two), and those named in section 5. The
type invariants of `Store` and `Verifier` are checked in the last two of these.

The bounds. Two input revisions are an original and a replacement, three let an
edit return to an older text under a new number. Two sound contents make "the
same again" and "something else" possible for every stage; a third, unsound, is
what sends stage 5 back to stage 4. Three plan revisions let a plan be rewritten
after a rewritten plan. Four workflow revisions let an edit, a rejected compile
and a rewritten draft follow each other. `MaxFixes` and `MaxDownstream` are
constants of the code (5 and 3): smaller values reach the same branches. The
counters are bounded in the guards of the actions that raise them and nowhere
else.

`Recovery` needs no bound of its own: rounds and repairs have the code's values,
3 and 5, and runs, resumptions and failures may be as many as they like. Three
contents are enough for a fix that undoes another, for one that has been seen
before, and for a candidate that has none.

`Dataset`: two chunks are enough for one that fails while another goes on, two
slots for both to write at once, one slot for one to wait; two subtasks for a
batch that is a selection; three revisions for a stamp that is older by one and
by two. One stray per run meets every later batch. `CompileCache` needs no bound
but one container without a call. `ModelSettings`: two clients let one hold the
lock and the other wait, three models let one be replaced twice. `Store`: two contents, one stop; after a restart every method may follow.
`Verifier`: a smoke phase of two jobs that run at once, a complete phase of two
chunks, and a second verification for what is left of the first.

Deadlock is checked in every run. A request is possible in every idle state;
`Verifier` has a step `Done` for the end of its bounded number of verifications.

Fairness. `FairSpec` of `Workflow` is weak fairness of `Progress`, the disjunction
of what a waiting task does next. Every await has a timeout (sandbox, model
client), so a task cannot wait for ever; nothing is assumed of the user's requests,
of cancellations, of restarts, or of which outcome a call has. `Recovery` assumes
the same of `Turn`, for the same reason: what ends a run is the loop's own
counting and not a favourable answer. `Dataset` assumes it of `Runner` and
`Server`: containers go on or time out, the loop and the thread go on. In
`CompileCache` the holder of the lock goes on: its container has a timeout. In
`ModelSettings` it is `Settling`: a connection test has its timeout and a client
closes. In `Verifier` containers start when there is a slot and end, and a gather
whose calls have ended goes on. Fairness is never assumed of a single outcome, so
a run that ends, ends however its programs behave.

## 4. Proofs

For every value of the constants. Of `Workflow`:

* `TypeCorrect`: `Spec => []TypeOK`. `TypeOK` is not inductive: a task that
  reads a local variable must have set it. `TypeInv` adds `TaskSet`, which says
  so per await.
* `ReleaseSurvives`: `Spec => ReleaseKept`, from `TypeInv` alone and **with
  edits at any time**. One step per action; the only ones that touch the release
  are those that go back before stage 5, that rewrite the plan, or that freeze.
* `StagesInOrder` and `RevisionsOnlyGrow`: `Spec => []StageOrder` and
  `Spec => RevisionsGrow` when `EditsDuringTasks` is false. The invariant adds
  `TaskFits`: a task finds the record as it left it at the await before. That
  is what an edit at an await breaks, and `WorkflowEditInRouting.cfg` shows that the
  assumption cannot be dropped.

* `CompiledStaysCurrent`, `ConfirmedStaysCurrent`, `ReleaseStaysFit`: `CompiledIsCurrent`,
  `ConfirmedIsCurrent` and `ReleaseFits`, when `EditsDuringTasks` is false. The
  invariant `ContentsInv` adds two things the properties do not say: a task that
  waits works on the solution and the drafts that are still stored (`TaskCurrent`),
  and a release that has not been removed carries the present revisions
  (`ReleaseStamped`), which is what lets a confirmation take a release that is
  there for the one to freeze. `edit_in_agent` and `WorkflowEditInCompile.cfg` show
  the assumption cannot be dropped from the first two.
* `ExportIsSound`: `Spec => []ExportSound`, **with edits at any time**. None of the
  above holds then, so the proof goes another way, by the revision numbers alone.
  `ArchiveInv` says that a build at work is on the manifest it wrote, or on one
  whose stamp is older than the record and whose `batch.json` is gone (`BuildFits`);
  that a `batch.json` with the present stamp has the present plan, code and
  solution (`BatchFits`); and that the record which the routing call read before an
  edit, and writes back after it, cannot be exported: it says nothing is ready
  (`SnapFits`). A build that ends after an edit therefore ends under a number that
  no longer counts.

Of `Recovery`, for every policy, every set of contents and fixes, and every
bound on rounds and repairs:

* `BudgetKept`, `BooksKept`, `VerifiedKept`, `ClearedKept`: `RepairsBounded` and
  `GenerationsBounded`, `BooksAgree`, `PassedIsVerified` and `ExhaustedClears` are
  invariants, and so is `TypeOK`, **with stops between any two writes and edits of the
  solution at every await**. `BooksAgree` therefore allows the record to be one call
  behind, in a run that is "running" ever since; `PassedIsVerified` allows a candidate
  whose solution was replaced during its validation, and says what is on disk then.
* `EvidenceKept`: so is `EvidenceIsCurrent` if `Stage # 5`; and `RoundsSpent`, the step
  property `ExhaustedWhenSpent`, also if `Stage # 5`. Only stage 5 resumes a run; in
  the others the loop's `co.this` is exactly the number of repairs of the round
  (`SpentInv`). `RecoveryStaleEvidence.cfg` and `RecoveryStarvedRound.cfg` show stage 5.
* `Implements`: `Spec => PromiseSafe`, the safety part of `RecoveryPromise`.

They follow from one invariant, `Inv`. `RepairsBounded` is not inductive: it
speaks of the record, and the record lags behind the loop. `Counters` therefore
bounds the loop's own counters: before round r at most `MaxRepairs * (r - 1)`
repairs were made, and in it at most `co.this` more. A repair needs `co.this`
below `MaxRepairs`, so round r ends within `MaxRepairs * r`. A resumed round
counts the repairs of earlier rounds in `co.this` as well, which only raises it.
`Working` ties the candidate to the
disk (`OnDisk`), `Records` the manifest to the record, stops included, and `Ended`
says that only a run that passed can be resumed, and that its template is still
there when it is.

Of `Dataset`, for every plan, every number of slots and every size of chunk, and with
edits and stops of the process anywhere:

* `TypeCorrect`: `TypeOK`. `TypeInv` adds that a call with a file open has a job
  left, without which a container would write the file of no job.
* `CompletedLists`: `CompletedIsListed`, **whatever outlives its call**. A manifest
  lists nothing but cases of its selection (`FilesFit`), and the loops that write
  it get to the last job only when each before it has its file.
* `CompletedWhole`: `CompletedIsWhole`, as long as no container outlives its call
  (`MaxStrays = 0`); a wipe may be cut off. `WholeInv` says, for the build at work
  on data of the present revision, that each case is whole, has failed, or is still
  with a call (`Generated`, `Solved`), that the calls are this task's own (`Calm`),
  and that `batch.json` is the task's manifest until an edit removes it (`Own`).
* `ArchiveIsWhole`: `PackSound`, if in addition no wipe is cut off (`~Wiping`).
  `ExportInv` is the order in the code spelt out: while an archive is packed and a
  wipe is at work, the release is still to be removed or it and the template are
  gone (`ReleaseFirst`); a project that may be exported has a `batch.json`
  (`BatchThere`); once the code is packed a listed file is as it was listed or
  gone (`Packing`).

`DatasetStray.cfg` and `DatasetWipe.cfg` show that `PackSound` needs both assumptions.
The counts in a manifest are cardinalities and the order of its cases is their position,
`Position(c, S)`, so that no proof needs an induction over the list.

Of `Store`, for any contents, test cases and number of stops:

* `TypeCorrect`, `LinkLeadsToWhole`, `ReleasesTraced`: `TypeOK`, `CurrentWhole` and
  `ReleaseTraced`, **wherever the process stops**, in any method, as often as it likes.
  `ReleaseTraced` is about steps that leave the plans alone while stage 4 has no thread:
  a stop between the two saves of `confirm_stage` leaves the thread, the plan can then
  be saved again as it is, and `save_user_draft` removes the release with it.
* `MethodsAddUp`: `AgreesWithWorkflow`. The file operations of a method, one after
  the other, are the step `Workflow` takes for it, in every directory that can
  arise: the statement makes no difference between one that a stop has torn and another.
* `ConfirmedCodeKept`: `ConfirmedKept`, as long as the process does not stop in
  `save_user_draft` (`"draft" \notin Crashing`); `ExportedPackSound`: `PackSound`, as
  long as it does not stop in that method or in `update_solution`. A stop in a compile
  that turns down its source is covered: it may find a project that can be exported
  and take the plan away, and what is packed then is still one whole data set.
  `store_edit`, `StoreTorn.cfg` and `StorePartial.cfg` are what a stop in an edit does
  (section 5).

The invariant, `Good(d, stops)`, is of a directory, so that it can be said of every
directory a method leaves by, and of a number of stops. `Room` is why a free working
directory is always found: each stop leaves at most one behind, and there are two
more than stops. `Ahead` says that a release, or what is left of one, carries the record's present
revision, and that before stage 5 there is neither release nor manifest. `Conf` says that a release whose files are not all there goes with a record that is back
before its confirmation; `Pack` that whatever manifest could be exported has
its files beside it, and that a project that could be exported without a manifest has
no programs left to pack (`Shut`). Only a stop in the edits named can break the last two.

Of every method it is shown where its operations lead and which directories they
lead by, `Leads(S, d, ops, e)`. If all of S is good after one stop more, and traces the
release, the method may run to its end or stop anywhere (`Moves`), and the proof of an
action is that S is what it claims to be. What a method does to the record keeps it
`InOrder`: the stages before the present one are passed, those after it are drafts.

Of `CompileCache`, for any callers and sources, **with edits and left-over containers
at any moment**:

* `EntriesSound` and `AnswersSound`: `EntrySound` is an invariant, and
  `AnswersFresh` holds of every step. Both except the call that was itself disturbed
  (`calm`), which is the least the code allows: `CompileCacheOverlap.cfg` is such a
  call. `Lock` says who may be at which await, `AtWork` that as long as nothing
  disturbs a call the key it has read is still the source, its container has read
  that source, and a container that ended well has left its binary.

Of `ModelSettings`, for any tasks, clients, names and keys:

* `CurrentKept`: `CurrentServes`, **also when saves wait for the lock**. `Room`
  counts the models left for the requests let in, `Unused` says that a model not
  yet handed out has no client.
* `SettingsKept` and `CallsServed`: `SettingsWait` and `NoneBroken`, **with saves
  that wait**. Both except the task under which such a save was applied (`swapped`);
  `ModelSettingsBusy.cfg` shows that it cannot be left out. `Quiet` adds that
  every other task has the model in use, and that its client is open while a call
  of the task is.

Of `Verifier`, for any plan, inputs, candidates, chunk size and number of slots:

* `AcceptCorrect`: what is accepted has passed every check and every run
  (`AcceptSound`). `CallsInv` says that a call of this round belongs to the gather
  `verify` waits for, and that none is left after a verdict; `ProgressInv` says
  what must have passed by each point of `verify`, job by job.
* `InputsOwn`: `OwnInputs`. `InputsInv` says that a path of this round holds what
  the job's own run wrote, and that nothing is read before it is written. It
  rests on the fresh name of each preview file: the mutant that names it by its
  job lets a container of an earlier verification overwrite it.
* `BlameIsRight`: `BlameFits`. Every run that `verify` waits for has an answer or a
  call (`AnswersInv`), so that when a gather ends what is missing an answer was not
  asked: the first job in the order of the loops that failed is then the first that
  could.
* `RefusalHasCause`: `RefusedForCause`, when previews leave nothing out
  (`PreviewWhole`); `VerifierPreview.cfg` is the refusal without a cause.

Assumptions: those on the constants of each module (sets of contents, bounds,
shape of a plan) and that the absent value is none of the others, by name in the
module that declares them; TLC evaluates them all.

What the proofs changed in the model. `EndCompile` of `Verifier` chose the role to
blame by a CASE whose guards overlap; the code's `if` chain is an IF. `Dataset`
sorted its cases with an operator that has no definition outside of TLC, and now
by `Position`. Its assumption on `MaxCodes` let the set of template contents be empty,
in which case no initial state has its type. `TypeOK` of `Store` had a release either
absent or with a file: a second stop, while `remove_tree` takes away what the
first has left, leaves a directory with neither, and the type now has it. One
stop, which is what the runs allow, does not get there. `After` was a fold, whose
value takes an induction over data; the last write of each entry is the same.

Model-checked only: liveness (`LockReleased`, `Terminates`, `PromiseKept`'s
liveness, `TasksEnd`, `CallsEnd`, `RequestsServed`, `VerificationEnds`), which is
beyond the prover. Every safety property of the runs that hold is proved, under
the assumptions named above.

## 5. Where the code and its promises differ

Two of these are runs (`edit_in_agent`, `store_edit`); for each of the others the
configuration named shows the counterexample to the property named in it.

Edits without the lock. `PUT .../solution` takes none. The page disables its editor
while a task runs, so these need a second tab, a script, or a request that was
already on its way.

* `edit_in_agent`: the result for the old solution puts a reset stage back to
  `waiting_user`, from where it can be confirmed.
* `WorkflowEditInCompile.cfg`: the verdict on the old source is recorded for the
  new one (`pipeline.py` 90-103).
* `WorkflowEditInRouting.cfg`: the record read before the routing call is written
  over the update, and the project counts as compiled at its old revision
  (`pipeline.py` 113, 181).
* `CompileCacheOverlap.cfg`: `compile` pairs the key it read before the container
  with the binary it finds after it (`sandbox.py` 109, 126-133). A source that is
  replaced and put back meanwhile is then answered with the other's binary.

What protects the user: `ExportSound` holds in the `race` run. Whatever an edit
interleaves with, an export that passes its checks is one consistent dataset.

A run of agent 4 that a failure of stage 6 or 7 resumes:

* `RecoveryStaleEvidence.cfg`: the failure is kept until a validation uses it. When
  the audit of the template fails first, the template is repaired for that, and the
  old failure is then held against the repaired one, which is not verified
  (`recovery_policies.py` 551). The backend's README (line 31) has the full
  verification rerun after every replacement. The harm is bounded: a repair is
  spent on evidence that may no longer apply, and nothing passes unverified
  (`PassedIsVerified`).
* `RecoveryStarvedRound.cfg`: the resumed round begins with the repairs of all
  rounds before it (`agent_recovery.py` 127), so that a run that passed in round 2
  after six repairs is taken up with none left, its template is cleared and round 3
  begins. README line 25 allows five repairs per generation. `RepairsBounded` and
  `GenerationsBounded` show that the error is on the careful side.

Stages 6 to 8:

* `DatasetStray.cfg`: a chunk that outlives its failed task, or a container whose
  request timed out, writes into the data of the next batch (`dataset.py` 118,
  260), and an export hands the mixture out; the manifest has no digests of the
  data files.
* `DatasetUnfinished.cfg`: generation that is cut off leaves `generation_complete`
  from the batch before, and stage 7 starts on an unfinished batch
  (`dataset.py` 86, 177). `CompletedIsListed` shows that it is not completed.
* `DatasetWipe.cfg`: a stop after `batch.json` is removed and before the record is
  saved leaves a project that is exported without the checks of its manifest
  (`dataset.py` 345).

Stops between two writes. Every method but a user's two edits is safe for what is
exported (`store_tasks`); the edits save the record last.

* `store_edit`: `update_solution` stops after it has written `source/solution.cpp` and
  before `input.json`. The record and the input are those of the solution before, and
  the project goes on: stages 5 to 7 take code written for the old solution and
  answers of the new one, under revisions that match (`project_service.py` 220-225).
  The edit can be sent again, but nothing asks for it.
* `StorePartial.cfg`: after a stop in `save_user_draft` it exports a part of the
  test cases (`storage.py` 327-332, `dataset.py` 345).
* `StoreTorn.cfg`: half a release is left, which a later confirmation of the same
  code takes for the frozen one (`storage.py` 316, 394-397).
* `StoreKept.cfg`: a stop between the two renames of `freeze_code_release` leaves
  no release in force, although `src/README.md` line 68 has it always kept; the
  one before is in the history (`ReleaseTraced`).

Others:

* `ModelSettingsBusy.cfg`: a save asks for running tasks before it waits for the
  lock a connection test holds (`api.py` 49-56); a task that starts meanwhile has
  its configuration changed and its client closed.
* `VerifierPreview.cfg`: the inputs of two seeds are compared by their first and last
  2000 characters (`candidate_verifier.py` 563); two long ones that differ in
  between count as identical, and a sound generator is refused.

## 6. Plan

1. `Workflow`: done, with its first theorems.
2. `Recovery`: done, with its theorems and the refinement of `RecoveryPromise`.
3. `Dataset`, 4. `Store`, 5. `CompileCache`, 6. `ModelSettings`, 7. `Verifier`: done.
8. Theorems: done for every safety property of the runs that hold.
9. Left to state: an abstract specification of what a user is promised of
   `auto_run` and of the release, implemented by `Workflow`; a composition in
   which a validation of `Recovery` is a verification of `Verifier`.

## 7. Not modelled

The text of prompts, what a static check or a contract looks for in a program, the
parsing of a model's answers and the documents shipped with the prompts: strings,
with no state. The Docker proxy (a filter of requests), the page, deployment scripts, the report
and the notes for assistants. `src/tmp/agent4.py`, a former architecture of stage 5
that nothing imports. `normalize_input` changes names only and `preview` writes under
`preview/` only. The recovery logs of the storage are in `Recovery` by their counts. Concurrent projects share nothing but the sandbox, whose slots and cache
`Dataset`, `Verifier` and `CompileCache` have, and the model, which `ModelSettings`
shares between tasks; elsewhere one project is modelled.
