------------------------------ MODULE Dataset ------------------------------
(***************************************************************************)
(* Stages 6 to 8 of one project, file by file: DatasetService, the batches *)
(* of sandbox.py and runner.cpp it starts, and the export thread.          *)
(*                                                                         *)
(* Three kinds of actors write the project directory at the same time: the *)
(* event loop (one action from await to await, and none while a wipe is    *)
(* half done), the thread that packs the archive, and the containers, each *)
(* of which writes the files of its chunk one after the other, in place.   *)
(*                                                                         *)
(* Workflow has the rest of the record; here stages 2 to 5 are only what   *)
(* they leave behind: a working template, a release, a revision.           *)
(***************************************************************************)
EXTENDS Integers, FiniteSets, SequencesExt

CONSTANTS
  None,       \* the absent value (Python's None, a missing file)
  Plan,       \* test_count of every subtask: the stage 4 plan
  BatchSize,  \* Settings.runner_batch_size
  Slots,      \* Settings.runner_concurrency
  Interval,   \* Settings.manifest_checkpoint_interval
  Wiping,     \* may the process stop while the artifacts of a project are removed?
  MaxStrays,  \* bound: calls and containers that outlive the task or call they served
  MaxRev,     \* bound: workflow revisions
  MaxCodes    \* bound: contents of the working template

ASSUME DatasetAssumption ==
  /\ Plan \in Seq(Nat \ {0})
  /\ {BatchSize, Slots, Interval, MaxCodes} \subseteq Nat \ {0}
  /\ {MaxStrays, MaxRev} \subseteq Nat
  /\ Wiping \in BOOLEAN

VARIABLES
  rec,     \* the fields of ProjectRecord that stages 6 to 8 look at
  disk,    \* template, release, projection, batch.json, data
  op,      \* the task that holds the project lock, between two awaits or in its thread
  calls,   \* generate_batch / validate_solve_batch calls, in the order they wait for a slot
  strays,  \* containers whose call is gone
  wipe     \* invalidate_downstream_artifacts at work, or None

vars == <<rec, disk, op, calls, strays, wipe>>

-----------------------------------------------------------------------------
(* Types *)

Subtasks == DOMAIN Plan
Cases == {c \in Subtasks \X (1..10) : c[2] <= Plan[c[1]]}
Codes == 1..MaxCodes

\* ver is workflow_revision, st5 the status of stage 5.
Record == [ver: Nat, st5: {"draft", "waiting", "passed"}, gen: BOOLEAN,
           subs: SUBSET Subtasks, ready: BOOLEAN]

\* files: the entries of the manifest; done: those that have an output_file.
Batch == [ver: Nat, code: Codes, sel: SUBSET Subtasks,
          status: {"generating", "generated", "validating", "completed", "failed"},
          files: SUBSET Cases, done: SUBSET Cases]

\* What a file of data/ holds, which is history: the whole output of a job of the
\* present batch (for an answer: to the whole input of that batch), the part of it
\* written so far, or anything else.  A batch is present until the next one starts.
File == {"whole", "part", "old"}

Disk == [draft: Codes \cup {None}, rel: Codes \cup {None}, proj: {"draft", "release"},
         batch: Batch \cup {None},
         inp: [Cases -> File \cup {None}], out: [Cases -> File \cup {None}]]

\* todo: the jobs left, the head being written if open; bad: those that failed;
\* mine: does the present task wait for it?  now: is it of the present batch?
Call == [kind: {"generate", "solve"}, now: BOOLEAN, todo: Seq(Cases), open: BOOLEAN,
         bad: SUBSET Cases, mine: BOOLEAN]

\* man is the manifest in memory, bad the jobs that failed.  left, code and got are
\* the export thread's: the files listed and not yet packed, the code and the cases
\* it has packed; whole: were they all whole?
Task == [at: {"idle", "gencompile", "generating", "valcompile", "solving",
              "check", "list", "packcode", "pack", "packed"},
         man: Batch \cup {None}, bad: SUBSET Cases, left: SUBSET Cases,
         code: Codes \cup {None}, got: SUBSET Cases, whole: BOOLEAN]

\* What is left of a wipe: the release, batch.json, data; the record it ends with.
Wipe == [todo: SUBSET {"release", "batch"}, left: SUBSET (Cases \X {"in", "out"}),
         rec: Record]

ASSUME NoneAssumption == None \notin Codes \cup Batch \cup File \cup Wipe

TypeOK ==
  /\ rec \in Record
  /\ disk \in Disk
  /\ op \in Task
  /\ calls \in Seq(Call) /\ strays \subseteq Call
  /\ wipe \in Wipe \cup {None}

-----------------------------------------------------------------------------
(* The record, the release and the manifest *)

\* What the runner and the export find under generated/.
Visible(d) == IF d.proj = "release" THEN d.rel ELSE d.draft

\* verify_code_release points generated/ at the release.
Verified(d) == [d EXCEPT !.proj = "release"]

ManifestMatches(r, d, man) == d.rel # None /\ man.ver = r.ver /\ man.code = d.rel

CasesOf(sel) == {c \in Cases : c[1] \in sel}
Before(c, e) == c[1] < e[1] \/ (c[1] = e[1] /\ c[2] < e[2])
Position(c, S) == Cardinality({e \in S : Before(e, c)}) + 1
Jobs(sel) ==
  LET S == CasesOf(sel)
  IN  [k \in 1..Cardinality(S) |-> CHOOSE c \in S : Position(c, S) = k]

\* _chunks
Chunks(jobs) ==
  [k \in 1..((Len(jobs) + BatchSize - 1) \div BatchSize) |->
     SubSeq(jobs, (k - 1) * BatchSize + 1, IF k * BatchSize < Len(jobs) THEN k * BatchSize ELSE Len(jobs))]

\* How many outcomes the loop takes before one that failed, and how many of n the
\* last checkpoint holds.
Taken(jobs, bad) ==
  IF Range(jobs) \cap bad = {} THEN Len(jobs)
  ELSE (CHOOSE k \in 1..Len(jobs) :
          jobs[k] \in bad /\ \A j \in 1..(k - 1) : jobs[j] \notin bad) - 1
Checkpointed(n) == (n \div Interval) * Interval
FirstJobs(jobs, n) == Range(SubSeq(jobs, 1, n))

NoFiles == [c \in Cases |-> None]
Idle == [at |-> "idle", man |-> None, bad |-> {}, left |-> {}, code |-> None, got |-> {},
         whole |-> TRUE]

\* Mutant: stage 5 counts as failed.
PipelineFailureFails(r) == [r EXCEPT !.gen = FALSE, !.ready = FALSE, !.st5 = "failed"]

\* mark_generation_complete, mark_validation_complete, mark_pipeline_failure
GenerationComplete(r, sel) == [r EXCEPT !.gen = TRUE, !.subs = sel, !.ready = FALSE]
ValidationComplete(r) == [r EXCEPT !.ready = TRUE]
PipelineFailure(r) == [r EXCEPT !.gen = FALSE, !.ready = FALSE, !.st5 = "draft"]

\* _fail_to_agent4: without a release it raises before it has written anything.
FailToAgent4(d) ==
  IF d.rel = None THEN UNCHANGED <<rec, disk>>
  ELSE /\ disk' = IF d.batch = None THEN Verified(d)
                  ELSE [Verified(d) EXCEPT !.batch.status = "failed"]
       /\ rec' = PipelineFailure(rec)

-----------------------------------------------------------------------------
(* The sandbox: calls wait for a slot in the order they were made *)

Running(i) == i <= Slots

ChunkCalls(kind, jobs) ==
  [k \in 1..Len(Chunks(jobs)) |->
     [kind |-> kind, now |-> TRUE, todo |-> Chunks(jobs)[k], open |-> FALSE, bad |-> {}, mine |-> TRUE]]

\* The task has failed or is gone: nobody waits for its calls any more.
Orphaned(q) == [i \in DOMAIN q |-> [q[i] EXCEPT !.mine = FALSE]]

\* runner.cpp: the next job opens its file with O_TRUNC.  A solve runs the
\* validator first, and the solution only on an input that it accepts.
MayAccept(c) == c.kind = "generate" \/ disk.inp[Head(c.todo)] # None
Skipped(c) == [c EXCEPT !.todo = Tail(c.todo), !.bad = c.bad \cup {Head(c.todo)}]
Opened(c, accepted) == IF accepted THEN [c EXCEPT !.open = TRUE] ELSE Skipped(c)
OpenedOn(d, c) ==
  LET j == Head(c.todo)
      tag == IF c.now THEN "part" ELSE "old"
  IN  IF c.kind = "generate" THEN [d EXCEPT !.inp[j] = tag]
      ELSE [d EXCEPT !.out[j] = IF d.inp[j] = "whole" THEN tag ELSE "old"]

\* Mutant: a job that failed is tried again.
ClosedRetries(c, ok) ==
  IF ok THEN [c EXCEPT !.todo = Tail(c.todo), !.open = FALSE] ELSE [c EXCEPT !.open = FALSE]

\* The process ends; the file is whole unless it was unlinked or truncated since.
Closed(c, ok) ==
  IF ok THEN [c EXCEPT !.todo = Tail(c.todo), !.open = FALSE] ELSE [Skipped(c) EXCEPT !.open = FALSE]
Finished(f, c) == IF f = "part" /\ c.now THEN "whole" ELSE f
ClosedOn(d, c) ==
  LET j == Head(c.todo)
  IN  IF c.kind = "generate" THEN [d EXCEPT !.inp[j] = Finished(d.inp[j], c)]
      ELSE [d EXCEPT !.out[j] = Finished(d.out[j], c)]

RunnerOpens(i, accepted) ==
  /\ i \in DOMAIN calls /\ Running(i) /\ ~calls[i].open /\ calls[i].todo # <<>>
  /\ calls[i].kind = "generate" => accepted
  /\ accepted => MayAccept(calls[i])
  /\ calls' = [calls EXCEPT ![i] = Opened(calls[i], accepted)]
  /\ disk' = IF accepted THEN OpenedOn(disk, calls[i]) ELSE disk
  /\ UNCHANGED <<rec, op, strays, wipe>>

RunnerCloses(i, ok) ==
  /\ i \in DOMAIN calls /\ calls[i].open
  /\ calls' = [calls EXCEPT ![i] = Closed(calls[i], ok)]
  /\ disk' = IF ok THEN ClosedOn(disk, calls[i]) ELSE disk
  /\ UNCHANGED <<rec, op, strays, wipe>>

StrayOpens(c, accepted) ==
  /\ ~c.open /\ c.todo # <<>>
  /\ c.kind = "generate" => accepted
  /\ accepted => MayAccept(c)
  /\ strays' = (strays \ {c}) \cup {Opened(c, accepted)}
  /\ disk' = IF accepted THEN OpenedOn(disk, c) ELSE disk
  /\ UNCHANGED <<rec, op, calls, wipe>>

StrayCloses(c, ok) ==
  /\ c.open
  /\ strays' = (strays \ {c}) \cup {Closed(c, ok)}
  /\ disk' = IF ok THEN ClosedOn(disk, c) ELSE disk
  /\ UNCHANGED <<rec, op, calls, wipe>>

StrayEnds(c) ==
  /\ c.todo = <<>>
  /\ strays' = strays \ {c}
  /\ UNCHANGED <<rec, disk, op, calls, wipe>>

\* The results of a chunk reach the event loop.
CallReturns(i) ==
  /\ wipe = None
  /\ i \in DOMAIN calls /\ Running(i) /\ calls[i].todo = <<>>
  /\ op' = IF calls[i].mine THEN [op EXCEPT !.bad = op.bad \cup calls[i].bad] ELSE op
  /\ calls' = RemoveAt(calls, i)
  /\ UNCHANGED <<rec, disk, strays, wipe>>

\* One call raises SANDBOX_UNAVAILABLE, its container perhaps still at work (the
\* HTTP request timed out): gather passes that on at once, the other calls go on.
CallFails(i, gone) ==
  /\ wipe = None
  /\ i \in DOMAIN calls /\ Running(i) /\ calls[i].mine
  /\ gone \subseteq {[calls[i] EXCEPT !.mine = FALSE]}
  /\ calls' = Orphaned(RemoveAt(calls, i))
  /\ strays' = strays \cup gone
  /\ Len(calls') + Cardinality(strays') <= MaxStrays
  /\ op' = Idle
  /\ UNCHANGED <<rec, disk, wipe>>

\* The container service stops and every call fails.
SandboxLost ==
  /\ wipe = None
  /\ op.at \in {"gencompile", "generating", "valcompile", "solving"}
  /\ calls' = <<>> /\ strays' = {}
  /\ op' = Idle
  /\ UNCHANGED <<rec, disk, wipe>>

\* The process stops and is started again; containers may go on.
Containers == {[calls[i] EXCEPT !.mine = FALSE] : i \in {j \in DOMAIN calls : Running(j)}}
Stopped(gone) ==
  /\ gone \subseteq Containers
  /\ calls' = <<>>
  /\ strays' = strays \cup gone
  /\ Cardinality(strays') <= MaxStrays
  /\ op' = Idle

Restart(gone) ==
  /\ wipe # None => Wiping
  /\ op.at # "idle" \/ wipe # None
  /\ Stopped(gone)
  /\ wipe' = None
  /\ UNCHANGED <<rec, disk>>

-----------------------------------------------------------------------------
(* Stage 6 *)

MayGenerate == rec.st5 = "passed" /\ disk.rel # None

\* What is there when a batch starts is none of its own.
Aged(files) == [c \in Cases |-> IF files[c] = None THEN None ELSE "old"]
AgedCalls(q) == [i \in DOMAIN q |-> [q[i] EXCEPT !.now = FALSE]]

GenerateStart(sel) ==
  LET man == [ver |-> rec.ver, code |-> disk.rel, sel |-> sel,
              status |-> "generating", files |-> {}, done |-> {}]
  IN  /\ wipe = None /\ op.at = "idle" /\ MayGenerate
      /\ disk' = [Verified(disk) EXCEPT !.batch = man, !.inp = Aged(disk.inp), !.out = Aged(disk.out)]
      /\ op' = [Idle EXCEPT !.at = "gencompile", !.man = man]
      /\ calls' = AgedCalls(calls)
      /\ strays' = {[c EXCEPT !.now = FALSE] : c \in strays}
      /\ UNCHANGED <<rec, wipe>>

\* Mutant: the files of the batch before are kept.
DataKept(d) == d

DataCleared(d) == [d EXCEPT !.inp = NoFiles, !.out = NoFiles]

GenCompileReturns(ok) ==
  /\ wipe = None /\ op.at = "gencompile"
  /\ IF ok
       THEN /\ disk' = DataCleared(disk)
            /\ calls' = calls \o ChunkCalls("generate", Jobs(op.man.sel))
            /\ op' = [op EXCEPT !.at = "generating"]
            /\ UNCHANGED rec
       ELSE FailToAgent4(disk) /\ op' = Idle /\ UNCHANGED calls
  /\ UNCHANGED <<strays, wipe>>

Gathered == \A i \in DOMAIN calls : ~calls[i].mine

\* The loop over the outcomes has no await: it is one step.
Collect ==
  LET jobs == Jobs(op.man.sel)
      n == Taken(jobs, op.bad)
      saved(k, status) == [disk EXCEPT !.batch = [op.man EXCEPT !.files = FirstJobs(jobs, k), !.status = status]]
  IN  /\ wipe = None /\ op.at = "generating" /\ Gathered
      /\ IF n = Len(jobs)
           THEN disk' = saved(n, "generated") /\ rec' = GenerationComplete(rec, op.man.sel)
           ELSE FailToAgent4(IF Checkpointed(n) = 0 THEN disk ELSE saved(Checkpointed(n), "generating"))
      /\ op' = Idle
      /\ UNCHANGED <<calls, strays, wipe>>

\* The process stops inside the loop, or between its last two writes.
CollectCut(k) ==
  LET jobs == Jobs(op.man.sel)
  IN  /\ wipe = None /\ op.at = "generating" /\ Gathered
      /\ k \in 1..Taken(jobs, op.bad)
      /\ k = Len(jobs) \/ k = Checkpointed(k)
      /\ disk' = [disk EXCEPT !.batch = [op.man EXCEPT !.files = FirstJobs(jobs, k),
                    !.status = IF k = Len(jobs) THEN "generated" ELSE "generating"]]
      /\ Stopped({})
      /\ UNCHANGED <<rec, wipe>>

-----------------------------------------------------------------------------
(* Stage 7 *)

\* validate_and_solve looks at the revisions of the manifest, not at its status.
MayValidate(sel) ==
  /\ rec.gen
  /\ sel \subseteq rec.subs /\ sel # {}
  /\ disk.batch # None /\ ManifestMatches(rec, disk, disk.batch)
  /\ sel = disk.batch.sel

ValidateStart(sel) ==
  LET man == [disk.batch EXCEPT !.status = "validating"]
  IN  /\ wipe = None /\ op.at = "idle" /\ MayValidate(sel)
      /\ disk' = [Verified(disk) EXCEPT !.batch = man]
      /\ op' = [Idle EXCEPT !.at = "valcompile", !.man = man]
      /\ UNCHANGED <<rec, calls, strays, wipe>>

ValCompileReturns(ok) ==
  /\ wipe = None /\ op.at = "valcompile"
  /\ IF ok /\ \A c \in CasesOf(op.man.sel) : disk.inp[c] # None
       THEN /\ calls' = calls \o ChunkCalls("solve", Jobs(op.man.sel))
            /\ op' = [op EXCEPT !.at = "solving"]
            /\ UNCHANGED <<rec, disk>>
       ELSE FailToAgent4(disk) /\ op' = Idle /\ UNCHANGED calls
  /\ UNCHANGED <<strays, wipe>>

\* Mutant: an input that the manifest does not list is let through.
UnlistedAccepted(sel) == {}

\* Inputs that the manifest does not list.
Unlisted(sel) == CasesOf(sel) \ op.man.files

CollectSolved ==
  LET jobs == Jobs(op.man.sel)
      n == Taken(jobs, op.bad \cup Unlisted(op.man.sel))
      saved(k, status) == [disk EXCEPT !.batch = [op.man EXCEPT !.done = FirstJobs(jobs, k), !.status = status]]
  IN  /\ wipe = None /\ op.at = "solving" /\ Gathered
      /\ IF n = Len(jobs)
           THEN disk' = saved(n, "completed") /\ rec' = ValidationComplete(rec)
           ELSE FailToAgent4(IF Checkpointed(n) = 0 THEN disk ELSE saved(Checkpointed(n), "validating"))
      /\ op' = Idle
      /\ UNCHANGED <<calls, strays, wipe>>

CollectSolvedCut(k) ==
  LET jobs == Jobs(op.man.sel)
  IN  /\ wipe = None /\ op.at = "solving" /\ Gathered
      /\ k \in 1..Taken(jobs, op.bad \cup Unlisted(op.man.sel))
      /\ k = Len(jobs) \/ k = Checkpointed(k)
      /\ disk' = [disk EXCEPT !.batch = [op.man EXCEPT !.done = FirstJobs(jobs, k),
                    !.status = IF k = Len(jobs) THEN "completed" ELSE "validating"]]
      /\ Stopped({})
      /\ UNCHANGED <<rec, wipe>>

-----------------------------------------------------------------------------
(* Stage 8: DatasetService.export, in a thread *)

ExportStart ==
  /\ wipe = None /\ op.at = "idle" /\ rec.ready
  /\ op' = [Idle EXCEPT !.at = "check"]
  /\ UNCHANGED <<rec, disk, calls, strays, wipe>>

\* A project without a batch.json is not checked against one.
Uncheckable == disk.batch = None
Checked == disk.batch # None /\ disk.batch.status = "completed" /\ ManifestMatches(rec, disk, disk.batch)

ExportCheck ==
  /\ op.at = "check"
  /\ op' = IF Uncheckable \/ Checked THEN [op EXCEPT !.at = "list", !.man = disk.batch] ELSE Idle
  /\ disk' = IF ~Uncheckable /\ disk.rel # None THEN Verified(disk) ELSE disk
  /\ UNCHANGED <<rec, calls, strays, wipe>>

ExportList ==
  LET ins == {c \in Cases : disk.inp[c] # None}
      outs == {c \in Cases : disk.out[c] # None}
  IN  /\ op.at = "list"
      /\ op' = IF ins # {} /\ ins = outs THEN [op EXCEPT !.at = "packcode", !.left = ins] ELSE Idle
      /\ UNCHANGED <<rec, disk, calls, strays, wipe>>

\* A file that is no longer there ends the export with an error.
PackCode ==
  /\ op.at = "packcode"
  /\ op' = IF Visible(disk) = None THEN Idle ELSE [op EXCEPT !.at = "pack", !.code = Visible(disk)]
  /\ UNCHANGED <<rec, disk, calls, strays, wipe>>

PackFile(c) ==
  /\ op.at = "pack" /\ c \in op.left
  /\ op' = IF disk.inp[c] = None \/ disk.out[c] = None THEN Idle
           ELSE [op EXCEPT !.left = op.left \ {c}, !.got = op.got \cup {c},
                           !.whole = op.whole /\ disk.inp[c] = "whole" /\ disk.out[c] = "whole",
                           !.at = IF op.left = {c} THEN "packed" ELSE "pack"]
  /\ UNCHANGED <<rec, disk, calls, strays, wipe>>

ExportReturns ==
  /\ wipe = None /\ op.at = "packed"
  /\ op' = Idle
  /\ UNCHANGED <<rec, disk, calls, strays, wipe>>

-----------------------------------------------------------------------------
(* Stages 2 to 5, as far as they touch what stages 6 to 8 read *)

Files(d) == {f \in Cases \X {"in", "out"} : (IF f[2] = "in" THEN d.inp ELSE d.out)[f[1]] # None}

\* PUT .../solution, which takes no lock: source and input.json, then the wipe.
UpdateSolution ==
  /\ wipe = None /\ rec.ver < MaxRev
  /\ wipe' = [todo |-> {"release", "batch"}, left |-> {},
              rec |-> [rec EXCEPT !.ver = rec.ver + 1, !.st5 = "draft", !.gen = FALSE,
                                  !.subs = {}, !.ready = FALSE]]
  /\ UNCHANGED <<rec, disk, op, calls, strays>>

\* PUT .../stages/5/draft: the draft is saved first.
SaveUserDraft(c) ==
  /\ wipe = None /\ op.at = "idle" /\ rec.ver < MaxRev
  /\ rec.st5 # "draft" \/ disk.draft # None
  /\ c # disk.draft \/ rec.st5 = "waiting"
  /\ disk' = [disk EXCEPT !.draft = c, !.proj = "draft"]
  /\ wipe' = [todo |-> {"batch"}, left |-> {},
              rec |-> [rec EXCEPT !.ver = rec.ver + 1, !.st5 = "draft", !.gen = FALSE,
                                  !.subs = {}, !.ready = FALSE]]
  /\ UNCHANGED <<rec, op, calls, strays>>

\* Mutant: the release is kept.
WipeDraftOnly ==
  /\ wipe # None /\ "release" \in wipe.todo
  /\ disk' = [disk EXCEPT !.draft = None]
  /\ wipe' = [wipe EXCEPT !.todo = {"batch"}]
  /\ UNCHANGED <<rec, op, calls, strays>>

\* invalidate_downstream_artifacts, in its order: drafts and release, the link,
\* batch.json, then the directories file by file; the caller saves the record last.
WipeRelease ==
  /\ wipe # None /\ "release" \in wipe.todo
  /\ disk' = [disk EXCEPT !.draft = None, !.rel = None, !.proj = "draft"]
  /\ wipe' = [wipe EXCEPT !.todo = {"batch"}]
  /\ UNCHANGED <<rec, op, calls, strays>>

WipeBatch ==
  /\ wipe # None /\ wipe.todo = {"batch"}
  /\ disk' = [disk EXCEPT !.batch = None,
                          !.proj = IF disk.rel = None THEN "draft" ELSE "release"]
  /\ wipe' = [wipe EXCEPT !.todo = {}, !.left = Files(disk)]
  /\ UNCHANGED <<rec, op, calls, strays>>

WipeFile(f) ==
  /\ wipe # None /\ wipe.todo = {} /\ f \in wipe.left
  /\ disk' = IF f[2] = "in" THEN [disk EXCEPT !.inp[f[1]] = None] ELSE [disk EXCEPT !.out[f[1]] = None]
  /\ wipe' = [wipe EXCEPT !.left = wipe.left \ {f}]
  /\ UNCHANGED <<rec, op, calls, strays>>

WipeEnds ==
  /\ wipe # None /\ wipe.todo = {} /\ wipe.left = {}
  /\ rec' = wipe.rec
  /\ wipe' = None
  /\ UNCHANGED <<disk, op, calls, strays>>

\* The agents, and the user's confirmations before stage 5: the template is the
\* one before or another.  A run of agent 4 leaves data and manifest alone.
AgentPasses(c) ==
  /\ wipe = None /\ op.at = "idle" /\ rec.st5 = "draft"
  /\ disk' = [disk EXCEPT !.draft = c, !.proj = "draft"]
  /\ rec' = [rec EXCEPT !.st5 = "waiting", !.gen = FALSE, !.subs = {}]
  /\ UNCHANGED <<op, calls, strays, wipe>>

\* confirm, with freeze_code_release
Confirm ==
  /\ wipe = None /\ op.at = "idle" /\ rec.st5 = "waiting"
  /\ disk' = [disk EXCEPT !.rel = disk.draft, !.proj = "release"]
  /\ rec' = [rec EXCEPT !.st5 = "passed"]
  /\ UNCHANGED <<op, calls, strays, wipe>>

-----------------------------------------------------------------------------

Init ==
  /\ rec = [ver |-> 1, st5 |-> "passed", gen |-> FALSE, subs |-> {}, ready |-> FALSE]
  /\ disk = [draft |-> 1, rel |-> 1, proj |-> "release", batch |-> None, inp |-> NoFiles, out |-> NoFiles]
  /\ op = Idle /\ calls = <<>> /\ strays = {} /\ wipe = None

Runner ==
  \/ \E i \in DOMAIN calls, ok \in BOOLEAN : RunnerOpens(i, ok) \/ RunnerCloses(i, ok)
  \/ \E c \in strays : StrayEnds(c) \/ \E ok \in BOOLEAN : StrayOpens(c, ok) \/ StrayCloses(c, ok)
  \/ \E i \in DOMAIN calls : CallReturns(i)

Server ==
  \/ \E ok \in BOOLEAN : GenCompileReturns(ok) \/ ValCompileReturns(ok)
  \/ Collect \/ CollectSolved
  \/ ExportCheck \/ ExportList \/ PackCode \/ ExportReturns
  \/ \E c \in Cases : PackFile(c)
  \/ WipeRelease \/ WipeBatch \/ WipeEnds
  \/ \E f \in Cases \X {"in", "out"} : WipeFile(f)

Progress == Runner \/ Server

User ==
  \/ \E sel \in (SUBSET Subtasks) \ {{}} : GenerateStart(sel) \/ ValidateStart(sel)
  \/ ExportStart \/ UpdateSolution \/ Confirm
  \/ \E c \in Codes : SaveUserDraft(c) \/ AgentPasses(c)

Fault ==
  \/ SandboxLost
  \/ \E gone \in SUBSET Containers : Restart(gone) \/ \E i \in DOMAIN calls : CallFails(i, gone)
  \/ \E k \in 1..Cardinality(Cases) : CollectCut(k) \/ CollectSolvedCut(k)

Next == Progress \/ User \/ Fault

Spec == Init /\ [][Next]_vars

\* Every await has a timeout and every loop an end: the system's own steps go on.
\* Nothing is assumed of the user's requests and of the faults.
FairSpec == Spec /\ WF_vars(Progress)
=============================================================================
