------------------------- MODULE WorkflowProperties -------------------------
(***************************************************************************)
(* What the workflow of one project promises.                              *)
(***************************************************************************)
EXTENDS Workflow

\* The part of StageOrder that is about the record alone.
Ordered(r) ==
  /\ r.compiled <=> r.stage >= 3
  /\ \A s \in Interactive :
       /\ s < r.stage <=> r.st[s] = "passed"
       /\ s > r.stage => r.st[s] = "draft"
  /\ \A s \in {3, 4} : s \in r.threads <=> r.st[s] = "waiting_user"
  /\ r.gen <=> r.stage >= 7
  /\ r.ready <=> r.stage = 8

\* current_stage is the first stage not yet passed, everything after it is
\* reset, the flags of stages 6 and 7 agree with it, and the record carries the
\* revision of the stored input.  The methods of ProjectService set these
\* fields one by one (project_service.py 127-540).
StageOrder == rec.inRev = inp.rev /\ Ordered(rec)

\* solution_compiled is said of the source that is stored now, never of one
\* that was replaced while it was compiled (compile_solution, update_solution).
CompiledIsCurrent == rec.compiled => inp.src \in GoodSources

\* Work that waits for the user, or that the user accepted, was written against
\* the current solution and the current draft of the stage before it.
ConfirmedIsCurrent ==
  \A s \in Interactive :
    rec.st[s] \in {"waiting_user", "passed"} =>
      /\ disk.draft[s] # None
      /\ disk.draft[s].src = inp.src
      /\ disk.draft[s].up = Upstream(disk, s)

\* The same, whenever the record carries the revision of the stored solution:
\* an edit resets every stage, also one whose agent is still at work.
EditResetsStages == rec.inRev = inp.rev => ConfirmedIsCurrent

\* While stage 5 is passed the frozen release is the confirmed code at the
\* record's revisions, and the runner is pointed at it: stages 6 and 7 never
\* find a release that is missing, older, or not the one confirmed.
ReleaseFits ==
  rec.st[5] = "passed" =>
    /\ MayGenerate(rec, disk)
    /\ disk.release.c = Content(disk, 5)
    /\ disk.proj = "release"

\* Whatever passes the checks of export is one consistent dataset: every
\* planned input is present, the inputs come from the released generator and
\* the current plan, the answers from the current solution.
ExportSound ==
  MayExport(rec, disk) =>
    /\ disk.data.whole
    /\ disk.data.outs = inp.src
    /\ disk.data.plan = Content(disk, 4)
    /\ disk.data.code = Generated(IF disk.batch = None THEN disk ELSE Project(disk, "release"))

\* What a step may do to the released snapshot.
ReleaseStep ==
  disk.release # None /\ disk'.release # disk.release =>
    \/ disk'.release = None /\ (rec'.stage < 5 \/ Content(disk', 4) # Content(disk, 4))
    \/ disk'.release # None /\ rec'.st[5] = "passed" /\ disk'.release.c = Content(disk', 5)

\* A released snapshot outlives every failure and rerun of stages 5 to 7: it is
\* only replaced by a newly confirmed one, or removed when the workflow goes back
\* before stage 5 or the plan of stage 4 is rewritten (storage.py 247-332, 356-425).
ReleaseKept == [][ReleaseStep]_vars

\* What a step may do to the revisions.
Grow ==
  /\ rec'.inRev >= rec.inRev /\ rec'.subRev >= rec.subRev /\ rec'.wfRev >= rec.wfRev
  /\ inp'.src # inp.src => rec'.wfRev > rec.wfRev

\* No revision number is ever used again: a stamp that matches now was written
\* for the present revision and not for an older one with the same number
\* (project_service.py 214-366).
RevisionsGrow == [][Grow]_vars

\* Every task gives the project lock back: in particular auto_run ends, although
\* stages 6 and 7 send it back to stage 5 and stage 5 to stage 4.
LockReleased == op.at # "idle" ~> op.at = "idle"
=============================================================================
