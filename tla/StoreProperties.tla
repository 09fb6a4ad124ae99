--------------------------- MODULE StoreProperties ---------------------------
(***************************************************************************)
(* What a project's directory promises the process that starts again.      *)
(***************************************************************************)
EXTENDS Store

\* The link current-code never leads to a directory that is missing or still being
\* written, wherever the process stops (save_code_draft, _discard_working_template).
CurrentWhole ==
  disk.current # None => disk.work[disk.current] # None /\ disk.work[disk.current].whole

\* A release that was in force is, after any step that leaves the plans alone, still
\* in force or in the history (freeze_code_release, clear_working_draft).  A stop
\* between the two saves of confirm_stage leaves the thread of stage 4; the plan can
\* then be saved once more as it is, and the release goes with it (save_user_draft).
ReleaseTraced ==
  [][disk.plans[4] # None /\ disk'.plans = disk.plans /\ 4 \notin disk.record.threads /\ Release(disk) # None
       => Release(disk') = Release(disk) \/ Release(disk) \in disk'.history]_vars

\* A release is in force until a plan or the solution changes.
ReleaseKept ==
  [][disk.plans[4] # None /\ disk'.plans = disk.plans /\ Release(disk) # None
       => Release(disk') # None]_vars

\* What a draft that waits for the user would be frozen to can be read back whole.
FrozenVerifies ==
  disk.record.st[5] = "waiting_user" /\ W!MayFreeze(disk.record, Abstract(disk)) /\ disk.plans[4] # None
    => (SameRelease(disk) \/ MayReplace(disk)) /\ Verified(After(disk, Frozen(disk)))

\* An export packs every test case of the plan (dataset.export, 354-359).
PackWhole == MayExport(disk) => disk.data.tests = Tests

\* And it packs the answers of the solution of the input, made by the released
\* generator for the plan there is, whatever was saved before the process stopped.  A
\* stop in a compile that turns down the source leaves export_ready and may have taken
\* the plan away; what is packed then is still one whole data set.
PackSound ==
  MayExport(disk) =>
    /\ disk.data.tests = Tests
    /\ disk.data.outs = disk.input.src
    /\ disk.data.code = Release(disk).c
    /\ disk.plans[4] # None => disk.data.plan = disk.plans[4].c

\* A code that is confirmed is kept, as confirmed, for as long as its plan is.
ConfirmedKept ==
  disk.record.st[5] = "passed" /\ disk.plans[4] # None =>
    Verified(disk) /\ disk.released.draft.subRev = disk.record.subRev

\* In any directory, one that a stop has torn too, the file operations of each method
\* add up to the one step Workflow takes for it.
AgreesWithWorkflow ==
  LET a == Abstract(disk) IN
  /\ \A s \in 2..5, first \in Sides :
       Abstract(After(disk, Invalidated(disk, s, first))) = W!ArtifactsInvalidated(a, s)
  /\ \A s \in 3..5 : Abstract(After(disk, WorkingCleared(disk, s))) = W!WorkingDraftCleared(a, s)
  /\ \A s \in 3..5 : \A c \in Texts(s) :
       Abstract(After(disk, Drafted(s, c))) = W!DraftSaved(a, s, Draft(s, c, disk.record.inRev, disk.record.subRev))
  /\ Draft5(disk) # None => Abstract(After(disk, Frozen(disk))) = W!ReleaseFrozen(a)
=============================================================================
