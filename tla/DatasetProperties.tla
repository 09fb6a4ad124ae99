------------------------- MODULE DatasetProperties -------------------------
(***************************************************************************)
(* What stages 6 to 8 promise of the files they leave and hand out.        *)
(***************************************************************************)
EXTENDS Dataset

\* A manifest that says completed lists every case of its selection, with its
\* answer: neither a failed chunk, nor a process that stopped between two
\* checkpoints, nor a stage 7 started too early is taken for a finished batch
\* (dataset.py 133-168, 260-330).
CompletedIsListed ==
  LET m == disk.batch
  IN  m # None /\ m.status = "completed" => m.files = CasesOf(m.sel) /\ m.done = m.files

\* What a completed manifest of the present revision lists is what is in data/:
\* each case has an input and the answer to that input, of this batch and none half
\* written, and nothing else is there (dataset.py 96-122, 227-262).
CompletedIsWhole ==
  LET m == disk.batch
  IN  m # None /\ m.status = "completed" /\ m.ver = rec.ver =>
        \A c \in Cases : IF c \in CasesOf(m.sel) THEN disk.inp[c] = "whole" /\ disk.out[c] = "whole"
                        ELSE disk.inp[c] = None /\ disk.out[c] = None

\* An archive that is handed out is one completed batch, all of it, beside the
\* generator and validator it came from, although the solution may have been
\* replaced and the data removed while the thread read them: what it lists, it
\* lists before it looks for the code, and the code is removed before the data
\* (dataset.py 332-370, storage.py 304-333).
PackSound ==
  op.at = "packed" =>
    /\ op.man # None
    /\ op.code = op.man.code
    /\ op.got = CasesOf(op.man.sel) /\ op.whole

\* The manifest is compared with the record's revision before anything is packed.
ExportChecked == op.at = "packed" => op.man # None

\* Stage 7 starts only on a batch whose generation has ended well.
ValidatesGenerated ==
  [][op.at = "idle" /\ op'.at = "valcompile" => disk.batch.files = CasesOf(disk.batch.sel)]_vars

\* Every request is answered: no task waits for ever for its chunks.
TasksEnd == op.at # "idle" ~> op.at = "idle"
=============================================================================
