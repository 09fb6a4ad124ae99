---------------------------- MODULE CompileCache ----------------------------
(***************************************************************************)
(* DockerSandbox.compile for one project and one role: the lock, the entry *)
(* of the cache, the container, and what else touches source and binary.   *)
(*                                                                         *)
(* Calls for the same binary do meet: gather raises for the first call of  *)
(* several that fails, and the others go on after the task is gone.        *)
(***************************************************************************)
EXTENDS Naturals, Sequences

CONSTANTS
  None,        \* the absent value
  Callers,     \* those who may call compile
  Sources,     \* texts of the source file
  Compilable,  \* those that g++ accepts
  EditsClear   \* does a change of the source clear bin/ (the project: yes; the
               \* verification workspace: no)?

Torn == "torn"  \* the binary of a link that was killed

ASSUME CacheAssumption ==
  /\ Compilable \subseteq Sources /\ Torn \notin Sources
  /\ EditsClear \in BOOLEAN

VARIABLES
  src,    \* the source file
  bin,    \* the binary file, named by the source it is made of
  cache,  \* _compile_cache: the source and the binary of the last success
  queue,  \* the calls in the order they get the lock; the first one has it
  at,     \* the await its holder is at
  key,    \* its source_key
  calm,   \* history: nothing else has written source or binary since it read key
  job,    \* its container
  stray   \* a container whose call is gone (bound: one at a time)

vars == <<src, bin, cache, queue, at, key, calm, job, stray>>

Binaries == Compilable \cup {Torn}
\* calm is history: of the call that made the entry.
Entry == [key: Sources, bin: Binaries, calm: BOOLEAN]
\* of: the source read; ok: the exit code, once it has ended.
Container == [at: {"new", "read", "ended"}, of: Sources \cup {None}, ok: BOOLEAN]

ASSUME NoneAssumption == None \notin Sources \cup {Torn} \cup Entry \cup Container

TypeOK ==
  /\ src \in Sources
  /\ bin \in Binaries \cup {None}
  /\ cache \in Entry \cup {None}
  /\ queue \in Seq(Callers)
  /\ at \in {"free", "key", "check", "run", "digest"}
  /\ key \in Sources \cup {None} /\ calm \in BOOLEAN
  /\ job \in Container \cup {None}
  /\ stray \in Container \cup {None}

NewJob == [at |-> "new", of |-> None, ok |-> FALSE]

\* Mutant: the lock is left free with calls still waiting for it.
ReleasedForgets ==
  /\ queue' = Tail(queue)
  /\ at' = "free"
  /\ key' = None /\ calm' = TRUE /\ job' = None

\* The holder leaves; the next in the queue starts.
Released ==
  /\ queue' = Tail(queue)
  /\ at' = IF Tail(queue) = <<>> THEN "free" ELSE "key"
  /\ key' = None /\ calm' = TRUE /\ job' = None

-----------------------------------------------------------------------------
(* compile *)

Call(c) ==
  /\ \A i \in DOMAIN queue : queue[i] # c
  /\ queue' = Append(queue, c)
  /\ at' = IF queue = <<>> THEN "key" ELSE at
  /\ UNCHANGED <<src, bin, cache, key, calm, job, stray>>

EntryMatches == cache # None /\ cache.key = src

KeyRead ==
  /\ at = "key"
  /\ key' = src
  /\ IF EntryMatches THEN at' = "check" /\ UNCHANGED job ELSE at' = "run" /\ job' = NewJob
  /\ UNCHANGED <<src, bin, cache, queue, calm, stray>>

\* Mutant: a binary that is there will do.
BinaryPresent == bin # None

BinaryMatches == bin # None /\ bin = cache.bin

Hit ==
  /\ at = "check" /\ BinaryMatches
  /\ Released
  /\ UNCHANGED <<src, bin, cache, stray>>

Miss ==
  /\ at = "check" /\ ~BinaryMatches
  /\ at' = "run" /\ job' = NewJob
  /\ UNCHANGED <<src, bin, cache, queue, key, calm, stray>>

\* Mutant: a compilation that failed is cached, too.
AnyEnds == TRUE

Succeeded == job.ok

JobReturns ==
  /\ at = "run" /\ job # None /\ job.at = "ended"
  /\ IF Succeeded THEN at' = "digest" /\ UNCHANGED <<queue, key, calm, job>> ELSE Released
  /\ UNCHANGED <<src, bin, cache, stray>>

\* The entry pairs the key read before the container started with the binary that
\* is there after it; without a binary the call answers ok all the same.
Digest ==
  /\ at = "digest"
  /\ cache' = IF bin = None THEN cache ELSE [key |-> key, bin |-> bin, calm |-> calm]
  /\ Released
  /\ UNCHANGED <<src, bin, stray>>

\* SANDBOX_UNAVAILABLE: the call raises, its container may go on.
Lose(gone) ==
  /\ at = "run"
  /\ stray' = IF gone /\ stray = None THEN job ELSE stray
  /\ Released
  /\ UNCHANGED <<src, bin, cache>>

-----------------------------------------------------------------------------
(* The container: g++ reads the source, then links; it may be killed at its timeout *)

Read(j) == [j EXCEPT !.at = "read", !.of = src]
Ended(j, ok) == [j EXCEPT !.at = "ended", !.ok = ok]

\* What it leaves on disk: the new binary or, when it fails, also half of it,
\* nothing, or what was there.
Leaves(j, ok) ==
  \/ j.of \in Compilable /\ bin' = j.of
  \/ j.of \in Compilable /\ ~ok /\ bin' = Torn
  \/ ~ok /\ bin' \in {None, bin}

JobReads ==
  /\ job # None /\ job.at = "new"
  /\ job' = Read(job)
  /\ UNCHANGED <<src, bin, cache, queue, at, key, calm, stray>>

JobEnds(ok) ==
  /\ job # None /\ job.at = "read"
  /\ Leaves(job, ok)
  /\ job' = Ended(job, ok)
  /\ UNCHANGED <<src, cache, queue, at, key, calm, stray>>

\* Something else writes the source or the binary, perhaps within a call.
Disturbs == calm' = (calm /\ key = None)

StrayReads ==
  /\ stray # None /\ stray.at = "new"
  /\ stray' = Read(stray)
  /\ UNCHANGED <<src, bin, cache, queue, at, key, calm, job>>

StrayEnds(ok) ==
  /\ stray # None /\ stray.at = "read"
  /\ Leaves(stray, ok)
  /\ Disturbs
  /\ stray' = None
  /\ UNCHANGED <<src, cache, queue, at, key, job>>

StrayOver ==
  /\ stray # None /\ stray.at = "ended"
  /\ stray' = None
  /\ UNCHANGED <<src, bin, cache, queue, at, key, calm, job>>

-----------------------------------------------------------------------------
(* Around it *)

\* update_solution, save_code_draft, prepare_agent4_verification_workspace
Edit(s) ==
  /\ s # src
  /\ src' = s
  /\ Disturbs
  /\ bin' = IF EditsClear THEN None ELSE bin
  /\ UNCHANGED <<cache, queue, at, key, job, stray>>

\* The process stops, with its cache and its calls.
Restart(gone) ==
  /\ cache' = None /\ queue' = <<>> /\ at' = "free" /\ key' = None /\ calm' = TRUE
  /\ job' = None
  /\ stray' = IF gone /\ stray = None THEN job ELSE stray
  /\ UNCHANGED <<src, bin>>

Init ==
  /\ src \in Sources /\ bin = None /\ cache = None
  /\ queue = <<>> /\ at = "free" /\ key = None /\ calm = TRUE /\ job = None
  /\ stray = None

Progress == KeyRead \/ Hit \/ Miss \/ JobReturns \/ Digest \/ JobReads \/ \E ok \in BOOLEAN : JobEnds(ok)

Next ==
  \/ Progress
  \/ \E c \in Callers : Call(c)
  \/ StrayReads \/ StrayOver
  \/ \E ok \in BOOLEAN : StrayEnds(ok) \/ Lose(ok) \/ Restart(ok)
  \/ \E s \in Sources : Edit(s)

Spec == Init /\ [][Next]_vars

\* The container ends within its timeout, the threads end: a call goes on.
FairSpec == Spec /\ WF_vars(Progress)
=============================================================================
