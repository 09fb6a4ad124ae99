----------------------- MODULE CompileCacheProperties -----------------------
(***************************************************************************)
(* What compile promises of the binary it answers for.                     *)
(***************************************************************************)
EXTENDS CompileCache

\* An entry names a binary by the source it was really compiled from, unless
\* an edit, or a container left over, fell into the very call that made it:
\* source and binary are digested before and after the container
\* (sandbox.py 109, 126-133).  Nothing else that was compiled, rejected, killed,
\* lost or written late, before or after that call, makes a wrong entry.
EntrySound == cache # None /\ cache.calm => cache.bin = cache.key

\* A call that answers ok has left the binary of the source as it then is,
\* unless it, or the call whose entry it takes, was disturbed while at work
\* (sandbox.py 103-134): being between two calls, an edit or a late container
\* is always noticed.
AnswersFresh == [][calm /\ (Digest \/ (Hit /\ cache.calm)) => bin = src]_vars

\* A call that finds its answer in the cache answers with a binary of the source
\* it looked up, whatever happened within the call that made the entry.
HitFresh == [][Hit => bin = key]_vars

\* Every call is answered, or the process stops: failures pass the lock on.
CallsEnd == \A c \in Callers : (\E i \in DOMAIN queue : queue[i] = c) ~> (\A i \in DOMAIN queue : queue[i] # c)
=============================================================================
