------------------------- MODULE CompileCacheProofs -------------------------
(***************************************************************************)
(* For every set of sources and callers: only an edit or a left-over       *)
(* container within the very call that made an entry can make it wrong, or *)
(* a call answer for a stale binary.                                       *)
(***************************************************************************)
EXTENDS CompileCacheProperties, TLAPS

\* Which variables are set at which await.
Lock ==
  /\ at = "free" <=> queue = <<>>
  /\ key # None <=> at \in {"check", "run", "digest"}
  /\ job # None <=> at \in {"run", "digest"}

\* What a call at work knows, and what it knows when nothing else has touched
\* source and binary.
AtWork ==
  /\ at = "check" => cache # None /\ cache.key = key
  /\ at = "digest" => job.ok
  /\ job # None /\ job.ok => job.at = "ended"
  /\ calm => /\ key # None => key = src
             /\ job # None /\ job.at # "new" => job.of = src
             /\ job # None /\ job.ok => bin = src

Inv == TypeOK /\ Lock /\ AtWork /\ EntrySound

-----------------------------------------------------------------------------

\* What Tail leaves of a queue, and what a call adds to it.
LEMMA QueueFacts ==
  ASSUME queue \in Seq(Callers)
  PROVE  /\ queue # <<>> => Tail(queue) \in Seq(Callers)
         /\ \A c \in Callers : Append(queue, c) \in Seq(Callers) /\ Append(queue, c) # <<>>
  OBVIOUS

\* A container that has just been asked for.
LEMMA NewJobFacts == NewJob \in Container /\ NewJob # None /\ NewJob.at = "new" /\ ~NewJob.ok
<1>1. NewJob \in Container
  BY DEF NewJob, Container
<1>2. NewJob # None
  BY <1>1, NoneAssumption
<1> QED BY <1>1, <1>2 DEF NewJob

\* The first state of the cache is sound.
LEMMA InitInv == Init => Inv
  BY NoneAssumption DEF Init, Inv, TypeOK, Lock, AtWork, EntrySound

\* A call that leaves hands a sound cache to the next.
LEMMA ReleasedInv ==
  ASSUME Inv, Released, queue # <<>>, src' = src,
         bin' \in Binaries \cup {None}, stray' \in Container \cup {None},
         cache' \in Entry \cup {None}, EntrySound'
  PROVE  Inv'
<1>1. Tail(queue) \in Seq(Callers)
  BY QueueFacts DEF Inv, TypeOK
<1>2. TypeOK'
  BY <1>1 DEF Inv, TypeOK, Released
<1>3. Lock'
  BY DEF Released, Lock
<1>4. AtWork'
  BY DEF Released, AtWork
<1> QED
  BY <1>2, <1>3, <1>4 DEF Inv

\* Every step of the program keeps the invariant.
LEMMA NextInv ==
  ASSUME Inv, [Next]_vars
  PROVE  Inv'
<1> USE NoneAssumption, CacheAssumption
<1>1. ASSUME NEW c \in Callers, Call(c) PROVE Inv'
  <2>1. queue' \in Seq(Callers) /\ queue' # <<>>
    BY <1>1, QueueFacts DEF Inv, TypeOK, Call
  <2>2. TypeOK'
    BY <1>1, <2>1 DEF Inv, TypeOK, Call
  <2>3. Lock' /\ AtWork' /\ EntrySound'
    BY <1>1, <2>1 DEF Inv, Lock, AtWork, EntrySound, Call
  <2> QED BY <2>2, <2>3 DEF Inv
<1>2. ASSUME KeyRead PROVE Inv'
  <2>1. NewJob \in Container /\ NewJob # None /\ NewJob.at = "new" /\ ~NewJob.ok
    BY NewJobFacts
  <2>2. TypeOK'
    BY <1>2, <2>1 DEF Inv, TypeOK, KeyRead
  <2>3. Lock'
    BY <1>2, <2>1 DEF Inv, TypeOK, Lock, KeyRead
  <2>4. AtWork' /\ EntrySound'
    BY <1>2, <2>1 DEF Inv, TypeOK, Lock, AtWork, EntrySound, KeyRead, EntryMatches
  <2> QED BY <2>2, <2>3, <2>4 DEF Inv
<1>3. ASSUME Hit PROVE Inv'
  BY <1>3, ReleasedInv DEF Hit, Inv, TypeOK, Lock, EntrySound
<1>4. ASSUME Miss PROVE Inv'
  <2>1. NewJob \in Container /\ NewJob # None /\ NewJob.at = "new" /\ ~NewJob.ok
    BY NewJobFacts
  <2>2. TypeOK'
    BY <1>4, <2>1 DEF Inv, TypeOK, Miss
  <2>3. Lock' /\ AtWork' /\ EntrySound'
    BY <1>4, <2>1 DEF Inv, TypeOK, Lock, AtWork, EntrySound, Miss
  <2> QED BY <2>2, <2>3 DEF Inv
<1>5. ASSUME JobReturns PROVE Inv'
  <2>1. CASE Succeeded
    <3>1. TypeOK'
      BY <1>5, <2>1 DEF Inv, TypeOK, JobReturns
    <3>2. Lock' /\ AtWork' /\ EntrySound'
      BY <1>5, <2>1 DEF Inv, TypeOK, Lock, AtWork, EntrySound, JobReturns, Succeeded
    <3> QED BY <3>1, <3>2 DEF Inv
  <2>2. CASE ~Succeeded
    BY <1>5, <2>2, ReleasedInv DEF JobReturns, Inv, TypeOK, Lock, EntrySound
  <2> QED BY <2>1, <2>2
<1>6. ASSUME Digest PROVE Inv'
  <2>1. /\ key \in Sources /\ calm \in BOOLEAN /\ (calm => key = src /\ bin = src)
        /\ bin \in Binaries \cup {None} /\ at = "digest"
    BY <1>6 DEF Digest, Inv, TypeOK, Lock, AtWork
  <2>2. CASE bin = None
    BY <1>6, <2>1, <2>2, ReleasedInv DEF Digest, Inv, TypeOK, Lock, EntrySound
  <2>3. CASE bin # None
    <3>1. cache' \in Entry /\ (cache'.calm => cache'.bin = cache'.key)
      BY <1>6, <2>1, <2>3 DEF Digest, Entry
    <3> QED
      BY <1>6, <2>1, <3>1, ReleasedInv DEF Digest, Inv, TypeOK, Lock, EntrySound
  <2> QED BY <2>2, <2>3
<1>7. ASSUME NEW gone \in BOOLEAN, Lose(gone) PROVE Inv'
  BY <1>7, ReleasedInv DEF Lose, Inv, TypeOK, Lock, EntrySound
<1>8. ASSUME JobReads PROVE Inv'
  <2>1. job \in Container /\ ~job.ok
    BY <1>8 DEF JobReads, Inv, TypeOK, AtWork
  <2>2. Read(job) \in Container /\ Read(job) # None /\ Read(job).of = src
          /\ Read(job).at = "read" /\ ~Read(job).ok
    BY <2>1 DEF Read, Container, Inv, TypeOK
  <2>3. TypeOK' /\ EntrySound'
    BY <1>8, <2>2 DEF Inv, TypeOK, JobReads, EntrySound
  <2>4. at # "digest"
    BY <2>1 DEF Inv, AtWork
  <2>5. Lock' /\ AtWork'
    BY <1>8, <2>2, <2>4 DEF Inv, TypeOK, Lock, AtWork, JobReads
  <2> QED BY <2>3, <2>5 DEF Inv
<1>9. ASSUME NEW ok \in BOOLEAN, JobEnds(ok) PROVE Inv'
  <2>1. job \in Container /\ job.at = "read" /\ ~job.ok /\ (calm => job.of = src)
    BY <1>9 DEF JobEnds, Inv, TypeOK, AtWork
  <2>2. Ended(job, ok) \in Container /\ Ended(job, ok) # None /\ Ended(job, ok).of = job.of
          /\ Ended(job, ok).at = "ended" /\ Ended(job, ok).ok = ok
    BY <2>1 DEF Ended, Container, Inv, TypeOK
  <2>3. bin' \in Binaries \cup {None} /\ (ok => bin' = job.of)
    BY <1>9, <2>1 DEF JobEnds, Leaves, Inv, TypeOK, Binaries
  <2>4. TypeOK' /\ EntrySound'
    BY <1>9, <2>2, <2>3 DEF Inv, TypeOK, JobEnds, EntrySound
  <2>5. at = "run" /\ Lock'
    BY <1>9, <2>1, <2>2 DEF Inv, TypeOK, Lock, AtWork, JobEnds
  <2>6. AtWork'
    BY <1>9, <2>1, <2>2, <2>3, <2>5 DEF Inv, TypeOK, Lock, AtWork, JobEnds
  <2> QED BY <2>4, <2>5, <2>6 DEF Inv
<1>10. ASSUME StrayReads PROVE Inv'
  <2>1. Read(stray) \in Container
    BY <1>10 DEF StrayReads, Read, Container, Inv, TypeOK
  <2>2. TypeOK' /\ Lock' /\ AtWork' /\ EntrySound'
    BY <1>10, <2>1 DEF Inv, TypeOK, Lock, AtWork, EntrySound, StrayReads
  <2> QED BY <2>2 DEF Inv
<1>11. ASSUME NEW ok \in BOOLEAN, StrayEnds(ok) PROVE Inv'
  <2>1. bin' \in Binaries \cup {None} /\ calm' \in BOOLEAN
    BY <1>11 DEF StrayEnds, Disturbs, Leaves, Inv, TypeOK, Binaries
  <2>2. key # None \/ job # None => ~calm'
    BY <1>11 DEF StrayEnds, Disturbs, Inv, Lock
  <2>3. TypeOK' /\ Lock' /\ EntrySound'
    BY <1>11, <2>1 DEF Inv, TypeOK, Lock, EntrySound, StrayEnds
  <2>4. AtWork'
    BY <1>11, <2>2 DEF Inv, AtWork, StrayEnds
  <2> QED BY <2>3, <2>4 DEF Inv
<1>12. ASSUME StrayOver PROVE Inv'
  BY <1>12 DEF StrayOver, Inv, TypeOK, Lock, AtWork, EntrySound
<1>13. ASSUME NEW s \in Sources, Edit(s) PROVE Inv'
  <2>1. key # None \/ job # None => ~calm'
    BY <1>13 DEF Edit, Disturbs, Inv, Lock
  <2>2. TypeOK' /\ Lock' /\ EntrySound'
    BY <1>13 DEF Inv, TypeOK, Lock, EntrySound, Edit, Disturbs
  <2>3. AtWork'
    BY <1>13, <2>1 DEF Inv, AtWork, Edit
  <2> QED BY <2>2, <2>3 DEF Inv
<1>14. ASSUME NEW gone \in BOOLEAN, Restart(gone) PROVE Inv'
  BY <1>14 DEF Restart, Inv, TypeOK, Lock, AtWork, EntrySound
<1>15. ASSUME UNCHANGED vars PROVE Inv'
  BY <1>15 DEF vars, Inv, TypeOK, Lock, AtWork, EntrySound
<1> QED
  BY <1>1, <1>2, <1>3, <1>4, <1>5, <1>6, <1>7, <1>8, <1>9, <1>10, <1>11, <1>12, <1>13, <1>14, <1>15
  DEF Next, Progress

-----------------------------------------------------------------------------

\* Source, binary, entry and locks stay within their types.
THEOREM TypeCorrect == Spec => []TypeOK
<1>1. Inv => TypeOK BY DEF Inv
<1> QED BY InitInv, NextInv, <1>1, PTL DEF Spec

\* An entry never names a binary of another source, unless the very call that
\* made it was disturbed.
THEOREM EntriesSound == Spec => []EntrySound
<1>1. Inv => EntrySound BY DEF Inv
<1> QED BY InitInv, NextInv, <1>1, PTL DEF Spec

\* A call that answers ok has left the binary of the source, whatever was
\* rejected, killed, lost or written late, unless that fell into this call or
\* into the one whose entry it takes.
THEOREM AnswersSound == Spec => AnswersFresh
<1>1. Inv /\ [Next]_vars => [calm /\ (Digest \/ (Hit /\ cache.calm)) => bin = src]_vars
  <2>1. ASSUME Inv, Hit, calm, cache.calm PROVE bin = src
    BY <2>1, NoneAssumption DEF Inv, Hit, BinaryMatches, Lock, AtWork, EntrySound
  <2>2. ASSUME Inv, Digest, calm PROVE bin = src
    BY <2>2, NoneAssumption DEF Inv, Digest, Lock, AtWork
  <2> QED BY <2>1, <2>2
<1> QED BY InitInv, NextInv, <1>1, PTL DEF Spec, AnswersFresh
=============================================================================
