--------------------------- MODULE VerifierProofs ---------------------------
(***************************************************************************)
(* For every plan, every number of trials, chunks, slots and verifications *)
(* and every candidate: the inputs a verification reads are its own, what  *)
(* it accepts has passed everything, what it refuses has failed something, *)
(* and the program it blames is the one that failed.                       *)
(***************************************************************************)
EXTENDS VerifierProperties, FiniteSetTheorems, WellFoundedInduction, TLAPS

Generated(j) == [op |-> "generate", of |-> j]

\* What the gather that the verification waits for has asked.
TasksNow ==
  CASE point = "compile" -> Compiles
    [] point = "generate" -> Runs("generate", JobsNow)
    [] point = "solve" -> Runs("validate", JobsNow) \cup Runs("solve", JobsNow)
    [] OTHER -> Tasks

Typed ==
  /\ round \in Nat
  /\ point \in {"idle", "compile", "generate", "solve"}
  /\ level \in {"smoke", "complete"}
  /\ answers \in [Tasks -> Answers \cup {None}]
  /\ made \in [Jobs -> Inputs \cup {None}]
  /\ seen \in [Jobs -> {Shown(i) : i \in Inputs} \cup {None}]
  /\ \A c \in calls : c \in [round: Nat, tasks: SUBSET Tasks, runs: BOOLEAN]

\* The calls: none of a later round, those of this round belong to its gather, and
\* none is left when a verdict is returned.
CallsInv ==
  /\ \A c \in calls : c.round <= round
  /\ \A c \in Own : c.tasks \subseteq TasksNow
  /\ verdict \notin {None, Raised} => Own = {}
  /\ point # "idle" => verdict = None

\* The inputs: what a job's own run wrote is in its file; what is asked to be written
\* was not read yet; what a gather has no call for any more is written.
InputsInv ==
  /\ \A j \in Jobs : made[j] # None =>
       Path(round, j) \in DOMAIN preview /\ preview[Path(round, j)] = made[j]
  /\ \A c \in Own : \A j \in Jobs : Generated(j) \in c.tasks => seen[j] = None
  /\ OwnInputs
  /\ point = "compile" => \A j \in Jobs : seen[j] = None
  /\ point = "generate" =>
       \A j \in JobsNow : /\ seen[j] = None
                          /\ made[j] # None \/ \E c \in Own : Generated(j) \in c.tasks
  /\ point \in {"generate", "solve"} /\ level = "smoke" =>
       \A j \in Jobs \ Smoke : seen[j] = None

\* How far a verification has come: what must have passed by then.
ProgressInv ==
  /\ point # "idle" => faults = {}
  /\ point \in {"generate", "solve"} => \A t \in Compiles : answers[t] = "ok"
  /\ point = "solve" =>
       \A j \in JobsNow : answers[Generated(j)] = "ok" /\ seen[j] # None
  /\ point \in {"generate", "solve"} /\ level = "complete" =>
       \A j \in Smoke : /\ \A op \in {"generate", "validate", "solve"} :
                               answers[[op |-> op, of |-> j]] = "ok"
                        /\ seen[j] # None
  /\ point = "compile" => level = "smoke"

Inv == Typed /\ CallsInv /\ InputsInv /\ ProgressInv /\ AcceptSound

-----------------------------------------------------------------------------
\* Each job is in a chunk, and a chunk has jobs of the set only.
LEMMA ChunkCover ==
  ASSUME NEW S, NEW j \in S
  PROVE  \E T \in Chunks(S) : j \in T
<1> DEFINE T == {k \in S : Number(k, S) = Number(j, S)}
<1>1. T \in Chunks(S)
  BY DEF Chunks
<1>2. j \in T
  OBVIOUS
<1> QED BY <1>1, <1>2

LEMMA ChunkSubset ==
  ASSUME NEW S, NEW T \in Chunks(S)
  PROVE  T \subseteq S
BY DEF Chunks

\* The tasks: a job's runs and a role's compilation.
LEMMA TaskMembers ==
  /\ Compiles \subseteq Tasks
  /\ \A op \in {"generate", "validate", "solve"} : \A S \in SUBSET Jobs :
       /\ Runs(op, S) \subseteq Tasks
       /\ \A j : [op |-> op, of |-> j] \in Runs(op, S) <=> j \in S
       /\ \A t \in Runs(op, S) : t.op = op /\ t.of \in S /\ t = [op |-> op, of |-> t.of]
  /\ \A t \in Compiles : t.op = "compile"
  /\ \A t \in Tasks : \/ t \in Compiles
                      \/ t.of \in Jobs /\ t.op \in {"generate", "validate", "solve"}
                         /\ t = [op |-> t.op, of |-> t.of]
BY DEF Compiles, Runs, Tasks

\* A call as it is asked.
LEMMA NewCall ==
  ASSUME NEW n \in Nat, NEW T \in SUBSET Tasks,
         NEW c, c = [round |-> n, tasks |-> T, runs |-> FALSE]
  PROVE  c \in [round: Nat, tasks: SUBSET Tasks, runs: BOOLEAN] /\ c.round = n
OBVIOUS

LEMMA JobSets == Smoke \subseteq Jobs /\ JobsNow \subseteq Jobs /\ Jobs \ Smoke \subseteq Jobs
BY DEF Smoke, JobsNow

\* A file's path tells the round and the job.
LEMMA PathDistinct ==
  \A n, m, j, k : Path(n, j) = Path(m, k) => n = m /\ j = k
BY DEF Path

\* A set of two elements or more has two that differ.
LEMMA TwoDiffer ==
  ASSUME NEW S, \A x, y \in S : x = y
  PROVE  Cardinality(S) < 2
<1>1. CASE S = {}
  BY <1>1, FS_EmptySet
<1>2. CASE S # {}
  <2>1. PICK x \in S : TRUE
    BY <1>2
  <2>2. S = {x}
    BY <2>1
  <2>3. Cardinality({x}) = 1
    BY FS_Singleton
  <2> QED BY <2>2, <2>3
<1> QED BY <1>1, <1>2

-----------------------------------------------------------------------------
LEMMA InitInv == Init => Inv
<1> SUFFICES ASSUME Init PROVE Inv
  OBVIOUS
<1>1. Typed
  BY DEF Init, Typed
<1>2. CallsInv /\ ProgressInv
  BY DEF Init, CallsInv, ProgressInv, Own
<1>3. InputsInv
  BY DEF Init, InputsInv, Own, OwnInputs
<1>4. AcceptSound
  BY DEF Init, AcceptSound, Returned
<1> QED BY <1>1, <1>2, <1>3, <1>4 DEF Inv

LEMMA VerifyInv == ASSUME Inv, NEW F \in Candidates, Verify(F) PROVE Inv'
<1>0. round' \in Nat /\ round' = round + 1
  BY DEF Inv, Typed, Verify
<1>1. Typed'
  <2>1. \A c \in calls' : c \in [round: Nat, tasks: SUBSET Tasks, runs: BOOLEAN]
    <3>1. \A t \in Compiles : {t} \in SUBSET Tasks
      BY TaskMembers
    <3>2. \A c \in calls' : c \in calls \/ \E t \in Compiles :
             c = [round |-> round + 1, tasks |-> {t}, runs |-> FALSE]
      <4>1. CASE F # {}
        BY <4>1 DEF Verify
      <4>2. CASE F = {}
        <5>1. calls' = calls \cup {[round |-> round + 1, tasks |-> T, runs |-> FALSE] :
                                  T \in {{t} : t \in Compiles}}
          BY <4>2 DEF Verify, Ask
        <5> QED BY <5>1
      <4> QED BY <4>1, <4>2
    <3>3. round + 1 \in Nat
      BY <1>0
    <3>4. ASSUME NEW c \in calls', c \notin calls
          PROVE  c \in [round: Nat, tasks: SUBSET Tasks, runs: BOOLEAN]
      BY <3>1, <3>2, <3>3, <3>4, NewCall
    <3> QED BY <3>4 DEF Inv, Typed
  <2> QED BY <1>0, <2>1 DEF Inv, Typed, Verify
<1>2. CallsInv'
  <2>1. \A c \in calls : c.round <= round /\ c.round # round + 1 /\ c.round \in Nat
    BY DEF Inv, Typed, CallsInv
  <2>2. CASE F # {}
    BY <1>0, <2>1, <2>2 DEF Inv, Typed, CallsInv, Verify, Own
  <2>3. CASE F = {}
    <3>1. \A c \in calls' : c \in calls \/ (c.round = round + 1 /\ c.tasks \subseteq Compiles)
      BY <2>3 DEF Verify, Ask
    <3>2. TasksNow' = Compiles /\ verdict' = None
      BY <2>3 DEF Verify, TasksNow
    <3> QED BY <1>0, <2>1, <3>1, <3>2 DEF Inv, Typed, CallsInv, Own
  <2> QED BY <2>2, <2>3
<1>3. InputsInv'
  <2>1. \A j \in Jobs : made'[j] = None /\ seen'[j] = None
    BY DEF Verify
  <2>2. point' \in {"idle", "compile"}
    BY DEF Inv, Typed, Verify
  <2> QED BY <2>1, <2>2 DEF InputsInv, OwnInputs
<1>4. ProgressInv'
  BY DEF Inv, Typed, Verify, ProgressInv
<1>5. AcceptSound'
  BY DEF Verify, AcceptSound, Returned, StaticVerdict, Refused
<1> QED BY <1>1, <1>2, <1>3, <1>4, <1>5 DEF Inv

LEMMA StartCallInv == ASSUME Inv, NEW c \in calls, StartCall(c) PROVE Inv'
<1>0. /\ c.round \in Nat /\ c.round <= round /\ c.tasks \subseteq Tasks
      /\ c = [round |-> c.round, tasks |-> c.tasks, runs |-> c.runs]
  BY DEF Inv, Typed, CallsInv
<1> DEFINE d == [c EXCEPT !.runs = TRUE]
<1>1. /\ d \in [round: Nat, tasks: SUBSET Tasks, runs: BOOLEAN]
      /\ d.round = c.round /\ d.tasks = c.tasks
  BY <1>0
<1>2. calls' = (calls \ {c}) \cup {d}
  BY DEF StartCall
<1> HIDE DEF d
<1>3. UNCHANGED <<round, point, level, faults, answers, preview, made, seen, verdict>>
  BY DEF StartCall
<1>4. \A e \in Own' : e \in Own \/ (e = d /\ c \in Own)
  BY <1>1, <1>2, <1>3 DEF Own
<1>5. \A e \in Own : e \in Own' \/ (e = c /\ d \in Own')
  BY <1>1, <1>2, <1>3 DEF Own
<1>6. TasksNow' = TasksNow /\ JobsNow' = JobsNow
  BY <1>3 DEF TasksNow, JobsNow
<1>7. Typed'
  BY <1>1, <1>2, <1>3 DEF Inv, Typed
<1>8. CallsInv'
  BY <1>0, <1>1, <1>2, <1>3, <1>4, <1>6 DEF Inv, CallsInv
<1>9. InputsInv'
  BY <1>1, <1>3, <1>4, <1>5, <1>6 DEF Inv, InputsInv, OwnInputs
<1>10. ProgressInv'
  BY <1>3, <1>6 DEF Inv, ProgressInv
<1>11. AcceptSound'
  BY <1>3 DEF Inv, AcceptSound, Returned
<1> QED BY <1>7, <1>8, <1>9, <1>10, <1>11 DEF Inv

LEMMA RaiseCallInv == ASSUME Inv, NEW c \in calls, RaiseCall(c) PROVE Inv'
<1>1. /\ calls' = calls \ {c}
      /\ UNCHANGED <<round, level, faults, answers, preview, made, seen>>
  BY DEF RaiseCall
<1>2. Own' \subseteq Own
  BY <1>1 DEF Own
<1>3. CASE c.round = round /\ point # "idle"
  <2>1. point' = "idle" /\ verdict' = Raised
    BY <1>3 DEF RaiseCall
  <2>2. Typed'
    BY <1>1, <2>1 DEF Inv, Typed
  <2>3. \A e \in Own : e.tasks \subseteq Tasks
    BY DEF Inv, Typed, Own
  <2>4. CallsInv'
    BY <1>1, <1>2, <2>1, <2>3 DEF Inv, CallsInv, TasksNow
  <2>5. InputsInv'
    BY <1>1, <1>2, <2>1 DEF Inv, InputsInv, OwnInputs
  <2>6. ProgressInv' /\ AcceptSound'
    BY <2>1 DEF ProgressInv, AcceptSound, Returned
  <2> QED BY <2>2, <2>4, <2>5, <2>6 DEF Inv
<1>4. CASE ~ (c.round = round /\ point # "idle")
  <2>1. UNCHANGED <<point, verdict>>
    BY <1>4 DEF RaiseCall
  <2>2. TasksNow' = TasksNow /\ JobsNow' = JobsNow
    BY <1>1, <2>1 DEF TasksNow, JobsNow
  <2>3. point # "idle" => Own' = Own
    BY <1>1, <1>4 DEF Own
  <2>4. Typed'
    BY <1>1, <2>1 DEF Inv, Typed
  <2>5. CallsInv'
    BY <1>1, <1>2, <2>1, <2>2 DEF Inv, CallsInv
  <2>6. InputsInv'
    BY <1>1, <1>2, <2>1, <2>2, <2>3 DEF Inv, InputsInv, OwnInputs
  <2>7. ProgressInv'
    BY <1>1, <2>1, <2>2 DEF Inv, ProgressInv
  <2>8. AcceptSound'
    BY <1>1, <2>1 DEF Inv, AcceptSound, Returned
  <2> QED BY <2>4, <2>5, <2>6, <2>7, <2>8 DEF Inv
<1> QED BY <1>3, <1>4

\* A call that ends, of an earlier round: only its files change.
LEMMA EndCallInv == ASSUME Inv, NEW c \in calls, EndCall(c) PROVE Inv'
<1> DEFINE jobs == {j \in Jobs : Generated(j) \in c.tasks}
<1>1. /\ calls' = calls \ {c}
      /\ UNCHANGED <<round, point, level, faults, seen, verdict>>
  BY DEF EndCall
<1>2. c.round \in Nat /\ c.tasks \subseteq Tasks
  BY DEF Inv, Typed
<1>3. Own' \subseteq Own /\ \A e \in Own : e = c \/ e \in Own'
  BY <1>1 DEF Own
<1>4. TasksNow' = TasksNow /\ JobsNow' = JobsNow
  BY <1>1 DEF TasksNow, JobsNow
<1>5. PICK a \in [c.tasks -> Answers \cup {None}] :
        answers' = IF c.round # round THEN answers
                   ELSE [t \in Tasks |-> IF t \in c.tasks THEN a[t] ELSE answers[t]]
  BY DEF EndCall
<1>6. PICK w \in [jobs -> Inputs] :
        /\ preview' = [p \in DOMAIN preview \cup {Path(c.round, j) : j \in jobs} |->
                         IF \E j \in jobs : p = Path(c.round, j)
                         THEN w[CHOOSE j \in jobs : p = Path(c.round, j)]
                         ELSE preview[p]]
        /\ made' = IF c.round # round THEN made
                   ELSE [j \in Jobs |-> IF j \in jobs THEN w[j] ELSE made[j]]
  BY DEF EndCall, Generated
<1>7. \A j \in jobs : /\ Path(c.round, j) \in DOMAIN preview'
                      /\ preview'[Path(c.round, j)] = w[j]
  <2> SUFFICES ASSUME NEW j \in jobs
               PROVE  /\ Path(c.round, j) \in DOMAIN preview'
                      /\ preview'[Path(c.round, j)] = w[j]
    OBVIOUS
  <2>1. (CHOOSE k \in jobs : Path(c.round, j) = Path(c.round, k)) = j
    BY PathDistinct
  <2> QED BY <1>6, <2>1
<1>8. \A n, j : Path(n, j) \in DOMAIN preview /\ (n # c.round \/ j \notin jobs)
              => /\ Path(n, j) \in DOMAIN preview'
                 /\ preview'[Path(n, j)] = preview[Path(n, j)]
  BY <1>6, PathDistinct
<1>9. Typed'
  <2>1. answers' \in [Tasks -> Answers \cup {None}]
    BY <1>5 DEF Inv, Typed
  <2>2. made' \in [Jobs -> Inputs \cup {None}]
    BY <1>6 DEF Inv, Typed
  <2> QED BY <1>1, <2>1, <2>2 DEF Inv, Typed
<1>10. CallsInv'
  BY <1>1, <1>3, <1>4 DEF Inv, CallsInv
<1>11. \A j \in Jobs : made'[j] # None =>
         Path(round, j) \in DOMAIN preview' /\ preview'[Path(round, j)] = made'[j]
  <2> SUFFICES ASSUME NEW j \in Jobs, made'[j] # None
               PROVE  Path(round, j) \in DOMAIN preview' /\ preview'[Path(round, j)] = made'[j]
    OBVIOUS
  <2>1. CASE c.round = round /\ j \in jobs
    <3>1. made'[j] = w[j]
      BY <1>6, <2>1
    <3> QED BY <1>7, <2>1, <3>1
  <2>2. CASE ~ (c.round = round /\ j \in jobs)
    <3>1. made'[j] = made[j]
      BY <1>6, <2>2
    <3>2. Path(round, j) \in DOMAIN preview /\ preview[Path(round, j)] = made[j]
      BY <3>1 DEF Inv, InputsInv
    <3> QED BY <1>8, <2>2, <3>1, <3>2
  <2> QED BY <2>1, <2>2
<1>12. \A j \in Jobs : (c.round = round /\ j \in jobs) \/ made'[j] = made[j]
  BY <1>6
<1>13. \A j \in Jobs : c.round = round /\ j \in jobs => made'[j] # None /\ seen[j] = None
  <2> SUFFICES ASSUME NEW j \in Jobs, c.round = round, j \in jobs
               PROVE  made'[j] # None /\ seen[j] = None
    OBVIOUS
  <2>1. made'[j] = w[j] /\ w[j] \in Inputs
    BY <1>6
  <2>2. c \in Own
    BY DEF Own
  <2> QED BY <2>1, <2>2, NoneAssumption DEF Inv, InputsInv
<1>14. InputsInv'
  <2>1. OwnInputs'
    BY <1>1, <1>12, <1>13 DEF Inv, InputsInv, OwnInputs
  <2>2. \A e \in Own' : \A j \in Jobs : Generated(j) \in e.tasks => seen'[j] = None
    BY <1>1, <1>3 DEF Inv, InputsInv
  <2>3. ASSUME point' = "generate", NEW j \in JobsNow'
        PROVE  /\ seen'[j] = None
               /\ made'[j] # None \/ \E e \in Own' : Generated(j) \in e.tasks
    <3>1. j \in JobsNow /\ j \in Jobs /\ point = "generate"
      BY <1>1, <1>4, <2>3, JobSets
    <3>2. seen[j] = None /\ (made[j] # None \/ \E e \in Own : Generated(j) \in e.tasks)
      BY <3>1 DEF Inv, InputsInv
    <3>3. CASE made[j] # None
      BY <1>1, <1>12, <1>13, <3>1, <3>2, <3>3
    <3>4. CASE \E e \in Own : Generated(j) \in e.tasks
      <4>1. PICK e \in Own : Generated(j) \in e.tasks
        BY <3>4
      <4>2. CASE e = c
        <5>1. c.round = round /\ j \in jobs
          BY <3>1, <4>1, <4>2 DEF Own
        <5> QED BY <1>1, <1>13, <3>1, <3>2, <5>1
      <4>3. CASE e # c
        BY <1>1, <1>3, <3>2, <4>1, <4>3
      <4> QED BY <4>2, <4>3
    <3> QED BY <3>2, <3>3, <3>4
  <2>4. /\ point' = "compile" => \A j \in Jobs : seen'[j] = None
        /\ point' \in {"generate", "solve"} /\ level' = "smoke" =>
             \A j \in Jobs \ Smoke : seen'[j] = None
    BY <1>1 DEF Inv, InputsInv
  <2> QED BY <1>1, <1>11, <2>1, <2>2, <2>3, <2>4 DEF InputsInv
<1>15. \A t \in Tasks : answers'[t] = answers[t] \/ (c \in Own /\ t \in c.tasks)
  BY <1>5 DEF Own, Inv, Typed
<1>16. \A t \in Tasks : t \notin TasksNow => answers'[t] = answers[t]
  BY <1>15 DEF Inv, CallsInv
<1>17. ProgressInv'
  <2>1. point \in {"generate", "solve"} => \A t \in Compiles : t \in Tasks /\ t \notin TasksNow
    BY TaskMembers, JobSets DEF TasksNow
  <2>2. point = "solve" => \A j \in JobsNow : Generated(j) \in Tasks /\ Generated(j) \notin TasksNow
    <3> SUFFICES ASSUME point = "solve", NEW j \in JobsNow
                 PROVE  Generated(j) \in Tasks /\ Generated(j) \notin TasksNow
      OBVIOUS
    <3>1. \A t \in TasksNow : t.op \in {"validate", "solve"}
      BY TaskMembers, JobSets DEF TasksNow
    <3>2. Generated(j).op = "generate" /\ Generated(j) \in Runs("generate", Jobs)
      BY JobSets DEF Generated, Runs
    <3> QED BY <3>1, <3>2, TaskMembers
  <2>3. point \in {"generate", "solve"} /\ level = "complete" =>
          \A j \in Smoke : \A op \in {"generate", "validate", "solve"} :
            [op |-> op, of |-> j] \in Tasks /\ [op |-> op, of |-> j] \notin TasksNow
    BY TaskMembers, JobSets, SMTT(30) DEF TasksNow, JobsNow
  <2>4. point' = "solve" =>
          \A j \in JobsNow' : answers'[Generated(j)] = "ok" /\ seen'[j] # None
    BY <1>1, <1>4, <1>16, <2>2 DEF Inv, ProgressInv
  <2>5. point' \in {"generate", "solve"} /\ level' = "complete" =>
          \A j \in Smoke : /\ \A op \in {"generate", "validate", "solve"} :
                                  answers'[[op |-> op, of |-> j]] = "ok"
                           /\ seen'[j] # None
    BY <1>1, <1>16, <2>3 DEF Inv, ProgressInv
  <2>6. point' \in {"generate", "solve"} => \A t \in Compiles : answers'[t] = "ok"
    BY <1>1, <1>16, <2>1 DEF Inv, ProgressInv
  <2>7. (point' # "idle" => faults' = {}) /\ (point' = "compile" => level' = "smoke")
    BY <1>1 DEF Inv, ProgressInv
  <2> QED BY <2>4, <2>5, <2>6, <2>7 DEF ProgressInv
<1>18. AcceptSound'
  <2>1. Returned => c \notin Own
    BY DEF Inv, CallsInv, Returned
  <2>2. Returned => answers' = answers /\ made' = made
    BY <1>5, <1>6, <2>1 DEF Own
  <2> QED BY <1>1, <2>2 DEF Inv, AcceptSound, Returned
<1> QED BY <1>9, <1>10, <1>14, <1>17, <1>18 DEF Inv

-----------------------------------------------------------------------------
\* A gather that is over has no calls left, of this round.
LEMMA OverCalls ==
  ASSUME Inv, NEW p \in {"compile", "generate", "solve"}, Over(p)
  PROVE  Own = {} /\ point = p /\ verdict = None
BY DEF Inv, CallsInv, Over

\* A return ends the verification: nothing but the verdict changes.
LEMMA ReturnInv ==
  ASSUME Inv, Own = {}, NEW v, Return(v), UNCHANGED <<round, level, faults, answers, made>>,
         seen' \in [Jobs -> {Shown(i) : i \in Inputs} \cup {None}],
         OwnInputs', preview' = preview,
         ~ v.ok \/ AcceptSound'
  PROVE  Inv'
<1>1. point' = "idle" /\ verdict' = v /\ calls' = calls
  BY DEF Return
<1>2. Own' = {}
  BY <1>1 DEF Own
<1>3. Typed'
  BY <1>1 DEF Inv, Typed
<1>4. CallsInv'
  BY <1>1, <1>2 DEF Inv, CallsInv
<1>5. InputsInv'
  BY <1>1, <1>2 DEF Inv, InputsInv
<1>6. ProgressInv'
  BY <1>1 DEF ProgressInv
<1>7. AcceptSound'
  BY <1>1 DEF AcceptSound, Returned
<1> QED BY <1>3, <1>4, <1>5, <1>6, <1>7 DEF Inv

\* What generating and judging the chunks of S asks for.
LEMMA GenerateCalls ==
  ASSUME Inv, Own = {}, NEW S \in SUBSET Jobs, Generate(S), round' = round
  PROVE  /\ point' = "generate" /\ verdict' = verdict
         /\ \A c \in calls' : c \in [round: Nat, tasks: SUBSET Tasks, runs: BOOLEAN]
                                  /\ c.round <= round
         /\ \A c \in Own' : c.tasks \subseteq Runs("generate", S)
         /\ \A j \in S : \E c \in Own' : Generated(j) \in c.tasks
<1>1. calls' = calls \cup {[round |-> round, tasks |-> T, runs |-> FALSE] :
                          T \in {Runs("generate", U) : U \in Chunks(S)}}
  BY DEF Generate, Await, Ask
<1>2. \A U \in Chunks(S) : U \in SUBSET S /\ Runs("generate", U) \subseteq Tasks
                          /\ Runs("generate", U) \subseteq Runs("generate", S)
  BY ChunkSubset, TaskMembers DEF Runs
<1>3. \A c \in calls' \ calls : \E U \in Chunks(S) :
        c = [round |-> round, tasks |-> Runs("generate", U), runs |-> FALSE]
  BY <1>1
<1>4. \A j \in S : \E c \in Own' : Generated(j) \in c.tasks
  <2> SUFFICES ASSUME NEW j \in S PROVE \E c \in Own' : Generated(j) \in c.tasks
    OBVIOUS
  <2>1. PICK U \in Chunks(S) : j \in U
    BY ChunkCover
  <2>2. Generated(j) \in Runs("generate", U)
    BY <2>1 DEF Generated, Runs
  <2> DEFINE c == [round |-> round, tasks |-> Runs("generate", U), runs |-> FALSE]
  <2>3. c \in calls'
    BY <1>1, <2>1
  <2> QED BY <2>2, <2>3 DEF Own
<1>5. \A c \in Own' : c.tasks \subseteq Runs("generate", S)
  <2>1. \A c \in Own' : c \in calls' \ calls
    BY DEF Own
  <2> QED BY <1>2, <1>3, <2>1
<1>6. \A c \in calls' : c \in [round: Nat, tasks: SUBSET Tasks, runs: BOOLEAN]
                        /\ c.round <= round
  <2>1. round \in Nat
    BY DEF Inv, Typed
  <2>2. ASSUME NEW c \in calls', c \notin calls
        PROVE  c \in [round: Nat, tasks: SUBSET Tasks, runs: BOOLEAN] /\ c.round = round
    BY <1>2, <1>3, <2>1, <2>2, NewCall
  <2> QED BY <2>1, <2>2 DEF Inv, Typed, CallsInv
<1> QED BY <1>4, <1>5, <1>6 DEF Generate, Await

LEMMA SolveCalls ==
  ASSUME Inv, Own = {}, NEW S \in SUBSET Jobs, Solve(S), round' = round
  PROVE  /\ point' = "solve" /\ verdict' = verdict
         /\ \A c \in calls' : c \in [round: Nat, tasks: SUBSET Tasks, runs: BOOLEAN]
                                  /\ c.round <= round
         /\ \A c \in Own' : c.tasks \subseteq Runs("validate", S) \cup Runs("solve", S)
<1>1. calls' = calls \cup {[round |-> round, tasks |-> T, runs |-> FALSE] :
               T \in {Runs("validate", U) \cup Runs("solve", U) : U \in Chunks(S)}}
  BY DEF Solve, Await, Ask
<1>2. \A U \in Chunks(S) :
        /\ Runs("validate", U) \cup Runs("solve", U) \subseteq Tasks
        /\ Runs("validate", U) \subseteq Runs("validate", S)
        /\ Runs("solve", U) \subseteq Runs("solve", S)
  BY ChunkSubset, TaskMembers DEF Runs
<1>3. \A c \in calls' \ calls : \E U \in Chunks(S) :
        c = [round |-> round, tasks |-> Runs("validate", U) \cup Runs("solve", U),
             runs |-> FALSE]
  BY <1>1
<1>4. \A c \in Own' : c.tasks \subseteq Runs("validate", S) \cup Runs("solve", S)
  <2>1. \A c \in Own' : c \in calls' \ calls
    BY DEF Own
  <2> QED BY <1>2, <1>3, <2>1
<1>5. \A c \in calls' : c \in [round: Nat, tasks: SUBSET Tasks, runs: BOOLEAN]
                        /\ c.round <= round
  <2>1. round \in Nat
    BY DEF Inv, Typed
  <2>2. ASSUME NEW c \in calls', c \notin calls
        PROVE  c \in [round: Nat, tasks: SUBSET Tasks, runs: BOOLEAN] /\ c.round = round
    BY <1>2, <1>3, <2>1, <2>2, NewCall
  <2> QED BY <2>1, <2>2 DEF Inv, Typed, CallsInv
<1> QED BY <1>4, <1>5 DEF Solve, Await

LEMMA EndCompileInv == ASSUME Inv, EndCompile PROVE Inv'
<1> DEFINE broken == {r \in Roles : Answer("compile", r) # "ok"}
<1>1. Own = {} /\ point = "compile" /\ verdict = None
  BY OverCalls DEF EndCompile
<1>2. UNCHANGED <<round, level, faults, answers, preview, made, seen>>
  BY DEF EndCompile
<1>3. level = "smoke" /\ JobsNow = Smoke /\ JobsNow' = Smoke /\ JobsNow \subseteq Jobs
  BY <1>1, <1>2, JobSets DEF Inv, ProgressInv, JobsNow
<1>4. CASE broken # {}
  <2>1. PICK category, failing : Return(Refused(category, failing))
    BY <1>4 DEF EndCompile
  <2>2. ~ Refused(category, failing).ok
    BY DEF Refused
  <2> HIDE DEF broken
  <2> QED BY <1>1, <1>2, <2>1, <2>2, ReturnInv DEF Inv, Typed, InputsInv, OwnInputs
<1>5. CASE broken = {}
  <2>1. Generate(JobsNow)
    BY <1>5 DEF EndCompile
  <2>2. /\ point' = "generate" /\ verdict' = verdict
        /\ \A c \in calls' : c \in [round: Nat, tasks: SUBSET Tasks, runs: BOOLEAN]
                                 /\ c.round <= round
        /\ \A c \in Own' : c.tasks \subseteq Runs("generate", JobsNow)
        /\ \A j \in JobsNow : \E c \in Own' : Generated(j) \in c.tasks
    BY <1>1, <1>2, <1>3, <2>1, GenerateCalls
  <2>3. \A j \in Jobs : seen'[j] = None
    BY <1>1, <1>2 DEF Inv, InputsInv
  <2>4. Typed'
    BY <1>2, <2>2 DEF Inv, Typed
  <2>5. CallsInv'
    BY <1>1, <1>2, <1>3, <2>2 DEF Inv, CallsInv, TasksNow
  <2>6. InputsInv'
    BY <1>2, <1>3, <2>2, <2>3 DEF Inv, InputsInv, OwnInputs
  <2>7. \A t \in Compiles : answers[t] = "ok"
    <3>1. \A t \in Compiles : t.of \in Roles /\ t = [op |-> "compile", of |-> t.of]
      BY DEF Compiles
    <3> QED BY <1>5, <3>1 DEF Answer
  <2>8. ProgressInv'
    BY <1>1, <1>2, <1>3, <2>2, <2>7 DEF Inv, ProgressInv
  <2>9. AcceptSound'
    BY <1>1, <2>2 DEF AcceptSound, Returned
  <2> QED BY <2>4, <2>5, <2>6, <2>8, <2>9 DEF Inv
<1> QED BY <1>4, <1>5

LEMMA EndGenerateInv == ASSUME Inv, EndGenerate PROVE Inv'
<1> DEFINE broken == {j \in JobsNow : Answer("generate", j) # "ok"}
           read == {j \in JobsNow : broken # {} => ~ Before(First(broken), j)}
<1>1. Own = {} /\ point = "generate" /\ verdict = None
  BY OverCalls DEF EndGenerate
<1>2. UNCHANGED <<round, level, faults, answers, preview, made>>
  BY DEF EndGenerate
<1>3. JobsNow' = JobsNow /\ JobsNow \subseteq Jobs
  BY <1>2, JobSets DEF JobsNow
<1>4. seen' = [j \in Jobs |-> IF j \in read THEN Shown(preview[Path(round, j)]) ELSE seen[j]]
  BY DEF EndGenerate
<1>5. \A j \in JobsNow : /\ made[j] # None /\ made[j] \in Inputs
                         /\ preview[Path(round, j)] = made[j]
  BY <1>1, <1>3 DEF Inv, InputsInv, Typed
<1> HIDE DEF read
<1>6. read \subseteq JobsNow
  BY DEF read
<1>7. seen' \in [Jobs -> {Shown(i) : i \in Inputs} \cup {None}]
  BY <1>3, <1>4, <1>5, <1>6 DEF Inv, Typed
<1>8. OwnInputs'
  BY <1>2, <1>3, <1>4, <1>5, <1>6 DEF Inv, InputsInv, OwnInputs
<1>9. CASE broken # {}
  <2>1. PICK category, failing : Return(Refused(category, failing))
    BY <1>9 DEF EndGenerate
  <2>2. ~ Refused(category, failing).ok
    BY DEF Refused
  <2> HIDE DEF broken
  <2> QED BY <1>1, <1>2, <1>7, <1>8, <2>1, <2>2, ReturnInv
<1>10. CASE broken = {}
  <2>1. Solve(JobsNow)
    BY <1>10 DEF EndGenerate
  <2>2. /\ point' = "solve" /\ verdict' = verdict
        /\ \A c \in calls' : c \in [round: Nat, tasks: SUBSET Tasks, runs: BOOLEAN]
                                 /\ c.round <= round
        /\ \A c \in Own' : c.tasks \subseteq Runs("validate", JobsNow) \cup Runs("solve", JobsNow)
    BY <1>1, <1>2, <1>3, <2>1, SolveCalls
  <2>3. Typed'
    BY <1>2, <1>7, <2>2 DEF Inv, Typed
  <2>4. CallsInv'
    BY <1>1, <1>2, <1>3, <2>2 DEF Inv, CallsInv, TasksNow
  <2>5. \A c \in Own' : \A j \in Jobs : Generated(j) \notin c.tasks
    <3>1. \A c \in Own' : \A t \in c.tasks : t.op # "generate"
      BY <1>3, <2>2, TaskMembers
    <3>2. \A j : Generated(j).op = "generate"
      BY DEF Generated
    <3> QED BY <3>1, <3>2
  <2>6. level = "smoke" => \A j \in Jobs \ Smoke : seen'[j] = None
    BY <1>1, <1>4, <1>6 DEF Inv, InputsInv, JobsNow
  <2>7. InputsInv'
    BY <1>2, <1>8, <2>2, <2>5, <2>6 DEF Inv, InputsInv
  <2>8. \A j \in JobsNow : answers[Generated(j)] = "ok"
    BY <1>10 DEF Answer, Generated
  <2>9. \A j \in JobsNow : j \in read
    BY <1>10 DEF read
  <2>10. \A j \in JobsNow : seen'[j] # None
    BY <1>3, <1>4, <1>5, <2>9, NoneAssumption
  <2>11. \A j \in Jobs : seen[j] # None => seen'[j] # None
    BY <1>3, <1>4, <1>5, <1>6, NoneAssumption
  <2>12. ProgressInv'
    BY <1>1, <1>2, <1>3, <2>2, <2>8, <2>10, <2>11, JobSets DEF Inv, ProgressInv
  <2>13. AcceptSound'
    BY <1>1, <2>2 DEF AcceptSound, Returned
  <2> QED BY <2>3, <2>4, <2>7, <2>12, <2>13 DEF Inv
<1> QED BY <1>9, <1>10

\* Cases that are not alike have two inputs that differ.
LEMMA NotAlike ==
  ASSUME Inv, Alike = {}, \A j \in Jobs : seen[j] # None, NEW c \in Cases, ~ Plan[c].fixed
  PROVE  \E j, k \in Jobs : j[1] = c /\ k[1] = c /\ made[j] # made[k]
<1> DEFINE S == {seen[j] : j \in {j \in Jobs : j[1] = c}}
<1>1. ~ (Cardinality(S) < 2)
  BY DEF Alike
<1>2. PICK x \in S, y \in S : x # y
  BY <1>1, TwoDiffer
<1>3. PICK j \in Jobs, k \in Jobs : j[1] = c /\ k[1] = c /\ seen[j] # seen[k]
  BY <1>2
<1>4. seen[j] = Shown(made[j]) /\ seen[k] = Shown(made[k])
  BY DEF Inv, InputsInv, OwnInputs
<1> QED BY <1>3, <1>4

LEMMA EndSolveInv == ASSUME Inv, EndSolve PROVE Inv'
<1> DEFINE broken == {j \in JobsNow : Answer("validate", j) # "ok" \/ Answer("solve", j) # "ok"}
<1>1. Own = {} /\ point = "solve" /\ verdict = None
  BY OverCalls DEF EndSolve
<1>2. UNCHANGED <<round, faults, answers, preview, made, seen>>
  BY DEF EndSolve
<1>3. OwnInputs' /\ seen' \in [Jobs -> {Shown(i) : i \in Inputs} \cup {None}]
  BY <1>2 DEF Inv, Typed, InputsInv, OwnInputs
<1>4. CASE broken # {}
  <2>1. Return(Unsolved(First(broken))) /\ UNCHANGED level
    BY <1>4 DEF EndSolve
  <2>2. ~ Unsolved(First(broken)).ok
    BY DEF Unsolved, Refused
  <2> HIDE DEF broken
  <2> QED BY <1>1, <1>2, <1>3, <2>1, <2>2, ReturnInv
<1>5. CASE broken = {}
  <2>1. \A j \in JobsNow : /\ \A op \in {"generate", "validate", "solve"} :
                                 answers[[op |-> op, of |-> j]] = "ok"
                           /\ seen[j] # None
    <3>1. \A j \in JobsNow : answers[[op |-> "validate", of |-> j]] = "ok"
                           /\ answers[[op |-> "solve", of |-> j]] = "ok"
      BY <1>5 DEF Answer
    <3>2. \A j \in JobsNow : answers[[op |-> "generate", of |-> j]] = "ok" /\ seen[j] # None
      BY <1>1 DEF Inv, ProgressInv, Generated
    <3> QED BY <3>1, <3>2
  <2>2. CASE level = "smoke" /\ Smoke # Jobs
    <3>1. Generate(Jobs \ Smoke) /\ level' = "complete"
      BY <1>5, <2>2 DEF EndSolve
    <3>2. /\ point' = "generate" /\ verdict' = verdict
          /\ \A c \in calls' : c \in [round: Nat, tasks: SUBSET Tasks, runs: BOOLEAN]
                                   /\ c.round <= round
          /\ \A c \in Own' : c.tasks \subseteq Runs("generate", Jobs \ Smoke)
          /\ \A j \in Jobs \ Smoke : \E c \in Own' : Generated(j) \in c.tasks
      BY <1>1, <1>2, <3>1, GenerateCalls, JobSets
    <3>3. JobsNow' = Jobs \ Smoke /\ JobsNow = Smoke
      BY <2>2, <3>1 DEF JobsNow
    <3>4. \A j \in Jobs \ Smoke : seen[j] = None
      BY <1>1, <2>2 DEF Inv, InputsInv
    <3>5. Typed'
      BY <1>2, <1>3, <3>1, <3>2 DEF Inv, Typed
    <3>6. CallsInv'
      BY <1>1, <1>2, <3>2, <3>3 DEF Inv, CallsInv, TasksNow
    <3>7. \A c \in Own' : \A j \in Jobs : Generated(j) \in c.tasks => j \in Jobs \ Smoke
      BY <3>2, TaskMembers, JobSets DEF Generated
    <3>8. InputsInv'
      BY <1>2, <1>3, <3>1, <3>2, <3>3, <3>4, <3>7 DEF Inv, InputsInv
    <3>9. ProgressInv'
      BY <1>1, <1>2, <2>1, <3>1, <3>2, <3>3 DEF Inv, ProgressInv
    <3>10. AcceptSound'
      BY <1>1, <3>2 DEF AcceptSound, Returned
    <3> QED BY <3>5, <3>6, <3>8, <3>9, <3>10 DEF Inv
  <2>3. CASE ~ (level = "smoke" /\ Smoke # Jobs)
    <3>1. Return(Conclusion) /\ UNCHANGED level
      BY <1>5, <2>3 DEF EndSolve
    <3>2. \A j \in Jobs : /\ \A op \in {"generate", "validate", "solve"} :
                                answers[[op |-> op, of |-> j]] = "ok"
                          /\ seen[j] # None
      <4>1. CASE level = "smoke"
        BY <2>1, <2>3, <4>1 DEF JobsNow
      <4>2. CASE level = "complete"
        <5>1. \A j \in Smoke : /\ \A op \in {"generate", "validate", "solve"} :
                                     answers[[op |-> op, of |-> j]] = "ok"
                               /\ seen[j] # None
          BY <1>1, <4>2 DEF Inv, ProgressInv
        <5>2. \A j \in Jobs : j \in Smoke \/ j \in JobsNow
          BY <4>2 DEF JobsNow
        <5> QED BY <2>1, <5>1, <5>2
      <4> QED BY <4>1, <4>2 DEF Inv, Typed
    <3>3. \A t \in Tasks : answers[t] = "ok"
      <4> SUFFICES ASSUME NEW t \in Tasks PROVE answers[t] = "ok"
        OBVIOUS
      <4>1. CASE t \in Compiles
        BY <1>1, <4>1 DEF Inv, ProgressInv
      <4>2. CASE t \notin Compiles
        <5>1. /\ t.of \in Jobs /\ t.op \in {"generate", "validate", "solve"}
              /\ t = [op |-> t.op, of |-> t.of]
          BY <4>2, TaskMembers
        <5> HIDE DEF broken
        <5> QED BY <3>2, <5>1
      <4> QED BY <4>1, <4>2
    <3>4. CASE Alike = {}
      <4>1. \A c \in Cases : Plan[c].fixed
              \/ \E j, k \in Jobs : j[1] = c /\ k[1] = c /\ made[j] # made[k]
        BY <3>2, <3>4, NotAlike
      <4>2. faults = {}
        BY <1>1 DEF Inv, ProgressInv
      <4>3. AcceptSound'
        BY <1>2, <3>3, <4>1, <4>2 DEF AcceptSound
      <4> HIDE DEF broken
      <4> QED BY <1>1, <1>2, <1>3, <3>1, <4>3, ReturnInv
    <3>5. CASE Alike # {}
      <4>1. ~ Conclusion.ok
        BY <3>5 DEF Conclusion, Refused
      <4> HIDE DEF broken
      <4> QED BY <1>1, <1>2, <1>3, <3>1, <4>1, ReturnInv
    <3> QED BY <3>4, <3>5
  <2> QED BY <2>2, <2>3
<1> QED BY <1>4, <1>5

-----------------------------------------------------------------------------
LEMMA NextInv == Inv /\ [Next]_vars => Inv'
<1> SUFFICES ASSUME Inv, [Next]_vars PROVE Inv'
  OBVIOUS
<1>1. ASSUME NEW F \in Candidates, Verify(F) PROVE Inv'
  BY <1>1, VerifyInv
<1>2. CASE EndCompile
  BY <1>2, EndCompileInv
<1>3. CASE EndGenerate
  BY <1>3, EndGenerateInv
<1>4. CASE EndSolve
  BY <1>4, EndSolveInv
<1>5. ASSUME NEW c \in calls, StartCall(c) \/ EndCall(c) \/ RaiseCall(c) PROVE Inv'
  BY <1>5, StartCallInv, EndCallInv, RaiseCallInv
<1>6. CASE UNCHANGED vars
  <2>1. TasksNow' = TasksNow /\ JobsNow' = JobsNow /\ Own' = Own
    BY <1>6 DEF vars, TasksNow, JobsNow, Own
  <2>2. Typed' /\ CallsInv' /\ ProgressInv'
    BY <1>6, <2>1 DEF vars, Inv, Typed, CallsInv, ProgressInv
  <2>3. InputsInv' /\ AcceptSound'
    BY <1>6, <2>1 DEF vars, Inv, InputsInv, OwnInputs, AcceptSound, Returned
  <2> QED BY <2>2, <2>3 DEF Inv
<1> QED BY <1>1, <1>2, <1>3, <1>4, <1>5, <1>6 DEF Next, Settle, Resume, Done

\* The inputs a verification reads are those its own candidate wrote.
THEOREM InputsOwn == Spec => []OwnInputs
<1>1. Inv => OwnInputs
  BY DEF Inv, InputsInv
<1> QED BY InitInv, NextInv, <1>1, PTL DEF Spec

\* A candidate that is accepted has passed everything in its own verification.
THEOREM AcceptCorrect == Spec => []AcceptSound
<1>1. Inv => AcceptSound
  BY DEF Inv
<1> QED BY InitInv, NextInv, <1>1, PTL DEF Spec

-----------------------------------------------------------------------------
\* Of a set of jobs one comes first.
Less == {ss \in Nat \X Nat : ss[1] < ss[2]}
LEMMA Least ==
  ASSUME NEW S \in SUBSET Nat, S # {}
  PROVE  \E n \in S : \A m \in S : n <= m
<1>1. IsWellFoundedOn(Less, Nat)
  BY NatLessThanWellFounded DEF OpToRel, Less
<1>2. PICK n \in S : \A m \in S : ~ (<<m, n>> \in Less)
  BY <1>1, WFMin
<1>3. \A m \in S : <<m, n>> \in Less <=> m < n
  BY DEF Less
<1>4. ASSUME NEW m \in S PROVE n <= m
  <2>1. m \in Nat /\ n \in Nat /\ ~ (m < n)
    BY <1>2, <1>3
  <2> QED BY <2>1
<1> QED BY <1>4

LEMMA FirstLeast ==
  ASSUME NEW S \in SUBSET Jobs, S # {}
  PROVE  First(S) \in S /\ \A k \in S : ~ Before(k, First(S))
<1>1. ASSUME NEW k \in S PROVE k[1] \in Nat /\ k[2] \in Nat
  <2>1. k[1] \in Cases /\ k[2] \in 0 .. Trials
    BY DEF Jobs
  <2>2. Cases \subseteq Nat
    BY PlanAssumption
  <2>3. Trials \in Nat
    BY PlanAssumption
  <2>4. k[1] \in Nat
    BY <2>1, <2>2
  <2>5. k[2] \in Nat
    BY <2>1, <2>3
  <2> QED BY <2>4, <2>5
<1> DEFINE cases == {k[1] : k \in S}
<1>2. PICK n \in cases : \A m \in cases : n <= m
  <2>1. cases \in SUBSET Nat /\ cases # {}
    BY <1>1
  <2> HIDE DEF cases
  <2> QED BY <2>1, Least
<1> DEFINE offsets == {k[2] : k \in {k \in S : k[1] = n}}
<1>3. PICK o \in offsets : \A m \in offsets : o <= m
  <2>1. offsets \in SUBSET Nat /\ offsets # {}
    BY <1>1, <1>2
  <2> HIDE DEF offsets
  <2> QED BY <2>1, Least
<1>4. PICK j \in S : j[1] = n /\ j[2] = o
  BY <1>3
<1>5. \A k \in S : n <= k[1] /\ (k[1] = n => o <= k[2])
  BY <1>2, <1>3
<1> HIDE DEF cases, offsets
<1>6. \A k \in S : ~ Before(k, j)
  BY <1>1, <1>4, <1>5 DEF Before
<1> QED BY <1>4, <1>6 DEF First

\* A case whose inputs look alike has the same input, for all its jobs.
LEMMA AlikeSame ==
  ASSUME NEW c \in Cases, c \in Alike, NEW j \in Jobs, NEW k \in Jobs, j[1] = c, k[1] = c
  PROVE  seen[j] = seen[k]
<1> DEFINE J == {i \in Jobs : i[1] = c}
           V == {seen[i] : i \in J}
<1>1. IsFiniteSet(J)
  <2>1. IsFiniteSet({c} \X (0 .. Trials))
    <3>1. IsFiniteSet({c})
      BY FS_Singleton
    <3>2. 0 \in Int /\ Trials \in Int
      BY PlanAssumption
    <3>3. IsFiniteSet(0 .. Trials)
      BY <3>2, FS_Interval
    <3> QED BY <3>1, <3>3, FS_Product
  <2>2. J \in SUBSET ({c} \X (0 .. Trials))
    BY DEF Jobs
  <2> QED BY <2>1, <2>2, FS_Subset
<1>2. IsFiniteSet(V)
  <2> DEFINE f == [i \in J |-> seen[i]]
  <2>1. f \in Surjection(J, V)
    BY DEF Surjection
  <2> QED BY <1>1, <2>1, FS_Surjection
<1>3. Cardinality(V) < 2
  BY DEF Alike
<1>4. ASSUME seen[j] # seen[k] PROVE FALSE
  <2>1. {seen[j], seen[k]} \in SUBSET V
    OBVIOUS
  <2>2. Cardinality({seen[j], seen[k]}) = 2
    <3>1. IsFiniteSet({seen[j]}) /\ Cardinality({seen[j]}) = 1
      BY FS_Singleton
    <3>2. {seen[j]} \cup {seen[k]} = {seen[j], seen[k]}
      OBVIOUS
    <3>3. Cardinality({seen[j]} \cup {seen[k]}) = 1 + 1
      BY <1>4, <3>1, FS_AddElement, ZenonT(60)
    <3> QED BY <3>2, <3>3
  <2>3. Cardinality({seen[j], seen[k]}) <= Cardinality(V) /\ Cardinality(V) \in Nat
    <3> HIDE DEF V
    <3> QED BY <1>2, <2>1, FS_Subset, FS_CardinalityType
  <2> QED BY <1>3, <2>2, <2>3
<1> QED BY <1>4

-----------------------------------------------------------------------------
\* The runs of the gather in force: each has its answer or its call, a job's
\* validator and solution share a call, and what was not asked for has no answer.
Run(op, j) == [op |-> op, of |-> j]

Answered(t) ==
  IF t.op = "solve" THEN answers[t] # None <=> answers[Run("validate", t.of)] = "ok"
  ELSE answers[t] # None

AnswersInv ==
  /\ point # "idle" =>
       \A t \in TasksNow : Answered(t) \/ \E c \in Own : t \in c.tasks
  /\ \A c \in Own : \A j \in Jobs : Run("solve", j) \in c.tasks <=> Run("validate", j) \in c.tasks
  /\ point = "compile" =>
       \A j \in Jobs : answers[Run("generate", j)] = None /\ answers[Run("solve", j)] = None
  /\ point = "generate" => \A j \in JobsNow : answers[Run("solve", j)] = None
  /\ point \in {"generate", "solve"} /\ level = "smoke" =>
       \A j \in Jobs \ Smoke :
         answers[Run("generate", j)] = None /\ answers[Run("solve", j)] = None

LEMMA RunMembers ==
  /\ \A op \in {"generate", "validate", "solve"} : \A S \in SUBSET Jobs :
       \A j : Run(op, j) \in Runs(op, S) <=> j \in S
  /\ \A op \in {"generate", "validate", "solve"} : \A j \in Jobs : Run(op, j) \in Tasks
  /\ \A op, j : Run(op, j).op = op /\ Run(op, j).of = j
BY DEF Run, Runs, Tasks

LEMMA InitAnswers == Init => AnswersInv
BY DEF Init, AnswersInv, Own

LEMMA VerifyAnswers == ASSUME Inv, NEW F \in Candidates, Verify(F) PROVE AnswersInv'
<1>1. round' = round + 1 /\ \A t \in Tasks : answers'[t] = None
  BY DEF Verify
<1>2. \A c \in calls : c.round # round + 1
  BY DEF Inv, Typed, CallsInv
<1>3. CASE F # {}
  <2>1. point' = "idle" /\ calls' = calls
    BY <1>3 DEF Verify
  <2>2. Own' = {}
    BY <1>1, <1>2, <2>1 DEF Own
  <2> QED BY <2>1, <2>2 DEF AnswersInv
<1>4. CASE F = {}
  <2>1. /\ point' = "compile"
        /\ calls' = calls \cup {[round |-> round + 1, tasks |-> T, runs |-> FALSE] :
                                T \in {{t} : t \in Compiles}}
    BY <1>4 DEF Verify, Ask
  <2>2. TasksNow' = Compiles
    BY <2>1 DEF TasksNow
  <2>3. \A t \in Compiles : \E c \in Own' : t \in c.tasks
    <3> SUFFICES ASSUME NEW t \in Compiles PROVE \E c \in Own' : t \in c.tasks
      OBVIOUS
    <3>1. [round |-> round + 1, tasks |-> {t}, runs |-> FALSE] \in Own'
      BY <1>1, <2>1 DEF Own
    <3> QED BY <3>1
  <2>4. \A c \in Own' : \E t \in Compiles : c.tasks = {t}
    BY <1>1, <1>2, <2>1 DEF Own
  <2>5. \A c \in Own' : \A j \in Jobs :
          Run("solve", j) \notin c.tasks /\ Run("validate", j) \notin c.tasks
    BY <2>4, RunMembers, TaskMembers
  <2>6. \A j \in Jobs : /\ answers'[Run("generate", j)] = None
                        /\ answers'[Run("solve", j)] = None
    BY <1>1, RunMembers
  <2> QED BY <2>1, <2>2, <2>3, <2>5, <2>6 DEF AnswersInv
<1> QED BY <1>3, <1>4

LEMMA StartCallAnswers ==
  ASSUME Inv, AnswersInv, NEW c \in calls, StartCall(c) PROVE AnswersInv'
<1>0. c = [round |-> c.round, tasks |-> c.tasks, runs |-> c.runs]
  BY DEF Inv, Typed
<1> DEFINE d == [c EXCEPT !.runs = TRUE]
<1>1. d.round = c.round /\ d.tasks = c.tasks
  BY <1>0
<1>2. calls' = (calls \ {c}) \cup {d}
  BY DEF StartCall
<1> HIDE DEF d
<1>3. UNCHANGED <<round, point, level, faults, answers, preview, made, seen, verdict>>
  BY DEF StartCall
<1>4. \A e \in Own' : e \in Own \/ (e = d /\ c \in Own)
  BY <1>1, <1>2, <1>3 DEF Own
<1>5. \A e \in Own : e \in Own' \/ (e = c /\ d \in Own')
  BY <1>1, <1>2, <1>3 DEF Own
<1>6. TasksNow' = TasksNow /\ JobsNow' = JobsNow
  BY <1>3 DEF TasksNow, JobsNow
<1>7. point' # "idle" => \A t \in TasksNow' : Answered(t)' \/ \E e \in Own' : t \in e.tasks
  BY <1>1, <1>3, <1>5, <1>6 DEF AnswersInv, Answered
<1>8. \A e \in Own' : \A j \in Jobs : Run("solve", j) \in e.tasks <=> Run("validate", j) \in e.tasks
  BY <1>1, <1>4 DEF AnswersInv
<1> QED BY <1>3, <1>6, <1>7, <1>8 DEF AnswersInv

LEMMA RaiseCallAnswers ==
  ASSUME Inv, AnswersInv, NEW c \in calls, RaiseCall(c) PROVE AnswersInv'
<1>1. calls' = calls \ {c} /\ UNCHANGED <<round, level, answers>>
  BY DEF RaiseCall
<1>2. Own' \subseteq Own
  BY <1>1 DEF Own
<1>3. \A e \in Own' : \A j \in Jobs : Run("solve", j) \in e.tasks <=> Run("validate", j) \in e.tasks
  BY <1>2 DEF AnswersInv
<1>4. CASE c.round = round /\ point # "idle"
  <2>1. point' = "idle"
    BY <1>4 DEF RaiseCall
  <2> QED BY <1>3, <2>1 DEF AnswersInv
<1>5. CASE ~ (c.round = round /\ point # "idle")
  <2>1. point' = point
    BY <1>5 DEF RaiseCall
  <2>2. TasksNow' = TasksNow /\ JobsNow' = JobsNow
    BY <1>1, <2>1 DEF TasksNow, JobsNow
  <2>3. point # "idle" => Own' = Own
    BY <1>1, <1>5 DEF Own
  <2>4. point' # "idle" => \A t \in TasksNow' : Answered(t)' \/ \E e \in Own' : t \in e.tasks
    BY <1>1, <2>1, <2>2, <2>3 DEF AnswersInv, Answered
  <2> QED BY <1>1, <1>3, <2>1, <2>2, <2>4 DEF AnswersInv
<1> QED BY <1>4, <1>5

LEMMA EndCallAnswers ==
  ASSUME Inv, AnswersInv, NEW c \in calls, EndCall(c) PROVE AnswersInv'
<1>1. calls' = calls \ {c} /\ UNCHANGED <<round, point, level>>
  BY DEF EndCall
<1>2. c.tasks \subseteq Tasks
  BY DEF Inv, Typed
<1>3. Own' \subseteq Own /\ \A e \in Own : e = c \/ e \in Own'
  BY <1>1 DEF Own
<1>4. TasksNow' = TasksNow /\ JobsNow' = JobsNow
  BY <1>1 DEF TasksNow, JobsNow
<1>5. \A e \in Own' : \A j \in Jobs : Run("solve", j) \in e.tasks <=> Run("validate", j) \in e.tasks
  BY <1>3 DEF AnswersInv
<1>6. PICK a \in [c.tasks -> Answers \cup {None}] :
        /\ Sensible(c.tasks, a)
        /\ answers' = IF c.round # round THEN answers
                      ELSE [t \in Tasks |-> IF t \in c.tasks THEN a[t] ELSE answers[t]]
  BY DEF EndCall
<1>7. CASE c \notin Own
  <2>1. answers' = answers
    BY <1>6, <1>7 DEF Own
  <2>2. point' # "idle" => \A t \in TasksNow' : Answered(t)' \/ \E e \in Own' : t \in e.tasks
    BY <1>1, <1>3, <1>4, <1>7, <2>1 DEF AnswersInv, Answered
  <2> QED BY <1>1, <1>4, <1>5, <2>1, <2>2 DEF AnswersInv
<1>8. CASE c \in Own
  <2>1. \A t \in Tasks : answers'[t] = IF t \in c.tasks THEN a[t] ELSE answers[t]
    BY <1>6, <1>8 DEF Own
  <2>2. ASSUME point # "idle", NEW t \in TasksNow
        PROVE  Answered(t)' \/ \E e \in Own' : t \in e.tasks
    <3>1. t \in Tasks
      BY TaskMembers, JobSets DEF TasksNow
    <3>2. CASE t.op # "solve"
      <4>1. t \in c.tasks => a[t] # None
        BY <1>6, <3>2 DEF Sensible
      <4>2. t \in c.tasks => Answered(t)'
        BY <2>1, <3>1, <3>2, <4>1 DEF Answered
      <4>3. t \notin c.tasks /\ Answered(t) => Answered(t)'
        BY <2>1, <3>1, <3>2 DEF Answered
      <4> QED BY <1>3, <2>2, <4>2, <4>3 DEF AnswersInv
    <3>3. CASE t.op = "solve"
      <4>1. t.of \in Jobs /\ t = Run("solve", t.of)
        BY <3>1, <3>3, TaskMembers DEF Run
      <4>2. t \in c.tasks <=> Run("validate", t.of) \in c.tasks
        BY <1>8, <4>1 DEF AnswersInv
      <4>3. Run("validate", t.of) \in Tasks
        BY <4>1, RunMembers
      <4>4. t \in c.tasks => (a[t] # None <=> a[Run("validate", t.of)] = "ok")
        BY <1>6, <3>3 DEF Sensible, Run
      <4>5. t \in c.tasks => Answered(t)'
        BY <2>1, <3>1, <3>3, <4>2, <4>3, <4>4 DEF Answered
      <4>6. t \notin c.tasks /\ Answered(t) => Answered(t)'
        BY <2>1, <3>1, <3>3, <4>2, <4>3 DEF Answered
      <4> QED BY <1>3, <2>2, <4>5, <4>6 DEF AnswersInv
    <3> QED BY <3>2, <3>3
  <2>3. \A t \in Tasks : t \notin TasksNow => answers'[t] = answers[t]
    BY <1>8, <2>1 DEF Inv, CallsInv
  <2>4. point = "compile" => \A j \in Jobs : \A op \in {"generate", "solve"} :
          Run(op, j) \in Tasks /\ Run(op, j) \notin TasksNow
    BY TaskMembers, RunMembers DEF TasksNow
  <2>5. point = "generate" => \A j \in JobsNow :
          Run("solve", j) \in Tasks /\ Run("solve", j) \notin TasksNow
    BY TaskMembers, RunMembers, JobSets DEF TasksNow
  <2>6. point \in {"generate", "solve"} /\ level = "smoke" =>
          \A j \in Jobs \ Smoke : \A op \in {"generate", "solve"} :
            Run(op, j) \in Tasks /\ Run(op, j) \notin TasksNow
    BY TaskMembers, RunMembers, JobSets DEF TasksNow, JobsNow
  <2>7. point' = "compile" => \A j \in Jobs : /\ answers'[Run("generate", j)] = None
                                              /\ answers'[Run("solve", j)] = None
    BY <1>1, <2>3, <2>4 DEF AnswersInv
  <2>8. point' = "generate" => \A j \in JobsNow' : answers'[Run("solve", j)] = None
    BY <1>1, <1>4, <2>3, <2>5 DEF AnswersInv
  <2>9. point' \in {"generate", "solve"} /\ level' = "smoke" =>
          \A j \in Jobs \ Smoke : /\ answers'[Run("generate", j)] = None
                                  /\ answers'[Run("solve", j)] = None
    BY <1>1, <2>3, <2>6 DEF AnswersInv
  <2>10. point' # "idle" => \A t \in TasksNow' : Answered(t)' \/ \E e \in Own' : t \in e.tasks
    BY <1>1, <1>4, <2>2
  <2> QED BY <1>5, <2>7, <2>8, <2>9, <2>10 DEF AnswersInv
<1> QED BY <1>7, <1>8

LEMMA ReturnAnswers ==
  ASSUME Own = {}, NEW v, Return(v), round' = round
  PROVE  AnswersInv'
<1>1. point' = "idle" /\ calls' = calls
  BY DEF Return
<1>2. Own' = {}
  BY <1>1 DEF Own
<1> QED BY <1>1, <1>2 DEF AnswersInv

LEMMA EndCompileAnswers == ASSUME Inv, AnswersInv, EndCompile PROVE AnswersInv'
<1> DEFINE broken == {r \in Roles : Answer("compile", r) # "ok"}
<1>1. Own = {} /\ point = "compile"
  BY OverCalls DEF EndCompile
<1>2. UNCHANGED <<round, level, answers>>
  BY DEF EndCompile
<1>3. CASE broken # {}
  <2>1. PICK v : Return(v)
    BY <1>3 DEF EndCompile
  <2> HIDE DEF broken
  <2> QED BY <1>1, <1>2, <2>1, ReturnAnswers
<1>4. CASE broken = {}
  <2>1. Generate(JobsNow)
    BY <1>4 DEF EndCompile
  <2> HIDE DEF broken
  <2>2. level = "smoke" /\ JobsNow = Smoke /\ JobsNow' = Smoke /\ JobsNow \subseteq Jobs
    BY <1>1, <1>2, JobSets DEF Inv, ProgressInv, JobsNow
  <2>3. /\ point' = "generate"
        /\ \A c \in Own' : c.tasks \subseteq Runs("generate", JobsNow)
        /\ \A j \in JobsNow : \E c \in Own' : Generated(j) \in c.tasks
    BY <1>1, <1>2, <2>1, <2>2, GenerateCalls
  <2>4. \A t \in TasksNow' : \E c \in Own' : t \in c.tasks
    BY <2>2, <2>3, TaskMembers DEF TasksNow, Generated
  <2>5. \A c \in Own' : \A j \in Jobs :
          Run("solve", j) \notin c.tasks /\ Run("validate", j) \notin c.tasks
    BY <2>2, <2>3, TaskMembers, RunMembers
  <2>6. \A j \in Jobs : answers'[Run("generate", j)] = None /\ answers'[Run("solve", j)] = None
    BY <1>1, <1>2 DEF AnswersInv
  <2> QED BY <2>2, <2>3, <2>4, <2>5, <2>6 DEF AnswersInv
<1> QED BY <1>3, <1>4

\* What judging the chunks of S asks for: of each job the validator and the solution.
LEMMA JudgeCalls ==
  ASSUME Inv, Own = {}, NEW S \in SUBSET Jobs, Solve(S), round' = round
  PROVE  \A c \in Own' : \E U \in SUBSET S :
           c.tasks = Runs("validate", U) \cup Runs("solve", U)
<1>1. calls' = calls \cup {[round |-> round, tasks |-> T, runs |-> FALSE] :
                T \in {Runs("validate", U) \cup Runs("solve", U) : U \in Chunks(S)}}
  BY DEF Solve, Await, Ask
<1>2. \A c \in Own' : c \in calls' \ calls
  BY DEF Own
<1>3. \A c \in calls' \ calls : \E U \in Chunks(S) :
        c.tasks = Runs("validate", U) \cup Runs("solve", U)
  BY <1>1
<1>4. \A U \in Chunks(S) : U \in SUBSET S
  BY ChunkSubset
<1> QED BY <1>2, <1>3, <1>4

LEMMA JudgeAll ==
  ASSUME Own = {}, NEW S \in SUBSET Jobs, Solve(S), round' = round, NEW j \in S
  PROVE  \E c \in Own' : Run("validate", j) \in c.tasks /\ Run("solve", j) \in c.tasks
<1>1. calls' = calls \cup {[round |-> round, tasks |-> T, runs |-> FALSE] :
                T \in {Runs("validate", U) \cup Runs("solve", U) : U \in Chunks(S)}}
  BY DEF Solve, Await, Ask
<1>2. PICK U \in Chunks(S) : j \in U
  BY ChunkCover
<1>3. /\ Run("validate", j) \in Runs("validate", U) \cup Runs("solve", U)
      /\ Run("solve", j) \in Runs("validate", U) \cup Runs("solve", U)
  BY <1>2 DEF Run, Runs
<1> DEFINE c == [round |-> round, tasks |-> Runs("validate", U) \cup Runs("solve", U),
                 runs |-> FALSE]
<1>4. c \in calls'
  BY <1>1, <1>2
<1> QED BY <1>3, <1>4 DEF Own

LEMMA EndGenerateAnswers == ASSUME Inv, AnswersInv, EndGenerate PROVE AnswersInv'
<1> DEFINE broken == {j \in JobsNow : Answer("generate", j) # "ok"}
<1>1. Own = {} /\ point = "generate"
  BY OverCalls DEF EndGenerate
<1>2. UNCHANGED <<round, level, answers>>
  BY DEF EndGenerate
<1>3. CASE broken # {}
  <2>1. PICK v : Return(v)
    BY <1>3 DEF EndGenerate
  <2> HIDE DEF broken
  <2> QED BY <1>1, <1>2, <2>1, ReturnAnswers
<1>4. CASE broken = {}
  <2>1. Solve(JobsNow)
    BY <1>4 DEF EndGenerate
  <2> HIDE DEF broken
  <2>2. JobsNow' = JobsNow /\ JobsNow \in SUBSET Jobs
    BY <1>2, JobSets DEF JobsNow
  <2>3. point' = "solve"
    BY <2>1 DEF Solve, Await
  <2>4. TasksNow' = Runs("validate", JobsNow) \cup Runs("solve", JobsNow)
    BY <2>2, <2>3 DEF TasksNow
  <2>5. ASSUME NEW t \in TasksNow' PROVE \E c \in Own' : t \in c.tasks
    <3>1. t.of \in JobsNow /\ (t = Run("validate", t.of) \/ t = Run("solve", t.of))
      BY <2>2, <2>4, TaskMembers DEF Run
    <3> QED BY <1>1, <1>2, <2>1, <2>2, <3>1, JudgeAll
  <2>6. ASSUME NEW c \in Own', NEW j \in Jobs
        PROVE  Run("solve", j) \in c.tasks <=> Run("validate", j) \in c.tasks
    <3>1. PICK U \in SUBSET JobsNow : c.tasks = Runs("validate", U) \cup Runs("solve", U)
      BY <1>1, <1>2, <2>1, <2>2, JudgeCalls
    <3>2. U \in SUBSET Jobs
      BY <2>2
    <3> QED BY <3>1, <3>2, RunMembers, TaskMembers
  <2>7. level' = "smoke" => \A j \in Jobs \ Smoke : /\ answers'[Run("generate", j)] = None
                                                   /\ answers'[Run("solve", j)] = None
    BY <1>1, <1>2 DEF AnswersInv
  <2> QED BY <2>3, <2>5, <2>6, <2>7 DEF AnswersInv
<1> QED BY <1>3, <1>4

LEMMA EndSolveAnswers == ASSUME Inv, AnswersInv, EndSolve PROVE AnswersInv'
<1> DEFINE broken == {j \in JobsNow : Answer("validate", j) # "ok" \/ Answer("solve", j) # "ok"}
<1>1. Own = {} /\ point = "solve"
  BY OverCalls DEF EndSolve
<1>2. UNCHANGED <<round, answers>>
  BY DEF EndSolve
<1>3. CASE broken # {} \/ ~ (level = "smoke" /\ Smoke # Jobs)
  <2>1. PICK v : Return(v)
    BY <1>3 DEF EndSolve
  <2> HIDE DEF broken
  <2> QED BY <1>1, <1>2, <2>1, ReturnAnswers
<1>4. CASE broken = {} /\ level = "smoke" /\ Smoke # Jobs
  <2>1. Generate(Jobs \ Smoke) /\ level' = "complete"
    BY <1>4 DEF EndSolve
  <2> HIDE DEF broken
  <2>2. JobsNow' = Jobs \ Smoke
    BY <2>1 DEF JobsNow
  <2>3. /\ point' = "generate"
        /\ \A c \in Own' : c.tasks \subseteq Runs("generate", Jobs \ Smoke)
        /\ \A j \in Jobs \ Smoke : \E c \in Own' : Generated(j) \in c.tasks
    BY <1>1, <1>2, <2>1, GenerateCalls, JobSets
  <2>4. \A t \in TasksNow' : \E c \in Own' : t \in c.tasks
    BY <2>2, <2>3, TaskMembers, JobSets DEF TasksNow, Generated
  <2>5. \A c \in Own' : \A j \in Jobs :
          Run("solve", j) \notin c.tasks /\ Run("validate", j) \notin c.tasks
    BY <2>3, TaskMembers, RunMembers, JobSets
  <2>6. \A j \in Jobs \ Smoke : answers'[Run("solve", j)] = None
    BY <1>1, <1>2, <1>4 DEF AnswersInv
  <2> QED BY <2>1, <2>2, <2>3, <2>4, <2>5, <2>6 DEF AnswersInv
<1> QED BY <1>3, <1>4

LEMMA NextAnswers == Inv /\ AnswersInv /\ [Next]_vars => AnswersInv'
<1> SUFFICES ASSUME Inv, AnswersInv, [Next]_vars PROVE AnswersInv'
  OBVIOUS
<1>1. ASSUME NEW F \in Candidates, Verify(F) PROVE AnswersInv'
  BY <1>1, VerifyAnswers
<1>2. CASE EndCompile
  BY <1>2, EndCompileAnswers
<1>3. CASE EndGenerate
  BY <1>3, EndGenerateAnswers
<1>4. CASE EndSolve
  BY <1>4, EndSolveAnswers
<1>5. ASSUME NEW c \in calls, StartCall(c) \/ EndCall(c) \/ RaiseCall(c) PROVE AnswersInv'
  BY <1>5, StartCallAnswers, EndCallAnswers, RaiseCallAnswers
<1>6. CASE UNCHANGED vars
  <2>1. /\ TasksNow' = TasksNow /\ JobsNow' = JobsNow /\ Own' = Own
        /\ UNCHANGED <<point, level, answers>>
    BY <1>6 DEF vars, TasksNow, JobsNow, Own
  <2>2. \A t : Answered(t)' <=> Answered(t)
    BY <2>1 DEF Answered
  <2>3. point' # "idle" => \A t \in TasksNow' : Answered(t)' \/ \E e \in Own' : t \in e.tasks
    BY <2>1, <2>2 DEF AnswersInv
  <2> QED BY <2>1, <2>3 DEF AnswersInv
<1> QED BY <1>1, <1>2, <1>3, <1>4, <1>5, <1>6 DEF Next, Settle, Resume, Done

-----------------------------------------------------------------------------
\* The preview leaves nothing out: two inputs that look the same are the same.
PreviewWhole == \A i \in Inputs : i.cut = 0

Cause == BlameFits /\ (PreviewWhole => RefusedForCause)

\* A single failing check is asked for its target; without a check there is none.
LEMMA TargetOne ==
  ASSUME NEW v, NEW check, v.failing = {check}
  PROVE  RepairTarget(v) = TargetOf(check)
<1> DEFINE targets == {TargetOf(d) : d \in v.failing}
<1>1. targets = {TargetOf(check)}
  OBVIOUS
<1>2. Cardinality({TargetOf(check)}) = 1
  BY FS_Singleton
<1>3. (CHOOSE t \in {TargetOf(check)} : TRUE) = TargetOf(check)
  OBVIOUS
<1> QED BY <1>1, <1>2, <1>3 DEF RepairTarget

LEMMA RefusedFor ==
  ASSUME NEW v, NEW category, NEW check, v = Refused(category, {check})
  PROVE  RepairTarget(v) = TargetOf(check)
<1>1. v.failing = {check}
  BY DEF Refused
<1> QED BY <1>1, TargetOne

LEMMA TargetSome ==
  ASSUME NEW v, RepairTarget(v) # None
  PROVE  \E check \in v.failing : TargetOf(check) = RepairTarget(v)
<1> DEFINE targets == {TargetOf(d) : d \in v.failing}
<1>1. Cardinality(targets) = 1 /\ RepairTarget(v) = CHOOSE t \in targets : TRUE
  BY DEF RepairTarget
<1>2. targets # {}
  <2> HIDE DEF targets
  <2> QED BY <1>1, FS_EmptySet
<1>3. RepairTarget(v) \in targets
  BY <1>1, <1>2
<1> QED BY <1>3

\* A check as the verifier records it, of a program and of a job.
RoleCheck(op, r) == [Check(op) EXCEPT !.role = r]
JobCheck(op, j) == [Check(op) EXCEPT !.job = j]

LEMMA CheckTargets ==
  /\ \A op : Check(op).op = op /\ Check(op).role = None
  /\ \A op, j : JobCheck(op, j).op = op /\ JobCheck(op, j).role = None
  /\ \A op, r : RoleCheck(op, r).op = op /\ RoleCheck(op, r).role = r
BY DEF Check, JobCheck, RoleCheck

LEMMA TargetsOfOps ==
  /\ \A j : /\ TargetOf(JobCheck("generate", j)) = "generator"
            /\ TargetOf(JobCheck("validate", j)) = "generator"
            /\ TargetOf(JobCheck("solve", j)) = None
            /\ TargetOf(JobCheck("construction_diversity", j)) = "generator"
  /\ TargetOf(RoleCheck("compile", "generator")) = "generator"
  /\ TargetOf(RoleCheck("compile", "validator")) = "validator"
  /\ TargetOf(RoleCheck("compile", "solution")) = None
<1>1. None \notin Roles
  BY NoneAssumption
<1> QED BY <1>1, CheckTargets DEF TargetOf, Roles

\* A verdict that stands: what it was given for does not change.
LEMMA Standing ==
  ASSUME Cause, verdict' = verdict, Returned => UNCHANGED <<faults, answers, made, seen>>
  PROVE  Cause'
<1>1. CASE Returned
  <2>1. UNCHANGED <<faults, answers, made, seen, verdict>>
    BY <1>1
  <2>2. Alike' = Alike /\ (Returned' <=> Returned)
    BY <2>1 DEF Alike, Returned
  <2>3. \A op, of : Fails(op, of)' <=> Fails(op, of)
    BY <2>1 DEF Fails
  <2>4. \A p : Blames(p)' <=> Blames(p)
    BY <2>1, <2>2 DEF Blames
  <2>5. BlameFits'
    BY <2>1, <2>2, <2>3, <2>4 DEF Cause, BlameFits
  <2>6. PreviewWhole => RefusedForCause'
    BY <2>1, <2>2, <2>3 DEF Cause, RefusedForCause
  <2> QED BY <2>5, <2>6 DEF Cause
<1>2. CASE ~ Returned
  BY <1>2 DEF Cause, BlameFits, RefusedForCause, Blames, Returned
<1> QED BY <1>1, <1>2

\* No verdict, no blame.
LEMMA Unreturned == ASSUME verdict' \in {None, Raised} PROVE Cause'
BY DEF Cause, BlameFits, RefusedForCause, Blames, Returned

\* The first fault is one of the faults.
LEMMA FirstFault ==
  ASSUME NEW F \in SUBSET StaticChecks, F # {}
  PROVE  (CHOOSE f \in F : \A g \in F : Rank[f] <= Rank[g]) \in F
<1> DEFINE ranks == {Rank[f] : f \in F}
<1>1. \A f \in F : Rank[f] \in Nat
  BY DEF Rank, StaticChecks
<1>2. ranks \in SUBSET Nat /\ ranks # {}
  BY <1>1
<1> HIDE DEF ranks
<1>3. PICK n \in ranks : \A m \in ranks : n <= m
  BY <1>2, Least
<1> USE DEF ranks
<1>4. \E f \in F : \A g \in F : Rank[f] <= Rank[g]
  BY <1>3
<1> QED BY <1>4

LEMMA VerifyCause == ASSUME Inv, NEW F \in Candidates, Verify(F) PROVE Cause'
<1>1. faults' = F
  BY DEF Verify
<1>2. CASE F = {}
  BY <1>2, Unreturned DEF Verify
<1>3. CASE F # {}
  <2>1. verdict' = StaticVerdict(F)
    BY <1>3 DEF Verify
  <2>2. F \in SUBSET StaticChecks
    BY PlanAssumption
  <2>3. \A check \in StaticVerdict(F).failing : \E g \in F : check = Check(g)
    <3> DEFINE f == CHOOSE f \in F : \A g \in F : Rank[f] <= Rank[g]
    <3>1. f \in F
      BY <1>3, <2>2, FirstFault
    <3> HIDE DEF f
    <3> QED BY <3>1, CheckTargets DEF StaticVerdict, f
  <2>4. ASSUME NEW program \in Roles, RepairTarget(StaticVerdict(F)) = program
        PROVE  \E g \in F : TargetOf(Check(g)) = program
    BY <2>3, <2>4, TargetSome, NoneAssumption
  <2>5. \A g \in F : /\ g \in StaticChecks
                     /\ Check(g).role \notin {"generator", "validator"} /\ Check(g).op = g
    BY <2>2, CheckTargets, NoneAssumption DEF Roles
  <2>6. Blames("generator")' =>
          faults' \cap {"generator_library_usage", "generator_runtime_parameters"} # {}
    BY <1>1, <2>1, <2>4, <2>5, NoneAssumption DEF Blames, Roles, TargetOf, StaticChecks
  <2>7. Blames("validator")' => "testlib_usage" \in faults'
    BY <1>1, <2>1, <2>4, <2>5, NoneAssumption DEF Blames, Roles, TargetOf, StaticChecks
  <2>8. RefusedForCause'
    BY <1>1, <1>3 DEF RefusedForCause
  <2> QED BY <2>6, <2>7, <2>8 DEF Cause, BlameFits
<1> QED BY <1>2, <1>3

LEMMA CallCause ==
  ASSUME Inv, Cause, NEW c \in calls, StartCall(c) \/ EndCall(c) \/ RaiseCall(c)
  PROVE  Cause'
<1>1. Returned => c \notin Own
  BY DEF Inv, CallsInv, Returned
<1>2. CASE StartCall(c)
  BY <1>2, Standing DEF StartCall
<1>3. CASE EndCall(c)
  <2>1. verdict' = verdict /\ UNCHANGED <<faults, seen>>
    BY <1>3 DEF EndCall
  <2>2. Returned => answers' = answers /\ made' = made
    BY <1>1, <1>3 DEF EndCall, Own
  <2> QED BY <2>1, <2>2, Standing
<1>4. CASE RaiseCall(c)
  <2>1. UNCHANGED <<faults, answers, made, seen>>
    BY <1>4 DEF RaiseCall
  <2>2. verdict' = verdict \/ verdict' = Raised
    BY <1>4 DEF RaiseCall
  <2> QED BY <2>1, <2>2, Standing, Unreturned
<1> QED BY <1>2, <1>3, <1>4

\* A gather that is over has all its answers.
LEMMA AllAnswered ==
  ASSUME Inv, AnswersInv, Own = {}, point # "idle"
  PROVE  /\ \A t \in TasksNow : t.op # "solve" => answers[t] \in Answers
         /\ \A t \in TasksNow : t.op = "solve" /\ answers[Run("validate", t.of)] = "ok"
                                => answers[t] \in Answers
<1>1. \A t \in TasksNow : t \in Tasks
  BY TaskMembers, JobSets DEF TasksNow
<1>2. \A t \in TasksNow : Answered(t)
  BY DEF AnswersInv
<1>3. \A t \in Tasks : answers[t] \in Answers \cup {None}
  BY DEF Inv, Typed
<1> QED BY <1>1, <1>2, <1>3 DEF Answered

LEMMA EndCompileCause == ASSUME Inv, AnswersInv, EndCompile PROVE Cause'
<1> DEFINE broken == {r \in Roles : Answer("compile", r) # "ok"}
           role == IF "solution" \in broken THEN "solution"
                   ELSE IF "generator" \in broken THEN "generator" ELSE "validator"
           check == RoleCheck("compile", role)
<1>1. Own = {} /\ point = "compile" /\ verdict = None
  BY OverCalls DEF EndCompile
<1>2. UNCHANGED <<faults, answers, made, seen>>
  BY DEF EndCompile
<1>3. CASE broken = {}
  <2>1. verdict' = None
    BY <1>1, <1>3 DEF EndCompile, Generate, Await
  <2> QED BY <2>1, Unreturned
<1>4. CASE broken # {}
  <2>1. PICK category : verdict' = Refused(category, {check})
    BY <1>4 DEF EndCompile, Return, RoleCheck
  <2>2. RepairTarget(verdict') = TargetOf(check)
    BY <2>1, RefusedFor
  <2>3. role \in broken /\ role \in Roles
    BY <1>4 DEF Roles
  <2>4. \A r \in Roles : [op |-> "compile", of |-> r] \in Compiles
    BY DEF Compiles
  <2>5. ASSUME NEW r \in Roles PROVE answers[[op |-> "compile", of |-> r]] \in Answers
    <3> DEFINE t == [op |-> "compile", of |-> r]
    <3>1. t \in TasksNow /\ t.op # "solve"
      BY <1>1, <2>4 DEF TasksNow
    <3> HIDE DEF t
    <3>2. answers[t] \in Answers
      BY <1>1, <3>1, AllAnswered
    <3> QED BY <3>2 DEF t
  <2>6. \A r \in broken : Fails("compile", r)' /\ [op |-> "compile", of |-> r] \in Tasks
    BY <1>2, <2>4, <2>5, TaskMembers DEF Answers, Answer, Fails
  <2>7. \A r \in Roles \ broken : answers'[[op |-> "compile", of |-> r]] = "ok"
    BY <1>2 DEF Answer
  <2> HIDE DEF broken
  <2>14. /\ role = "generator" => "solution" \notin broken
         /\ role = "validator" => "solution" \notin broken /\ "generator" \notin broken
    OBVIOUS
  <2> HIDE DEF role
  <2>15. TargetOf(check) = IF role = "solution" THEN None ELSE role
    <3>1. role = "solution" \/ role = "generator" \/ role = "validator"
      BY <2>3 DEF Roles
    <3>2. CASE role = "solution"
      BY <3>2, TargetsOfOps
    <3>3. CASE role = "generator"
      BY <3>3, TargetsOfOps
    <3>4. CASE role = "validator"
      BY <3>4, TargetsOfOps
    <3> QED BY <3>1, <3>2, <3>3, <3>4
  <2> HIDE DEF check
  <2>16. "generator" # None /\ "validator" # None
    BY NoneAssumption DEF Roles
  <2>8. TargetOf(check) = "generator" => role = "generator"
    BY <2>15, <2>16
  <2>9. TargetOf(check) = "validator" => role = "validator"
    BY <2>15, <2>16
  <2>10. TargetOf(check) = None => role = "solution"
    BY <2>3, <2>15, <2>16 DEF Roles
  <2>11. Blames("generator")' =>
           Fails("compile", "generator")' /\ answers'[[op |-> "compile", of |-> "solution"]] = "ok"
    BY <2>2, <2>3, <2>6, <2>7, <2>8, <2>14 DEF Blames, Roles
  <2>12. Blames("validator")' =>
           /\ Fails("compile", "validator")'
           /\ \A r \in Roles \ {"validator"} : answers'[[op |-> "compile", of |-> r]] = "ok"
    BY <2>2, <2>3, <2>6, <2>7, <2>9, <2>14 DEF Blames, Roles
  <2>13. RefusedForCause'
    <3>1. \E t \in Tasks : answers'[t] \in {"failed", "late"}
      BY <2>3, <2>6 DEF Fails
    <3>2. RepairTarget(verdict') = None => Fails("compile", "solution")'
      BY <2>2, <2>3, <2>6, <2>10
    <3> QED BY <3>1, <3>2 DEF RefusedForCause
  <2> QED BY <2>11, <2>12, <2>13 DEF Cause, BlameFits
<1> QED BY <1>3, <1>4

LEMMA EndGenerateCause == ASSUME Inv, AnswersInv, EndGenerate PROVE Cause'
<1> DEFINE broken == {j \in JobsNow : Answer("generate", j) # "ok"}
<1>1. Own = {} /\ point = "generate" /\ verdict = None
  BY OverCalls DEF EndGenerate
<1>2. UNCHANGED <<faults, answers, made>>
  BY DEF EndGenerate
<1>3. CASE broken = {}
  <2>1. verdict' = None
    BY <1>1, <1>3 DEF EndGenerate, Solve, Await
  <2> QED BY <2>1, Unreturned
<1>4. CASE broken # {}
  <2>1. PICK job, category :
          job = First(broken) /\ verdict' = Refused(category, {JobCheck("generate", job)})
    BY <1>4 DEF EndGenerate, Return, JobCheck
  <2>2. RepairTarget(verdict') = "generator"
    BY <2>1, RefusedFor, TargetsOfOps
  <2>3. broken \in SUBSET Jobs
    BY JobSets
  <2> HIDE DEF broken
  <2>4. job \in broken /\ \A k \in broken : ~ Before(k, job)
    BY <1>4, <2>1, <2>3, FirstLeast
  <2>5. broken \subseteq JobsNow /\ \A j \in JobsNow : answers[Run("generate", j)] = "ok" \/ j \in broken
    BY DEF broken, Answer, Run
  <2>6. Run("generate", job) \in TasksNow /\ Run("generate", job).op # "solve"
    BY <1>1, <2>4, <2>5, JobSets, RunMembers DEF TasksNow
  <2>7. answers[Run("generate", job)] \in Answers
    BY <1>1, <2>6, AllAnswered
  <2>8. answers[Run("generate", job)] # "ok"
    BY <2>4 DEF broken, Answer, Run
  <2>9. Fails("generate", job)' /\ job \in Jobs
    BY <1>2, <2>3, <2>4, <2>7, <2>8 DEF Fails, Answers, Run
  <2>10. ASSUME NEW k \in Jobs, Before(k, job)
         PROVE  answers[Run("generate", k)] \in {"ok", None} /\ answers[Run("solve", k)] \in {"ok", None}
    <3>1. CASE k \in JobsNow
      BY <1>1, <2>4, <2>5, <2>10, <3>1 DEF AnswersInv
    <3>2. CASE k \notin JobsNow /\ level = "smoke"
      BY <1>1, <3>2 DEF AnswersInv, JobsNow
    <3>3. CASE k \notin JobsNow /\ level = "complete"
      BY <1>1, <3>3 DEF Inv, ProgressInv, JobsNow, Run
    <3> QED BY <3>1, <3>2, <3>3 DEF Inv, Typed
  <2>11. \A k \in Jobs : Before(k, job) => ~ Fails("solve", k)' /\ ~ Fails("generate", k)'
    BY <1>2, <2>10, NoneAssumption DEF Fails, Run, Answers
  <2>12. RefusedForCause'
    <3>1. Run("generate", job) \in Tasks /\ answers'[Run("generate", job)] \in {"failed", "late"}
      BY <2>9, RunMembers DEF Fails, Run
    <3> QED BY <2>2, <3>1, NoneAssumption DEF RefusedForCause, Roles
  <2>13. BlameFits'
    BY <2>2, <2>9, <2>11 DEF BlameFits, Blames
  <2> QED BY <2>12, <2>13 DEF Cause
<1> QED BY <1>3, <1>4

\* A job that is refused after its run was judged.
LEMMA UnsolvedCause ==
  ASSUME Inv, AnswersInv, Own = {}, point = "solve", NEW job \in JobsNow,
         Answer("validate", job) # "ok" \/ Answer("solve", job) # "ok",
         \A k \in JobsNow : Before(k, job) => Answer("validate", k) = "ok" /\ Answer("solve", k) = "ok",
         verdict' = Unsolved(job), UNCHANGED <<faults, answers, made, seen>>
  PROVE  Cause'
<1>0. job \in Jobs
  BY JobSets
<1>1. Run("validate", job) \in TasksNow /\ Run("solve", job) \in TasksNow
  BY JobSets, RunMembers DEF TasksNow
<1>2. /\ answers[Run("validate", job)] \in Answers
      /\ answers[Run("validate", job)] = "ok" => answers[Run("solve", job)] \in Answers
  BY <1>1, AllAnswered, RunMembers
<1>3. ASSUME NEW k \in Jobs, Before(k, job)
      PROVE  answers[Run("generate", k)] \in {"ok", None} /\ answers[Run("solve", k)] \in {"ok", None}
  <2>1. CASE k \in JobsNow
    BY <1>3, <2>1 DEF Inv, ProgressInv, Answer, Run, Generated
  <2>2. CASE k \notin JobsNow /\ level = "smoke"
    BY <2>2 DEF AnswersInv, JobsNow
  <2>3. CASE k \notin JobsNow /\ level = "complete"
    BY <2>3 DEF Inv, ProgressInv, JobsNow, Run
  <2> QED BY <2>1, <2>2, <2>3 DEF Inv, Typed
<1>4. \A k \in Jobs : Before(k, job) => ~ Fails("solve", k)' /\ ~ Fails("generate", k)'
  BY <1>3, NoneAssumption DEF Fails, Run, Answers
<1>5. CASE Answer("validate", job) # "ok"
  <2>1. PICK category :
          verdict' = Refused(category, {JobCheck("validate", job)})
    BY <1>5 DEF Unsolved, JobCheck
  <2>2. RepairTarget(verdict') = "generator"
    BY <2>1, RefusedFor, TargetsOfOps
  <2>3. Fails("validate", job)'
    BY <1>2, <1>5 DEF Fails, Answers, Answer, Run
  <2>4. Run("validate", job) \in Tasks /\ answers'[Run("validate", job)] \in {"failed", "late"}
    BY <1>0, <2>3, RunMembers DEF Fails, Run
  <2>5. BlameFits'
    BY <1>0, <1>4, <2>2, <2>3 DEF BlameFits, Blames
  <2>6. RefusedForCause'
    BY <2>2, <2>4, NoneAssumption DEF RefusedForCause, Roles
  <2> QED BY <2>5, <2>6 DEF Cause
<1>6. CASE Answer("validate", job) = "ok"
  <2>1. answers[Run("solve", job)] \in {"failed", "late"}
    BY <1>2, <1>6 DEF Answers, Answer, Run
  <2>2. Answer("solve", job) # None
    BY <1>2, <1>6, NoneAssumption DEF Answer, Run
  <2>3. PICK category :
          verdict' = Refused(category, {JobCheck("solve", job)})
    BY <1>6, <2>2 DEF Unsolved, JobCheck
  <2>4. RepairTarget(verdict') = None
    BY <2>3, RefusedFor, TargetsOfOps
  <2>5. Fails("solve", job)'
    BY <2>1 DEF Fails, Run
  <2>6. Run("solve", job) \in Tasks /\ answers'[Run("solve", job)] \in {"failed", "late"}
    BY <1>0, <2>1, RunMembers
  <2>7. BlameFits'
    BY <2>4, NoneAssumption DEF BlameFits, Blames, Roles
  <2>8. RefusedForCause'
    BY <1>0, <2>5, <2>6 DEF RefusedForCause
  <2> QED BY <2>7, <2>8 DEF Cause
<1> QED BY <1>5, <1>6

\* All its runs are fine and it is refused: a free case has two seeds of one input.
LEMMA ConclusionCause ==
  ASSUME Inv, \A t \in Tasks : answers[t] = "ok", \A j \in Jobs : seen[j] # None,
         verdict' = Conclusion, UNCHANGED <<faults, answers, made, seen>>
  PROVE  Cause'
<1>1. CASE Alike = {}
  BY <1>1 DEF Conclusion, Cause, BlameFits, RefusedForCause, Blames
<1>2. CASE Alike # {}
  <2>1. PICK job : verdict' = Refused("generation", {JobCheck("construction_diversity", job)})
    BY <1>2 DEF Conclusion, JobCheck
  <2>2. RepairTarget(verdict') = "generator"
    BY <2>1, RefusedFor, TargetsOfOps
  <2>3. Alike' # {}
    BY <1>2 DEF Alike
  <2>4. BlameFits'
    BY <2>2, <2>3 DEF BlameFits, Blames
  <2>5. PICK c \in Cases : c \in Alike /\ ~ Plan[c].fixed
    BY <1>2 DEF Alike
  <2>6. <<c, 0>> \in Jobs /\ <<c, 1>> \in Jobs
    <3>1. Trials \in Nat \ {0}
      BY PlanAssumption
    <3>2. 0 \in 0 .. Trials /\ 1 \in 0 .. Trials
      BY <3>1
    <3>3. 0 < TrialCount(c) /\ 1 < TrialCount(c)
      BY <2>5, <3>1 DEF TrialCount
    <3> QED BY <3>2, <3>3 DEF Jobs
  <2>7. seen[<<c, 0>>] = seen[<<c, 1>>]
    BY <2>5, <2>6, AlikeSame
  <2>8. ASSUME NEW j \in Jobs PROVE made[j] \in Inputs /\ seen[j] = Shown(made[j])
    BY DEF Inv, Typed, InputsInv, OwnInputs
  <2>9. PreviewWhole => made[<<c, 0>>] = made[<<c, 1>>]
    BY <2>6, <2>7, <2>8 DEF PreviewWhole, Shown
  <2>10. PreviewWhole => RefusedForCause'
    <3>1. <<c, 0>> # <<c, 1>> /\ <<c, 0>>[1] = <<c, 1>>[1]
      OBVIOUS
    <3>2. PreviewWhole => \E j, k \in Jobs : j # k /\ j[1] = k[1] /\ made'[j] = made'[k]
      BY <2>6, <2>9, <3>1
    <3> QED BY <2>2, <3>2, NoneAssumption DEF RefusedForCause, Roles
  <2> QED BY <2>4, <2>10 DEF Cause
<1> QED BY <1>1, <1>2

\* When the last gather is over, and fine, every run of the verification is.
LEMMA AllPassed ==
  ASSUME Inv, point = "solve", ~ (level = "smoke" /\ Smoke # Jobs),
         \A j \in JobsNow : answers[Run("validate", j)] = "ok" /\ answers[Run("solve", j)] = "ok"
  PROVE  (\A t \in Tasks : answers[t] = "ok") /\ (\A j \in Jobs : seen[j] # None)
<1>1. \A j \in JobsNow : answers[Run("generate", j)] = "ok" /\ seen[j] # None
  BY DEF Inv, ProgressInv, Generated, Run
<1>2. ASSUME NEW j \in Jobs
      PROVE  /\ \A op \in {"generate", "validate", "solve"} : answers[Run(op, j)] = "ok"
             /\ seen[j] # None
  <2>1. CASE j \in JobsNow
    BY <1>1, <2>1
  <2>2. CASE j \notin JobsNow
    <3>1. level = "complete" /\ j \in Smoke
      BY <2>2 DEF Inv, Typed, JobsNow
    <3> QED BY <3>1 DEF Inv, ProgressInv, Run
  <2> QED BY <2>1, <2>2
<1>3. ASSUME NEW t \in Tasks PROVE answers[t] = "ok"
  <2>1. CASE t \in Compiles
    BY <2>1 DEF Inv, ProgressInv
  <2>2. CASE t \notin Compiles
    <3>1. t.of \in Jobs /\ t.op \in {"generate", "validate", "solve"} /\ t = Run(t.op, t.of)
      BY <2>2, TaskMembers DEF Run
    <3> QED BY <1>2, <3>1
  <2> QED BY <2>1, <2>2
<1> QED BY <1>2, <1>3

LEMMA EndSolveCause == ASSUME Inv, AnswersInv, EndSolve PROVE Cause'
<1> DEFINE broken == {j \in JobsNow : Answer("validate", j) # "ok" \/ Answer("solve", j) # "ok"}
<1>1. Own = {} /\ point = "solve" /\ verdict = None
  BY OverCalls DEF EndSolve
<1>2. UNCHANGED <<faults, answers, made, seen>>
  BY DEF EndSolve
<1>3. CASE broken # {}
  <2>1. verdict' = Unsolved(First(broken))
    BY <1>3 DEF EndSolve, Return
  <2>2. broken \in SUBSET Jobs
    BY JobSets
  <2>3. PICK job \in broken : job = First(broken) /\ \A k \in broken : ~ Before(k, job)
    <3> HIDE DEF broken
    <3> QED BY <1>3, <2>2, FirstLeast
  <2>4. \A k \in JobsNow : Before(k, job) => Answer("validate", k) = "ok" /\ Answer("solve", k) = "ok"
    BY <2>3
  <2>5. job \in JobsNow /\ (Answer("validate", job) # "ok" \/ Answer("solve", job) # "ok")
    BY <2>3
  <2> HIDE DEF broken
  <2> QED BY <1>1, <1>2, <2>1, <2>3, <2>4, <2>5, UnsolvedCause
<1>4. CASE broken = {} /\ level = "smoke" /\ Smoke # Jobs
  <2>1. verdict' = None
    BY <1>1, <1>4 DEF EndSolve, Generate, Await
  <2> QED BY <2>1, Unreturned
<1>5. CASE broken = {} /\ ~ (level = "smoke" /\ Smoke # Jobs)
  <2>1. verdict' = Conclusion
    BY <1>5 DEF EndSolve, Return
  <2>2. (\A t \in Tasks : answers[t] = "ok") /\ (\A j \in Jobs : seen[j] # None)
    <3>1. \A j \in JobsNow : answers[Run("validate", j)] = "ok" /\ answers[Run("solve", j)] = "ok"
      BY <1>5 DEF Answer, Run
    <3> HIDE DEF broken
    <3> QED BY <1>1, <1>5, <3>1, AllPassed
  <2> HIDE DEF broken
  <2> QED BY <1>2, <2>1, <2>2, ConclusionCause
<1> QED BY <1>3, <1>4, <1>5

LEMMA NextCause == Inv /\ AnswersInv /\ Cause /\ [Next]_vars => Cause'
<1> SUFFICES ASSUME Inv, AnswersInv, Cause, [Next]_vars PROVE Cause'
  OBVIOUS
<1>1. ASSUME NEW F \in Candidates, Verify(F) PROVE Cause'
  BY <1>1, VerifyCause
<1>2. CASE EndCompile
  BY <1>2, EndCompileCause
<1>3. CASE EndGenerate
  BY <1>3, EndGenerateCause
<1>4. CASE EndSolve
  BY <1>4, EndSolveCause
<1>5. ASSUME NEW c \in calls, StartCall(c) \/ EndCall(c) \/ RaiseCall(c) PROVE Cause'
  BY <1>5, CallCause
<1>6. CASE UNCHANGED vars
  BY <1>6, Standing DEF vars
<1> QED BY <1>1, <1>2, <1>3, <1>4, <1>5, <1>6 DEF Next, Settle, Resume, Done

LEMMA CauseInv == Spec => [](Inv /\ AnswersInv /\ Cause)
<1>1. Init => Inv /\ AnswersInv /\ Cause
  <2>1. Init => Cause
    BY DEF Init, Cause, BlameFits, RefusedForCause, Blames, Returned
  <2> QED BY <2>1, InitInv, InitAnswers
<1>2. (Inv /\ AnswersInv /\ Cause) /\ [Next]_vars => (Inv /\ AnswersInv /\ Cause)'
  BY NextInv, NextAnswers, NextCause
<1> QED BY <1>1, <1>2, PTL DEF Spec

\* The program that is asked to be rewritten is the one whose own run failed first
\* (or the generator, whose input the validator refused), for every plan and every
\* order in which the containers answer.
THEOREM BlameIsRight == Spec => []BlameFits
<1>1. Cause => BlameFits
  BY DEF Cause
<1> QED BY CauseInv, <1>1, PTL

\* No candidate is refused without a cause, as long as the preview shows the inputs
\* whole: of longer ones the verifier compares what it kept.
THEOREM RefusalHasCause == ASSUME PreviewWhole PROVE Spec => []RefusedForCause
<1>1. Cause => RefusedForCause
  BY DEF Cause
<1> QED BY CauseInv, <1>1, PTL
=============================================================================
