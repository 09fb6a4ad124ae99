---------------------------- MODULE ModelSettings ----------------------------
(***************************************************************************)
(* The model configuration while it is in use: PUT and POST                *)
(* /api/settings/model behind their lock, the settings every call reads,   *)
(* the HTTP client of each model object, and the calls of running tasks.   *)
(*                                                                         *)
(* The configuration is persisted, taken over and applied without an await *)
(* in between, so one variable stands for the file and the settings.       *)
(***************************************************************************)
EXTENDS Naturals, Sequences

CONSTANTS
  None,       \* the absent value
  Tasks,      \* projects that may run a task
  Requests,   \* clients of the settings
  Names,      \* model_name, with the address it goes with
  Keys,       \* API keys
  MaxModels   \* bound: model objects in the life of a process

ASSUME SettingsAssumption == MaxModels \in Nat \ {0}
ASSUME NoneAssumption == None \notin Keys \cup (1..MaxModels)

VARIABLES
  config,  \* ModelConfigurationService._config, Settings and the file
  cur,     \* the model the graphs point at
  client,  \* the HTTP client of every model
  task,    \* the task of every project
  queue,   \* settings requests in the order they get service.lock
  at,      \* what its holder is at
  broken   \* history: `swapped' of the tasks that ended with an exception which is no AppError

vars == <<config, cur, client, task, queue, at, broken>>

Models == 1..MaxModels
Config == [name: Names, key: Keys \cup {None}]
Update == [name: Names, key: Keys \cup {None}, clear: BOOLEAN]

\* model is the one the policy of the present run was given, left the attempts of
\* its call. History: cfg, the configuration the task began with; swapped, was a save that
\* had waited for the lock applied under it?
Task == [at: {"idle", "running", "posted"}, model: Models \cup {None}, left: 0..2,
         cfg: Config \cup {None}, swapped: BOOLEAN]
NoTask == [at |-> "idle", model |-> None, left |-> 0, cfg |-> None, swapped |-> FALSE]

\* new = None: POST .../test
Request == [by: Requests, new: Update \cup {None}]

TypeOK ==
  /\ config \in Config
  /\ cur \in Models
  /\ client \in [Models -> {"none", "open", "closing"}]
  /\ task \in [Tasks -> Task]
  /\ queue \in Seq(Request)
  /\ at \in {"free", "woken", "testing", "closing"}
  /\ broken \subseteq BOOLEAN

-----------------------------------------------------------------------------
(* The settings *)

\* has_active_tasks
Active == \E t \in Tasks : task[t].at # "idle"

\* resolve: the key is kept unless another is given or it is cleared.
Resolved(new) ==
  [name |-> new.name,
   key |-> IF new.clear THEN None ELSE IF new.key # None THEN new.key ELSE config.key]

\* The lock passes to the next request, which runs when it is woken.
Passed(q) ==
  /\ queue' = Tail(q)
  /\ at' = IF Tail(q) = <<>> THEN "free" ELSE "woken"

\* Mutant: the client in use is closed while the graphs still point at it.
ReplaceLate(q) ==
  /\ client' = [client EXCEPT ![cur] = IF @ = "open" THEN "closing" ELSE @]
  /\ UNCHANGED cur
  /\ IF client[cur] = "open" THEN queue' = q /\ at' = "closing" ELSE Passed(q)

\* replace_model: closing the client of the model before is the only await.
Replace(q) ==
  /\ cur' = cur + 1
  /\ client' = [client EXCEPT ![cur] = IF @ = "open" THEN "closing" ELSE @]
  /\ IF client[cur] = "open" THEN queue' = q /\ at' = "closing" ELSE Passed(q)

\* A test asks the service if there is a key, the one it brings or the one kept.
Serve(q) ==
  LET new == Head(q).new
  IN  IF new = None
        THEN /\ Passed(q) \/ (queue' = q /\ at' = "testing")
             /\ UNCHANGED <<config, cur, client>>
        ELSE config' = Resolved(new) /\ Replace(q)

\* Mutant: running tasks are not looked at.
Unguarded(new) == TRUE

\* MODEL_CONFIG_BUSY is decided here, before the lock is waited for.
MayAsk(new) == new = None \/ ~Active

Ask(r, new) ==
  /\ cur + Len(queue) < MaxModels
  /\ \A i \in DOMAIN queue : queue[i].by # r
  /\ MayAsk(new)
  /\ LET q == Append(queue, [by |-> r, new |-> new])
     IN  IF at = "free" THEN Serve(q)
         ELSE queue' = q /\ UNCHANGED <<config, cur, client, at>>
  /\ UNCHANGED <<task, broken>>

\* A save that has waited is applied whatever runs by now.
Wake ==
  /\ at = "woken"
  /\ Serve(queue)
  /\ task' = IF Head(queue).new = None THEN task
             ELSE [t \in Tasks |-> [task[t] EXCEPT !.swapped = task[t].at # "idle"]]
  /\ UNCHANGED broken

\* Mutant: a test that fails keeps the lock.
TestFails ==
  /\ at = "testing"
  /\ UNCHANGED vars

\* The test ends, well or not: the lock is given back in any case.
TestEnds ==
  /\ at = "testing"
  /\ Passed(queue)
  /\ UNCHANGED <<config, cur, client, task, broken>>

Closing == {m \in Models : client[m] = "closing"}

CloseEnds ==
  /\ at = "closing"
  /\ client' = [m \in Models |-> IF m \in Closing THEN "none" ELSE client[m]]
  /\ Passed(queue)
  /\ UNCHANGED <<config, cur, task, broken>>

-----------------------------------------------------------------------------
(* Tasks and their calls *)

TaskStarts(t) ==
  /\ task[t].at = "idle"
  /\ task' = [task EXCEPT ![t] = [at |-> "running", model |-> cur, left |-> 0,
                                 cfg |-> config, swapped |-> FALSE]]
  /\ UNCHANGED <<config, cur, client, queue, at, broken>>

\* The next agent's policy takes the model its graph points at.
NextRun(t) ==
  /\ task[t].at = "running"
  /\ task' = [task EXCEPT ![t].model = cur]
  /\ UNCHANGED <<config, cur, client, queue, at, broken>>

TaskEnds(t) ==
  /\ task[t].at = "running"
  /\ task' = [task EXCEPT ![t] = NoTask]
  /\ UNCHANGED <<config, cur, client, queue, at, broken>>

\* An attempt on a client that is closed raises a RuntimeError, one on no client
\* an AttributeError, and neither is caught.
Post(t, left) ==
  IF client'[task[t].model] = "open"
    THEN task' = [task EXCEPT ![t].at = "posted", ![t].left = left] /\ UNCHANGED broken
    ELSE task' = [task EXCEPT ![t] = NoTask] /\ broken' = broken \cup {task[t].swapped}

\* _call (two attempts) or _call_text (one); without a key it raises an AppError.
CallStarts(t, attempts) ==
  /\ task[t].at = "running" /\ config.key # None
  /\ client' = [client EXCEPT ![task[t].model] = IF @ = "none" THEN "open" ELSE @]
  /\ Post(t, attempts - 1)
  /\ UNCHANGED <<config, cur, queue, at>>

\* An answer, a contract failure, an error that is not tried again.
CallReturns(t) ==
  /\ task[t].at = "posted"
  /\ task' = [task EXCEPT ![t].at = "running", ![t].left = 0]
  /\ UNCHANGED <<config, cur, client, queue, at, broken>>

\* A status or transport error that is tried again.
CallRetries(t) ==
  /\ task[t].at = "posted" /\ task[t].left > 0
  /\ UNCHANGED client
  /\ Post(t, task[t].left - 1)
  /\ UNCHANGED <<config, cur, queue, at>>

\* The process stops: a new one starts with a new model.
Restart ==
  /\ client' = [m \in Models |-> "none"]
  /\ task' = [t \in Tasks |-> NoTask]
  /\ queue' = <<>> /\ at' = "free" /\ cur' = 1 /\ broken' = {}
  /\ UNCHANGED config

-----------------------------------------------------------------------------

Init ==
  /\ config \in Config
  /\ cur = 1
  /\ client = [m \in Models |-> "none"]
  /\ task = [t \in Tasks |-> NoTask]
  /\ queue = <<>> /\ at = "free" /\ broken = {}

Settling == Wake \/ TestEnds \/ CloseEnds

Next ==
  \/ Settling
  \/ \E r \in Requests, new \in Update \cup {None} : Ask(r, new)
  \/ \E t \in Tasks : \/ TaskStarts(t) \/ NextRun(t) \/ TaskEnds(t)
                      \/ CallReturns(t) \/ CallRetries(t)
                      \/ \E attempts \in 1..2 : CallStarts(t, attempts)
  \/ Restart

Spec == Init /\ [][Next]_vars

\* A test has its timeout and a client closes: the holder of the lock goes on.
FairSpec == Spec /\ WF_vars(Settling)
=============================================================================
