------------------------- MODULE ModelSettingsProofs -------------------------
(***************************************************************************)
(* For every set of tasks, requests and configurations: the model in use   *)
(* is never being closed; and tasks and settings keep out of each other's  *)
(* way, but for a save that has waited for the lock.                       *)
(***************************************************************************)
EXTENDS ModelSettingsProperties, SequenceTheorems, TLAPS

\* Models are handed out in order, and there is one left for every update let in.
Room ==
  /\ at = "free" <=> queue = <<>>
  /\ cur + Len(queue) <= IF at = "closing" THEN MaxModels + 1 ELSE MaxModels

\* A model not yet handed out has no client; a task's model was handed out.
Unused ==
  /\ \A m \in Models : m > cur => client[m] = "none"
  /\ \A t \in Tasks : task[t].at # "idle" => task[t].model \in Models /\ task[t].model <= cur

Inv == TypeOK /\ Room /\ Unused /\ CurrentServes

-----------------------------------------------------------------------------

\* A project without a task.
LEMMA NoTaskFacts == NoTask \in Task /\ NoTask.at = "idle" /\ ~NoTask.swapped
<1>1. 0 \in 0..2
  OBVIOUS
<1>2. NoTask \in Task
  BY <1>1 DEF NoTask, Task
<1> QED BY <1>2 DEF NoTask

\* The first state.
LEMMA InitInv == Init => Inv
<1> SUFFICES ASSUME Init PROVE Inv
  OBVIOUS
<1>1. 1 \in Models /\ <<>> \in Seq(Request) /\ Len(<<>>) = 0
  BY SettingsAssumption DEF Models
<1>2. TypeOK
  BY <1>1, NoTaskFacts DEF Init, TypeOK
<1>3. Unused /\ CurrentServes
  BY <1>1, NoTaskFacts DEF Init, Unused, CurrentServes
<1>4. Room
  BY <1>1, SettingsAssumption DEF Init, Room
<1> QED BY <1>2, <1>3, <1>4 DEF Inv

\* Passing the lock keeps the count of models left.
LEMMA PassedRoom ==
  ASSUME NEW q \in Seq(Request), q # <<>>, Passed(q), cur' \in Nat,
         cur' + Len(q) <= MaxModels + 1, MaxModels \in Nat
  PROVE  queue' \in Seq(Request) /\ at' \in {"free", "woken"} /\ Room'
<1>1. Tail(q) \in Seq(Request) /\ Len(Tail(q)) = Len(q) - 1 /\ Len(q) \in Nat
  OBVIOUS
<1> QED BY <1>1 DEF Passed, Room

\* A configuration that was asked for is one.
LEMMA ResolvedType == ASSUME TypeOK, NEW new \in Update PROVE Resolved(new) \in Config
  BY DEF TypeOK, Resolved, Update, Config

\* A request that is served, at once or after it has waited.
LEMMA ServeInv ==
  ASSUME Inv, NEW q \in Seq(Request), q # <<>>, cur + Len(q) <= MaxModels, Serve(q),
         UNCHANGED broken, task' \in [Tasks -> Task],
         \A t \in Tasks : task'[t].at = task[t].at /\ task'[t].model = task[t].model
  PROVE  Inv'
<1> USE SettingsAssumption
<1>1. cur \in 1..MaxModels /\ Len(q) \in Nat /\ Len(q) >= 1 /\ Head(q) \in Request /\ q \in Seq(Request)
  BY DEF Inv, TypeOK, Models
<1>2. CASE Head(q).new = None
  <2>0. UNCHANGED <<config, cur, client>> /\ (Passed(q) \/ (queue' = q /\ at' = "testing"))
    BY <1>2 DEF Serve
  <2>1. CASE Passed(q)
    <3>1. queue' \in Seq(Request) /\ at' \in {"free", "woken"} /\ Room'
      BY <1>1, <2>0, <2>1, PassedRoom
    <3> QED BY <2>0, <3>1 DEF Inv, TypeOK, Unused, CurrentServes, Models
  <2>2. CASE queue' = q /\ at' = "testing"
    BY <1>1, <2>0, <2>2 DEF Inv, TypeOK, Room, Unused, CurrentServes, Models
  <2> QED BY <2>0, <2>1, <2>2
<1>3. CASE Head(q).new # None
  <2>1. config' \in Config
    BY <1>1, <1>3, ResolvedType DEF Serve, Inv, Request
  <2>2. cur' = cur + 1 /\ cur + 1 \in 1..MaxModels
        /\ client' = [client EXCEPT ![cur] = IF @ = "open" THEN "closing" ELSE @]
        /\ IF client[cur] = "open" THEN queue' = q /\ at' = "closing" ELSE Passed(q)
    BY <1>1, <1>3 DEF Serve, Replace
  <2>3. client \in [Models -> {"none", "open", "closing"}] /\ client[cur + 1] = "none"
    BY <1>1, <2>2 DEF Inv, TypeOK, Unused, Models
  <2>4. client' \in [Models -> {"none", "open", "closing"}] /\ client'[cur + 1] = "none"
        /\ \A m \in Models : m > cur + 1 => client'[m] = "none"
    BY <1>1, <2>2, <2>3 DEF Inv, Unused, Models
  <2>5. queue' \in Seq(Request) /\ at' \in {"free", "woken", "testing", "closing"} /\ Room'
    <3>1. CASE client[cur] = "open"
      BY <1>1, <2>2, <3>1 DEF Room
    <3>2. CASE client[cur] # "open"
      BY <1>1, <2>2, <3>2, PassedRoom
    <3> QED BY <3>1, <3>2
  <2>6. Unused'
    BY <1>1, <2>2, <2>4 DEF Inv, TypeOK, Unused, Models
  <2> QED BY <1>1, <2>1, <2>2, <2>4, <2>5, <2>6 DEF Inv, TypeOK, CurrentServes, Models
<1> QED BY <1>2, <1>3

\* A save that has waited marks the tasks it meets, and no others.
LEMMA WakeTask ==
  ASSUME Inv, Wake
  PROVE  /\ task' \in [Tasks -> Task]
         /\ \A t \in Tasks : /\ task'[t].at = task[t].at
                             /\ task'[t].model = task[t].model
                             /\ task'[t].cfg = task[t].cfg
                             /\ Head(queue).new # None /\ task[t].at # "idle" => task'[t].swapped
                             /\ ~task'[t].swapped /\ task[t].at # "idle" => ~task[t].swapped
<1>1. CASE Head(queue).new = None
  BY <1>1 DEF Wake, Inv, TypeOK
<1>2. CASE Head(queue).new # None
  <2> DEFINE mark(t) == [task[t] EXCEPT !.swapped = task[t].at # "idle"]
  <2>1. task' = [t \in Tasks |-> mark(t)]
    BY <1>2 DEF Wake
  <2>2. ASSUME NEW t \in Tasks
        PROVE  /\ mark(t) \in Task /\ mark(t).at = task[t].at /\ mark(t).model = task[t].model
               /\ mark(t).cfg = task[t].cfg /\ mark(t).swapped = (task[t].at # "idle")
    <3>1. task[t] \in Task
      BY DEF Inv, TypeOK
    <3> QED BY <3>1 DEF Task
  <2> HIDE DEF mark
  <2> QED BY <2>1, <2>2
<1> QED BY <1>1, <1>2

\* An attempt of a call.
LEMMA PostInv ==
  ASSUME Inv, NEW t \in Tasks, NEW left \in 0..2, task[t].at # "idle",
         client' \in [Models -> {"none", "open", "closing"}], Post(t, left)
  PROVE  /\ task' \in [Tasks -> Task] /\ broken' \subseteq BOOLEAN
         /\ \A u \in Tasks : task'[u].at # "idle" => task'[u].model \in Models /\ task'[u].model <= cur
<1>1. task[t] \in Task /\ task[t].model \in Models /\ task[t].model <= cur
  BY DEF Inv, TypeOK, Unused
<1> DEFINE posted == [task[t] EXCEPT !.at = "posted", !.left = left]
<1>2. posted \in Task /\ posted.model = task[t].model
  BY <1>1 DEF Task
<1>3. CASE client'[task[t].model] = "open"
  <2>1. task' = [task EXCEPT ![t] = posted] /\ UNCHANGED broken
    BY <1>1, <1>3 DEF Post, Inv, TypeOK, Task
  <2> HIDE DEF posted
  <2> QED BY <1>1, <1>2, <2>1 DEF Inv, TypeOK, Unused
<1>4. CASE client'[task[t].model] # "open"
  <2>1. task' = [task EXCEPT ![t] = NoTask] /\ broken' = broken \cup {task[t].swapped}
    BY <1>4 DEF Post
  <2>2. task[t].swapped \in BOOLEAN
    BY <1>1 DEF Task
  <2> QED BY NoTaskFacts, <2>1, <2>2 DEF Inv, TypeOK, Unused
<1> QED BY <1>3, <1>4

\* Every step keeps the invariant, with settings requests that overlap.
LEMMA NextInv ==
  ASSUME Inv, [Next]_vars
  PROVE  Inv'
<1> USE SettingsAssumption
<1>0. cur \in 1..MaxModels /\ Len(queue) \in Nat /\ queue \in Seq(Request)
  BY DEF Inv, TypeOK, Models
<1>1. ASSUME NEW r \in Requests, NEW new \in Update \cup {None}, Ask(r, new) PROVE Inv'
  <2> DEFINE req == [by |-> r, new |-> new]
             q == Append(queue, req)
  <2>1. req \in Request
    BY DEF Request
  <2> HIDE DEF req
  <2>2. q \in Seq(Request) /\ q # <<>> /\ Len(q) = Len(queue) + 1
    BY <1>0, <2>1
  <2>3. cur + Len(queue) < MaxModels /\ UNCHANGED <<task, broken>>
    BY <1>1 DEF Ask
  <2>4. IF at = "free" THEN Serve(q) ELSE queue' = q /\ UNCHANGED <<config, cur, client, at>>
    BY <1>1 DEF Ask, req
  <2> HIDE DEF q
  <2>5. CASE at = "free"
    <3>1. cur + Len(q) <= MaxModels
      BY <1>0, <2>2, <2>3
    <3>2. task \in [Tasks -> Task]
      BY DEF Inv, TypeOK
    <3> QED BY <2>2, <2>3, <2>4, <2>5, <3>1, <3>2, ServeInv
  <2>6. CASE at # "free"
    <3>1. Room'
      BY <1>0, <2>2, <2>3, <2>4, <2>6 DEF Inv, Room
    <3> QED BY <2>2, <2>3, <2>4, <2>6, <3>1 DEF Inv, TypeOK, Unused, CurrentServes
  <2> QED BY <2>5, <2>6
<1>2. ASSUME Wake PROVE Inv'
  <2>1. queue # <<>> /\ cur + Len(queue) <= MaxModels
    BY <1>2 DEF Wake, Inv, Room
  <2>2. /\ task' \in [Tasks -> Task]
        /\ \A t \in Tasks : task'[t].at = task[t].at /\ task'[t].model = task[t].model
    BY <1>2, WakeTask
  <2> QED BY <1>0, <1>2, <2>1, <2>2, ServeInv DEF Wake
<1>3. ASSUME TestEnds PROVE Inv'
  <2>1. queue # <<>> /\ cur + Len(queue) <= MaxModels /\ UNCHANGED <<config, cur, client, task, broken>>
        /\ Passed(queue)
    BY <1>3 DEF TestEnds, Inv, Room
  <2>2. queue' \in Seq(Request) /\ at' \in {"free", "woken"} /\ Room'
    BY <1>0, <2>1, PassedRoom
  <2> QED BY <2>1, <2>2 DEF Inv, TypeOK, Unused, CurrentServes
<1>4. ASSUME CloseEnds PROVE Inv'
  <2>1. queue # <<>> /\ cur + Len(queue) <= MaxModels + 1 /\ UNCHANGED <<config, cur, task, broken>>
        /\ Passed(queue)
    BY <1>4 DEF CloseEnds, Inv, Room
  <2>2. queue' \in Seq(Request) /\ at' \in {"free", "woken"} /\ Room'
    BY <1>0, <2>1, PassedRoom
  <2>3. client' = [m \in Models |-> IF m \in Closing THEN "none" ELSE client[m]]
    BY <1>4 DEF CloseEnds
  <2> QED BY <2>1, <2>2, <2>3 DEF Inv, TypeOK, Unused, CurrentServes, Closing
<1>5. ASSUME NEW t \in Tasks, TaskStarts(t) PROVE Inv'
  <2> DEFINE started == [at |-> "running", model |-> cur, left |-> 0, cfg |-> config,
                         swapped |-> FALSE]
  <2>1. started \in Task /\ started.model = cur
    BY DEF Task, Inv, TypeOK
  <2>2. task' = [task EXCEPT ![t] = started]
    BY <1>5 DEF TaskStarts
  <2>3. UNCHANGED <<config, cur, client, queue, at, broken>>
    BY <1>5 DEF TaskStarts
  <2> HIDE DEF started
  <2>4. Unused'
    BY <1>0, <2>1, <2>2, <2>3 DEF Inv, TypeOK, Unused, Models
  <2> QED BY <2>1, <2>2, <2>3, <2>4 DEF Inv, TypeOK, Room, CurrentServes
<1>6. ASSUME NEW t \in Tasks, NextRun(t) PROVE Inv'
  <2> DEFINE next == [task[t] EXCEPT !.model = cur]
  <2>1. next \in Task /\ next.model = cur
    BY DEF Task, Inv, TypeOK
  <2>2. task' = [task EXCEPT ![t] = next]
    BY <1>6 DEF NextRun, Inv, TypeOK
  <2>3. UNCHANGED <<config, cur, client, queue, at, broken>>
    BY <1>6 DEF NextRun
  <2> HIDE DEF next
  <2>4. Unused'
    BY <1>0, <2>1, <2>2, <2>3 DEF Inv, TypeOK, Unused, Models
  <2> QED BY <2>1, <2>2, <2>3, <2>4 DEF Inv, TypeOK, Room, CurrentServes
<1>7. ASSUME NEW t \in Tasks, TaskEnds(t) PROVE Inv'
  BY <1>7, NoTaskFacts DEF TaskEnds, Inv, TypeOK, Room, Unused, CurrentServes
<1>8. ASSUME NEW t \in Tasks, CallReturns(t) PROVE Inv'
  <2> DEFINE next == [task[t] EXCEPT !.at = "running", !.left = 0]
  <2>a. task[t] \in Task
    BY DEF Inv, TypeOK
  <2>b. 0 \in 0..2
    OBVIOUS
  <2>1. next \in Task /\ next.model = task[t].model
    BY ONLY <2>a, <2>b DEF Task
  <2>2. task' = [task EXCEPT ![t] = next] /\ task[t].at # "idle"
    BY <1>8 DEF CallReturns, Inv, TypeOK
  <2>3. UNCHANGED <<config, cur, client, queue, at, broken>>
    BY <1>8 DEF CallReturns
  <2> HIDE DEF next
  <2>4. Unused'
    BY <1>0, <2>1, <2>2, <2>3 DEF Inv, TypeOK, Unused
  <2> QED BY <2>1, <2>2, <2>3, <2>4 DEF Inv, TypeOK, Room, CurrentServes
<1>9. ASSUME NEW t \in Tasks, CallRetries(t) PROVE Inv'
  <2>1. task[t].at # "idle" /\ task[t].left - 1 \in 0..2 /\ Post(t, task[t].left - 1)
        /\ UNCHANGED <<config, cur, client, queue, at>>
    BY <1>9 DEF CallRetries, Inv, TypeOK, Task
  <2>2. client' \in [Models -> {"none", "open", "closing"}]
    BY <2>1 DEF Inv, TypeOK
  <2>3. /\ task' \in [Tasks -> Task] /\ broken' \subseteq BOOLEAN
        /\ \A u \in Tasks : task'[u].at # "idle" => task'[u].model \in Models /\ task'[u].model <= cur
    BY <2>1, <2>2, PostInv
  <2> QED BY <2>1, <2>3 DEF Inv, TypeOK, Room, Unused, CurrentServes
<1>10. ASSUME NEW t \in Tasks, NEW attempts \in 1..2, CallStarts(t, attempts) PROVE Inv'
  <2>1. task[t].at # "idle" /\ attempts - 1 \in 0..2 /\ Post(t, attempts - 1)
        /\ UNCHANGED <<config, cur, queue, at>>
        /\ client' = [client EXCEPT ![task[t].model] = IF @ = "none" THEN "open" ELSE @]
    BY <1>10 DEF CallStarts
  <2>2. task[t].model \in Models /\ task[t].model <= cur
    BY <2>1 DEF Inv, Unused
  <2>3. client' \in [Models -> {"none", "open", "closing"}]
    BY <2>1, <2>2 DEF Inv, TypeOK
  <2>4. /\ task' \in [Tasks -> Task] /\ broken' \subseteq BOOLEAN
        /\ \A u \in Tasks : task'[u].at # "idle" => task'[u].model \in Models /\ task'[u].model <= cur
    BY <2>1, <2>3, PostInv
  <2>5. client'[cur] # "closing" /\ \A m \in Models : m > cur => client'[m] = "none"
    BY <1>0, <2>1, <2>2 DEF Inv, TypeOK, Unused, CurrentServes, Models
  <2> QED BY <2>1, <2>3, <2>4, <2>5 DEF Inv, TypeOK, Room, Unused, CurrentServes
<1>11. ASSUME Restart PROVE Inv'
  <2>1. 1 \in Models /\ <<>> \in Seq(Request) /\ Len(<<>>) = 0
    BY DEF Models
  <2>2. TypeOK' /\ Unused' /\ CurrentServes'
    BY <1>11, <2>1, NoTaskFacts DEF Restart, Inv, TypeOK, Unused, CurrentServes
  <2>3. Room'
    BY <1>11, <2>1 DEF Restart, Room
  <2> QED BY <2>2, <2>3 DEF Inv
<1>12. ASSUME UNCHANGED vars PROVE Inv'
  BY <1>12 DEF vars, Inv, TypeOK, Room, Unused, CurrentServes
<1> QED
  BY <1>1, <1>2, <1>3, <1>4, <1>5, <1>6, <1>7, <1>8, <1>9, <1>10, <1>11, <1>12 DEF Next, Settling

-----------------------------------------------------------------------------

\* However settings requests overlap, the model the graphs point at is never one
\* whose client is being closed (replace_model switches before it closes).
THEOREM CurrentKept == Spec => []CurrentServes
<1>1. Inv => CurrentServes
  BY DEF Inv
<1> QED BY InitInv, NextInv, <1>1, PTL DEF Spec

\* Every variable keeps its type.
THEOREM TypeCorrect == Spec => []TypeOK
<1>1. Inv => TypeOK
  BY DEF Inv
<1> QED BY InitInv, NextInv, <1>1, PTL DEF Spec

-----------------------------------------------------------------------------

\* A task under which no save that had waited was applied has the model in use, and
\* its call is on a client that is open.
Quiet ==
  \A t \in Tasks : ~task[t].swapped =>
     /\ task[t].at # "idle" => task[t].model = cur
     /\ task[t].at = "posted" => client[cur] = "open"

QuietInv == Quiet /\ SettingsWait /\ NoneBroken

\* The first state.
LEMMA InitQuiet == Init => QuietInv
<1> SUFFICES ASSUME Init PROVE QuietInv
  OBVIOUS
<1>1. \A t \in Tasks : task[t].at = "idle"
  BY NoTaskFacts DEF Init
<1>2. broken = {}
  BY DEF Init
<1> QED BY <1>1, <1>2 DEF QuietInv, Quiet, SettingsWait, NoneBroken

\* A request that changes nothing for the tasks.
LEMMA ServeTest ==
  ASSUME QuietInv, NEW q, Serve(q), Head(q).new = None, UNCHANGED <<task, broken>>
  PROVE  QuietInv'
<1>1. UNCHANGED <<config, cur, client>>
  BY DEF Serve
<1> QED BY <1>1 DEF QuietInv, Quiet, SettingsWait, NoneBroken

\* An attempt of a call: a task that was not swapped stays, on its open client.
LEMMA PostQuiet ==
  ASSUME Inv, QuietInv, NEW t \in Tasks, NEW left, task[t].at # "idle",
         ~task[t].swapped => client'[task[t].model] = "open", Post(t, left)
  PROVE  /\ FALSE \notin broken'
         /\ \A u \in Tasks : task'[u].at # "idle" => /\ task[u].at # "idle"
                                                     /\ task'[u].model = task[u].model
                                                     /\ task'[u].cfg = task[u].cfg
                                                     /\ task'[u].swapped = task[u].swapped
         /\ \A u \in Tasks : u # t => task'[u] = task[u]
<1>1. task[t] \in Task
  BY DEF Inv, TypeOK
<1> DEFINE posted == [task[t] EXCEPT !.at = "posted", !.left = left]
<1>2. posted.model = task[t].model /\ posted.cfg = task[t].cfg /\ posted.swapped = task[t].swapped
  BY <1>1 DEF Task
<1>3. CASE client'[task[t].model] = "open"
  <2>1. task' = [task EXCEPT ![t] = posted] /\ UNCHANGED broken
    BY <1>1, <1>3 DEF Post, Inv, TypeOK, Task
  <2> HIDE DEF posted
  <2> QED BY <1>2, <2>1 DEF QuietInv, NoneBroken, Inv, TypeOK
<1>4. CASE client'[task[t].model] # "open"
  <2>1. task' = [task EXCEPT ![t] = NoTask] /\ broken' = broken \cup {task[t].swapped}
    BY <1>4 DEF Post
  <2>2. task[t].swapped = TRUE
    BY <1>1, <1>4 DEF Task
  <2> QED BY <2>1, <2>2, NoTaskFacts DEF QuietInv, NoneBroken, Inv, TypeOK
<1> QED BY <1>3, <1>4

\* Every step keeps tasks and settings apart, but for saves that have waited.
LEMMA NextQuiet ==
  ASSUME Inv, QuietInv, [Next]_vars
  PROVE  QuietInv'
<1>1. ASSUME NEW r \in Requests, NEW new \in Update \cup {None}, Ask(r, new) PROVE QuietInv'
  <2> DEFINE req == [by |-> r, new |-> new]
             q == Append(queue, req)
  <2>1. UNCHANGED <<task, broken>> /\ (new = None \/ ~Active)
        /\ IF at = "free" THEN Serve(q) ELSE queue' = q /\ UNCHANGED <<config, cur, client, at>>
    BY <1>1 DEF Ask, MayAsk
  <2>2. CASE at # "free"
    BY <2>1, <2>2 DEF QuietInv, Quiet, SettingsWait, NoneBroken
  <2>3. CASE at = "free" /\ new = None
    <3>1. queue = <<>> /\ req.new = None
      BY <2>3 DEF Inv, Room
    <3> HIDE DEF req
    <3>2. Head(q).new = None
      BY <3>1
    <3> HIDE DEF q
    <3> QED BY <2>1, <2>3, <3>2, ServeTest
  <2>4. CASE ~Active
    BY <2>1, <2>4 DEF Active, QuietInv, Quiet, SettingsWait, NoneBroken, Inv, TypeOK, Task
  <2> QED BY <2>1, <2>2, <2>3, <2>4
<1>2. ASSUME Wake PROVE QuietInv'
  <2>1. Serve(queue) /\ UNCHANGED broken
    BY <1>2 DEF Wake
  <2>2. CASE Head(queue).new = None
    <3>1. UNCHANGED task
      BY <1>2, <2>2 DEF Wake
    <3> QED BY <2>1, <2>2, <3>1, ServeTest
  <2>3. CASE Head(queue).new # None
    <3>1. \A t \in Tasks : task'[t].at # "idle" => task'[t].swapped
      BY <1>2, <2>3, WakeTask
    <3>2. \A t \in Tasks : task'[t].at = "idle" => task'[t].at # "posted"
      OBVIOUS
    <3> QED BY <2>1, <3>1, <3>2 DEF QuietInv, Quiet, SettingsWait, NoneBroken
  <2> QED BY <2>2, <2>3
<1>3. ASSUME TestEnds PROVE QuietInv'
  BY <1>3 DEF TestEnds, QuietInv, Quiet, SettingsWait, NoneBroken
<1>4. ASSUME CloseEnds PROVE QuietInv'
  <2>1. \A m \in Models : client[m] = "open" => client'[m] = "open"
    BY <1>4 DEF CloseEnds, Closing
  <2>2. cur \in Models /\ UNCHANGED <<config, cur, task, broken>>
    BY <1>4 DEF CloseEnds, Inv, TypeOK
  <2> QED BY <2>1, <2>2 DEF QuietInv, Quiet, SettingsWait, NoneBroken
<1>5. ASSUME NEW t \in Tasks, TaskStarts(t) PROVE QuietInv'
  <2> DEFINE started == [at |-> "running", model |-> cur, left |-> 0, cfg |-> config,
                         swapped |-> FALSE]
  <2>1. task' = [task EXCEPT ![t] = started] /\ UNCHANGED <<config, cur, client, queue, at, broken>>
    BY <1>5 DEF TaskStarts
  <2>2. started.model = cur /\ started.cfg = config /\ started.at = "running"
    OBVIOUS
  <2> HIDE DEF started
  <2> QED BY <2>1, <2>2 DEF QuietInv, Quiet, SettingsWait, NoneBroken, Inv, TypeOK
<1>6. ASSUME NEW t \in Tasks, NextRun(t) PROVE QuietInv'
  <2> DEFINE next == [task[t] EXCEPT !.model = cur]
  <2>1. task' = [task EXCEPT ![t] = next] /\ UNCHANGED <<config, cur, client, queue, at, broken>>
        /\ task[t].at = "running" /\ task[t] \in Task
    BY <1>6 DEF NextRun, Inv, TypeOK
  <2>2. next.model = cur /\ next.cfg = task[t].cfg /\ next.at = "running" /\ next.swapped = task[t].swapped
    BY <2>1 DEF Task
  <2> HIDE DEF next
  <2> QED BY <2>1, <2>2 DEF QuietInv, Quiet, SettingsWait, NoneBroken, Inv, TypeOK
<1>7. ASSUME NEW t \in Tasks, TaskEnds(t) PROVE QuietInv'
  BY <1>7, NoTaskFacts DEF TaskEnds, QuietInv, Quiet, SettingsWait, NoneBroken, Inv, TypeOK
<1>8. ASSUME NEW t \in Tasks, CallReturns(t) PROVE QuietInv'
  <2> DEFINE next == [task[t] EXCEPT !.at = "running", !.left = 0]
  <2>1. task' = [task EXCEPT ![t] = next] /\ UNCHANGED <<config, cur, client, queue, at, broken>>
        /\ task[t].at = "posted" /\ task[t] \in Task
    BY <1>8 DEF CallReturns, Inv, TypeOK
  <2>2. next.model = task[t].model /\ next.cfg = task[t].cfg /\ next.at = "running"
        /\ next.swapped = task[t].swapped
    BY <2>1 DEF Task
  <2> HIDE DEF next
  <2> QED BY <2>1, <2>2 DEF QuietInv, Quiet, SettingsWait, NoneBroken, Inv, TypeOK
<1>9. ASSUME NEW t \in Tasks, CallRetries(t) PROVE QuietInv'
  <2>1. task[t].at = "posted" /\ Post(t, task[t].left - 1)
        /\ UNCHANGED <<config, cur, client, queue, at>>
    BY <1>9 DEF CallRetries
  <2>2. ~task[t].swapped => client'[task[t].model] = "open"
    BY <2>1 DEF QuietInv, Quiet
  <2>3. /\ FALSE \notin broken'
        /\ \A u \in Tasks : task'[u].at # "idle" => /\ task[u].at # "idle"
                                                    /\ task'[u].model = task[u].model
                                                    /\ task'[u].cfg = task[u].cfg
                                                    /\ task'[u].swapped = task[u].swapped
        /\ \A u \in Tasks : u # t => task'[u] = task[u]
    BY <2>1, <2>2, PostQuiet
  <2> QED BY <2>1, <2>2, <2>3, ZenonT(60) DEF QuietInv, Quiet, SettingsWait, NoneBroken
<1>10. ASSUME NEW t \in Tasks, NEW attempts \in 1..2, CallStarts(t, attempts) PROVE QuietInv'
  <2>1. task[t].at # "idle" /\ Post(t, attempts - 1)
        /\ UNCHANGED <<config, cur, queue, at>>
        /\ client' = [client EXCEPT ![task[t].model] = IF @ = "none" THEN "open" ELSE @]
    BY <1>10 DEF CallStarts
  <2>2. task[t].model \in Models /\ cur \in Models
        /\ client \in [Models -> {"none", "open", "closing"}]
    BY <2>1 DEF Inv, TypeOK, Unused
  <2>3. ~task[t].swapped => client'[task[t].model] = "open"
    BY <2>1, <2>2 DEF QuietInv, Quiet, Inv, CurrentServes
  <2>4. client[cur] = "open" => client'[cur] = "open"
    BY <2>1, <2>2
  <2>5. /\ FALSE \notin broken'
        /\ \A u \in Tasks : task'[u].at # "idle" => /\ task[u].at # "idle"
                                                    /\ task'[u].model = task[u].model
                                                    /\ task'[u].cfg = task[u].cfg
                                                    /\ task'[u].swapped = task[u].swapped
        /\ \A u \in Tasks : u # t => task'[u] = task[u]
    BY <2>1, <2>3, PostQuiet
  <2>6. ~task[t].swapped => task[t].model = cur
    BY <2>1 DEF QuietInv, Quiet
  <2> QED BY <2>1, <2>3, <2>4, <2>5, <2>6, ZenonT(60) DEF QuietInv, Quiet, SettingsWait, NoneBroken
<1>11. ASSUME Restart PROVE QuietInv'
  BY <1>11, NoTaskFacts DEF Restart, QuietInv, Quiet, SettingsWait, NoneBroken
<1>12. ASSUME UNCHANGED vars PROVE QuietInv'
  BY <1>12 DEF vars, QuietInv, Quiet, SettingsWait, NoneBroken
<1> QED
  BY <1>1, <1>2, <1>3, <1>4, <1>5, <1>6, <1>7, <1>8, <1>9, <1>10, <1>11, <1>12 DEF Next, Settling

\* Both invariants together.
LEMMA Apart == Spec => [](Inv /\ QuietInv)
<1>1. Init => Inv /\ QuietInv
  BY InitInv, InitQuiet
<1>2. Inv /\ QuietInv /\ [Next]_vars => (Inv /\ QuietInv)'
  BY NextInv, NextQuiet
<1> QED BY <1>1, <1>2, PTL DEF Spec

\* However settings requests overlap, the configuration changes under a running task
\* only by a save that was let in before and had waited for the lock (api.py 46-61).
THEOREM SettingsKept == Spec => []SettingsWait
<1>1. QuietInv => SettingsWait
  BY DEF QuietInv
<1> QED BY <1>1, Apart, PTL

\* However settings requests overlap, no call of a task meets a client that was closed
\* under it, in its first attempt or in its second, unless a save that had waited was
\* applied under that task.
THEOREM CallsServed == Spec => []NoneBroken
<1>1. QuietInv => NoneBroken
  BY DEF QuietInv
<1> QED BY <1>1, Apart, PTL
=============================================================================
