----------------------- MODULE ModelSettingsProperties -----------------------
(***************************************************************************)
(* What tasks and settings promise each other.                             *)
(***************************************************************************)
EXTENDS ModelSettings

\* A save that finds the lock free is never applied under a task, and no other call
\* changes the configuration of one: it differs from the one the task began with only
\* when a save that had been let in before, and had waited for the lock behind another
\* request, was applied meanwhile (the check and the lock are apart, api.py 46-61).
SettingsWait ==
  \A t \in Tasks : task[t].at # "idle" => task[t].cfg = config \/ task[t].swapped

\* The same without the exception: MODEL_CONFIG_BUSY keeps the configuration of
\* every running task, also from saves that wait.
SettingsFixed == \A t \in Tasks : task[t].at # "idle" => task[t].cfg = config

\* No call of a task meets a client that was closed under it, in its first attempt or
\* in its second (model_client.py 427-430, 881-892), unless a save that had waited was
\* applied while that task ran: what other tasks met, or clients that are still being
\* closed when the task starts, do not reach it.
NoneBroken == FALSE \notin broken

\* The model the graphs point at is never one whose client is being closed,
\* however settings requests and tasks overlap (agent_graphs.py 560-568).
CurrentServes == client[cur] # "closing"

\* A settings request that waits for the lock is served, or the process stops.
RequestsServed ==
  \A r \in Requests : (\E i \in DOMAIN queue : queue[i].by = r) ~> (\A i \in DOMAIN queue : queue[i].by # r)
=============================================================================
