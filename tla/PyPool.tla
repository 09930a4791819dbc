------------------------------- MODULE PyPool -------------------------------
(***************************************************************************)
(* The Python stack that runs tasks: sessions of the orchestrator assign   *)
(* them (rasa/orchestrator/delegator.py, runtime.py), the pool controller  *)
(* hears of it by NOTIFY (rasa/pool/controller.py), and a daemon           *)
(* (rasa/agent/runtime.py) or a one-shot process (rasa/agent/dispatcher.py)*)
(* claims and runs them.  Unlike the Go pool of module TaskLifecycle this  *)
(* one keeps no row of a message: what nobody listens to is gone.          *)
(*                                                                         *)
(* One soul, as in TaskLifecycle.  No code of the repository fills         *)
(* task_dependencies or task_queue: the edges Upstream are given.  Cancel  *)
(* and retry (rasa/gui/cli.py:295-346) write a column no migration creates *)
(* and fail; TaskLifecycle has the schema under which they work.           *)
(***************************************************************************)
EXTENDS Naturals, FiniteSets

CONSTANTS
  NumTasks,  \* tasks are 1..NumTasks
  Edges,     \* task_dependencies: pairs <<from, to>>
  Daemons,   \* daemon processes; each runs once
  Clients,   \* orchestrator sessions: the GUI's daemon, the REPL
  MaxAsks,   \* bound on the calls of assign_task
  MaxFaults  \* bound on crashes, failed statements, failed launches

Tasks == 1..NumTasks

ASSUME PoolAssumption ==
  /\ NumTasks \in Nat
  /\ Edges \subseteq Tasks \X Tasks
  /\ MaxAsks \in Nat /\ MaxFaults \in Nat

VARIABLES
  status,    \* status[t]: tasks.status, "NONE" before the INSERT
  aged,      \* RUNNING tasks whose started_at is over 30 minutes ago
  client,    \* client[c]: the task session c saw PENDING and will write, or 0
  asks,      \* calls so far
  pool,      \* the pool controller process
  heard,     \* daemons in _live_agents
  pc,        \* pc[d]: where daemon d is
  job,       \* job[d]: the task it runs, 0 for none
  shots,     \* shots[t]: one-shots launched for t that have not looked yet
  running,   \* running[t]: one-shots that run t
  assignedQ, \* assignedQ[t]: NOTIFYs of tasks_assigned the pool has to take
  doneQ,     \* doneQ[t]: NOTIFYs of task_completed the pool has to take
  faults,    \* faults so far
  assigns,   \* assigns[t]: history, UPDATEs to ASSIGNED
  claims,    \* claims[t]: history, UPDATEs to RUNNING
  routed,    \* ASSIGNED tasks left to a daemon of the soul
  lost,      \* history: ASSIGNED tasks given up by a fault or by deaf ears
  untold     \* history: completed tasks whose NOTIFY no one will act on

calls == <<client, asks>>
ears == <<pool, heard, assignedQ, doneQ>>
daemonVars == <<pc, job>>
shotVars == <<shots, running>>
history == <<assigns, claims, routed, lost, untold>>
vars == <<status, aged, calls, ears, daemonVars, shotVars, faults, history>>

Statuses == {"NONE", "PENDING", "ASSIGNED", "RUNNING", "COMPLETED", "FAILED"}
Ended == {"COMPLETED", "FAILED"}

TypeOK ==
  /\ status \in [Tasks -> Statuses]
  /\ aged \subseteq Tasks
  /\ client \in [Clients -> Tasks \cup {0}]
  /\ asks \in 0..MaxAsks
  /\ pool \in {"down", "starting", "swept", "up", "deaf"}
  /\ heard \subseteq Daemons
  /\ pc \in [Daemons -> {"off", "idle", "busy", "dead"}]
  /\ job \in [Daemons -> Tasks \cup {0}]
  /\ \A d \in Daemons : pc[d] = "busy" <=> job[d] # 0
  /\ shots \in [Tasks -> Nat] /\ running \in [Tasks -> Nat]
  /\ assignedQ \in [Tasks -> Nat] /\ doneQ \in [Tasks -> Nat]
  /\ faults \in 0..MaxFaults
  /\ assigns \in [Tasks -> Nat] /\ claims \in [Tasks -> Nat]
  /\ routed \subseteq Tasks /\ lost \subseteq Tasks /\ untold \subseteq Tasks

Upstream(t) == {u \in Tasks : <<u, t>> \in Edges}
Downstream(u) == {t \in Tasks : <<u, t>> \in Edges}
Ready(t) == \A u \in Upstream(t) : status[u] = "COMPLETED"
Alive(d) == pc[d] \in {"idle", "busy"}
Fault == faults < MaxFaults /\ faults' = faults + 1

Init ==
  /\ status = [t \in Tasks |-> "NONE"]
  /\ aged = {}
  /\ client = [c \in Clients |-> 0]
  /\ asks = 0
  /\ pool = "down" /\ heard = {}
  /\ pc = [d \in Daemons |-> "off"] /\ job = [d \in Daemons |-> 0]
  /\ shots = [t \in Tasks |-> 0] /\ running = [t \in Tasks |-> 0]
  /\ assignedQ = [t \in Tasks |-> 0] /\ doneQ = [t \in Tasks |-> 0]
  /\ faults = 0
  /\ assigns = [t \in Tasks |-> 0] /\ claims = [t \in Tasks |-> 0]
  /\ routed = {} /\ lost = {} /\ untold = {}

(* A NOTIFY reaches the sessions that LISTEN when its transaction commits. *)
Notify(queue, t) ==
  IF pool = "up" THEN [queue EXCEPT ![t] = @ + 1] ELSE queue

(***************************************************************************)
(* The orchestrator.                                                       *)
(***************************************************************************)

(* create_task.  No caller passes a parent_id.  A task whose upstreams are *)
(* all completed has missed their NOTIFYs.                                 *)
Create(t) ==
  /\ status[t] = "NONE"
  /\ \A s \in 1..(t - 1) : status[s] # "NONE"
  /\ status' = [status EXCEPT ![t] = "PENDING"]
  /\ untold' = untold \cup {u \in Upstream(t) : status[u] = "COMPLETED"}
  /\ UNCHANGED <<aged, calls, ears, daemonVars, shotVars, faults,
                 assigns, claims, routed, lost>>

(* _spawn_agent without a process manager, which nothing in the repository *)
(* creates: one more daemon, or none when the launch fails.                *)
SpawnAgent ==
  \/ \E d \in Daemons : pc[d] = "off" /\ pc' = [pc EXCEPT ![d] = "idle"]
  \/ pc' = pc

(* assign_task: the SELECT of a PENDING task. *)
AskAssign(c, t) ==
  /\ client[c] = 0 /\ asks < MaxAsks
  /\ status[t] = "PENDING"
  /\ asks' = asks + 1
  /\ client' = [client EXCEPT ![c] = t]
  /\ UNCHANGED <<status, aged, ears, daemonVars, shotVars, faults, history>>

(* A task that is no longer PENDING is reported as taken, and a daemon is  *)
(* launched for it all the same.                                           *)
AskAgain(c, t) ==
  /\ client[c] = 0 /\ asks < MaxAsks
  /\ status[t] \notin {"NONE", "PENDING"}
  /\ asks' = asks + 1
  /\ SpawnAgent
  /\ UNCHANGED <<status, aged, client, ears, job, shotVars, faults, history>>

(* assign_task: the UPDATE, which does not look at the status again, and   *)
(* the NOTIFY of the same transaction; then the launch of a daemon.        *)
WriteAssign(c) ==
  LET t == client[c] IN
  /\ t # 0
  /\ status' = [status EXCEPT ![t] = "ASSIGNED"]
  /\ assignedQ' = Notify(assignedQ, t)
  /\ client' = [client EXCEPT ![c] = 0]
  /\ SpawnAgent
  /\ assigns' = [assigns EXCEPT ![t] = @ + 1]
  /\ routed' = routed \ {t}
  /\ lost' = IF pool \in {"swept", "deaf"} THEN lost \cup {t} ELSE lost \ {t}
  /\ UNCHANGED <<aged, asks, pool, heard, doneQ, job, shotVars, faults,
                 claims, untold>>

(* The transaction fails, or the session dies in it: nothing is written.   *)
AbandonAssign(c) ==
  /\ client[c] # 0 /\ Fault
  /\ client' = [client EXCEPT ![c] = 0]
  /\ UNCHANGED <<status, aged, asks, ears, daemonVars, shotVars, history>>

(***************************************************************************)
(* The pool controller.                                                    *)
(***************************************************************************)

(* _launch_pool_agents: the replicas of pool.yaml, as far as Daemons goes. *)
PoolStart ==
  /\ pool = "down"
  /\ pool' = "starting"
  /\ pc' = [d \in Daemons |-> IF pc[d] = "off" THEN "idle" ELSE pc[d]]
  /\ UNCHANGED <<status, aged, calls, heard, assignedQ, doneQ, job, shotVars,
                 faults, history>>

(* _sweep_stale_assignments: a one-shot for every ASSIGNED task.  main     *)
(* awaits it, and it does not yield before its fourth task: the listener,  *)
(* a task created before it, sends its LISTEN after it.                    *)
PoolSweep ==
  LET found == {t \in Tasks : status[t] = "ASSIGNED"} IN
  /\ pool = "starting"
  /\ pool' = "swept"
  /\ shots' = [t \in Tasks |-> shots[t] + (IF t \in found THEN 1 ELSE 0)]
  /\ lost' = lost \ found
  /\ UNCHANGED <<status, aged, calls, heard, assignedQ, doneQ, daemonVars,
                 running, faults, assigns, claims, routed, untold>>

(* The SELECT or a launch fails: the exception ends the sweep, not the     *)
(* controller, and what was left of it is never picked up.                 *)
FailSweep ==
  /\ pool = "starting" /\ Fault
  /\ pool' = "swept"
  /\ lost' = lost \cup {t \in Tasks : status[t] = "ASSIGNED"}
  /\ UNCHANGED <<status, aged, calls, heard, assignedQ, doneQ, daemonVars,
                 shotVars, assigns, claims, routed, untold>>

(* _handle_raw_notify: LISTEN on both channels.                            *)
PoolListen ==
  /\ pool = "swept"
  /\ pool' = "up"
  /\ UNCHANGED <<status, aged, calls, heard, assignedQ, doneQ, daemonVars,
                 shotVars, faults, history>>

(* The NOTIFYs the controller had not taken: assignments wait for the next *)
(* sweep, completions for nobody.                                          *)
Deafened == untold \cup {t \in Tasks : doneQ[t] > 0}

(* The controller ends; daemons and one-shots are sessions of their own.   *)
PoolStop ==
  /\ pool # "down" /\ Fault
  /\ pool' = "down" /\ heard' = {}
  /\ assignedQ' = [t \in Tasks |-> 0] /\ doneQ' = [t \in Tasks |-> 0]
  /\ untold' = Deafened
  /\ UNCHANGED <<status, aged, calls, daemonVars, shotVars, assigns, claims,
                 routed, lost>>

(* SELECT 1 fails, as when PostgreSQL restarts: the listener's task ends   *)
(* with the exception, and the rest of the controller runs on without it.  *)
PoolDeaf ==
  /\ pool = "up" /\ Fault
  /\ pool' = "deaf"
  /\ assignedQ' = [t \in Tasks |-> 0] /\ doneQ' = [t \in Tasks |-> 0]
  /\ untold' = Deafened
  /\ lost' = lost \cup {t \in Tasks : assignedQ[t] > 0}
  /\ UNCHANGED <<status, aged, calls, heard, daemonVars, shotVars, assigns,
                 claims, routed>>

(* _on_task_assigned with a daemon in _live_agents, dead or not: the       *)
(* UPDATE records its id, and nobody reads it, the daemons poll by soul.   *)
RouteToDaemon(t) ==
  /\ assignedQ[t] > 0
  /\ heard # {} /\ status[t] = "ASSIGNED"
  /\ assignedQ' = [assignedQ EXCEPT ![t] = @ - 1]
  /\ routed' = routed \cup {t}
  /\ lost' = IF \E d \in Daemons : Alive(d) THEN lost ELSE lost \cup {t}
  /\ UNCHANGED <<status, aged, calls, pool, heard, doneQ, daemonVars,
                 shotVars, faults, assigns, claims, untold>>

(* No daemon, or the UPDATE hits no row: a one-shot.  Also after an error  *)
(* of the UPDATE, a fault.                                                 *)
SpawnForTask(t) ==
  /\ assignedQ[t] > 0
  /\ \/ (heard = {} \/ status[t] # "ASSIGNED") /\ UNCHANGED faults
     \/ heard # {} /\ Fault
  /\ assignedQ' = [assignedQ EXCEPT ![t] = @ - 1]
  /\ shots' = [shots EXCEPT ![t] = @ + 1]
  /\ UNCHANGED <<status, aged, calls, pool, heard, doneQ, daemonVars, running,
                 history>>

(* The launch raises in the handler's task: nobody looks at t again.       *)
FailSpawn(t) ==
  /\ assignedQ[t] > 0 /\ Fault
  /\ assignedQ' = [assignedQ EXCEPT ![t] = @ - 1]
  /\ lost' = lost \cup {t}
  /\ UNCHANGED <<status, aged, calls, pool, heard, doneQ, daemonVars, shotVars,
                 assigns, claims, routed, untold>>

(* Faulty variants, for the mutants: an unblocking that is not announced,  *)
(* a sweep that looks for the wrong status.                                *)
HandleCompletedQuietly(u) ==
  LET freed == {t \in Downstream(u) : status[t] = "PENDING" /\ Ready(t)} IN
  /\ doneQ[u] > 0
  /\ doneQ' = [doneQ EXCEPT ![u] = @ - 1]
  /\ status' = [t \in Tasks |-> IF t \in freed THEN "ASSIGNED" ELSE status[t]]
  /\ assigns' = [t \in Tasks |-> assigns[t] + (IF t \in freed THEN 1 ELSE 0)]
  /\ UNCHANGED <<aged, calls, pool, heard, assignedQ, daemonVars, shotVars,
                 faults, claims, routed, lost, untold>>

StaleSweepAssigned ==
  LET stale == {t \in aged : status[t] = "ASSIGNED"} IN
  /\ pool \in {"swept", "up", "deaf"} /\ stale # {}
  /\ status' = [t \in Tasks |-> IF t \in stale THEN "FAILED" ELSE status[t]]
  /\ UNCHANGED <<aged, calls, ears, daemonVars, shotVars, faults, history>>

(* _on_task_completed: the PENDING dependents all of whose upstreams are   *)
(* COMPLETED become ASSIGNED and are announced.                            *)
HandleCompleted(u) ==
  LET freed == {t \in Downstream(u) : status[t] = "PENDING" /\ Ready(t)} IN
  /\ doneQ[u] > 0
  /\ doneQ' = [doneQ EXCEPT ![u] = @ - 1]
  /\ status' = [t \in Tasks |-> IF t \in freed THEN "ASSIGNED" ELSE status[t]]
  /\ assignedQ' = [t \in Tasks |-> assignedQ[t] + (IF t \in freed THEN 1 ELSE 0)]
  /\ assigns' = [t \in Tasks |-> assigns[t] + (IF t \in freed THEN 1 ELSE 0)]
  /\ routed' = routed \ freed /\ lost' = lost \ freed
  /\ UNCHANGED <<aged, calls, pool, heard, daemonVars, shotVars, faults,
                 claims, untold>>

(* The query fails: the error is printed.                                  *)
FailCompleted(u) ==
  /\ doneQ[u] > 0 /\ Fault
  /\ doneQ' = [doneQ EXCEPT ![u] = @ - 1]
  /\ untold' = untold \cup {u}
  /\ UNCHANGED <<status, aged, calls, pool, heard, assignedQ, daemonVars,
                 shotVars, assigns, claims, routed, lost>>

(* _handle_heartbeat. *)
Heartbeat(d) ==
  /\ pool \in {"up", "deaf"} /\ Alive(d) /\ d \notin heard
  /\ heard' = heard \cup {d}
  /\ UNCHANGED <<status, aged, calls, pool, assignedQ, doneQ, daemonVars,
                 shotVars, faults, history>>

(* _prune_expired: 30 s without a heartbeat, of a daemon that died or that *)
(* a tool blocks.                                                          *)
Expire(d) ==
  /\ d \in heard /\ pc[d] # "idle"
  /\ heard' = heard \ {d}
  /\ UNCHANGED <<status, aged, calls, pool, assignedQ, doneQ, daemonVars,
                 shotVars, faults, history>>

(* Thirty minutes pass. *)
Age(t) ==
  /\ status[t] = "RUNNING" /\ t \notin aged
  /\ aged' = aged \cup {t}
  /\ UNCHANGED <<status, calls, ears, daemonVars, shotVars, faults, history>>

(* _sweep_stale_tasks, which sends no NOTIFY. *)
StaleSweep ==
  LET stale == {t \in aged : status[t] = "RUNNING"} IN
  /\ pool \in {"swept", "up", "deaf"}
  /\ stale # {}
  /\ status' = [t \in Tasks |-> IF t \in stale THEN "FAILED" ELSE status[t]]
  /\ UNCHANGED <<aged, calls, ears, daemonVars, shotVars, faults, history>>

(***************************************************************************)
(* The processes that run tasks.                                           *)
(***************************************************************************)

(* Faulty variants, for the mutants: a claim that does not look at the     *)
(* status, a result without its NOTIFY, a daemon that keeps its task.      *)
ClaimShotUnguarded(t) ==
  /\ shots[t] > 0
  /\ shots' = [shots EXCEPT ![t] = @ - 1]
  /\ status' = [status EXCEPT ![t] = "RUNNING"]
  /\ aged' = aged \ {t}
  /\ running' = [running EXCEPT ![t] = @ + 1]
  /\ claims' = [claims EXCEPT ![t] = @ + 1]
  /\ UNCHANGED <<calls, ears, daemonVars, faults, assigns, routed, lost, untold>>

WriteEndSilently(t, outcome) ==
  /\ status' = [status EXCEPT ![t] = outcome]
  /\ untold' = IF pool = "up" \/ outcome = "FAILED" THEN untold
               ELSE untold \cup {t}
  /\ UNCHANGED <<aged, calls, ears, shots, faults, assigns, claims, routed, lost>>

DieDaemonBusy(d) ==
  /\ Alive(d) /\ Fault
  /\ pc' = [pc EXCEPT ![d] = "dead"]
  /\ UNCHANGED <<status, aged, calls, ears, job, shotVars, history>>

(* run_task: the UPDATE of an ASSIGNED or PENDING task. *)
ClaimShot(t) ==
  /\ shots[t] > 0
  /\ status[t] \in {"ASSIGNED", "PENDING"}
  /\ shots' = [shots EXCEPT ![t] = @ - 1]
  /\ status' = [status EXCEPT ![t] = "RUNNING"]
  /\ aged' = aged \ {t}
  /\ running' = [running EXCEPT ![t] = @ + 1]
  /\ claims' = [claims EXCEPT ![t] = @ + 1]
  /\ routed' = routed \ {t} /\ lost' = lost \ {t}
  /\ UNCHANGED <<calls, ears, daemonVars, faults, assigns, untold>>

(* run_task: somebody else claimed it. *)
SkipShot(t) ==
  /\ shots[t] > 0
  /\ status[t] \notin {"ASSIGNED", "PENDING"}
  /\ shots' = [shots EXCEPT ![t] = @ - 1]
  /\ UNCHANGED <<status, aged, calls, ears, daemonVars, running, faults, history>>

(* _poll_for_task: the ASSIGNED task of the soul created first. *)
ClaimDaemon(d, t) ==
  /\ pc[d] = "idle"
  /\ status[t] = "ASSIGNED" /\ \A s \in 1..(t - 1) : status[s] # "ASSIGNED"
  /\ status' = [status EXCEPT ![t] = "RUNNING"]
  /\ aged' = aged \ {t}
  /\ pc' = [pc EXCEPT ![d] = "busy"] /\ job' = [job EXCEPT ![d] = t]
  /\ claims' = [claims EXCEPT ![t] = @ + 1]
  /\ routed' = routed \ {t} /\ lost' = lost \ {t}
  /\ UNCHANGED <<calls, ears, shotVars, faults, assigns, untold>>

(* The result, COMPLETED or FAILED, whatever the status has become, and    *)
(* its NOTIFY.                                                             *)
WriteEnd(t, outcome) ==
  /\ status' = [status EXCEPT ![t] = outcome]
  /\ doneQ' = Notify(doneQ, t)
  /\ untold' = IF pool = "up" \/ outcome = "FAILED" THEN untold
               ELSE untold \cup {t}
  /\ UNCHANGED <<aged, calls, pool, heard, assignedQ, shots, faults, assigns,
                 claims, routed, lost>>

(* run_task: at most ten rounds, every call with a timeout. *)
FinishShot(t, outcome) ==
  /\ running[t] > 0
  /\ running' = [running EXCEPT ![t] = @ - 1]
  /\ WriteEnd(t, outcome)
  /\ UNCHANGED daemonVars

(* _execute_task: likewise. *)
FinishDaemon(d, outcome) ==
  /\ pc[d] = "busy"
  /\ pc' = [pc EXCEPT ![d] = "idle"] /\ job' = [job EXCEPT ![d] = 0]
  /\ WriteEnd(job[d], outcome)
  /\ UNCHANGED running

(* A process dies, or an agent gives up without a word. *)
DieShot(t) ==
  /\ Fault
  /\ \/ /\ shots[t] > 0
        /\ shots' = [shots EXCEPT ![t] = @ - 1]
        /\ lost' = lost \cup {t}
        /\ UNCHANGED running
     \/ /\ running[t] > 0
        /\ running' = [running EXCEPT ![t] = @ - 1]
        /\ UNCHANGED <<shots, lost>>
  /\ UNCHANGED <<status, aged, calls, ears, daemonVars, assigns, claims,
                 routed, untold>>

(* What was left to the daemons is lost with the last of them. *)
DieDaemon(d) ==
  /\ Alive(d) /\ Fault
  /\ pc' = [pc EXCEPT ![d] = "dead"] /\ job' = [job EXCEPT ![d] = 0]
  /\ lost' = IF \E e \in Daemons \ {d} : Alive(e) THEN lost ELSE lost \cup routed
  /\ UNCHANGED <<status, aged, calls, ears, shotVars, assigns, claims, routed,
                 untold>>

SessionStep(c) ==
  \/ \E t \in Tasks : AskAssign(c, t) \/ AskAgain(c, t)
  \/ WriteAssign(c) \/ AbandonAssign(c)

PoolStep ==
  \/ PoolStart \/ PoolSweep \/ FailSweep \/ PoolListen \/ PoolStop \/ PoolDeaf
  \/ \E t \in Tasks : \/ RouteToDaemon(t) \/ SpawnForTask(t) \/ FailSpawn(t)
                      \/ HandleCompleted(t) \/ FailCompleted(t)
  \/ \E d \in Daemons : Heartbeat(d) \/ Expire(d)
  \/ StaleSweep

RunStep ==
  \/ \E t \in Tasks : \/ ClaimShot(t) \/ SkipShot(t) \/ DieShot(t)
                      \/ \E o \in Ended : FinishShot(t, o)
  \/ \E d \in Daemons : \/ \E t \in Tasks : ClaimDaemon(d, t)
                        \/ \E o \in Ended : FinishDaemon(d, o)
                        \/ DieDaemon(d)

Next ==
  \/ \E t \in Tasks : Create(t) \/ Age(t)
  \/ \E c \in Clients : SessionStep(c)
  \/ PoolStep
  \/ RunStep

Spec == Init /\ [][Next]_vars

(* The controller's handlers and sweeps run, one-shots start, daemons poll,*)
(* runs are bounded, and time passes.  No client need ever ask.            *)
FairSpec ==
  /\ Spec
  /\ WF_vars(StaleSweep)
  /\ \A t \in Tasks :
       /\ WF_vars(RouteToDaemon(t) \/ SpawnForTask(t) \/ FailSpawn(t))
       /\ WF_vars(ClaimShot(t) \/ SkipShot(t) \/ DieShot(t))
       /\ WF_vars(\E o \in Ended : FinishShot(t, o))
       /\ WF_vars(Age(t))
  /\ \A d \in Daemons :
       /\ WF_vars(\E t \in Tasks : ClaimDaemon(d, t))
       /\ WF_vars(\E o \in Ended : FinishDaemon(d, o))

(* A task starts no more often than it was assigned, by a session or by    *)
(* the controller, although daemons, one-shots of the sweep, one-shots of  *)
(* late NOTIFYs and repeated requests all reach for it: nothing but the    *)
(* guards of the two claiming UPDATEs keeps them apart.                    *)
ClaimsArePaidFor == \A t \in Tasks : claims[t] <= assigns[t]

(* An ASSIGNED task is never overlooked: a sweep of a controller still to  *)
(* start will find it, or its NOTIFY is on the way, or a one-shot is, or   *)
(* it was left to daemons of which one lives, unless one of the losses     *)
(* above happened to it.                                                   *)
AssignedIsTracked ==
  \A t \in Tasks : status[t] = "ASSIGNED" =>
    \/ pool \in {"down", "starting"}
    \/ assignedQ[t] > 0 \/ shots[t] > 0
    \/ t \in routed /\ \E d \in Daemons : Alive(d)
    \/ t \in lost

(* A task all of whose upstreams are COMPLETED waits in PENDING only as    *)
(* long as a completion of one of them is on its way to the controller, or *)
(* for good when the controller missed one.                                *)
NoDependentForgotten ==
  \A t \in Tasks : status[t] = "PENDING" /\ Upstream(t) # {} /\ Ready(t) =>
    \E u \in Upstream(t) : doneQ[u] > 0 \/ u \in untold

(* With a controller that stays up, an ASSIGNED task ends, or is lost: it  *)
(* is claimed, and a run whose process died is failed after half an hour.  *)
AssignedTasksEnd ==
  <>[](pool = "up") =>
    \A t \in Tasks :
      status[t] = "ASSIGNED" ~> status[t] \in Ended \/ t \in lost
=============================================================================
