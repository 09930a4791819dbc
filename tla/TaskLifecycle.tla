--------------------------- MODULE TaskLifecycle ---------------------------
(***************************************************************************)
(* The life of a task: the row of table tasks, and everybody who writes it:*)
(*   - the orchestrator CLI, which submits, cancels and retries            *)
(*     (cmd/orchestrator/main.go),                                         *)
(*   - the pool controller, which routes a tasks_assigned message to an    *)
(*     agent it knows (internal/pool/controller.go),                       *)
(*   - the agents, which claim and run tasks (rasa/agent/runtime.py),      *)
(*   - the recovery controller, which re-queues the task of a dead agent   *)
(*     (internal/recovery/controller.go).                                  *)
(* They share no lock: each SQL statement below is a step of its own, and  *)
(* nearly every UPDATE ignores the status the writer decided upon.         *)
(*                                                                         *)
(* The model follows the tasks and agents of ONE soul: agents claim by     *)
(* soul and the pool routes by soul, so that souls do not interact.  Tasks *)
(* are numbered in the order of created_at.                                *)
(*                                                                         *)
(* mail[t] abstracts the bus (module PGBus): the rows of tasks_assigned for*)
(* t that the pool controller has not taken.  BusChannel promises neither  *)
(* order nor delivery; so the pool takes any of them, and LoseMail loses   *)
(* one.                                                                    *)
(***************************************************************************)
EXTENDS Naturals, FiniteSets

CONSTANTS
  NumTasks,       \* tasks are 1..NumTasks
  Agents,         \* agent ids; a process has a fresh one, never used again
  InitialAgents,  \* processes the Procfile launches
  HasUpdatedAt,   \* table tasks has the column updated_at, which cancel and
                  \*   retry write and no migration of the repository creates
  MaxRetries,     \* bound on the retries of a task by the user
  MaxFaults       \* bound on crashes, lost messages, failed statements and
                  \*   late heartbeats

Tasks == 1..NumTasks

ASSUME LifecycleAssumption ==
  /\ NumTasks \in Nat
  /\ IsFiniteSet(Agents)
  /\ InitialAgents \in Nat
  /\ HasUpdatedAt \in BOOLEAN
  /\ MaxRetries \in Nat
  /\ MaxFaults \in Nat
  /\ "soul" \notin Agents /\ "nobody" \notin Agents

VARIABLES
  status,     \* status[t]: tasks.status, "NONE" before the INSERT
  assignee,   \* assignee[t]: tasks.assigned_agent_id
  ckpt,       \* ckpt[t]: checkpoint_refs has a row for t
  mail,       \* mail[t]: pending tasks_assigned messages for t
  cli,        \* cli[t]: where the command that works on t is
  retried,    \* retries of t so far
  known,      \* agents in the registry of the pool controller
  route,      \* the UPDATE HandleTaskAssigned is about to send
  spawns,     \* agent processes launched that are not up yet
  pc,         \* pc[a]: where agent a is
  job,        \* job[a]: the task it runs (or died over), 0 for none
  seen,       \* agents in lastSeen of the recovery controller
  doomed,     \* agents it declared dead and has not handled yet
  rescue,     \* the task handleDeadAgent is at
  faults,     \* faults so far
  claims,     \* claims[t]: history, how often t was claimed
  sent,       \* sent[t]: history, messages published for t
  dropped,    \* dropped[t]: history, a message for t came to nothing since
              \*   the last one was published
  orphaned    \* orphaned[t]: history, an agent gave t up, or died over it,
              \*   since the last claim

clientVars == <<cli, retried>>
poolVars == <<known, route, spawns>>
agentVars == <<pc, job>>
recVars == <<seen, doomed, rescue>>
history == <<claims, sent, dropped, orphaned>>
vars == <<status, assignee, ckpt, mail, clientVars, poolVars, agentVars,
          recVars, faults, history>>

Statuses == {"NONE", "PENDING", "ASSIGNED", "RUNNING",
             "COMPLETED", "FAILED", "CANCELLED"}
Terminal == {"COMPLETED", "FAILED", "CANCELLED"}
CliStates == {"new", "inserted", "assigned", "ready", "checked", "reset"}
PcStates == {"unborn", "idle", "busy", "wrapup", "dead"}

NoRoute == [task |-> 0, agent |-> "nobody"]
NoRescue == [task |-> 0, step |-> "none"]

TypeOK ==
  /\ status \in [Tasks -> Statuses]
  /\ assignee \in [Tasks -> Agents \cup {"soul", "nobody"}]
  /\ ckpt \in [Tasks -> BOOLEAN]
  /\ mail \in [Tasks -> Nat]
  /\ cli \in [Tasks -> CliStates]
  /\ retried \in [Tasks -> Nat]
  /\ known \in SUBSET Agents
  /\ route \in [task : Tasks, agent : Agents] \cup {NoRoute}
  /\ spawns \in Nat
  /\ pc \in [Agents -> PcStates]
  /\ job \in [Agents -> Tasks \cup {0}]
  /\ seen \in SUBSET Agents
  /\ doomed \in SUBSET Agents
  /\ rescue \in [task : Tasks, step : {"lookup", "requeue", "publish"}]
               \cup {NoRescue}
  /\ faults \in Nat
  /\ claims \in [Tasks -> Nat]
  /\ sent \in [Tasks -> Nat]
  /\ dropped \in [Tasks -> BOOLEAN]
  /\ orphaned \in [Tasks -> BOOLEAN]

Alive(a) == pc[a] \in {"idle", "busy", "wrapup"}
Unborn == {a \in Agents : pc[a] = "unborn"}

\* A crash, a lost message, a failed statement or a heartbeat that is late.
Fault == faults < MaxFaults /\ faults' = faults + 1

SetStatus(t, st) == status' = [status EXCEPT ![t] = st]

\* Publish on tasks_assigned (module PGBus: Insert and Commit).
Post(t) ==
  /\ mail' = [mail EXCEPT ![t] = @ + 1]
  /\ sent' = [sent EXCEPT ![t] = @ + 1]
  /\ dropped' = [dropped EXCEPT ![t] = FALSE]

-----------------------------------------------------------------------------
(***************************************************************************)
(* Faulty variants of the definitions that follow them.  No specification  *)
(* uses them: each is a change to the code some property must notice.      *)
(***************************************************************************)
\* The pool controller handles a message that is not there.
TakeAnyway(t) ==
  /\ route = NoRoute
  /\ mail' = [mail EXCEPT ![t] = @ - 1]
  /\ \E a \in known : route' = [task |-> t, agent |-> a]
  /\ UNCHANGED <<status, assignee, ckpt, clientVars, known, spawns, agentVars,
                 recVars, faults, history>>

\* The pool controller takes an agent to run what was routed to it.
AssignAsRunning ==
  /\ route # NoRoute
  /\ SetStatus(route.task, "RUNNING")
  /\ assignee' = [assignee EXCEPT ![route.task] = route.agent]
  /\ route' = NoRoute
  /\ UNCHANGED <<ckpt, mail, clientVars, known, spawns, agentVars, recVars,
                 faults, history>>

\* The UPDATE of the claim is not committed before the task runs.
ClaimUncommitted(a, t) ==
  /\ pc[a] = "idle"
  /\ status[t] = "ASSIGNED"
  /\ pc' = [pc EXCEPT ![a] = "busy"]
  /\ job' = [job EXCEPT ![a] = t]
  /\ claims' = [claims EXCEPT ![t] = @ + 1]
  /\ orphaned' = [orphaned EXCEPT ![t] = FALSE]
  /\ UNCHANGED <<status, assignee, ckpt, mail, clientVars, poolVars, recVars,
                 faults, sent, dropped>>

\* An agent polls by assigned_agent_id.
ClaimOwn(a, t) ==
  /\ pc[a] = "idle"
  /\ status[t] = "ASSIGNED" /\ assignee[t] = a
  /\ SetStatus(t, "RUNNING")
  /\ pc' = [pc EXCEPT ![a] = "busy"]
  /\ job' = [job EXCEPT ![a] = t]
  /\ claims' = [claims EXCEPT ![t] = @ + 1]
  /\ orphaned' = [orphaned EXCEPT ![t] = FALSE]
  /\ UNCHANGED <<assignee, ckpt, mail, clientVars, poolVars, recVars, faults,
                 sent, dropped>>

\* The recovery controller relies on the message of the submission.
RequeueSilently ==
  /\ rescue.step = "requeue"
  /\ SetStatus(rescue.task, "PENDING")
  /\ assignee' = [assignee EXCEPT ![rescue.task] = "nobody"]
  /\ rescue' = NoRescue
  /\ UNCHANGED <<ckpt, mail, clientVars, poolVars, agentVars, seen, doomed,
                 faults, history>>

-----------------------------------------------------------------------------
Init ==
  /\ status = [t \in Tasks |-> "NONE"]
  /\ assignee = [t \in Tasks |-> "nobody"]
  /\ ckpt = [t \in Tasks |-> FALSE]
  /\ mail = [t \in Tasks |-> 0]
  /\ cli = [t \in Tasks |-> "new"]
  /\ retried = [t \in Tasks |-> 0]
  /\ known = {}
  /\ route = NoRoute
  /\ spawns = InitialAgents
  /\ pc = [a \in Agents |-> "unborn"]
  /\ job = [a \in Agents |-> 0]
  /\ seen = {}
  /\ doomed = {}
  /\ rescue = NoRescue
  /\ faults = 0
  /\ claims = [t \in Tasks |-> 0]
  /\ sent = [t \in Tasks |-> 0]
  /\ dropped = [t \in Tasks |-> FALSE]
  /\ orphaned = [t \in Tasks |-> FALSE]

(***************************************************************************)
(* The orchestrator CLI.                                                   *)
(***************************************************************************)
\* cmdSubmit: INSERT .. 'PENDING' ..
Submit(t) ==
  /\ cli[t] = "new"
  /\ \A u \in Tasks : u < t => cli[u] # "new"
  /\ SetStatus(t, "PENDING")
  /\ cli' = [cli EXCEPT ![t] = "inserted"]
  /\ UNCHANGED <<assignee, ckpt, mail, retried, poolVars, agentVars, recVars,
                 faults, history>>

\* .. then UPDATE to ASSIGNED, with the SOUL as assigned_agent_id ..
SubmitAssign(t) ==
  /\ cli[t] = "inserted"
  /\ SetStatus(t, "ASSIGNED")
  /\ assignee' = [assignee EXCEPT ![t] = "soul"]
  /\ cli' = [cli EXCEPT ![t] = "assigned"]
  /\ UNCHANGED <<ckpt, mail, retried, poolVars, agentVars, recVars, faults,
                 history>>

\* .. then publish; and the last step of cmdRetry.
Publish(t) ==
  /\ cli[t] \in {"assigned", "reset"}
  /\ Post(t)
  /\ cli' = [cli EXCEPT ![t] = "ready"]
  /\ UNCHANGED <<status, assignee, ckpt, retried, poolVars, agentVars, recVars,
                 faults, claims, orphaned>>

\* cmdRetry: read the status ..
RetryCheck(t) ==
  /\ cli[t] = "ready"
  /\ retried[t] < MaxRetries
  /\ status[t] \in {"FAILED", "CANCELLED"}
  /\ cli' = [cli EXCEPT ![t] = "checked"]
  /\ retried' = [retried EXCEPT ![t] = @ + 1]
  /\ UNCHANGED <<status, assignee, ckpt, mail, poolVars, agentVars, recVars,
                 faults, history>>

\* .. then UPDATE .. 'PENDING', whatever the status is by now.  Without the
\* column updated_at the statement fails and the command ends.
RetryReset(t) ==
  /\ cli[t] = "checked"
  /\ IF HasUpdatedAt
       THEN /\ SetStatus(t, "PENDING")
            /\ assignee' = [assignee EXCEPT ![t] = "nobody"]
            /\ cli' = [cli EXCEPT ![t] = "reset"]
       ELSE /\ cli' = [cli EXCEPT ![t] = "ready"]
            /\ UNCHANGED <<status, assignee>>
  /\ UNCHANGED <<ckpt, mail, retried, poolVars, agentVars, recVars, faults,
                 history>>

\* The command dies, or its next statement fails.
CliCrash(t) ==
  /\ cli[t] \in {"inserted", "assigned", "checked", "reset"}
  /\ Fault
  /\ cli' = [cli EXCEPT ![t] = "ready"]
  /\ dropped' = [dropped EXCEPT ![t] = @ \/ cli[t] \in {"inserted", "reset"}]
  /\ UNCHANGED <<status, assignee, ckpt, mail, retried, poolVars, agentVars,
                 recVars, claims, sent, orphaned>>

\* cmdCancel: one UPDATE, guarded by the status.  The message stays.
Cancel(t) ==
  /\ HasUpdatedAt
  /\ status[t] \in {"PENDING", "ASSIGNED"}
  /\ SetStatus(t, "CANCELLED")
  /\ UNCHANGED <<assignee, ckpt, mail, clientVars, poolVars, agentVars, recVars,
                 faults, history>>

Cli(t) == SubmitAssign(t) \/ Publish(t) \/ RetryReset(t)
User(t) == Submit(t) \/ RetryCheck(t) \/ Cancel(t)

(***************************************************************************)
(* The pool controller.  Its two handlers run in goroutines of their own;  *)
(* the handler of tasks_assigned handles one message at a time.            *)
(***************************************************************************)
\* HandleTaskAssigned: the message is consumed.  FindBySoul finds an agent to
\* route to, or none: then an agent is launched (if that works) and nothing
\* else is done about the task.
Take(t) ==
  /\ route = NoRoute
  /\ mail[t] > 0
  /\ mail' = [mail EXCEPT ![t] = @ - 1]
  /\ \/ /\ \E a \in known : route' = [task |-> t, agent |-> a]
        /\ UNCHANGED <<spawns, dropped>>
     \/ /\ known = {}
        /\ dropped' = [dropped EXCEPT ![t] = TRUE]
        /\ \/ UNCHANGED spawns
           \/ spawns < Cardinality(Unborn) /\ spawns' = spawns + 1
        /\ UNCHANGED route
  /\ UNCHANGED <<status, assignee, ckpt, clientVars, known, agentVars, recVars,
                 faults, claims, sent, orphaned>>

\* .. then its UPDATE, whatever the status is.
Assign ==
  /\ route # NoRoute
  /\ SetStatus(route.task, "ASSIGNED")
  /\ assignee' = [assignee EXCEPT ![route.task] = route.agent]
  /\ route' = NoRoute
  /\ UNCHANGED <<ckpt, mail, clientVars, known, spawns, agentVars, recVars,
                 faults, history>>

\* The UPDATE fails, which is logged and forgotten.
FailAssign ==
  /\ route # NoRoute
  /\ Fault
  /\ dropped' = [dropped EXCEPT ![route.task] = TRUE]
  /\ route' = NoRoute
  /\ UNCHANGED <<status, assignee, ckpt, mail, clientVars, known, spawns,
                 agentVars, recVars, claims, sent, orphaned>>

\* The bus loses a message between the mark and the handler.
LoseMail(t) ==
  /\ mail[t] > 0
  /\ Fault
  /\ mail' = [mail EXCEPT ![t] = @ - 1]
  /\ dropped' = [dropped EXCEPT ![t] = TRUE]
  /\ UNCHANGED <<status, assignee, ckpt, clientVars, poolVars, agentVars,
                 recVars, claims, sent, orphaned>>

\* HandleHeartbeat, as far as the registry goes (Upsert).
PoolHear(a) ==
  /\ Alive(a) /\ a \notin known
  /\ known' = known \cup {a}
  /\ UNCHANGED <<status, assignee, ckpt, mail, clientVars, route, spawns,
                 agentVars, recVars, faults, history>>

\* reapLoop: the last heartbeat of a is too old.
PoolReap(a) ==
  /\ a \in known
  /\ IF Alive(a) THEN Fault ELSE UNCHANGED faults
  /\ known' = known \ {a}
  /\ UNCHANGED <<status, assignee, ckpt, mail, clientVars, route, spawns,
                 agentVars, recVars, history>>

\* The registry starts empty; a message in the handler is gone.
PoolRestart ==
  /\ Fault
  /\ known' = {}
  /\ route' = NoRoute
  /\ dropped' = [t \in Tasks |-> dropped[t] \/ route.task = t]
  /\ UNCHANGED <<status, assignee, ckpt, mail, clientVars, spawns, agentVars,
                 recVars, claims, sent, orphaned>>

(***************************************************************************)
(* The agents.                                                             *)
(***************************************************************************)
Start(a) ==
  /\ pc[a] = "unborn"
  /\ spawns > 0
  /\ spawns' = spawns - 1
  /\ pc' = [pc EXCEPT ![a] = "idle"]
  /\ UNCHANGED <<status, assignee, ckpt, mail, clientVars, known, route, job,
                 recVars, faults, history>>

\* _poll_for_task: SELECT .. FOR UPDATE SKIP LOCKED and UPDATE to RUNNING in
\* one transaction.  It asks for the oldest task but passes over rows that are
\* being written, so that any may come first.  assigned_agent_id is not read
\* and not written.
Claim(a, t) ==
  /\ pc[a] = "idle"
  /\ status[t] = "ASSIGNED"
  /\ SetStatus(t, "RUNNING")
  /\ pc' = [pc EXCEPT ![a] = "busy"]
  /\ job' = [job EXCEPT ![a] = t]
  /\ claims' = [claims EXCEPT ![t] = @ + 1]
  /\ orphaned' = [orphaned EXCEPT ![t] = FALSE]
  /\ UNCHANGED <<assignee, ckpt, mail, clientVars, poolVars, recVars, faults,
                 sent, dropped>>

\* save_checkpoint, every sixth round of tool calls; a second checkpoint is
\* like the first.
SaveCheckpoint(a) ==
  /\ pc[a] = "busy"
  /\ ~ckpt[job[a]]
  /\ ckpt' = [ckpt EXCEPT ![job[a]] = TRUE]
  /\ UNCHANGED <<status, assignee, mail, clientVars, poolVars, agentVars,
                 recVars, faults, history>>

\* _write_result and _write_failure: UPDATE .. WHERE id.  The NOTIFY on
\* task_completed has no row and reaches no handler (PGBus: RawNotify).
Finish(a) ==
  /\ pc[a] = "busy"
  /\ \E st \in {"COMPLETED", "FAILED"} : SetStatus(job[a], st)
  /\ pc' = [pc EXCEPT ![a] = "wrapup"]
  /\ UNCHANGED <<assignee, ckpt, mail, clientVars, poolVars, job, recVars,
                 faults, history>>

\* delete_checkpoint, and back to the poll loop.
Wrapup(a) ==
  /\ pc[a] = "wrapup"
  /\ ckpt' = [ckpt EXCEPT ![job[a]] = FALSE]
  /\ pc' = [pc EXCEPT ![a] = "idle"]
  /\ job' = [job EXCEPT ![a] = 0]
  /\ UNCHANGED <<status, assignee, mail, clientVars, poolVars, recVars, faults,
                 history>>

\* The DELETE of delete_checkpoint fails, which is swallowed.
LeaveCheckpoint(a) ==
  /\ pc[a] = "wrapup"
  /\ Fault
  /\ pc' = [pc EXCEPT ![a] = "idle"]
  /\ job' = [job EXCEPT ![a] = 0]
  /\ UNCHANGED <<status, assignee, ckpt, mail, clientVars, poolVars, recVars,
                 history>>

\* An exception other than GatewayError: _execute_task returns, or the poll
\* loop swallows it; the row stays as it is.
Abort(a) ==
  /\ pc[a] = "busy"
  /\ Fault
  /\ pc' = [pc EXCEPT ![a] = "idle"]
  /\ job' = [job EXCEPT ![a] = 0]
  /\ orphaned' = [orphaned EXCEPT ![job[a]] = TRUE]
  /\ UNCHANGED <<status, assignee, ckpt, mail, clientVars, poolVars, recVars,
                 claims, sent, dropped>>

Die(a) ==
  /\ Alive(a)
  /\ Fault
  /\ pc' = [pc EXCEPT ![a] = "dead"]
  /\ orphaned' = [t \in Tasks |-> orphaned[t] \/ (pc[a] = "busy" /\ job[a] = t)]
  /\ UNCHANGED <<status, assignee, ckpt, mail, clientVars, poolVars, job, recVars,
                 claims, sent, dropped>>

(***************************************************************************)
(* The recovery controller.  One goroutine declares agents dead and works  *)
(* through those it declared.                                              *)
(***************************************************************************)
RecHear(a) ==
  /\ Alive(a) /\ a \notin seen
  /\ seen' = seen \cup {a}
  /\ UNCHANGED <<status, assignee, ckpt, mail, clientVars, poolVars, agentVars,
                 doomed, rescue, faults, history>>

\* reapDeadAgents: forget the agents that were not heard of for too long.
RecReap(D) ==
  /\ doomed = {} /\ rescue = NoRescue
  /\ D # {} /\ D \subseteq seen
  /\ IF \E a \in D : Alive(a) THEN Fault ELSE UNCHANGED faults
  /\ seen' = seen \ D
  /\ doomed' = D
  /\ UNCHANGED <<status, assignee, ckpt, mail, clientVars, poolVars, agentVars,
                 rescue, history>>

AssignedTo(a) ==
  {t \in Tasks : assignee[t] = a /\ status[t] \in {"ASSIGNED", "RUNNING"}}

\* handleDeadAgent: the newest task of a, and only that one ..
RecFind(a) ==
  /\ a \in doomed /\ rescue = NoRescue
  /\ doomed' = doomed \ {a}
  /\ \/ AssignedTo(a) = {} /\ UNCHANGED rescue
     \/ \E t \in AssignedTo(a) :
          /\ \A u \in AssignedTo(a) : u <= t
          /\ rescue' = [task |-> t, step |-> "lookup"]
  /\ UNCHANGED <<status, assignee, ckpt, mail, clientVars, poolVars, agentVars,
                 seen, faults, history>>

\* .. a task with a checkpoint is left alone ("replay deferred") ..
RecLookup ==
  /\ rescue.step = "lookup"
  /\ rescue' = IF ckpt[rescue.task] THEN NoRescue
               ELSE [rescue EXCEPT !.step = "requeue"]
  /\ UNCHANGED <<status, assignee, ckpt, mail, clientVars, poolVars, agentVars,
                 seen, doomed, faults, history>>

\* .. UPDATE to PENDING, whatever the status is by now ..
RecRequeue ==
  /\ rescue.step = "requeue"
  /\ SetStatus(rescue.task, "PENDING")
  /\ assignee' = [assignee EXCEPT ![rescue.task] = "nobody"]
  /\ rescue' = [rescue EXCEPT !.step = "publish"]
  /\ UNCHANGED <<ckpt, mail, clientVars, poolVars, agentVars, seen, doomed,
                 faults, history>>

\* .. and publish.
RecPublish ==
  /\ rescue.step = "publish"
  /\ Post(rescue.task)
  /\ rescue' = NoRescue
  /\ UNCHANGED <<status, assignee, ckpt, clientVars, poolVars, agentVars, seen,
                 doomed, faults, claims, orphaned>>

\* A statement fails: the agent is not looked at again.
RecFail ==
  /\ rescue # NoRescue
  /\ Fault
  /\ rescue' = NoRescue
  /\ dropped' = [dropped EXCEPT ![rescue.task] = @ \/ rescue.step = "publish"]
  /\ UNCHANGED <<status, assignee, ckpt, mail, clientVars, poolVars, agentVars,
                 seen, doomed, claims, sent, orphaned>>

\* lastSeen starts empty: who died before is never declared dead.
RecRestart ==
  /\ Fault
  /\ seen' = {}
  /\ doomed' = {}
  /\ rescue' = NoRescue
  /\ dropped' = [t \in Tasks |->
                   dropped[t] \/ (rescue.step = "publish" /\ rescue.task = t)]
  /\ UNCHANGED <<status, assignee, ckpt, mail, clientVars, poolVars, agentVars,
                 claims, sent, orphaned>>

-----------------------------------------------------------------------------
PoolReceives == Assign \/ \E t \in Tasks : Take(t)
AgentRuns(a) == Finish(a) \/ Wrapup(a) \/ \E t \in Tasks : Claim(a, t)
RecoveryRuns == RecLookup \/ RecRequeue \/ RecPublish \/ \E a \in Agents : RecFind(a)

Next ==
  \/ \E t \in Tasks : User(t) \/ Cli(t) \/ CliCrash(t) \/ LoseMail(t)
  \/ PoolReceives \/ FailAssign \/ PoolRestart
  \/ \E a \in Agents :
       \/ PoolHear(a) \/ PoolReap(a)
       \/ Start(a) \/ AgentRuns(a) \/ SaveCheckpoint(a) \/ LeaveCheckpoint(a)
       \/ Abort(a) \/ Die(a)
       \/ RecHear(a)
  \/ \E D \in SUBSET Agents : RecReap(D)
  \/ RecoveryRuns \/ RecFail \/ RecRestart

Spec == Init /\ [][Next]_vars

\* What a running process does by itself: a command goes on to its end, an
\* agent polls, finishes what it runs (at most ten rounds, each with a
\* timeout) and beats, the controllers handle what they receive and reap who
\* is dead.  The user does as he likes, and faults never have to happen.
FairSpec ==
  /\ Spec
  /\ \A t \in Tasks : WF_vars(Cli(t))
  /\ WF_vars(PoolReceives)
  /\ \A a \in Agents :
       /\ WF_vars(AgentRuns(a))
       /\ WF_vars(PoolHear(a))
       /\ WF_vars(PoolReap(a) /\ ~Alive(a))
       /\ WF_vars(RecHear(a))
       /\ WF_vars(~Alive(a) /\ RecReap({b \in seen : ~Alive(b)}))
  /\ WF_vars(RecoveryRuns)
-----------------------------------------------------------------------------
(***************************************************************************)
(* Properties.                                                             *)
(***************************************************************************)
\* A task is run at most once for its submission and once for each message
\* published for it, although the pool controller, the CLI and the recovery
\* controller overwrite each other's status and two agents may run one task at
\* once: all that double work is paid for by messages.
RunsArePaidFor == \A t \in Tasks : claims[t] <= 1 + sent[t]

\* PENDING is a status nobody polls for: a task in it lives by a message.  So
\* whoever writes PENDING must be about to send one, or one is queued or with
\* the pool controller, unless one came to nothing since.
PendingIsTracked ==
  \A t \in Tasks :
    status[t] = "PENDING" =>
      \/ cli[t] \in {"inserted", "reset"}
      \/ mail[t] > 0
      \/ route.task = t
      \/ rescue = [task |-> t, step |-> "publish"]
      \/ dropped[t]

\* Nor does anybody poll for RUNNING: behind it there is an agent that will
\* write a result, unless the last one to claim the task gave it up.
RunningIsTracked ==
  \A t \in Tasks :
    status[t] = "RUNNING" =>
      (\E a \in Agents : pc[a] = "busy" /\ job[a] = t) \/ orphaned[t]

\* A task for which no message came to nothing and that nobody gave up reaches
\* a final status and keeps it, as long as some agent lives.
TasksSettle ==
  \A t \in Tasks :
    /\ [](~dropped[t] /\ ~orphaned[t])
    /\ <>(cli[t] # "new")
    /\ <>[](\E a \in Agents : Alive(a))
    => <>[](status[t] \in Terminal)

\* README.md, "Task State Machine": COMPLETED --> [*].  Nothing happens to a
\* task that is completed.
CompletedIsFinal ==
  [][\A t \in Tasks : status[t] = "COMPLETED" => status'[t] = "COMPLETED"]_status

\* internal/recovery/controller.go, handleDeadAgent: "Find running task assigned
\* to this agent".  So a task without a checkpoint whose agent died, when the
\* recovery controller had heard of that agent and nothing else goes wrong
\* (MaxFaults = 1), does not stay RUNNING.
OrphanIsRequeued ==
  \A t \in Tasks, a \in Agents :
    /\ pc[a] = "dead" /\ job[a] = t /\ a \in seen
    /\ status[t] = "RUNNING" /\ ~ckpt[t]
    ~> status[t] # "RUNNING"
=============================================================================
