---------------------------- MODULE AgentRuntime ----------------------------
(***************************************************************************)
(* The agent process (rasa/agent/runtime.py) and the checkpoints of its    *)
(* tasks (rasa/agent/checkpoint.py).                                       *)
(*                                                                         *)
(* Two coroutines of a process share its fields: one polls for a task and  *)
(* runs it, the other obeys pause, resume and recover.  They interleave at *)
(* each await, and pc and ctl say where each of them is.  Saving and       *)
(* deleting a checkpoint have no await in them: the other coroutine waits, *)
(* but other processes go on and this one may crash between two stores.    *)
(* (The third coroutine only reads state, for the heartbeat.)              *)
(*                                                                         *)
(* A checkpoint of a task is in Redis (for ten minutes), in a file named   *)
(* after the task, and has rows in checkpoint_refs that name this file.  A *)
(* conversation is abstracted to its number of tool rounds; what is saved  *)
(* and restored along with it (memory context, model) is left out, and so  *)
(* is the replay bundle, which nothing reads.                              *)
(***************************************************************************)
EXTENDS Naturals, FiniteSets

CONSTANTS
  Agents,
  Tasks,
  MaxRounds,        \* max_tool_rounds
  SaveEvery,        \* rounds between two checkpoints
  MaxAssignments,   \* bound on UPDATEs of a task to ASSIGNED
  MaxEvents         \* bound on control messages, crashes and failed calls

None == "none"

ASSUME RuntimeAssumption ==
  /\ MaxRounds \in Nat \ {0}
  /\ SaveEvery \in Nat \ {0}
  /\ MaxAssignments \in Nat
  /\ MaxEvents \in Nat
  /\ None \notin Tasks

AgentStates == {"IDLE", "WARMING", "ACTIVE", "PAUSED", "RESUMING",
                "CHECKPOINTED", "RECOVERING"}
TaskStatus == {"PENDING", "ASSIGNED", "RUNNING", "PAUSED", "COMPLETED", "FAILED"}

Conversations == 0..MaxRounds
Snapshots == [by : Agents, rounds : Conversations, state : AgentStates]
NoSnapshot == [by |-> None]
Torn == [by |-> "torn"]

VARIABLES
  status,     \* status[t]: column tasks.status
  hot,        \* hot[t]: key checkpoint:t of Redis
  file,       \* file[t]: data/checkpoints/t.json, Torn while it is written
  refs,       \* refs[t]: checkpoint_refs has a row of t
  live,       \* live[a]: the process exists
  state,      \* self.state
  cur,        \* self._current_task_id
  conv,       \* self._conversation_messages
  pc,         \* where the polling coroutine is; "COMPLETED" and "FAILED": about
              \*   to write that
  job,        \* the task it runs (local variable task)
  rounds,     \* rounds in its local variable messages
  ctl,        \* the command the other coroutine obeys, and the step that is next
  paused,     \* paused[a]: key rasa:agent:a:paused of Redis
  assignments, events,
  \* History:
  newest,     \* newest[t]: the last checkpoint of t any agent began to save,
              \*   NoSnapshot if its deletion began later
  dirty,      \* dirty[a]: the save or deletion a is in met another one of the
              \*   task, or Redis failed it
  mixed,      \* mixed[t]: such a save or deletion, or an interrupted one, was the
              \*   last of t to end
  left,       \* left[t]: a process left t without deleting its checkpoint
  lost,       \* lost[t]: .. without writing an outcome
  late,       \* late[t]: a command changed the row while nobody was running t
  meddled     \* meddled[a]: since it claimed its last task a command was obeyed,
              \*   a task ended with an exception, or the restored checkpoint was
              \*   that of such an agent

stores == <<hot, file, refs>>
fields == <<state, cur, conv>>
runner == <<pc, job, rounds>>
control == <<ctl, paused>>
bounds == <<assignments, events>>
ofStores == <<newest, dirty, mixed>>
ofTasks == <<left, lost, late>>
vars == <<status, stores, live, fields, runner, control, bounds, ofStores, ofTasks,
          meddled>>

\* Steps inside of save_checkpoint and delete_checkpoint
InStores == {"saveOpen", "saveFile", "saveRef", "delFile", "delRef"}
\* Before the outcome is written
Working == {"warm", "call", "saveHot", "saveOpen", "saveFile", "saveRef",
            "COMPLETED", "FAILED"}
Running == Working \cup {"delHot", "delFile", "delRef"}

Listening == [cmd |-> None]
Commands == [cmd : {"pause", "resume", "recover"},
             step : {"load", "read", "row", "end"},
             task : Tasks \cup {None}]
PausedSnapshots == [task : Tasks \cup {None}, conv : Conversations]
NotPaused == [task |-> None]

TypeOK ==
  /\ status \in [Tasks -> TaskStatus]
  /\ hot \in [Tasks -> Snapshots \cup {NoSnapshot}]
  /\ file \in [Tasks -> Snapshots \cup {NoSnapshot, Torn}]
  /\ refs \in [Tasks -> BOOLEAN]
  /\ live \in [Agents -> BOOLEAN]
  /\ state \in [Agents -> AgentStates]
  /\ cur \in [Agents -> Tasks \cup {None}]
  /\ conv \in [Agents -> Conversations]
  /\ pc \in [Agents -> Running \cup {"poll"}]
  /\ job \in [Agents -> Tasks \cup {None}]
  /\ rounds \in [Agents -> Conversations]
  /\ ctl \in [Agents -> Commands \cup {Listening}]
  /\ paused \in [Agents -> PausedSnapshots \cup {NotPaused}]
  /\ assignments \in Nat /\ events \in Nat
  /\ newest \in [Tasks -> Snapshots \cup {NoSnapshot}]
  /\ dirty \in [Agents -> BOOLEAN]
  /\ mixed \in [Tasks -> BOOLEAN]
  /\ left \in [Tasks -> BOOLEAN]
  /\ lost \in [Tasks -> BOOLEAN]
  /\ late \in [Tasks -> BOOLEAN]
  /\ meddled \in [Agents -> BOOLEAN]

At(a, p) == live[a] /\ pc[a] = p
Held(t, where) == \E a \in Agents : live[a] /\ job[a] = t /\ pc[a] \in where
Worked(t) == Held(t, Working)
Writers(t) == {a \in Agents : live[a] /\ job[a] = t /\ pc[a] \in InStores}

\* A command or a fault happens.
Happens == events < MaxEvents /\ events' = events + 1

-----------------------------------------------------------------------------
(***************************************************************************)
(* Faulty variants of the definitions that follow them.  No specification  *)
(* uses them: each is a change to the code some property must notice.      *)
(***************************************************************************)
\* The loop runs once too often.
OnwardTooFar(a, done) == IF done > MaxRounds THEN "FAILED" ELSE "call"

\* After the last round the task is cleaned up without writing its failure.
OnwardSilently(a, done) == IF done = MaxRounds THEN "delHot" ELSE "call"

\* _execute_task returns and keeps its current task.
SettleKeepingTask(a) ==
  /\ pc' = [pc EXCEPT ![a] = "poll"]
  /\ job' = [job EXCEPT ![a] = None]
  /\ rounds' = [rounds EXCEPT ![a] = 0]
  /\ state' = [state EXCEPT ![a] = "IDLE"]
  /\ UNCHANGED cur

\* The branch of GatewayError does not delete the checkpoint.
WriteOnly(a) ==
  /\ At(a, "COMPLETED") \/ At(a, "FAILED")
  /\ status' = [status EXCEPT ![job[a]] = pc[a]]
  /\ IF pc[a] = "COMPLETED"
       THEN pc' = [pc EXCEPT ![a] = "delHot"] /\ UNCHANGED <<job, rounds, state, cur>>
       ELSE /\ pc' = [pc EXCEPT ![a] = "poll"]
            /\ job' = [job EXCEPT ![a] = None]
            /\ rounds' = [rounds EXCEPT ![a] = 0]
            /\ state' = [state EXCEPT ![a] = "IDLE"]
            /\ cur' = [cur EXCEPT ![a] = None]
  /\ UNCHANGED <<stores, live, conv, control, bounds, ofStores, ofTasks, meddled>>

\* delete_checkpoint does not delete the key.
DelHotNot(a) ==
  /\ At(a, "delHot")
  /\ newest' = [newest EXCEPT ![job[a]] = NoSnapshot]
  /\ dirty' = [b \in Agents |-> IF b = a THEN Writers(job[a]) # {}
                                ELSE dirty[b] \/ b \in Writers(job[a])]
  /\ pc' = [pc EXCEPT ![a] = "delFile"]
  /\ UNCHANGED <<status, stores, live, fields, job, rounds, control, bounds, mixed,
                 ofTasks, meddled>>

-----------------------------------------------------------------------------
Init ==
  /\ status = [t \in Tasks |-> "PENDING"]
  /\ hot = [t \in Tasks |-> NoSnapshot]
  /\ file = [t \in Tasks |-> NoSnapshot]
  /\ refs = [t \in Tasks |-> FALSE]
  /\ live = [a \in Agents |-> TRUE]
  /\ state = [a \in Agents |-> "IDLE"]
  /\ cur = [a \in Agents |-> None]
  /\ conv = [a \in Agents |-> 0]
  /\ pc = [a \in Agents |-> "poll"]
  /\ job = [a \in Agents |-> None]
  /\ rounds = [a \in Agents |-> 0]
  /\ ctl = [a \in Agents |-> Listening]
  /\ paused = [a \in Agents |-> NotPaused]
  /\ assignments = 0 /\ events = 0
  /\ newest = [t \in Tasks |-> NoSnapshot]
  /\ dirty = [a \in Agents |-> FALSE]
  /\ mixed = [t \in Tasks |-> FALSE]
  /\ left = [t \in Tasks |-> FALSE]
  /\ lost = [t \in Tasks |-> FALSE]
  /\ late = [t \in Tasks |-> FALSE]
  /\ meddled = [a \in Agents |-> FALSE]

\* The pool controller routes the task, for the first time, after a retry or
\* after a recovery; its UPDATE has no condition on the status.
Assign(t) ==
  /\ assignments < MaxAssignments
  /\ assignments' = assignments + 1
  /\ status' = [status EXCEPT ![t] = "ASSIGNED"]
  /\ lost' = [lost EXCEPT ![t] = FALSE]
  /\ late' = [late EXCEPT ![t] = FALSE]
  /\ UNCHANGED <<stores, live, fields, runner, control, events, ofStores, left,
                 meddled>>

-----------------------------------------------------------------------------
(***************************************************************************)
(* The polling coroutine.                                                  *)
(***************************************************************************)
\* _poll_for_task, and the first lines of _execute_task.  (Its second half,
\* which looks for RUNNING tasks with a checkpoint, comes after a try of which
\* every path returns.)
Claim(a, t) ==
  /\ At(a, "poll")
  /\ status[t] = "ASSIGNED"
  /\ status' = [status EXCEPT ![t] = "RUNNING"]
  /\ state' = [state EXCEPT ![a] = "WARMING"]
  /\ cur' = [cur EXCEPT ![a] = t]
  /\ pc' = [pc EXCEPT ![a] = "warm"]
  /\ job' = [job EXCEPT ![a] = t]
  /\ rounds' = [rounds EXCEPT ![a] = 0]
  /\ meddled' = [meddled EXCEPT ![a] = ctl[a] # Listening]
  /\ UNCHANGED <<stores, live, conv, control, bounds, ofStores, ofTasks>>

\* What load_checkpoint returns: Redis first, then the file.  (The row it looks
\* at in the end names the same file.)  A load that races with a save or a
\* deletion may miss the key and then find the file as it is, or torn.
InFile(t) == IF file[t] = Torn THEN NoSnapshot ELSE file[t]
Loaded(t) == IF hot[t] # NoSnapshot THEN hot[t] ELSE InFile(t)
CouldLoad(t) == {Loaded(t)} \cup (IF Writers(t) = {} THEN {} ELSE {InFile(t), NoSnapshot})

\* The memory is assembled; then _restore_from_checkpoint, with no await between
\* the state ACTIVE and the first call.  The restored conversation goes to conv:
\* messages starts anew.
Restore(a) ==
  /\ At(a, "warm")
  /\ \E s \in CouldLoad(job[a]) :
       /\ state' = [state EXCEPT ![a] = IF s = NoSnapshot THEN "ACTIVE" ELSE s.state]
       /\ conv' = [conv EXCEPT ![a] = IF s = NoSnapshot THEN @ ELSE s.rounds]
       /\ meddled' = [meddled EXCEPT ![a] = @ \/ (s # NoSnapshot /\ s.state # "ACTIVE")]
  /\ pc' = [pc EXCEPT ![a] = "call"]
  /\ UNCHANGED <<status, stores, live, cur, job, rounds, control, bounds, ofStores,
                 ofTasks>>

\* A call answers with content, or the gateway gives up.
Answer(a) ==
  /\ At(a, "call")
  /\ \E outcome \in {"COMPLETED", "FAILED"} : pc' = [pc EXCEPT ![a] = outcome]
  /\ UNCHANGED <<status, stores, live, fields, job, rounds, control, bounds,
                 ofStores, ofTasks, meddled>>

Onward(a, done) == IF done = MaxRounds THEN "FAILED" ELSE "call"

\* _should_checkpoint, for the round of index done - 1
ShouldSave(done) == done > 1 /\ (done - 1) % SaveEvery = 0

\* .. or with tool calls: they are executed and their results appended.
Round(a) ==
  /\ At(a, "call")
  /\ rounds' = [rounds EXCEPT ![a] = @ + 1]
  /\ pc' = [pc EXCEPT ![a] = IF ShouldSave(rounds'[a]) THEN "saveHot"
                             ELSE Onward(a, rounds'[a])]
  /\ UNCHANGED <<status, stores, live, fields, job, control, bounds, ofStores,
                 ofTasks, meddled>>

\* _execute_task returns and the loop polls again.
Leave(a) ==
  /\ pc' = [pc EXCEPT ![a] = "poll"]
  /\ job' = [job EXCEPT ![a] = None]
  /\ rounds' = [rounds EXCEPT ![a] = 0]

Settle(a) ==
  /\ Leave(a)
  /\ state' = [state EXCEPT ![a] = "IDLE"]
  /\ cur' = [cur EXCEPT ![a] = None]

\* The call fails otherwise: the task is given up as it is.
GiveUp(a) ==
  /\ At(a, "call") /\ Happens
  /\ Settle(a)
  /\ left' = [left EXCEPT ![job[a]] = TRUE]
  /\ lost' = [lost EXCEPT ![job[a]] = TRUE]
  /\ UNCHANGED <<status, stores, live, conv, control, assignments, ofStores, late,
                 meddled>>

\* The prompt, a tool, the file or the database raises an exception, which the polling
\* loop catches; nothing is put back.
Raise(a) ==
  /\ live[a] /\ Happens
  /\ pc[a] \in {"warm", "call", "saveOpen", "saveFile", "COMPLETED", "FAILED",
                "delFile"}
  /\ Leave(a)
  /\ left' = [left EXCEPT ![job[a]] = TRUE]
  /\ lost' = [lost EXCEPT ![job[a]] = @ \/ pc[a] \in Working]
  /\ mixed' = [mixed EXCEPT ![job[a]] = @ \/ pc[a] \in InStores]
  /\ dirty' = [dirty EXCEPT ![a] = FALSE]
  /\ meddled' = [meddled EXCEPT ![a] = TRUE]
  /\ UNCHANGED <<status, stores, live, fields, control, assignments, newest, late>>

\* _write_result and _write_failure.
Write(a) ==
  /\ At(a, "COMPLETED") \/ At(a, "FAILED")
  /\ status' = [status EXCEPT ![job[a]] = pc[a]]
  /\ pc' = [pc EXCEPT ![a] = "delHot"]
  /\ UNCHANGED <<stores, live, fields, job, rounds, control, bounds, ofStores,
                 ofTasks, meddled>>

-----------------------------------------------------------------------------
(***************************************************************************)
(* save_checkpoint and delete_checkpoint, store by store.                  *)
(***************************************************************************)
Snapshot(a) == [by |-> a, rounds |-> rounds[a], state |-> state[a]]

\* History: a save or deletion of a begins, of which trouble is known already;
\* from now on those under way for the same task are dirty, too.
Begins(a, trouble) ==
  dirty' = [b \in Agents |->
              IF b = a THEN trouble \/ Writers(job[a]) # {}
                       ELSE dirty[b] \/ b \in Writers(job[a])]
\* History: it ends.
Ends(a) ==
  /\ mixed' = [mixed EXCEPT ![job[a]] = dirty[a]]
  /\ dirty' = [dirty EXCEPT ![a] = FALSE]

SaveHot(a) ==
  /\ At(a, "saveHot")
  /\ newest' = [newest EXCEPT ![job[a]] = Snapshot(a)]
  /\ \/ hot' = [hot EXCEPT ![job[a]] = Snapshot(a)] /\ Begins(a, FALSE)
        /\ UNCHANGED events
     \/ Happens /\ Begins(a, hot[job[a]] # NoSnapshot) /\ UNCHANGED hot
  /\ pc' = [pc EXCEPT ![a] = "saveOpen"]
  /\ UNCHANGED <<status, file, refs, live, fields, job, rounds, control,
                 assignments, mixed, ofTasks, meddled>>

\* write_text truncates the file, then writes it.
SaveOpen(a) ==
  /\ At(a, "saveOpen")
  /\ file' = [file EXCEPT ![job[a]] = Torn]
  /\ pc' = [pc EXCEPT ![a] = "saveFile"]
  /\ UNCHANGED <<status, hot, refs, live, fields, job, rounds, control, bounds,
                 ofStores, ofTasks, meddled>>

SaveFile(a) ==
  /\ At(a, "saveFile")
  /\ file' = [file EXCEPT ![job[a]] = Snapshot(a)]
  /\ pc' = [pc EXCEPT ![a] = "saveRef"]
  /\ UNCHANGED <<status, hot, refs, live, fields, job, rounds, control, bounds,
                 ofStores, ofTasks, meddled>>

SaveRef(a) ==
  /\ At(a, "saveRef")
  /\ \/ refs' = [refs EXCEPT ![job[a]] = TRUE] /\ UNCHANGED events
     \/ Happens /\ UNCHANGED refs
  /\ pc' = [pc EXCEPT ![a] = Onward(a, rounds[a])]
  /\ Ends(a)
  /\ UNCHANGED <<status, hot, file, live, fields, job, rounds, control, assignments,
                 newest, ofTasks, meddled>>

DelHot(a) ==
  /\ At(a, "delHot")
  /\ newest' = [newest EXCEPT ![job[a]] = NoSnapshot]
  /\ \/ hot' = [hot EXCEPT ![job[a]] = NoSnapshot] /\ Begins(a, FALSE) /\ UNCHANGED events
     \/ Happens /\ Begins(a, hot[job[a]] # NoSnapshot) /\ UNCHANGED hot
  /\ pc' = [pc EXCEPT ![a] = "delFile"]
  /\ UNCHANGED <<status, file, refs, live, fields, job, rounds, control,
                 assignments, mixed, ofTasks, meddled>>

DelFile(a) ==
  /\ At(a, "delFile")
  /\ file' = [file EXCEPT ![job[a]] = NoSnapshot]
  /\ pc' = [pc EXCEPT ![a] = "delRef"]
  /\ UNCHANGED <<status, hot, refs, live, fields, job, rounds, control, bounds,
                 ofStores, ofTasks, meddled>>

\* After it _execute_task returns.
DelRef(a) ==
  /\ At(a, "delRef")
  /\ \/ /\ refs' = [refs EXCEPT ![job[a]] = FALSE]
        /\ left' = [left EXCEPT ![job[a]] = @ /\ file[job[a]] # NoSnapshot]
        /\ UNCHANGED events
     \/ /\ Happens
        /\ left' = [left EXCEPT ![job[a]] = TRUE]
        /\ UNCHANGED refs
  /\ Settle(a)
  /\ Ends(a)
  /\ UNCHANGED <<status, hot, file, live, conv, control, assignments, newest, lost,
                 late, meddled>>

-----------------------------------------------------------------------------
(***************************************************************************)
(* The coroutine of the control channel.  Commands are obeyed one by one.  *)
(***************************************************************************)
\* It runs unless the process is inside of a save or a deletion.
Awake(a) == live[a] /\ pc[a] \notin InStores
Obeys(a, cmd, step) == Awake(a) /\ ctl[a] # Listening /\ ctl[a].cmd = cmd
                       /\ ctl[a].step = step

Told(a, cmd, step) ==
  /\ Awake(a) /\ ctl[a] = Listening
  /\ Happens
  /\ ctl' = [ctl EXCEPT ![a] = [cmd |-> cmd, step |-> step, task |-> None]]
  /\ meddled' = [meddled EXCEPT ![a] = TRUE]

\* pause: the snapshot goes to Redis, unless that fails.  It holds conv, not the
\* conversation under way.
Pause(a) ==
  /\ Told(a, "pause", "read")
  /\ \/ paused' = [paused EXCEPT ![a] = [task |-> cur[a], conv |-> conv[a]]]
     \/ UNCHANGED paused
  /\ UNCHANGED <<status, stores, live, fields, runner, assignments, ofStores,
                 ofTasks>>

\* resume.
Resume(a) ==
  /\ Told(a, "resume", "load")
  /\ state' = [state EXCEPT ![a] = "RESUMING"]
  /\ UNCHANGED <<status, stores, live, cur, conv, runner, paused, assignments,
                 ofStores, ofTasks>>

\* .. takes the snapshot back, if there is one.
ResumeLoad(a) ==
  /\ Obeys(a, "resume", "load")
  /\ ctl' = [ctl EXCEPT ![a].step = "read"]
  /\ \/ /\ paused' = [paused EXCEPT ![a] = NotPaused]
        /\ IF paused[a] = NotPaused THEN UNCHANGED <<cur, conv>>
           ELSE /\ cur' = [cur EXCEPT ![a] = paused[a].task]
                /\ conv' = [conv EXCEPT ![a] = paused[a].conv]
        /\ UNCHANGED events
     \/ Happens /\ UNCHANGED <<paused, cur, conv>>
  /\ UNCHANGED <<status, stores, live, state, runner, assignments, ofStores,
                 ofTasks, meddled>>

\* pause and resume: the task of the UPDATE is that of the moment it is sent.
ReadTask(a) ==
  /\ Obeys(a, "pause", "read") \/ Obeys(a, "resume", "read")
  /\ ctl' = [ctl EXCEPT ![a].task = cur[a],
                        ![a].step = IF cur[a] = None THEN "end" ELSE "row"]
  /\ UNCHANGED <<status, stores, live, fields, runner, paused, bounds, ofStores,
                 ofTasks, meddled>>

\* UPDATE tasks SET status = .. WHERE id = ..
WriteTask(a) ==
  /\ Obeys(a, "pause", "row") \/ Obeys(a, "resume", "row")
  /\ LET t == ctl[a].task IN
       \/ /\ status' = [status EXCEPT ![t] = IF ctl[a].cmd = "pause" THEN "PAUSED"
                                             ELSE "RUNNING"]
          /\ late' = [late EXCEPT ![t] = @ \/ ~Worked(t)]
          /\ UNCHANGED events
       \/ Happens /\ UNCHANGED <<status, late>>
  /\ ctl' = [ctl EXCEPT ![a].step = "end"]
  /\ UNCHANGED <<stores, live, fields, runner, paused, assignments, ofStores, left,
                 lost, meddled>>

Obeyed(a) ==
  /\ Obeys(a, "pause", "end") \/ Obeys(a, "resume", "end")
  /\ state' = [state EXCEPT ![a] = IF ctl[a].cmd = "pause" THEN "PAUSED" ELSE "ACTIVE"]
  /\ ctl' = [ctl EXCEPT ![a] = Listening]
  /\ UNCHANGED <<status, stores, live, cur, conv, runner, paused, bounds, ofStores,
                 ofTasks, meddled>>

\* recover.
Recover(a) ==
  /\ Told(a, "recover", "load")
  /\ state' = [state EXCEPT ![a] = "RECOVERING"]
  /\ UNCHANGED <<status, stores, live, cur, conv, runner, paused, assignments,
                 ofStores, ofTasks>>

\* .. from the snapshot of a pause, which stays, or else from a checkpoint.
RecoverLoad(a) ==
  /\ Obeys(a, "recover", "load")
  /\ ctl' = [ctl EXCEPT ![a] = Listening]
  /\ \/ /\ paused[a] # NotPaused
        /\ cur' = [cur EXCEPT ![a] = paused[a].task]
        /\ conv' = [conv EXCEPT ![a] = paused[a].conv]
        /\ state' = [state EXCEPT ![a] = "ACTIVE"]
        /\ UNCHANGED events
     \/ /\ IF paused[a] = NotPaused THEN UNCHANGED events ELSE Happens
        /\ \E s \in IF cur[a] = None THEN {NoSnapshot} ELSE CouldLoad(cur[a]) :
             /\ conv' = [conv EXCEPT ![a] = IF s = NoSnapshot THEN @ ELSE s.rounds]
             /\ state' = [state EXCEPT ![a] = IF s = NoSnapshot THEN "IDLE" ELSE "ACTIVE"]
        /\ UNCHANGED cur
  /\ UNCHANGED <<status, stores, live, runner, paused, assignments, ofStores,
                 ofTasks, meddled>>

-----------------------------------------------------------------------------
(***************************************************************************)
(* Time and crashes.                                                       *)
(***************************************************************************)
\* The key of a checkpoint expires.
ExpireHot(t) ==
  /\ hot[t] # NoSnapshot
  /\ hot' = [hot EXCEPT ![t] = NoSnapshot]
  /\ UNCHANGED <<status, file, refs, live, fields, runner, control, bounds,
                 ofStores, ofTasks, meddled>>

\* The key of a paused agent expires.
ExpirePaused(a) ==
  /\ live[a] /\ paused[a] # NotPaused
  /\ paused' = [paused EXCEPT ![a] = NotPaused]
  /\ UNCHANGED <<status, stores, live, fields, runner, ctl, bounds, ofStores,
                 ofTasks, meddled>>

\* The process dies, and its fields with it.  A new one has another id: the key of
\* its pause is never read again.
Crash(a) ==
  /\ live[a] /\ Happens
  /\ live' = [live EXCEPT ![a] = FALSE]
  /\ pc' = [pc EXCEPT ![a] = "poll"]
  /\ job' = [job EXCEPT ![a] = None]
  /\ rounds' = [rounds EXCEPT ![a] = 0]
  /\ state' = [state EXCEPT ![a] = "IDLE"]
  /\ cur' = [cur EXCEPT ![a] = None]
  /\ conv' = [conv EXCEPT ![a] = 0]
  /\ ctl' = [ctl EXCEPT ![a] = Listening]
  /\ paused' = [paused EXCEPT ![a] = NotPaused]
  /\ meddled' = [meddled EXCEPT ![a] = FALSE]
  /\ dirty' = [dirty EXCEPT ![a] = FALSE]
  /\ IF pc[a] = "poll" THEN UNCHANGED <<left, lost, mixed>>
     ELSE /\ left' = [left EXCEPT ![job[a]] = TRUE]
          /\ lost' = [lost EXCEPT ![job[a]] = @ \/ pc[a] \in Working]
          /\ mixed' = [mixed EXCEPT ![job[a]] = @ \/ pc[a] \in InStores]
  /\ UNCHANGED <<status, stores, assignments, newest, late>>

Execute(a) ==
  \/ \E t \in Tasks : Claim(a, t)
  \/ Restore(a) \/ Answer(a) \/ Round(a) \/ GiveUp(a) \/ Raise(a) \/ Write(a)
  \/ SaveHot(a) \/ SaveOpen(a) \/ SaveFile(a) \/ SaveRef(a)
  \/ DelHot(a) \/ DelFile(a) \/ DelRef(a)

Listen(a) ==
  \/ Pause(a) \/ Resume(a) \/ Recover(a)
  \/ ResumeLoad(a) \/ ReadTask(a) \/ WriteTask(a) \/ Obeyed(a) \/ RecoverLoad(a)

Next ==
  \/ \E t \in Tasks : Assign(t) \/ ExpireHot(t)
  \/ \E a \in Agents : Execute(a) \/ Listen(a) \/ ExpirePaused(a) \/ Crash(a)

Spec == Init /\ [][Next]_vars
-----------------------------------------------------------------------------
(***************************************************************************)
(* Properties.                                                             *)
(***************************************************************************)
\* The three stores agree as far as load_checkpoint can tell: while nobody saves
\* or deletes the checkpoint of a task it returns the last one saved, or nothing
\* when it was deleted, whether or not the key in Redis has expired.  (Not when
\* the last save or deletion was interrupted, met another one of the task or was
\* failed by Redis: then an old key may hide a new file, or the reverse.)
LoadIsNewest ==
  \A t \in Tasks : Writers(t) = {} /\ ~mixed[t] => Loaded(t) = newest[t]

\* A file or a row of a checkpoint belongs to a task somebody is running, who
\* will delete it, also when two agents run the same task: no run ends with its
\* checkpoint left behind, unless by a crash or an exception.
CheckpointsAreDeleted ==
  \A t \in Tasks :
    /\ file[t] # NoSnapshot => left[t] \/ Held(t, Running \ {"delRef"})
    /\ refs[t] => left[t] \/ Held(t, Running)

\* A row that reads RUNNING or PAUSED is that of a task somebody is running (no
\* process looks for such rows): pause does not stop a run, so its outcome will
\* be written over PAUSED.  (Not after a crash or an exception, and not when a
\* command's UPDATE, which has no condition, comes when nobody runs the task.)
RowsAreWorked ==
  \A t \in Tasks :
    status[t] \in {"RUNNING", "PAUSED"} => Worked(t) \/ lost[t] \/ late[t]

\* What the fields, and so the heartbeats, say of an agent is what it does,
\* although two coroutines write them: an agent reports IDLE and has no current
\* task exactly while it polls.  (Not after a command or an exception.)
ReportsItsWork ==
  \A a \in Agents :
    live[a] /\ ~meddled[a]
      => /\ pc[a] = "poll" <=> state[a] = "IDLE"
         /\ cur[a] = job[a]

\* An agent that claims the task of a dead one goes on from its checkpoint: the
\* first call has the rounds that were restored (integration_test_spec.md:192).
ResumesFromCheckpoint ==
  [][\A a \in Agents :
       At(a, "warm") /\ pc'[a] = "call" /\ Loaded(job[a]) # NoSnapshot
         => rounds'[a] >= Loaded(job[a]).rounds]_vars
=============================================================================
