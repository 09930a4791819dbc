-------------------------- MODULE SandboxPipeline --------------------------
(***************************************************************************)
(* The sandbox (rasa/sandbox/pipeline.py, scanner.py): processes that take *)
(* sandbox_execute messages one at a time, copy the working tree into a    *)
(* directory of the task, scan, build and test the copy, and copy what     *)
(* differs back into the tree, while agents go on editing the tree.        *)
(*                                                                         *)
(* A file is a path with a version; builds and tests may write files of    *)
(* their own.  Their commands are processes that nothing kills: one that   *)
(* runs out of time, or whose pipeline dies, runs on in the directory.     *)
(* What the scanners look for is a choice, which a scanner that is missing *)
(* or times out makes in favour of the file.  The orphan reaper subtracts  *)
(* file times from time.monotonic(), finds every directory younger than    *)
(* the machine's start, and reaps none.                                    *)
(***************************************************************************)
EXTENDS Naturals, FiniteSets

CONSTANTS
  Runners,   \* sandbox processes
  Mortal,    \* those of them that may die (a bound)
  Tasks,     \* task ids
  Paths,     \* files of the working tree
  MaxEdits,  \* bound on the edits of the tree: versions are 0..MaxEdits
  MaxRuns,   \* bound on messages taken
  MaxFaults, \* bound on crashes, and on gates that fail by an error
  NoTask     \* no task

SandboxConstants ==
  /\ NoTask \notin Tasks /\ Mortal \subseteq Runners
  /\ MaxEdits \in Nat /\ MaxRuns \in Nat /\ MaxFaults \in Nat

VARIABLES
  tree,     \* tree[p]: the version in the working tree
  made,     \* edits so far, the last version made
  box,      \* box[t]: data_dir / t: pairs <<path, version>>
  strays,   \* tasks in whose directory a command of an earlier gate runs on
  gate,     \* gate[r]: where run_pipeline of process r is
  task,     \* task[r]: its task
  clean,    \* clean[r]: history, what the directory held when it was scanned
  visited,  \* visited[r]: paths the copying under way has dealt with
  written,  \* written[r]: history, what its build and tests wrote
  crowded,  \* crowded[r]: history, another process has used the directory, or
            \* a command that outlived an earlier run still ran in it
  odd,      \* history: versions a promotion wrote that were neither scanned
            \* nor written by the build or the tests of that run
  taken,    \* messages taken
  errors    \* faults so far

runner == <<gate, task, visited, clean, written, crowded>>
vars == <<tree, made, box, strays, runner, odd, taken, errors>>

Built == MaxEdits + 1  \* what a build or a test writes
Left == MaxEdits + 2   \* what a command that was given up writes
Versions == 0..Left
Files == Paths \X Versions
Gates == {"idle", "clone", "scan", "build", "test", "promote", "cleanup"}

TypeOK ==
  /\ tree \in [Paths -> Versions] /\ made \in 0..MaxEdits
  /\ box \in [Tasks -> SUBSET Files]
  /\ \A t \in Tasks, f, g \in Files :
       f \in box[t] /\ g \in box[t] /\ f[1] = g[1] => f = g
  /\ strays \subseteq Tasks
  /\ gate \in [Runners -> Gates]
  /\ task \in [Runners -> Tasks \cup {NoTask}]
  /\ \A r \in Runners : gate[r] = "idle" <=> task[r] = NoTask
  /\ visited \in [Runners -> SUBSET Paths]
  /\ clean \in [Runners -> SUBSET Files]
  /\ written \in [Runners -> SUBSET Files]
  /\ crowded \in [Runners -> BOOLEAN]
  /\ odd \subseteq Files
  /\ taken \in 0..MaxRuns /\ errors \in 0..MaxFaults

Init ==
  /\ tree = [p \in Paths |-> 0] /\ made = 0
  /\ box = [t \in Tasks |-> {}] /\ strays = {}
  /\ gate = [r \in Runners |-> "idle"] /\ task = [r \in Runners |-> NoTask]
  /\ visited = [r \in Runners |-> {}]
  /\ clean = [r \in Runners |-> {}] /\ written = [r \in Runners |-> {}]
  /\ crowded = [r \in Runners |-> FALSE]
  /\ odd = {} /\ taken = 0 /\ errors = 0

Error == errors < MaxFaults /\ errors' = errors + 1

(* copy2: the file takes the place of the one at its path. *)
Put(files, f) == {g \in files : g[1] # f[1]} \cup {f}

(* An agent or a person edits the working tree. *)
Edit(p) ==
  /\ made < MaxEdits
  /\ made' = made + 1
  /\ tree' = [tree EXCEPT ![p] = made + 1]
  /\ UNCHANGED <<box, strays, runner, odd, taken, errors>>

(* _handle_execute, run_pipeline: a directory a crash left behind is used  *)
(* as it is.  A Python subscriber takes no lock, so that two processes may *)
(* be handed one message.                                                  *)
Take(r, t) ==
  /\ gate[r] = "idle" /\ taken < MaxRuns
  /\ taken' = taken + 1
  /\ gate' = [gate EXCEPT ![r] = "clone"]
  /\ task' = [task EXCEPT ![r] = t]
  /\ visited' = [visited EXCEPT ![r] = {}]
  /\ clean' = [clean EXCEPT ![r] = {}] /\ written' = [written EXCEPT ![r] = {}]
  /\ crowded' = [q \in Runners |->
                   IF q = r THEN t \in strays \/ \E x \in Runners : task[x] = t
                   ELSE crowded[q] \/ task[q] = t]
  /\ UNCHANGED <<tree, made, box, strays, odd, errors>>

(* _clone copies one file after the other. *)
CloneFile(r, p) ==
  /\ gate[r] = "clone" /\ p \notin visited[r]
  /\ box' = [box EXCEPT ![task[r]] = Put(@, <<p, tree[p]>>)]
  /\ visited' = [visited EXCEPT ![r] = @ \cup {p}]
  /\ UNCHANGED <<tree, made, strays, gate, task, clean, written, crowded, odd,
                 taken, errors>>

(* The payload names the files, or everything is copied. *)
Cloned(r) ==
  /\ gate[r] = "clone"
  /\ gate' = [gate EXCEPT ![r] = "scan"]
  /\ UNCHANGED <<tree, made, box, strays, task, visited, clean, written, crowded,
                 odd, taken, errors>>

(* A faulty variant, for the mutant: only files as they are in the tree.   *)
ScanChanged(r) ==
  /\ gate[r] = "scan"
  /\ clean' = [clean EXCEPT ![r] = {f \in box[task[r]] : f[2] = tree[f[1]]}]
  /\ gate' = [gate EXCEPT ![r] = "build"]
  /\ UNCHANGED <<tree, made, box, strays, task, visited, written, crowded, odd,
                 taken, errors>>

(* scan_directory: the whole directory.  It blocks the event loop, not the *)
(* other processes.                                                        *)
Scan(r) ==
  /\ gate[r] = "scan"
  /\ clean' = [clean EXCEPT ![r] = box[task[r]]]
  /\ gate' = [gate EXCEPT ![r] = "build"]
  /\ UNCHANGED <<tree, made, box, strays, task, visited, written, crowded, odd,
                 taken, errors>>

(* _build, _test: commands run in the directory, and what they write stays.*)
RunIn(r, at, next) ==
  /\ gate[r] = at
  /\ \/ UNCHANGED <<box, written>>
     \/ \E p \in Paths :
          /\ box' = [box EXCEPT ![task[r]] = Put(@, <<p, Built>>)]
          /\ written' = [written EXCEPT ![r] = @ \cup {<<p, Built>>}]
  /\ gate' = [gate EXCEPT ![r] = next]
  /\ visited' = [visited EXCEPT ![r] = {}]
  /\ UNCHANGED <<tree, made, strays, task, clean, crowded, odd, taken, errors>>

Build(r) == RunIn(r, "build", "test")
Test(r) == RunIn(r, "test", "promote")

(* A command of a gate may still run when the gate is over: wait_for ends  *)
(* communicate, not the process, and a child outlives its parent.          *)
GaveUp(r) ==
  strays' \in IF gate[r] \in {"build", "test"}
             THEN {strays, strays \cup {task[r]}} ELSE {strays}

(* It writes when it will, also when the directory is of another run.      *)
StrayWrites(t) ==
  /\ t \in strays
  /\ \E p \in Paths : box' = [box EXCEPT ![t] = Put(@, <<p, Left>>)]
  /\ UNCHANGED <<tree, made, strays, runner, odd, taken, errors>>

StrayEnds(t) ==
  /\ t \in strays /\ strays' = strays \ {t}
  /\ UNCHANGED <<tree, made, box, runner, odd, taken, errors>>

(* Findings, a command that fails or takes too long, a copy that fails:    *)
(* the run is over, and what was promoted so far stays.                    *)
FailGate(r) ==
  /\ gate[r] \in {"clone", "scan", "build", "test", "promote"} /\ Error
  /\ GaveUp(r)
  /\ gate' = [gate EXCEPT ![r] = "cleanup"]
  /\ UNCHANGED <<tree, made, box, task, visited, clean, written, crowded, odd,
                 taken>>

(* _promote: one file after the other, where it differs. *)
PromoteFile(r, f) ==
  /\ gate[r] = "promote"
  /\ f \in box[task[r]] /\ f[1] \notin visited[r]
  /\ visited' = [visited EXCEPT ![r] = @ \cup {f[1]}]
  /\ tree' = [tree EXCEPT ![f[1]] = f[2]]
  /\ odd' = IF \/ tree[f[1]] = f[2] \/ crowded[r]
               \/ f \in clean[r] \cup written[r]
            THEN odd ELSE odd \cup {f}
  /\ UNCHANGED <<made, box, strays, gate, task, clean, written, crowded, taken,
                 errors>>

Promoted(r) ==
  /\ gate[r] = "promote" /\ \A f \in box[task[r]] : f[1] \in visited[r]
  /\ gate' = [gate EXCEPT ![r] = "cleanup"]
  /\ UNCHANGED <<tree, made, box, strays, task, visited, clean, written, crowded,
                 odd, taken, errors>>

(* _cleanup removes the directory, also under another process; what is in  *)
(* use may stay, as errors are ignored.                                    *)
Cleanup(r) ==
  /\ gate[r] = "cleanup"
  /\ \E kept \in IF task[r] \in strays THEN SUBSET box[task[r]] ELSE {{}} :
       box' = [box EXCEPT ![task[r]] = kept]
  /\ gate' = [gate EXCEPT ![r] = "idle"] /\ task' = [task EXCEPT ![r] = NoTask]
  /\ UNCHANGED <<tree, made, strays, visited, clean, written, crowded, odd,
                 taken, errors>>

(* A process that is killed cleans nothing up. *)
Crash(r) ==
  /\ r \in Mortal /\ gate[r] # "idle" /\ Error
  /\ GaveUp(r)
  /\ gate' = [gate EXCEPT ![r] = "idle"] /\ task' = [task EXCEPT ![r] = NoTask]
  /\ UNCHANGED <<tree, made, box, visited, clean, written, crowded, odd, taken>>

RunnerStep(r) ==
  \/ \E t \in Tasks : Take(r, t)
  \/ \E p \in Paths : CloneFile(r, p)
  \/ Cloned(r) \/ Scan(r) \/ Build(r) \/ Test(r) \/ FailGate(r)
  \/ \E f \in Files : PromoteFile(r, f)
  \/ Promoted(r) \/ Cleanup(r) \/ Crash(r)

Next ==
  \/ \E p \in Paths : Edit(p)
  \/ \E r \in Runners : RunnerStep(r)
  \/ \E t \in Tasks : StrayWrites(t) \/ StrayEnds(t)

Spec == Init /\ [][Next]_vars

(* Promotion may undo an edit made since the clone, and spread what a      *)
(* crashed run left.  But a run that has its directory to itself, with no  *)
(* other process in it and no command that an earlier run gave up, writes  *)
(* nothing that was not in the directory when it was scanned, and that its *)
(* own build or tests did not write after the scan.                        *)
PromotedWasScanned == odd = {}

(* sandbox_pipeline.md has the process tree of a build or test that takes  *)
(* too long killed: what it writes afterwards never reaches the tree.  It  *)
(* does, by way of a later run of the task.                                *)
TimeoutsKill == \A p \in Paths : tree[p] # Left
=============================================================================
