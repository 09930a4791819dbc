--------------------------- MODULE ServicesProofs ---------------------------
(***************************************************************************)
(* The parts of RASA that keep their state to themselves, for any          *)
(* constants: what the agents use (the gate before a tool runs, the        *)
(* sandbox, the LLM gateway), the chat with the orchestrator, and what the *)
(* agents know (their souls, the registry of their capabilities, the graph *)
(* of the codebase).                                                       *)
(*                                                                         *)
(* GateHolds has three parts and each needs to know more: TicketInv that a *)
(* review belongs to the call that waits for it, hence to no other, and    *)
(* has let nothing run; PromiseInv that a review not answered yet is still *)
(* waited for or given up; FreshInv that who could read the rules a short  *)
(* while ago knows those that were out before.                             *)
(*                                                                         *)
(* That nothing odd was promoted is not inductive: AloneInv adds that a    *)
(* process that is not crowded has its directory to itself, and CleanInv   *)
(* that from the scan on such a directory holds nothing but what was       *)
(* scanned and what the run's own commands wrote.                          *)
(*                                                                         *)
(* Whom an answer was made for is known because CacheInv says what the     *)
(* cache can hold, and TalkInv that a conversation does not move while a   *)
(* call for it is under way.                                               *)
(*                                                                         *)
(* That tool results follow their calls needs RoundInv, that while tools   *)
(* run the last message is of their round, and QueueInv, that only the     *)
(* request served can be at work unless one overran.  That answers come    *)
(* forward needs OrderInv: whatever is shown, read or written is of a      *)
(* request not later than the one served and those in the queue.  CountInv *)
(* counts the answers to a request where they are: shown, read, written,   *)
(* owed by main and owed by the coroutine, two in all.                     *)
(*                                                                         *)
(* That an old soul is seen to be old needs LoaderInv: what a loader has   *)
(* read is the sheet, or an edit while it reads is remembered.             *)
(*                                                                         *)
(* The registry follows the sheets because every pass still owes what it   *)
(* has not done yet: DebtInv says who owes what, WatchInv that no pass     *)
(* deletes a soul that could be loaded all the time, nor loads one that    *)
(* could not, and AgeInv that nobody loads what is older than the sheet    *)
(* was when the passes began.                                              *)
(*                                                                         *)
(* The graph is whole because what a run deletes is all there is, unless   *)
(* it met another run (WipeInv), so that the table then holds what one run *)
(* found (WholeInv).  JobInv says that what a job has still to do is not   *)
(* embedded, while it is the only one.                                     *)
(***************************************************************************)
EXTENDS Components, SequenceTheorems, FiniteSetTheorems, WellFoundedInduction,
        TLAPS

ToolsStep == Tools!Next \/ UNCHANGED tools
SandboxStep == Sandbox!Next \/ UNCHANGED sandbox
GatewayStep == Gateway!Next \/ UNCHANGED gateway
ChatStep == Chat!Next \/ UNCHANGED chat
SoulsStep == Loader!Next \/ UNCHANGED souls
RegistryStep == Registry!Next \/ UNCHANGED registry
GraphStep == Graph!Next \/ UNCHANGED graph

\* A step of the whole is a step of the part that moves, and the part that
\* moves stays the one that does.
LEMMA PartsMove ==
  ASSUME [Next]_vars
  PROVE  /\ part' = part
         /\ part = "tools" => ToolsStep
         /\ part = "sandbox" => SandboxStep
         /\ part = "gateway" => GatewayStep
         /\ part = "chat" => ChatStep
         /\ part = "souls" => SoulsStep
         /\ part = "registry" => RegistryStep
         /\ part = "graph" => GraphStep
<1> USE DEF ToolsStep, SandboxStep, GatewayStep, ChatStep, SoulsStep,
            RegistryStep, GraphStep
<1>1. CASE UNCHANGED vars
  BY <1>1 DEF vars
<1>2. ASSUME NEW p, OtherThan(p), Next
      PROVE  /\ part' = part
             /\ part = "tools" => ToolsStep
             /\ part = "sandbox" => SandboxStep
             /\ part = "gateway" => GatewayStep
             /\ part = "chat" => ChatStep
             /\ part = "souls" => SoulsStep
             /\ part = "registry" => RegistryStep
             /\ part = "graph" => GraphStep
  BY <1>2 DEF OtherThan, Next
<1> QED
  BY <1>1, <1>2 DEF Next

(***************************************************************************)
(* The gate before a tool runs.                                            *)
(***************************************************************************)

TicketInv ==
  /\ \A a \in AtGate.agents :
       /\ pc[a] \in {"idle", "ask"} => ticket[a] = 0
       /\ pc[a] = "run" /\ tool[a] \in AtGate.confirm => ticket[a] # 0
       /\ pc[a] = "run" /\ ticket[a] # 0 => answer[ticket[a]] = "yes"
       /\ ticket[a] # 0 =>
            /\ answer[ticket[a]] # "none" /\ asker[ticket[a]] = <<a, tool[a]>>
            /\ ran[ticket[a]] = 0
  /\ \A r \in Tools!Reviews :
       /\ ran[r] \in {0, 1}
       /\ ran[r] = 1 => answer[r] = "yes"

PromiseInv ==
  \A r \in Tools!Reviews : answer[r] \in {"pending", "yes"} =>
    ran[r] = 1 \/ r \in dropped \/ \E a \in AtGate.agents : ticket[a] = r

FreshInv == \A a \in young \ blind : longOut \subseteq cache[a]

GateInv == TicketInv /\ PromiseInv /\ FreshInv /\ Tools!OldRulesHold

\* What an agent's look at the rules leaves behind.
LEMMA RulesLookedAt ==
  ASSUME Tools!GateConstants, Tools!TypeOK, FreshInv,
         NEW a \in AtGate.agents, Tools!GetRules(a)
  PROVE  /\ cache' \in [AtGate.agents -> (SUBSET AtGate.tools) \cup {{"none"}}]
         /\ young' \subseteq AtGate.agents /\ a \in young'
         /\ blind' \subseteq AtGate.agents
         /\ mishaps' \in 0..AtGate.maxFaults
         /\ \A b \in young' \ blind' : longOut \subseteq cache'[b]
<1>1. CASE /\ cache[a] # {"none"} /\ a \in young
           /\ UNCHANGED <<Tools!client, mishaps>>
  BY <1>1 DEF Tools!client, Tools!TypeOK, FreshInv
<1>2. CASE /\ young' = young \cup {a}
           /\ cache' = [cache EXCEPT ![a] = denied] /\ blind' = blind \ {a}
           /\ UNCHANGED mishaps
  BY <1>2 DEF Tools!TypeOK, FreshInv
<1>3. CASE /\ young' = young \cup {a}
           /\ cache' = [cache EXCEPT ![a] = IF @ = {"none"} THEN {} ELSE @]
           /\ blind' = blind \cup {a}
           /\ Tools!Mishap
  <2>1. /\ cache \in [AtGate.agents -> (SUBSET AtGate.tools) \cup {{"none"}}]
        /\ young \subseteq AtGate.agents /\ blind \subseteq AtGate.agents
    BY DEF Tools!TypeOK
  <2>2. mishaps' \in 0..AtGate.maxFaults
    BY <1>3 DEF Tools!Mishap, Tools!TypeOK, Tools!GateConstants
  <2>3. cache' \in [AtGate.agents -> (SUBSET AtGate.tools) \cup {{"none"}}]
    BY <1>3, <2>1
  <2>4. \A b \in young' \ blind' : cache'[b] = cache[b] /\ b \in young \ blind
    BY <1>3, <2>1
  <2> QED
    BY <1>3, <2>1, <2>2, <2>3, <2>4 DEF FreshInv
<1> QED
  BY <1>1, <1>2, <1>3 DEF Tools!GetRules

\* Agents and reviews begin with nothing under way.
LEMMA GateStart ==
  ASSUME Tools!GateConstants, Tools!Init PROVE Tools!TypeOK /\ GateInv
<1> USE DEF Tools!GateConstants, Tools!Init, Tools!Reviews
<1>1. Tools!TypeOK
  BY DEF Tools!TypeOK
<1>2. TicketInv /\ PromiseInv
  BY DEF TicketInv, PromiseInv
<1>3. FreshInv /\ Tools!OldRulesHold
  BY DEF FreshInv, Tools!OldRulesHold
<1> QED
  BY <1>1, <1>2, <1>3 DEF GateInv

\* The types of the calls under way.
CallType ==
  /\ pc \in [AtGate.agents -> {"idle", "ask", "wait", "run"}]
  /\ tool \in [AtGate.agents -> AtGate.tools \cup {AtGate.noTool}]
  /\ ticket \in [AtGate.agents -> Tools!Reviews \cup {0}]
  /\ \A a \in AtGate.agents :
       /\ pc[a] = "idle" <=> tool[a] = AtGate.noTool
       /\ pc[a] = "wait" => ticket[a] # 0

\* A call that is over leaves them as they should be.
LEMMA CallEnds ==
  ASSUME Tools!TypeOK, NEW a \in AtGate.agents, Tools!Over(a) PROVE CallType'
BY DEF Tools!TypeOK, Tools!Over, CallType

\* Every step keeps the variables in their types.
LEMMA GateTypeStep ==
  ASSUME Tools!GateConstants, Tools!TypeOK, FreshInv, ToolsStep
  PROVE  Tools!TypeOK'
<1> USE DEF Tools!rules, Tools!client, Tools!call, Tools!reviews
<1>1. ASSUME NEW ts \in SUBSET AtGate.tools, Tools!SetRules(ts)
      PROVE  Tools!TypeOK'
  <2>1. denied' \subseteq AtGate.tools /\ longOut' \subseteq denied'
    BY <1>1, Zenon DEF Tools!SetRules
  <2>2. edits' \in 0..AtGate.maxEdits
    BY <1>1 DEF Tools!SetRules, Tools!TypeOK, Tools!GateConstants
  <2> QED
    BY <1>1, <2>1, <2>2 DEF Tools!SetRules, Tools!TypeOK
<1>2. CASE Tools!Tick
  BY <1>2 DEF Tools!Tick, Tools!TypeOK
<1>3. ASSUME NEW a \in AtGate.agents, NEW t \in AtGate.tools,
             Tools!CallTool(a, t)
      PROVE  Tools!TypeOK'
  <2>1. /\ cache' \in [AtGate.agents -> (SUBSET AtGate.tools) \cup {{"none"}}]
        /\ young' \subseteq AtGate.agents /\ blind' \subseteq AtGate.agents
        /\ mishaps' \in 0..AtGate.maxFaults
    BY <1>3, RulesLookedAt DEF Tools!CallTool, Tools!TypeOK
  <2>2. CASE Tools!Refuses(a, t)
    BY <1>3, <2>1, <2>2 DEF Tools!CallTool, Tools!TypeOK
  <2>3. CASE ~Tools!Refuses(a, t)
    <3>1. /\ pc' = [pc EXCEPT ![a] =
                      IF t \in AtGate.confirm THEN "ask" ELSE "run"]
          /\ tool' = [tool EXCEPT ![a] = t]
          /\ ticket' = ticket /\ t # AtGate.noTool
      BY <1>3, <2>3, Zenon DEF Tools!CallTool, Tools!GateConstants
    <3>2. CallType'
      BY <3>1 DEF Tools!TypeOK, CallType
    <3>3. slipped' \in {slipped, slipped \cup {<<a, t>>}}
      BY <1>3, <2>3, Zenon DEF Tools!CallTool
    <3>4. slipped' \subseteq AtGate.agents \X AtGate.tools
      BY <3>3 DEF Tools!TypeOK
    <3> QED
      BY <1>3, <2>1, <3>2, <3>4 DEF Tools!CallTool, Tools!TypeOK, CallType
  <2> QED
    BY <2>2, <2>3
<1>4. ASSUME NEW a \in AtGate.agents, NEW r \in Tools!Reviews,
             Tools!Request(a, r)
      PROVE  Tools!TypeOK'
  <2>1. r # 0 /\ tool[a] \in AtGate.tools
    BY <1>4 DEF Tools!Request, Tools!Reviews, Tools!GateConstants, Tools!TypeOK
  <2>2. asker' \in [Tools!Reviews ->
                       (AtGate.agents \X AtGate.tools) \cup {<<>>}]
    BY <1>4, <2>1 DEF Tools!Request, Tools!TypeOK
  <2> QED
    BY <1>4, <2>1, <2>2 DEF Tools!Request, Tools!TypeOK
<1>5. ASSUME NEW a \in AtGate.agents, Tools!Look(a) PROVE Tools!TypeOK'
  <2>1. CallType'
    <3>1. CASE Tools!Over(a)
      BY <3>1, CallEnds
    <3>2. CASE pc' = [pc EXCEPT ![a] = "run"] /\ UNCHANGED <<tool, ticket>>
      BY <1>5, <3>2 DEF Tools!Look, Tools!TypeOK, CallType
    <3> QED
      BY <1>5, <3>1, <3>2, Zenon DEF Tools!Look
  <2> QED
    BY <1>5, <2>1 DEF Tools!Look, Tools!TypeOK, CallType
<1>6. ASSUME NEW a \in AtGate.agents, Tools!StopWaiting(a) PROVE Tools!TypeOK'
  <2>1. CallType'
    BY <1>6, CallEnds DEF Tools!StopWaiting
  <2> QED
    BY <1>6, <2>1 DEF Tools!StopWaiting, Tools!TypeOK, CallType
<1>7. ASSUME NEW a \in AtGate.agents, Tools!Fail(a) PROVE Tools!TypeOK'
  <2>1. CallType' /\ mishaps' \in 0..AtGate.maxFaults
    BY <1>7, CallEnds DEF Tools!Fail, Tools!Mishap, Tools!TypeOK,
       Tools!GateConstants
  <2> QED
    BY <1>7, <2>1 DEF Tools!Fail, Tools!TypeOK, CallType
<1>8. ASSUME NEW a \in AtGate.agents, Tools!Execute(a) PROVE Tools!TypeOK'
  <2>1. CallType'
    BY <1>8, CallEnds DEF Tools!Execute
  <2>2. ran' \in [Tools!Reviews -> Nat]
    <3>1. ran' \in {ran, [ran EXCEPT ![ticket[a]] = @ + 1]}
      BY <1>8, Zenon DEF Tools!Execute
    <3> QED
      BY <3>1 DEF Tools!TypeOK
  <2> QED
    BY <1>8, <2>1, <2>2 DEF Tools!Execute, Tools!TypeOK, CallType
<1>9. ASSUME NEW r \in Tools!Reviews, NEW v \in {"yes", "no"},
             Tools!Respond(r, v)
      PROVE  Tools!TypeOK'
  BY <1>9 DEF Tools!Respond, Tools!TypeOK
<1>10. CASE UNCHANGED tools
  BY <1>10 DEF tools, Tools!TypeOK
<1> QED
  BY <1>1, <1>2, <1>3, <1>4, <1>5, <1>6, <1>7, <1>8, <1>9, <1>10
  DEF ToolsStep, Tools!Next, Tools!AgentStep

\* Every step keeps reviews and calls together.
LEMMA TicketStep ==
  ASSUME Tools!GateConstants, Tools!TypeOK, TicketInv, PromiseInv, ToolsStep
  PROVE  TicketInv' /\ PromiseInv'
<1> USE DEF Tools!TypeOK, Tools!GateConstants, Tools!rules, Tools!client,
        Tools!call, Tools!reviews, Tools!Reviews, TicketInv, PromiseInv
<1>1. ASSUME NEW ts \in SUBSET AtGate.tools, Tools!SetRules(ts)
      PROVE  TicketInv' /\ PromiseInv'
  BY <1>1 DEF Tools!SetRules
<1>2. CASE Tools!Tick
  BY <1>2 DEF Tools!Tick
<1>3. ASSUME NEW a \in AtGate.agents, NEW t \in AtGate.tools,
             Tools!CallTool(a, t)
      PROVE  TicketInv' /\ PromiseInv'
  BY <1>3 DEF Tools!CallTool
<1>4. ASSUME NEW a \in AtGate.agents, NEW r \in Tools!Reviews,
             Tools!Request(a, r)
      PROVE  TicketInv' /\ PromiseInv'
  <2>1. TicketInv'
    BY <1>4 DEF Tools!Request
  <2>2. PromiseInv'
    BY <1>4 DEF Tools!Request
  <2> QED
    BY <2>1, <2>2
<1>5. ASSUME NEW a \in AtGate.agents, Tools!Look(a)
      PROVE  TicketInv' /\ PromiseInv'
  BY <1>5 DEF Tools!Look, Tools!Over
<1>6. ASSUME NEW a \in AtGate.agents, Tools!StopWaiting(a)
      PROVE  TicketInv' /\ PromiseInv'
  BY <1>6 DEF Tools!StopWaiting, Tools!Over
<1>7. ASSUME NEW a \in AtGate.agents, Tools!Fail(a)
      PROVE  TicketInv' /\ PromiseInv'
  BY <1>7 DEF Tools!Fail, Tools!Over
<1>8. ASSUME NEW a \in AtGate.agents, Tools!Execute(a)
      PROVE  TicketInv' /\ PromiseInv'
  <2>1. \A b \in AtGate.agents \ {a} : ticket[b] # 0 => ticket[b] # ticket[a]
    OBVIOUS
  <2>2. TicketInv'
    BY <1>8, <2>1 DEF Tools!Execute, Tools!Over
  <2>3. PromiseInv'
    BY <1>8 DEF Tools!Execute, Tools!Over
  <2> QED
    BY <2>2, <2>3
<1>9. ASSUME NEW r \in Tools!Reviews, NEW v \in {"yes", "no"},
             Tools!Respond(r, v)
      PROVE  TicketInv' /\ PromiseInv'
  BY <1>9 DEF Tools!Respond
<1>10. CASE UNCHANGED tools
  BY <1>10 DEF tools
<1> HIDE DEF Tools!TypeOK, Tools!GateConstants, Tools!Reviews, TicketInv,
             PromiseInv
<1> QED
  BY <1>1, <1>2, <1>3, <1>4, <1>5, <1>6, <1>7, <1>8, <1>9, <1>10
  DEF ToolsStep, Tools!Next, Tools!AgentStep

\* Every step keeps the rules of who could read them.
LEMMA FreshStep ==
  ASSUME Tools!GateConstants, Tools!TypeOK, FreshInv, Tools!OldRulesHold,
         ToolsStep
  PROVE  FreshInv' /\ Tools!OldRulesHold'
<1> USE DEF Tools!TypeOK, FreshInv, Tools!OldRulesHold, Tools!rules,
            Tools!client, Tools!call, Tools!reviews
<1>1. ASSUME NEW ts \in SUBSET AtGate.tools, Tools!SetRules(ts)
      PROVE  FreshInv' /\ Tools!OldRulesHold'
  <2>1. longOut' \subseteq longOut
    BY <1>1, Zenon DEF Tools!SetRules
  <2> QED
    BY <1>1, <2>1 DEF Tools!SetRules
<1>2. CASE Tools!Tick
  BY <1>2 DEF Tools!Tick
<1>3. ASSUME NEW a \in AtGate.agents, NEW t \in AtGate.tools,
             Tools!CallTool(a, t)
      PROVE  FreshInv' /\ Tools!OldRulesHold'
  <2>1. CASE a \in AtGate.autoInvoke
    <3>1. Tools!GetRules(a)
      BY <1>3, <2>1, Zenon DEF Tools!CallTool
    <3> longOut' = longOut
      BY <1>3, <2>1 DEF Tools!CallTool
    <3>2. /\ a \in young'
          /\ \A b \in young' \ blind' : longOut \subseteq cache'[b]
      BY <3>1, RulesLookedAt
    <3>3. slipped' = slipped
      <4>1. CASE Tools!Refuses(a, t)
        BY <1>3, <4>1 DEF Tools!CallTool
      <4>2. CASE ~Tools!Refuses(a, t)
        <5>1. t \notin cache'[a]
          BY <2>1, <4>2 DEF Tools!Refuses
        <5>2. slipped' = IF t \in longOut /\ a \notin blind'
                         THEN slipped \cup {<<a, t>>} ELSE slipped
          BY <1>3, <4>2 DEF Tools!CallTool
        <5> QED
          BY <3>2, <5>1, <5>2
      <4> QED
        BY <4>1, <4>2
    <3> QED
      BY <3>1, <3>2, <3>3
  <2>2. CASE a \notin AtGate.autoInvoke
    <3>1. UNCHANGED <<Tools!client, mishaps>>
      BY <1>3, <2>2, Zenon DEF Tools!CallTool
    <3> longOut' = longOut
      BY <1>3 DEF Tools!CallTool
    <3>2. slipped' \in {slipped, slipped \cup {<<a, t>>}}
      BY <1>3 DEF Tools!CallTool
    <3> QED
      BY <2>2, <3>1, <3>2
  <2> QED
    BY <2>1, <2>2
<1>4. CASE UNCHANGED <<Tools!rules, Tools!client, slipped>>
  BY <1>4
<1> QED
  BY <1>1, <1>2, <1>3, <1>4 DEF ToolsStep, tools, Tools!Next, Tools!AgentStep,
     Tools!Request, Tools!Look,
     Tools!StopWaiting, Tools!Fail, Tools!Execute, Tools!Respond

\* All of it together.
LEMMA GateStep ==
  ASSUME Tools!GateConstants, Tools!TypeOK, GateInv, ToolsStep
  PROVE  Tools!TypeOK' /\ GateInv'
BY GateTypeStep, TicketStep, FreshStep DEF GateInv

\* The gate's variables keep their types.
THEOREM GateTypes == Spec => [](part = "tools" => Tools!TypeOK)
<1> DEFINE I == part = "tools" => Tools!TypeOK /\ GateInv
<1>1. Init => I
  BY PartsAreSound, GateStart DEF Init
<1>2. I /\ [Next]_vars => I'
  BY PartsAreSound, PartsMove, GateStep
<1>3. I => (part = "tools" => Tools!TypeOK)
  OBVIOUS
<1> QED
  BY <1>1, <1>2, <1>3, PTL DEF Spec

\* A tool that needs a person's word runs only on an approval of that very
\* call and once, approvals are acted on or given up, and a rule out for long
\* is obeyed by who could read the rules (_execute_task, PolicyClient).
THEOREM GateIsKept == Spec => []GateHolds
<1> DEFINE I == part = "tools" => Tools!TypeOK /\ GateInv
<1>1. Init => I
  BY PartsAreSound, GateStart DEF Init
<1>2. I /\ [Next]_vars => I'
  BY PartsAreSound, PartsMove, GateStep
<1>3. I => GateHolds
  <2> SUFFICES ASSUME Tools!TypeOK, GateInv PROVE Tools!GateHolds
    BY DEF GateHolds
  <2>1. Tools!RunsAreApproved
    BY PartsAreSound DEF GateInv, TicketInv, Tools!RunsAreApproved,
       Tools!TypeOK, Tools!Reviews, Tools!GateConstants
  <2>2. Tools!ApprovalsCount
    BY DEF GateInv, PromiseInv, Tools!ApprovalsCount
  <2> QED
    BY <2>1, <2>2 DEF GateInv, Tools!GateHolds
<1> QED
  BY <1>1, <1>2, <1>3, PTL DEF Spec

(***************************************************************************)
(* The sandbox.                                                            *)
(***************************************************************************)

AloneInv ==
  /\ \A r, q \in InSandbox.runners :
       r # q /\ task[r] # InSandbox.noTask /\ task[q] = task[r] => crowded[r]
  /\ \A r \in InSandbox.runners :
       gate[r] \notin {"idle", "cleanup"} /\ ~crowded[r] => task[r] \notin strays

CleanInv ==
  \A r \in InSandbox.runners :
    gate[r] \in {"build", "test", "promote"} /\ ~crowded[r] =>
      box[task[r]] \subseteq clean[r] \cup written[r]

BoxInv == AloneInv /\ CleanInv /\ Sandbox!PromotedWasScanned

\* A file put into a directory of one file per path leaves it one.
LEMMA PutFile ==
  ASSUME NEW files \in SUBSET Sandbox!Files, NEW f \in Sandbox!Files,
         \A g, h \in Sandbox!Files :
           g \in files /\ h \in files /\ g[1] = h[1] => g = h
  PROVE  /\ Sandbox!Put(files, f) \in SUBSET Sandbox!Files
         /\ Sandbox!Put(files, f) \subseteq files \cup {f}
         /\ \A g, h \in Sandbox!Files :
              /\ g \in Sandbox!Put(files, f) /\ h \in Sandbox!Put(files, f)
              /\ g[1] = h[1]
              => g = h
BY DEF Sandbox!Put

\* The sandbox begins with no directory.
LEMMA SandboxStart ==
  ASSUME Sandbox!SandboxConstants, Sandbox!Init PROVE Sandbox!TypeOK /\ BoxInv
<1> USE DEF Sandbox!SandboxConstants, Sandbox!Init
<1>1. Sandbox!TypeOK
  BY DEF Sandbox!TypeOK, Sandbox!Versions, Sandbox!Left, Sandbox!Gates
<1>2. BoxInv
  BY DEF BoxInv, AloneInv, CleanInv, Sandbox!PromotedWasScanned
<1> QED
  BY <1>1, <1>2

\* Only the directory of a build or test gets a command that is given up.
LEMMA KeptStrays ==
  ASSUME Sandbox!TypeOK, NEW r \in InSandbox.runners, Sandbox!GaveUp(r)
  PROVE  strays \subseteq strays' /\ strays' \subseteq strays \cup {task[r]}
         /\ (gate[r] # "idle" => strays' \subseteq InSandbox.tasks)
BY DEF Sandbox!GaveUp, Sandbox!TypeOK

\* Every step keeps the variables in their types.
LEMMA SandboxTypeStep ==
  ASSUME Sandbox!SandboxConstants, Sandbox!TypeOK, SandboxStep
  PROVE  Sandbox!TypeOK'
<1> USE DEF Sandbox!SandboxConstants, Sandbox!TypeOK, Sandbox!runner,
            Sandbox!Gates, Sandbox!Error
<1>1. ASSUME NEW p \in InSandbox.paths, Sandbox!Edit(p) PROVE Sandbox!TypeOK'
  <2>1. made' \in 0..InSandbox.maxEdits /\ made + 1 \in Sandbox!Versions
    BY <1>1 DEF Sandbox!Edit, Sandbox!Versions, Sandbox!Left
  <2>2. tree' \in [InSandbox.paths -> Sandbox!Versions]
    BY <1>1, <2>1 DEF Sandbox!Edit
  <2>3. UNCHANGED <<box, strays, gate, task, visited, clean, written, crowded,
                    odd, taken, errors>>
    BY <1>1 DEF Sandbox!Edit
  <2> QED
    BY <2>1, <2>2, <2>3
<1>2. ASSUME NEW r \in InSandbox.runners, NEW t \in InSandbox.tasks,
             Sandbox!Take(r, t)
      PROVE  Sandbox!TypeOK'
  <2>1. crowded' \in [InSandbox.runners -> BOOLEAN]
    <3> DEFINE c(q) ==
                 IF q = r THEN t \in strays \/ \E x \in InSandbox.runners : task[x] = t
                 ELSE crowded[q] \/ task[q] = t
    <3>1. crowded' = [q \in InSandbox.runners |-> c(q)]
      BY <1>2, Zenon DEF Sandbox!Take
    <3>2. \A q \in InSandbox.runners : c(q) \in BOOLEAN
      BY Zenon
    <3> HIDE DEF c
    <3> QED
      BY <3>1, <3>2, Zenon
  <2>2. /\ taken < InSandbox.maxRuns /\ taken' = taken + 1
        /\ gate' = [gate EXCEPT ![r] = "clone"]
        /\ task' = [task EXCEPT ![r] = t]
        /\ visited' = [visited EXCEPT ![r] = {}]
        /\ clean' = [clean EXCEPT ![r] = {}]
        /\ written' = [written EXCEPT ![r] = {}]
        /\ UNCHANGED <<tree, made, box, strays, odd, errors>>
    BY <1>2, Zenon DEF Sandbox!Take
  <2> QED
    BY <2>1, <2>2
<1>3. ASSUME NEW r \in InSandbox.runners, NEW p \in InSandbox.paths,
             Sandbox!CloneFile(r, p)
      PROVE  Sandbox!TypeOK'
  <2>1. <<p, tree[p]>> \in Sandbox!Files /\ task[r] \in InSandbox.tasks
    BY <1>3 DEF Sandbox!CloneFile, Sandbox!Files
  <2>2. /\ box' \in [InSandbox.tasks -> SUBSET Sandbox!Files]
        /\ \A t \in InSandbox.tasks, f, g \in Sandbox!Files :
             f \in box'[t] /\ g \in box'[t] /\ f[1] = g[1] => f = g
    BY <1>3, <2>1, PutFile DEF Sandbox!CloneFile
  <2> QED
    BY <1>3, <2>2 DEF Sandbox!CloneFile
<1>4. ASSUME NEW r \in InSandbox.runners, Sandbox!Cloned(r)
      PROVE  Sandbox!TypeOK'
  BY <1>4 DEF Sandbox!Cloned
<1>5. ASSUME NEW r \in InSandbox.runners, Sandbox!Scan(r) PROVE Sandbox!TypeOK'
  BY <1>5 DEF Sandbox!Scan
<1>6. ASSUME NEW r \in InSandbox.runners, NEW stage \in {"build", "test"},
             NEW next \in {"test", "promote"}, Sandbox!RunIn(r, stage, next)
      PROVE  Sandbox!TypeOK'
  <2>1. CASE UNCHANGED <<box, written>>
    BY <1>6, <2>1 DEF Sandbox!RunIn
  <2>2. ASSUME NEW p \in InSandbox.paths,
               box' = [box EXCEPT ![task[r]] =
                              Sandbox!Put(@, <<p, Sandbox!Built>>)],
               written' = [written EXCEPT ![r] = @ \cup {<<p, Sandbox!Built>>}]
        PROVE  Sandbox!TypeOK'
    <3>1. <<p, Sandbox!Built>> \in Sandbox!Files /\ task[r] \in InSandbox.tasks
      BY <1>6 DEF Sandbox!RunIn, Sandbox!Files, Sandbox!Versions, Sandbox!Built,
                     Sandbox!Left
    <3>2. /\ box' \in [InSandbox.tasks -> SUBSET Sandbox!Files]
          /\ \A t \in InSandbox.tasks, f, g \in Sandbox!Files :
               f \in box'[t] /\ g \in box'[t] /\ f[1] = g[1] => f = g
      BY <2>2, <3>1, PutFile
    <3> QED
      BY <1>6, <2>2, <3>1, <3>2 DEF Sandbox!RunIn
  <2> QED
    BY <1>6, <2>1, <2>2 DEF Sandbox!RunIn
<1>7. ASSUME NEW r \in InSandbox.runners, Sandbox!FailGate(r)
      PROVE  Sandbox!TypeOK'
  <2>1. strays' \subseteq InSandbox.tasks
    BY <1>7, KeptStrays DEF Sandbox!FailGate
  <2> QED
    BY <1>7, <2>1 DEF Sandbox!FailGate
<1>8. ASSUME NEW r \in InSandbox.runners, NEW f \in Sandbox!Files,
             Sandbox!PromoteFile(r, f)
      PROVE  Sandbox!TypeOK'
  BY <1>8 DEF Sandbox!PromoteFile, Sandbox!Files
<1>9. ASSUME NEW r \in InSandbox.runners, Sandbox!Promoted(r)
      PROVE  Sandbox!TypeOK'
  BY <1>9 DEF Sandbox!Promoted
<1>10. ASSUME NEW r \in InSandbox.runners, Sandbox!Cleanup(r)
       PROVE  Sandbox!TypeOK'
  <2>1. PICK kept \in SUBSET box[task[r]] :
          box' = [box EXCEPT ![task[r]] = kept]
    BY <1>10 DEF Sandbox!Cleanup
  <2>2. /\ box' \in [InSandbox.tasks -> SUBSET Sandbox!Files]
        /\ \A t \in InSandbox.tasks, f, g \in Sandbox!Files :
             f \in box'[t] /\ g \in box'[t] /\ f[1] = g[1] => f = g
    BY <1>10, <2>1 DEF Sandbox!Cleanup
  <2> QED
    BY <1>10, <2>2 DEF Sandbox!Cleanup
<1>11. ASSUME NEW r \in InSandbox.runners, Sandbox!Crash(r)
       PROVE  Sandbox!TypeOK'
  <2>1. strays' \subseteq InSandbox.tasks
    BY <1>11, KeptStrays DEF Sandbox!Crash
  <2> QED
    BY <1>11, <2>1 DEF Sandbox!Crash
<1>13. ASSUME NEW t \in InSandbox.tasks, Sandbox!StrayWrites(t)
       PROVE  Sandbox!TypeOK'
  <2>1. PICK p \in InSandbox.paths :
          box' = [box EXCEPT ![t] = Sandbox!Put(@, <<p, Sandbox!Left>>)]
    BY <1>13 DEF Sandbox!StrayWrites
  <2>2. <<p, Sandbox!Left>> \in Sandbox!Files
    BY DEF Sandbox!Files, Sandbox!Versions, Sandbox!Left
  <2>3. /\ box' \in [InSandbox.tasks -> SUBSET Sandbox!Files]
        /\ \A x \in InSandbox.tasks, f, g \in Sandbox!Files :
             f \in box'[x] /\ g \in box'[x] /\ f[1] = g[1] => f = g
    BY <2>1, <2>2, PutFile
  <2> QED
    BY <1>13, <2>3 DEF Sandbox!StrayWrites
<1>14. ASSUME NEW t \in InSandbox.tasks, Sandbox!StrayEnds(t)
       PROVE  Sandbox!TypeOK'
  BY <1>14 DEF Sandbox!StrayEnds
<1>12. CASE UNCHANGED sandbox
  BY <1>12 DEF sandbox
<1> HIDE DEF Sandbox!SandboxConstants, Sandbox!TypeOK, Sandbox!runner,
             Sandbox!Gates, Sandbox!Error
<1> QED
  BY <1>1, <1>2, <1>3, <1>4, <1>5, <1>6, <1>7, <1>8, <1>9, <1>10, <1>11,
     <1>12, <1>13, <1>14
  DEF SandboxStep, Sandbox!Next, Sandbox!RunnerStep, Sandbox!Build,
      Sandbox!Test

\* Every step leaves a directory to the process that has it to itself.
LEMMA BoxStep ==
  ASSUME Sandbox!SandboxConstants, Sandbox!TypeOK, BoxInv, SandboxStep
  PROVE  BoxInv'
<1> USE DEF Sandbox!SandboxConstants, Sandbox!TypeOK, BoxInv, AloneInv,
        CleanInv, Sandbox!PromotedWasScanned, Sandbox!runner
<1>1. ASSUME NEW p \in InSandbox.paths, Sandbox!Edit(p) PROVE BoxInv'
  BY <1>1 DEF Sandbox!Edit
<1>2. ASSUME NEW r \in InSandbox.runners, NEW t \in InSandbox.tasks,
             Sandbox!Take(r, t)
      PROVE  BoxInv'
  BY <1>2 DEF Sandbox!Take
<1>3. ASSUME NEW r \in InSandbox.runners, NEW p \in InSandbox.paths,
             Sandbox!CloneFile(r, p)
      PROVE  BoxInv'
  BY <1>3 DEF Sandbox!CloneFile
<1>4. ASSUME NEW r \in InSandbox.runners, Sandbox!Cloned(r) PROVE BoxInv'
  BY <1>4 DEF Sandbox!Cloned
<1>5. ASSUME NEW r \in InSandbox.runners, Sandbox!Scan(r) PROVE BoxInv'
  BY <1>5 DEF Sandbox!Scan
<1>6. ASSUME NEW r \in InSandbox.runners, NEW stage \in {"build", "test"},
             NEW next \in {"test", "promote"}, Sandbox!RunIn(r, stage, next)
      PROVE  BoxInv'
  <2>1. CASE UNCHANGED <<box, written>>
    BY <1>6, <2>1 DEF Sandbox!RunIn
  <2>2. ASSUME NEW p \in InSandbox.paths,
               box' = [box EXCEPT ![task[r]] =
                              Sandbox!Put(@, <<p, Sandbox!Built>>)],
               written' = [written EXCEPT ![r] = @ \cup {<<p, Sandbox!Built>>}]
        PROVE  BoxInv'
    <3>1. AloneInv' /\ Sandbox!PromotedWasScanned'
      BY <1>6 DEF Sandbox!RunIn
    <3>2. task[r] \in InSandbox.tasks
      BY <1>6 DEF Sandbox!RunIn
    <3> DEFINE b == <<p, Sandbox!Built>>
    <3>3. /\ \A t \in InSandbox.tasks \ {task[r]} : box'[t] = box[t]
          /\ box'[task[r]] = Sandbox!Put(box[task[r]], b)
          /\ \A q \in InSandbox.runners \ {r} : written'[q] = written[q]
          /\ written'[r] = written[r] \cup {b}
      BY <2>2, <3>2
    <3>4. box'[task[r]] \subseteq box[task[r]] \cup {b}
      BY <3>3 DEF Sandbox!Put
    <3>5. UNCHANGED <<task, clean, crowded>>
          /\ \A q \in InSandbox.runners \ {r} : gate'[q] = gate[q]
      BY <1>6 DEF Sandbox!RunIn
    <3> HIDE DEF b
    <3>6. box[task[r]] \subseteq clean[r] \cup written[r] \/ crowded[r]
      BY <1>6 DEF Sandbox!RunIn
    <3>7. CleanInv'
      <4> SUFFICES ASSUME NEW q \in InSandbox.runners, ~crowded[q],
                          gate'[q] \in {"build", "test", "promote"}
                   PROVE  box'[task[q]] \subseteq clean[q] \cup written'[q]
        BY <3>5
      <4>1. CASE q = r
        BY <3>3, <3>4, <3>6, <4>1
      <4>2. CASE q # r
        <5>1. gate[q] # "idle" /\ task[q] \in InSandbox.tasks
          BY <3>5, <4>2
        <5>2. task[q] # task[r]
          BY <4>2, <5>1
        <5> QED
          BY <3>3, <3>5, <4>2, <5>1, <5>2
      <4> QED
        BY <4>1, <4>2
    <3> QED
      BY <3>1, <3>7
  <2> QED
    BY <1>6, <2>1, <2>2 DEF Sandbox!RunIn
<1>7. ASSUME NEW r \in InSandbox.runners, Sandbox!FailGate(r) PROVE BoxInv'
  <2>1. strays' \subseteq strays \cup {task[r]} /\ task[r] # InSandbox.noTask
    BY <1>7, KeptStrays DEF Sandbox!FailGate
  <2> QED
    BY <1>7, <2>1 DEF Sandbox!FailGate
<1>8. ASSUME NEW r \in InSandbox.runners, NEW f \in Sandbox!Files,
             Sandbox!PromoteFile(r, f)
      PROVE  BoxInv'
  BY <1>8 DEF Sandbox!PromoteFile
<1>9. ASSUME NEW r \in InSandbox.runners, Sandbox!Promoted(r) PROVE BoxInv'
  BY <1>9 DEF Sandbox!Promoted
<1>10. ASSUME NEW r \in InSandbox.runners, Sandbox!Cleanup(r) PROVE BoxInv'
  <2>1. PICK kept \in SUBSET box[task[r]] :
          box' = [box EXCEPT ![task[r]] = kept]
    BY <1>10 DEF Sandbox!Cleanup
  <2>2. \A t \in InSandbox.tasks : box'[t] \subseteq box[t]
    BY <2>1
  <2> QED
    BY <1>10, <2>2 DEF Sandbox!Cleanup
<1>11. ASSUME NEW r \in InSandbox.runners, Sandbox!Crash(r) PROVE BoxInv'
  <2>1. strays' \subseteq strays \cup {task[r]} /\ task[r] # InSandbox.noTask
    BY <1>11, KeptStrays DEF Sandbox!Crash
  <2> QED
    BY <1>11, <2>1 DEF Sandbox!Crash
<1>13. ASSUME NEW t \in InSandbox.tasks, Sandbox!StrayWrites(t) PROVE BoxInv'
  <2>1. /\ t \in strays
        /\ \A x \in InSandbox.tasks \ {t} : box'[x] = box[x]
        /\ UNCHANGED <<strays, gate, task, clean, written, crowded, odd>>
    BY <1>13 DEF Sandbox!StrayWrites
  <2>2. AloneInv' /\ Sandbox!PromotedWasScanned'
    BY <2>1
  <2>3. CleanInv'
    <3> SUFFICES ASSUME NEW r \in InSandbox.runners, ~crowded[r],
                        gate[r] \in {"build", "test", "promote"}
                 PROVE  box'[task[r]] \subseteq clean[r] \cup written[r]
      BY <2>1
    <3>1. task[r] \in InSandbox.tasks \ {t}
      BY <2>1
    <3> QED
      BY <2>1, <3>1
  <2> QED
    BY <2>2, <2>3
<1>14. ASSUME NEW t \in InSandbox.tasks, Sandbox!StrayEnds(t) PROVE BoxInv'
  BY <1>14 DEF Sandbox!StrayEnds
<1>12. CASE UNCHANGED sandbox
  BY <1>12 DEF sandbox
<1> HIDE DEF Sandbox!SandboxConstants, Sandbox!TypeOK, BoxInv, AloneInv,
        CleanInv, Sandbox!PromotedWasScanned, Sandbox!runner
<1> QED
  BY <1>1, <1>2, <1>3, <1>4, <1>5, <1>6, <1>7, <1>8, <1>9, <1>10, <1>11,
     <1>12, <1>13, <1>14
  DEF SandboxStep, Sandbox!Next, Sandbox!RunnerStep, Sandbox!Build,
      Sandbox!Test

\* The sandbox's variables keep their types.
THEOREM SandboxTypes == Spec => [](part = "sandbox" => Sandbox!TypeOK)
<1> DEFINE I == part = "sandbox" => Sandbox!TypeOK
<1>1. Init => I
  BY PartsAreSound, SandboxStart DEF Init
<1>2. I /\ [Next]_vars => I'
  BY PartsAreSound, PartsMove, SandboxTypeStep
<1> QED
  BY <1>1, <1>2, PTL DEF Spec

\* Whatever the processes, crashes, timeouts and edits, a run that shares its
\* directory neither with another process nor with a command that an earlier
\* run gave up promotes only what it scanned, or what its own build and tests
\* wrote (SandboxPipeline.run_pipeline).
THEOREM SandboxPromotedWasScanned == Spec => []PromotedWasScanned
<1> DEFINE I == part = "sandbox" => Sandbox!TypeOK /\ BoxInv
<1>1. Init => I
  BY PartsAreSound, SandboxStart DEF Init
<1>2. I /\ [Next]_vars => I'
  BY PartsAreSound, PartsMove, SandboxTypeStep, BoxStep
<1>3. I => PromotedWasScanned
  BY DEF BoxInv, PromotedWasScanned
<1> QED
  BY <1>1, <1>2, <1>3, PTL DEF Spec

(***************************************************************************)
(* The LLM gateway.                                                        *)
(***************************************************************************)

\* Whoever waits for an answer has its conversation stand still: an open task
\* has a round left, and the person speaks last in the session.
TalkInv ==
  /\ \A t \in AtGateway.tasks :
       /\ call[t] # "none" => ended[t] = "open"
       /\ ended[t] = "open" => turns[t] < AtGateway.maxRounds
  /\ Len(spoken) % 2 = IF call[AtGateway.session] = "none" THEN 0 ELSE 1

\* Who neither has tools nor a seed.
Plain(c) == c \notin AtGateway.withTools \cup {AtGateway.session}

\* What may be kept under the key of a model.
Fits(a, m) ==
  /\ ~a.tools /\ Plain(a.to)
  /\ a.to \in AtGateway.tasks => Gateway!Model(a.to) = m

CacheInv ==
  \A m \in Gateway!Models :
    cached[m] # Gateway!NoAnswer => Fits(cached[m], m)

ResultInv ==
  \A c \in Gateway!Callers :
    IF call[c] \in {"store", "done"}
    THEN /\ Plain(c) => Fits(result[c], Gateway!Model(c))
         /\ ~Plain(c) => /\ result[c].to = c \/ result[c].by = "fallback"
                         /\ result[c].turn = Gateway!Turn(c)
    ELSE result[c] = Gateway!NoAnswer

GatewayInv == TalkInv /\ CacheInv /\ ResultInv

\* The bounds are numbers.
LEMMA GatewayNumbers ==
  ASSUME Gateway!GatewayConstants
  PROVE  /\ AtGateway.maxRounds \in Nat /\ AtGateway.maxRounds # 0
         /\ AtGateway.maxTurns \in Nat /\ AtGateway.maxFaults \in Nat
BY Zenon DEF Gateway!GatewayConstants

\* The conversations of a session are the sequences of its lines, up to their
\* bound.
LEMMA TalksAreSequences ==
  ASSUME Gateway!GatewayConstants, NEW s
  PROVE  s \in Gateway!Talks <=>
           /\ s \in Seq({"user", "assistant"})
           /\ Len(s) <= 2 * AtGateway.maxTurns
<1> DEFINE S == {"user", "assistant"}
<1>1. ASSUME s \in Gateway!Talks
      PROVE  s \in Seq(S) /\ Len(s) <= 2 * AtGateway.maxTurns
  <2>1. PICK n \in 0..2 * AtGateway.maxTurns : s \in [1..n -> S]
    BY <1>1, Zenon DEF Gateway!Talks
  <2> HIDE DEF S
  <2>2. n \in Nat /\ n <= 2 * AtGateway.maxTurns
    BY <2>1, GatewayNumbers
  <2> QED
    BY <2>1, <2>2
<1>2. ASSUME s \in Seq(S), Len(s) <= 2 * AtGateway.maxTurns
      PROVE  s \in Gateway!Talks
  <2> HIDE DEF S
  <2>1. Len(s) \in 0..2 * AtGateway.maxTurns
    <3>1. Len(s) \in Nat /\ AtGateway.maxTurns \in Nat
      BY <1>2, GatewayNumbers
    <3> QED
      BY <1>2, <3>1
  <2>2. s \in [1..Len(s) -> S]
    BY <1>2
  <2> QED
    BY <2>1, <2>2, Zenon DEF Gateway!Talks, S
<1> QED
  BY <1>1, <1>2

\* Lines of a session are even and odd in turn.
LEMMA EvenAndOdd ==
  ASSUME NEW n \in Nat
  PROVE  /\ n % 2 = 0 => (n + 1) % 2 = 1
         /\ n % 2 = 1 => (n + 1) % 2 = 0 /\ n >= 1 /\ (n - 1) % 2 = 0
         /\ \A k \in Nat : n % 2 = 1 /\ n <= 2 * k => n + 1 <= 2 * k
OBVIOUS

\* Callers begin with nothing asked.
LEMMA GatewayStart ==
  ASSUME Gateway!GatewayConstants, Gateway!Init
  PROVE  Gateway!TypeOK /\ GatewayInv
<1>1. spoken \in Seq({"user", "assistant"}) /\ Len(spoken) = 0
  BY DEF Gateway!Init
<1>2. Gateway!TypeOK
  <2>1. spoken \in Gateway!Talks
    <3>1. 0 <= 2 * AtGateway.maxTurns
      BY GatewayNumbers
    <3> QED
      BY <1>1, <3>1, TalksAreSequences
  <2>2. Gateway!NoAnswer \in Gateway!Answers /\ "none" \in Gateway!Calls
    BY DEF Gateway!Answers, Gateway!Calls
  <2>3. 0 \in 0..AtGateway.maxRounds /\ 0 \in 0..AtGateway.maxFaults
    BY GatewayNumbers
  <2> QED
    BY <2>1, <2>2, <2>3 DEF Gateway!TypeOK, Gateway!Init
<1>3. TalkInv
  <2>1. AtGateway.session \in Gateway!Callers
        /\ AtGateway.tasks \subseteq Gateway!Callers
    BY DEF Gateway!Callers
  <2> QED
    BY <1>1, <2>1, GatewayNumbers DEF TalkInv, Gateway!Init
<1>4. CacheInv /\ ResultInv
  BY DEF CacheInv, ResultInv, Gateway!Callers, Gateway!Init
<1> QED
  BY <1>2, <1>3, <1>4 DEF GatewayInv

\* A look at the cache leaves a call with a model to ask, or with an answer
\* that was kept.
LEMMA Asked ==
  ASSUME Gateway!GatewayConstants, Gateway!TypeOK, CacheInv,
         NEW c \in Gateway!Callers, Gateway!Ask(c)
  PROVE  /\ call[c] = "none" /\ call'[c] # "none"
         /\ call' \in [Gateway!Callers -> Gateway!Calls]
         /\ result' \in [Gateway!Callers -> Gateway!Answers]
         /\ \A d \in Gateway!Callers \ {c} :
              call'[d] = call[d] /\ result'[d] = result[d]
         /\ \/ call'[c] \in Gateway!Models /\ result'[c] = result[c]
            \/ /\ call'[c] = "done"
               /\ Plain(c) /\ Fits(result'[c], Gateway!Model(c))
<1> Gateway!Model(c) \in Gateway!Models
  BY DEF Gateway!Model, Gateway!Models
<1>1. CASE /\ Gateway!Cacheable(c)
           /\ cached[Gateway!Model(c)] # Gateway!NoAnswer
           /\ call' = [call EXCEPT ![c] = "done"]
           /\ result' = [result EXCEPT ![c] = cached[Gateway!Model(c)]]
  <2>1. Plain(c) /\ Fits(cached[Gateway!Model(c)], Gateway!Model(c))
    BY <1>1 DEF CacheInv, Gateway!Cacheable, Plain
  <2> QED
    BY <1>1, <2>1 DEF Gateway!Ask, Gateway!TypeOK, Gateway!Calls
<1>2. CASE call' = [call EXCEPT ![c] = Gateway!Model(c)] /\ UNCHANGED result
  BY <1>2 DEF Gateway!Ask, Gateway!TypeOK, Gateway!Calls, Gateway!Models
<1> QED
  BY <1>1, <1>2 DEF Gateway!Ask

\* Every step leaves a conversation as long as it may be.
LEMMA SpokenStep ==
  ASSUME Gateway!GatewayConstants, Gateway!TypeOK, GatewayInv, GatewayStep
  PROVE  /\ spoken' \in Gateway!Talks
         /\ Len(spoken') % 2 =
              IF call'[AtGateway.session] = "none" THEN 0 ELSE 1
<1> DEFINE S == {"user", "assistant"}
           Q == /\ spoken' \in Seq(S) /\ Len(spoken') <= 2 * AtGateway.maxTurns
                /\ Len(spoken') % 2 =
                     IF call'[AtGateway.session] = "none" THEN 0 ELSE 1
<1> SUFFICES Q
  BY TalksAreSequences
<1>1. /\ spoken \in Seq(S) /\ Len(spoken) \in Nat
      /\ Len(spoken) <= 2 * AtGateway.maxTurns
  BY TalksAreSequences DEF Gateway!TypeOK
<1>2. /\ AtGateway.maxTurns \in Nat
      /\ AtGateway.session \notin AtGateway.tasks
      /\ AtGateway.session \in Gateway!Callers
      /\ AtGateway.tasks \subseteq Gateway!Callers
      /\ call \in [Gateway!Callers -> Gateway!Calls]
  BY GatewayNumbers, Zenon DEF Gateway!GatewayConstants, Gateway!Callers,
     Gateway!TypeOK
<1>3. Len(spoken) % 2 = IF call[AtGateway.session] = "none" THEN 0 ELSE 1
  BY DEF GatewayInv, TalkInv
<1>4. CASE spoken' = spoken /\ (call'[AtGateway.session] = "none" <=>
                                call[AtGateway.session] = "none")
  BY <1>1, <1>3, <1>4
<1>5. CASE Gateway!SessionAsks
  <2>1. call[AtGateway.session] = "none" /\ call'[AtGateway.session] # "none"
    BY <1>2, <1>5, Asked DEF Gateway!SessionAsks, GatewayInv
  <2>2. spoken' = Append(spoken, "user")
        /\ Len(spoken) < 2 * AtGateway.maxTurns
    BY <1>5, Zenon DEF Gateway!SessionAsks
  <2>3. spoken' \in Seq(S) /\ Len(spoken') = Len(spoken) + 1
    BY <1>1, <2>2
  <2>4. Len(spoken') <= 2 * AtGateway.maxTurns
    BY <1>1, <1>2, <2>2, <2>3
  <2>5. Len(spoken) % 2 = 0
    BY <1>3, <2>1, Zenon
  <2>6. Len(spoken') % 2 = 1
    BY <1>1, <2>3, <2>5, EvenAndOdd
  <2> QED
    BY <2>1, <2>3, <2>4, <2>6, Zenon
<1>6. CASE Gateway!SessionGoesOn
  <2>1. call[AtGateway.session] # "none" /\ call'[AtGateway.session] = "none"
    BY <1>2, <1>6 DEF Gateway!SessionGoesOn
  <2>2. spoken' = Append(spoken, "assistant")
    BY <1>6, Zenon DEF Gateway!SessionGoesOn
  <2>3. spoken' \in Seq(S) /\ Len(spoken') = Len(spoken) + 1
    BY <1>1, <2>2
  <2>4. Len(spoken) % 2 = 1
    BY <1>3, <2>1, Zenon
  <2>5. Len(spoken') % 2 = 0 /\ Len(spoken') <= 2 * AtGateway.maxTurns
    BY <1>1, <1>2, <2>3, <2>4, EvenAndOdd
  <2> QED
    BY <2>1, <2>3, <2>5, Zenon
<1>7. CASE Gateway!Clear
  BY <1>2, <1>7 DEF Gateway!Clear
<1>8. ASSUME NEW c \in Gateway!Callers, Gateway!Exhausted(c) PROVE Q
  <2>1. call[c] # "none" /\ call' = [call EXCEPT ![c] = "none"]
    BY <1>8 DEF Gateway!Exhausted
  <2>2. CASE c = AtGateway.session
    <3>1. spoken' = SubSeq(spoken, 1, Len(spoken) - 1)
      BY <1>8, <2>2, Zenon DEF Gateway!Exhausted
    <3>2. Len(spoken) >= 1
      BY <1>1, <1>3, <2>1, <2>2
    <3>3. spoken' \in Seq(S) /\ Len(spoken') = Len(spoken) - 1
      <4> HIDE DEF S
      <4>1. 1 \in Int /\ Len(spoken) - 1 \in Int
            /\ \A i \in 1..Len(spoken) - 1 : spoken[i] \in S
        BY <1>1
      <4>2. /\ SubSeq(spoken, 1, Len(spoken) - 1) \in Seq(S)
            /\ Len(SubSeq(spoken, 1, Len(spoken) - 1)) =
                 IF 1 <= Len(spoken) - 1 THEN (Len(spoken) - 1) - 1 + 1 ELSE 0
        BY <4>1, SubSeqProperties
      <4> QED
        <5> DEFINE n == Len(spoken)
        <5>1. (IF 1 <= n - 1 THEN (n - 1) - 1 + 1 ELSE 0) = n - 1
          <6>1. n \in Nat /\ n >= 1
            BY <1>1, <3>2, Zenon
          <6> HIDE DEF n
          <6> QED
            BY <6>1
        <5> QED
          BY <3>1, <4>2, <5>1, Zenon
    <3>4. call'[AtGateway.session] = "none"
      BY <1>2, <2>1, <2>2
    <3>5. Len(spoken) % 2 = 1
      BY <1>3, <2>1, <2>2, Zenon
    <3>6. Len(spoken') % 2 = 0
      BY <1>1, <3>3, <3>5, EvenAndOdd
    <3>7. Len(spoken') <= 2 * AtGateway.maxTurns
      BY <1>1, <1>2, <3>3
    <3> QED
      BY <3>3, <3>4, <3>6, <3>7, Zenon
  <2>3. CASE c # AtGateway.session
    BY <1>2, <1>4, <1>8, <2>1, <2>3, Zenon DEF Gateway!Exhausted
  <2> QED
    BY <2>2, <2>3
<1>9. ASSUME NEW t \in AtGateway.tasks, Gateway!TaskAsks(t) PROVE Q
  BY <1>2, <1>4, <1>9, Asked DEF Gateway!TaskAsks, GatewayInv
<1>10. ASSUME NEW t \in AtGateway.tasks, Gateway!TaskGoesOn(t) PROVE Q
  BY <1>2, <1>4, <1>10 DEF Gateway!TaskGoesOn
<1>11. ASSUME NEW c \in Gateway!Callers,
              \/ \E tools0 \in BOOLEAN : Gateway!Answer(c, tools0)
              \/ Gateway!NextRoute(c) \/ Gateway!FallbackAnswer(c)
              \/ Gateway!Store(c)
       PROVE  Q
  <2>1. /\ spoken' = spoken /\ call[c] # "none"
        /\ \E v \in Gateway!Calls \ {"none"} : call' = [call EXCEPT ![c] = v]
    BY <1>11 DEF Gateway!Answer, Gateway!NextRoute, Gateway!FallbackAnswer,
       Gateway!Store, Gateway!Models, Gateway!Calls
  <2> QED
    BY <1>2, <1>4, <2>1
<1>12. ASSUME NEW m \in Gateway!Models, Gateway!Expire(m) PROVE Q
  BY <1>4, <1>12 DEF Gateway!Expire
<1>13. CASE UNCHANGED gateway
  BY <1>4, <1>13 DEF gateway
<1> HIDE DEF Q
<1> QED
  BY <1>5, <1>6, <1>7, <1>8, <1>9, <1>10, <1>11, <1>12, <1>13
  DEF GatewayStep, Gateway!Next

\* Rounds and lines are turns.
LEMMA TurnBound ==
  ASSUME NEW m \in Nat, NEW k \in Nat, NEW n \in Nat, n <= m \/ n <= 2 * k
  PROVE  n \in 0..m + 2 * k
OBVIOUS

\* Turns are counted up to their bound.
LEMMA TurnsAreBounded ==
  ASSUME Gateway!GatewayConstants, Gateway!TypeOK, NEW c \in Gateway!Callers
  PROVE  Gateway!Turn(c) \in 0..AtGateway.maxRounds + 2 * AtGateway.maxTurns
<1>1. spoken \in Seq({"user", "assistant"})
  BY TalksAreSequences DEF Gateway!TypeOK
<1>2. Len(spoken) \in Nat
  BY <1>1
<1>3. Len(spoken) <= 2 * AtGateway.maxTurns
  BY TalksAreSequences DEF Gateway!TypeOK
<1>4. turns \in [AtGateway.tasks -> 0..AtGateway.maxRounds]
  BY DEF Gateway!TypeOK
<1>5. \A t \in AtGateway.tasks :
        turns[t] \in Nat /\ turns[t] <= AtGateway.maxRounds
  BY <1>4, GatewayNumbers
<1> QED
  BY <1>2, <1>3, <1>5, GatewayNumbers, TurnBound DEF Gateway!Turn,
     Gateway!Callers

\* What is answered is an answer.
LEMMA AnswersAreTyped ==
  ASSUME Gateway!GatewayConstants, Gateway!TypeOK, NEW c \in Gateway!Callers,
         NEW whom \in Gateway!Callers \cup {"empty prompt"},
         NEW who \in Gateway!Models \cup {"fallback"}, NEW tls \in BOOLEAN
  PROVE  [to |-> whom, turn |-> Gateway!Turn(c), by |-> who, tools |-> tls]
           \in Gateway!Answers
BY TurnsAreBounded DEF Gateway!Answers

\* Every step keeps the variables in their types.
LEMMA GatewayTypeStep ==
  ASSUME Gateway!GatewayConstants, Gateway!TypeOK, GatewayInv, GatewayStep
  PROVE  Gateway!TypeOK'
<1> DEFINE
  P == /\ cached' \in [Gateway!Models -> Gateway!Answers]
       /\ call' \in [Gateway!Callers -> Gateway!Calls]
       /\ result' \in [Gateway!Callers -> Gateway!Answers]
       /\ turns' \in [AtGateway.tasks -> 0..AtGateway.maxRounds]
       /\ ended' \in [AtGateway.tasks -> {"open", "answered", "failed"}]
       /\ faults' \in 0..AtGateway.maxFaults
       /\ \A c \in Gateway!Callers :
            call'[c] = "none" => result'[c] = Gateway!NoAnswer
<1> SUFFICES P
  BY SpokenStep DEF Gateway!TypeOK
<1>1. /\ cached \in [Gateway!Models -> Gateway!Answers]
      /\ call \in [Gateway!Callers -> Gateway!Calls]
      /\ result \in [Gateway!Callers -> Gateway!Answers]
      /\ turns \in [AtGateway.tasks -> 0..AtGateway.maxRounds]
      /\ ended \in [AtGateway.tasks -> {"open", "answered", "failed"}]
      /\ faults \in 0..AtGateway.maxFaults
  BY DEF Gateway!TypeOK
<1>2. \A c \in Gateway!Callers :
        call[c] \notin {"store", "done"} => result[c] = Gateway!NoAnswer
  BY Zenon DEF GatewayInv, ResultInv
<1>3. /\ AtGateway.session \in Gateway!Callers
      /\ AtGateway.tasks \subseteq Gateway!Callers
      /\ AtGateway.session \notin AtGateway.tasks
      /\ \A c \in Gateway!Callers :
           c # AtGateway.session => c \in AtGateway.tasks
  BY Zenon DEF Gateway!Callers, Gateway!GatewayConstants
<1>4. Gateway!NoAnswer \in Gateway!Answers
  BY DEF Gateway!Answers
<1>5. {"none", "standard", "premium", "fallback", "store", "done"}
        \subseteq Gateway!Calls
  BY DEF Gateway!Calls, Gateway!Models
<1>6. ASSUME NEW t \in AtGateway.tasks, Gateway!TaskAsks(t) PROVE P
  <2>1. t \in Gateway!Callers /\ Gateway!Ask(t)
        /\ UNCHANGED <<cached, turns, ended, faults>>
    BY <1>3, <1>6 DEF Gateway!TaskAsks
  <2> QED
    BY <1>1, <1>2, <2>1, Asked DEF GatewayInv
<1>7. CASE Gateway!SessionAsks
  <2>1. Gateway!Ask(AtGateway.session)
        /\ UNCHANGED <<cached, turns, ended, faults>>
    BY <1>7, Zenon DEF Gateway!SessionAsks
  <2> QED
    BY <1>1, <1>2, <1>3, <2>1, Asked DEF GatewayInv
<1>8. ASSUME NEW t \in AtGateway.tasks, Gateway!TaskGoesOn(t) PROVE P
  <2>1. turns[t] + 1 \in 0..AtGateway.maxRounds
    <3>1. call[t] = "done"
      BY <1>8 DEF Gateway!TaskGoesOn
    <3>2. turns[t] < AtGateway.maxRounds
      BY <3>1, Zenon DEF GatewayInv, TalkInv
    <3> QED
      BY <1>1, <3>2, GatewayNumbers
  <2>2. /\ call' = [call EXCEPT ![t] = "none"]
        /\ result' = [result EXCEPT ![t] = Gateway!NoAnswer]
        /\ UNCHANGED <<cached, faults>>
    BY <1>8, Zenon DEF Gateway!TaskGoesOn
  <2>3. turns' = turns \/ turns' = [turns EXCEPT ![t] = turns[t] + 1]
    BY <1>8 DEF Gateway!TaskGoesOn
  <2>4. \E v \in {"open", "answered", "failed"} :
          ended' = [ended EXCEPT ![t] = v]
    BY <1>1, <1>8 DEF Gateway!TaskGoesOn
  <2> QED
    BY <1>1, <1>2, <1>3, <1>4, <1>5, <2>1, <2>2, <2>3, <2>4
<1>9. CASE Gateway!SessionGoesOn
  BY <1>1, <1>2, <1>3, <1>4, <1>5, <1>9 DEF Gateway!SessionGoesOn
<1>10. CASE Gateway!Clear
  BY <1>1, <1>2, <1>10 DEF Gateway!Clear
<1>11. ASSUME NEW c \in Gateway!Callers, NEW tls \in BOOLEAN,
              Gateway!Answer(c, tls)
       PROVE  P
  <2>1. [to |-> c, turn |-> Gateway!Turn(c), by |-> call[c], tools |-> tls]
          \in Gateway!Answers
    BY <1>11, AnswersAreTyped DEF Gateway!Answer
  <2> QED
    BY <1>1, <1>2, <1>5, <1>11, <2>1 DEF Gateway!Answer
<1>12. ASSUME NEW c \in Gateway!Callers, Gateway!NextRoute(c) PROVE P
  <2>1. faults' \in 0..AtGateway.maxFaults
    BY <1>1, <1>12, GatewayNumbers DEF Gateway!NextRoute
  <2> QED
    BY <1>1, <1>2, <1>5, <1>12, <2>1 DEF Gateway!NextRoute
<1>13. ASSUME NEW c \in Gateway!Callers, Gateway!FallbackAnswer(c) PROVE P
  <2> DEFINE a(d) == [to |-> d, turn |-> Gateway!Turn(c), by |-> "fallback",
                      tools |-> FALSE]
  <2>1. a(c) \in Gateway!Answers /\ a("empty prompt") \in Gateway!Answers
    BY AnswersAreTyped
  <2>2. \E d \in {c, "empty prompt"} : result' = [result EXCEPT ![c] = a(d)]
    BY <1>13 DEF Gateway!FallbackAnswer
  <2>3. PICK v \in Gateway!Answers : result' = [result EXCEPT ![c] = v]
    BY <2>1, <2>2, Zenon
  <2>4. call' = [call EXCEPT ![c] = "store"]
        /\ UNCHANGED <<cached, turns, ended, faults>>
    BY <1>13 DEF Gateway!FallbackAnswer
  <2> HIDE DEF a
  <2> QED
    BY <1>1, <1>2, <1>5, <2>3, <2>4
<1>14. ASSUME NEW c \in Gateway!Callers, Gateway!Exhausted(c) PROVE P
  <2>1. faults' \in 0..AtGateway.maxFaults
    BY <1>1, <1>14, GatewayNumbers DEF Gateway!Exhausted
  <2>2. ended' \in [AtGateway.tasks -> {"open", "answered", "failed"}]
    BY <1>1, <1>14 DEF Gateway!Exhausted
  <2> QED
    BY <1>1, <1>2, <1>5, <1>14, <2>1, <2>2 DEF Gateway!Exhausted
<1>15. ASSUME NEW c \in Gateway!Callers, Gateway!Store(c) PROVE P
  BY <1>1, <1>2, <1>5, <1>15 DEF Gateway!Store
<1>16. ASSUME NEW m \in Gateway!Models, Gateway!Expire(m) PROVE P
  BY <1>1, <1>2, <1>4, <1>16 DEF Gateway!Expire
<1>17. CASE UNCHANGED gateway
  BY <1>1, <1>2, <1>17 DEF gateway
<1> HIDE DEF P
<1> QED
  BY <1>6, <1>7, <1>8, <1>9, <1>10, <1>11, <1>12, <1>13, <1>14, <1>15, <1>16,
     <1>17
  DEF GatewayStep, Gateway!Next

\* Every step leaves conversations as they were for those who wait, and what
\* is kept and what is answered fitting.
LEMMA AnswerStep ==
  ASSUME Gateway!GatewayConstants, Gateway!TypeOK, GatewayInv, GatewayStep
  PROVE  GatewayInv'
<1>1. /\ cached \in [Gateway!Models -> Gateway!Answers]
      /\ call \in [Gateway!Callers -> Gateway!Calls]
      /\ result \in [Gateway!Callers -> Gateway!Answers]
      /\ turns \in [AtGateway.tasks -> 0..AtGateway.maxRounds]
      /\ ended \in [AtGateway.tasks -> {"open", "answered", "failed"}]
  BY DEF Gateway!TypeOK
<1>2. /\ AtGateway.session \in Gateway!Callers
      /\ AtGateway.tasks \subseteq Gateway!Callers
      /\ AtGateway.session \notin AtGateway.tasks
      /\ \A c \in Gateway!Callers :
           c # AtGateway.session => c \in AtGateway.tasks
      /\ ~Plain(AtGateway.session) /\ Plain("empty prompt")
      /\ "empty prompt" \notin AtGateway.tasks
      /\ \A c \in Gateway!Callers : Gateway!Cacheable(c) <=> Plain(c)
  BY Zenon DEF Gateway!Callers, Gateway!GatewayConstants, Plain,
     Gateway!Cacheable
<1>3. /\ \A t \in AtGateway.tasks : /\ call[t] # "none" => ended[t] = "open"
                                    /\ ended[t] = "open" =>
                                         turns[t] < AtGateway.maxRounds
      /\ \A m \in Gateway!Models :
           cached[m] # Gateway!NoAnswer => Fits(cached[m], m)
      /\ \A c \in Gateway!Callers :
           IF call[c] \in {"store", "done"}
           THEN /\ Plain(c) => Fits(result[c], Gateway!Model(c))
                /\ ~Plain(c) => /\ result[c].to = c
                                     \/ result[c].by = "fallback"
                                /\ result[c].turn = Gateway!Turn(c)
           ELSE result[c] = Gateway!NoAnswer
  BY Zenon DEF GatewayInv, TalkInv, CacheInv, ResultInv
<1>4. \A c \in Gateway!Callers : Gateway!Model(c) \in Gateway!Models
  BY Zenon DEF Gateway!Model, Gateway!Models
<1>5. \A m \in Gateway!Models :
        m \notin {"none", "fallback", "store", "done"}
  BY DEF Gateway!Models
<1> DEFINE
  Mv == \A t \in AtGateway.tasks :
          /\ call'[t] # "none" => ended'[t] = "open"
          /\ ended'[t] = "open" => turns'[t] < AtGateway.maxRounds
  Fit(c) == IF call'[c] \in {"store", "done"}
            THEN /\ Plain(c) => Fits(result'[c], Gateway!Model(c))
                 /\ ~Plain(c) => /\ result'[c].to = c
                                      \/ result'[c].by = "fallback"
                                 /\ result'[c].turn = Gateway!Turn(c)'
            ELSE result'[c] = Gateway!NoAnswer
  P == Mv /\ CacheInv' /\ \A c \in Gateway!Callers : Fit(c)
<1> SUFFICES P
  BY SpokenStep, Zenon DEF GatewayInv, TalkInv, ResultInv
<1> HIDE DEF Mv, Fit
\* Whoever the step is not about is left as it was.
<1>6. ASSUME NEW c \in Gateway!Callers,
             \A d \in Gateway!Callers \ {c} :
               call'[d] = call[d] /\ result'[d] = result[d],
             \A t \in AtGateway.tasks \ {c} : UNCHANGED <<turns[t], ended[t]>>,
             c # AtGateway.session =>
               spoken' = spoken \/ call[AtGateway.session] = "none"
      PROVE  /\ \A d \in Gateway!Callers \ {c} : Fit(d)
             /\ \A t \in AtGateway.tasks \ {c} :
                  /\ call'[t] # "none" => ended'[t] = "open"
                  /\ ended'[t] = "open" => turns'[t] < AtGateway.maxRounds
  <2>1. \A d \in Gateway!Callers \ {c} :
          call[d] # "none" => Gateway!Turn(d)' = Gateway!Turn(d)
    BY <1>2, <1>6 DEF Gateway!Turn
  <2>2. ASSUME NEW d \in Gateway!Callers \ {c} PROVE Fit(d)
    <3>1. call'[d] = call[d] /\ result'[d] = result[d]
      BY <1>6
    <3>2. call[d] # "none" => Gateway!Turn(d)' = Gateway!Turn(d)
      BY <2>1
    <3> QED
      BY <1>3, <3>1, <3>2 DEF Fit
  <2>3. \A t \in AtGateway.tasks \ {c} : call'[t] = call[t]
    BY <1>2, <1>6
  <2> QED
    BY <1>3, <1>6, <2>2, <2>3
<1>7. ASSUME NEW c \in Gateway!Callers, Gateway!Ask(c),
             UNCHANGED <<cached, turns, ended>>,
             c # AtGateway.session => ended[c] = "open" /\ spoken' = spoken
      PROVE  P
  <2>1. Fit(c)
    <3>1. CASE call'[c] \in Gateway!Models /\ result'[c] = result[c]
      <4>1. call[c] = "none"
        BY <1>7, Asked DEF GatewayInv
      <4> QED
        BY <1>3, <1>5, <3>1, <4>1 DEF Fit
    <3>2. CASE /\ call'[c] = "done"
               /\ Plain(c) /\ Fits(result'[c], Gateway!Model(c))
      BY <3>2 DEF Fit
    <3> QED
      BY <1>7, <3>1, <3>2, Asked DEF GatewayInv
  <2>2. \A d \in Gateway!Callers \ {c} :
          call'[d] = call[d] /\ result'[d] = result[d]
    BY <1>7, Asked DEF GatewayInv
  <2>3. \A d \in Gateway!Callers : Fit(d)
    BY <1>6, <1>7, <2>1, <2>2
  <2>4. Mv
    <3>1. \A t \in AtGateway.tasks \ {c} : call'[t] = call[t]
      BY <1>2, <2>2
    <3>2. c \in AtGateway.tasks => ended[c] = "open"
      BY <1>2, <1>7
    <3> QED
      BY <1>3, <1>7, <3>1, <3>2 DEF Mv
  <2>5. CacheInv'
    BY <1>7 DEF GatewayInv, CacheInv
  <2> QED
    BY <2>3, <2>4, <2>5
<1>8. ASSUME NEW c \in Gateway!Callers, call[c] # "none",
             turns' = turns, ended' = ended, spoken' = spoken,
             \A d \in Gateway!Callers \ {c} :
               call'[d] = call[d] /\ result'[d] = result[d],
             Fit(c), CacheInv'
      PROVE  P
  <2>1. \A d \in Gateway!Callers : Fit(d)
    BY <1>6, <1>8
  <2>2. Mv
    BY <1>2, <1>3, <1>8 DEF Mv
  <2> QED
    BY <1>8, <2>1, <2>2
<1>9. ASSUME NEW t \in AtGateway.tasks, Gateway!TaskAsks(t) PROVE P
  BY <1>2, <1>7, <1>9, Zenon DEF Gateway!TaskAsks
<1>10. CASE Gateway!SessionAsks
  BY <1>2, <1>7, <1>10, Zenon DEF Gateway!SessionAsks
<1>11. ASSUME NEW t \in AtGateway.tasks, Gateway!TaskGoesOn(t) PROVE P
  <2>1. /\ call[t] = "done" /\ UNCHANGED <<cached, spoken>>
        /\ call' = [call EXCEPT ![t] = "none"]
        /\ result' = [result EXCEPT ![t] = Gateway!NoAnswer]
    BY <1>11, Zenon DEF Gateway!TaskGoesOn
  <2>2. \A u \in AtGateway.tasks \ {t} : UNCHANGED <<turns[u], ended[u]>>
    BY <1>1, <1>11 DEF Gateway!TaskGoesOn
  <2>3. ended'[t] = "open" => turns'[t] < AtGateway.maxRounds
    <3>1. CASE result[t].tools
      <4>1. turns[t] < AtGateway.maxRounds /\ turns[t] \in Nat
        BY <1>1, <1>3, <2>1, GatewayNumbers
      <4>2. turns' = [turns EXCEPT ![t] = turns[t] + 1]
            /\ ended' = [ended EXCEPT ![t] =
                           IF turns'[t] = AtGateway.maxRounds
                           THEN "failed" ELSE ended[t]]
        BY <1>11, <3>1, Zenon DEF Gateway!TaskGoesOn
      <4> QED
        BY <1>1, <4>1, <4>2, GatewayNumbers
    <3>2. CASE ~result[t].tools
      <4>1. ended' = [ended EXCEPT ![t] = "answered"]
        BY <1>11, <3>2, Zenon DEF Gateway!TaskGoesOn
      <4> QED
        BY <1>1, <4>1
    <3> QED
      BY <3>1, <3>2
  <2>4. /\ \A d \in Gateway!Callers \ {t} :
             call'[d] = call[d] /\ result'[d] = result[d]
        /\ call'[t] = "none" /\ result'[t] = Gateway!NoAnswer
    BY <1>1, <1>2, <2>1
  <2>5. \A d \in Gateway!Callers : Fit(d)
    <3>1. \A d \in Gateway!Callers \ {t} : Fit(d)
      BY <1>2, <1>6, <2>1, <2>2, <2>4, Zenon
    <3> QED
      BY <2>4, <3>1 DEF Fit
  <2>6. Mv
    BY <1>2, <1>3, <2>2, <2>3, <2>4 DEF Mv
  <2>7. CacheInv'
    BY <2>1 DEF GatewayInv, CacheInv
  <2> QED
    BY <2>5, <2>6, <2>7
<1>12. CASE Gateway!SessionGoesOn \/ Gateway!Clear
  <2>1. /\ call' = [call EXCEPT ![AtGateway.session] = "none"]
        /\ result' = [result EXCEPT ![AtGateway.session] = Gateway!NoAnswer]
        /\ UNCHANGED <<cached, turns, ended>>
    <3>1. CASE Gateway!SessionGoesOn
      BY <3>1, Zenon DEF Gateway!SessionGoesOn
    <3>2. CASE Gateway!Clear
      <4>1. call[AtGateway.session] = "none"
            /\ UNCHANGED <<cached, call, result, turns, ended>>
        BY <3>2 DEF Gateway!Clear
      <4> QED
        BY <1>1, <1>2, <1>3, <4>1
    <3> QED
      BY <1>12, <3>1, <3>2
  <2>2. /\ \A d \in Gateway!Callers \ {AtGateway.session} :
             call'[d] = call[d] /\ result'[d] = result[d]
        /\ call'[AtGateway.session] = "none"
        /\ result'[AtGateway.session] = Gateway!NoAnswer
    BY <1>1, <1>2, <2>1
  <2>3. \A d \in Gateway!Callers \ {AtGateway.session} : Fit(d)
    BY <1>2, <1>6, <2>1, <2>2
  <2>4. Fit(AtGateway.session)
    BY <2>2 DEF Fit
  <2>5. Mv
    BY <1>2, <1>3, <2>1, <2>2 DEF Mv
  <2>6. CacheInv'
    BY <2>1 DEF GatewayInv, CacheInv
  <2> QED
    BY <2>3, <2>4, <2>5, <2>6
<1>13. ASSUME NEW c \in Gateway!Callers, NEW tls \in BOOLEAN,
              Gateway!Answer(c, tls)
       PROVE  P
  <2> DEFINE a == [to |-> c, turn |-> Gateway!Turn(c), by |-> call[c],
                   tools |-> tls]
  <2>1. /\ call[c] # "none" /\ cached' = cached
        /\ turns' = turns /\ ended' = ended /\ spoken' = spoken
        /\ call' = [call EXCEPT ![c] = "store"]
        /\ result' = [result EXCEPT ![c] = a]
        /\ tls => c \in AtGateway.withTools
    BY <1>5, <1>13 DEF Gateway!Answer
  <2>2. CacheInv'
    BY <2>1 DEF GatewayInv, CacheInv
  <2>3. Gateway!Turn(c)' = Gateway!Turn(c)
    BY <2>1 DEF Gateway!Turn
  <2>4. Fit(c)
    <3>1. call'[c] = "store" /\ result'[c] = a
      BY <1>1, <2>1
    <3>2. Plain(c) => Fits(a, Gateway!Model(c))
      BY <2>1 DEF Plain, Fits
    <3> QED
      BY <2>3, <3>1, <3>2 DEF Fit
  <2>5. \A d \in Gateway!Callers \ {c} :
          call'[d] = call[d] /\ result'[d] = result[d]
    BY <1>1, <2>1
  <2> HIDE DEF a
  <2> QED
    BY <1>8, <2>1, <2>2, <2>4, <2>5
<1>14. ASSUME NEW c \in Gateway!Callers, Gateway!NextRoute(c) PROVE P
  <2>1. PICK k \in {"standard", "fallback"} : call' = [call EXCEPT ![c] = k]
    BY <1>14 DEF Gateway!NextRoute
  <2>2. /\ call[c] \in Gateway!Models
        /\ cached' = cached /\ result' = result
        /\ turns' = turns /\ ended' = ended /\ spoken' = spoken
    BY <1>14 DEF Gateway!NextRoute
  <2>3. result'[c] = Gateway!NoAnswer
    BY <1>3, <1>5, <2>2
  <2>4. Fit(c)
    BY <1>1, <2>1, <2>3 DEF Fit
  <2>5. CacheInv'
    BY <2>2 DEF GatewayInv, CacheInv
  <2>6. \A d \in Gateway!Callers \ {c} :
          call'[d] = call[d] /\ result'[d] = result[d]
    BY <1>1, <2>1, <2>2
  <2> QED
    BY <1>5, <1>8, <2>2, <2>4, <2>5, <2>6
<1>15. ASSUME NEW c \in Gateway!Callers, Gateway!FallbackAnswer(c) PROVE P
  <2> DEFINE a == [to |-> IF c = AtGateway.session THEN c ELSE "empty prompt",
                   turn |-> Gateway!Turn(c), by |-> "fallback",
                   tools |-> FALSE]
  <2>1. /\ call[c] # "none" /\ cached' = cached
        /\ turns' = turns /\ ended' = ended /\ spoken' = spoken
        /\ call' = [call EXCEPT ![c] = "store"]
        /\ result' = [result EXCEPT ![c] = a]
    BY <1>15 DEF Gateway!FallbackAnswer
  <2>2. CacheInv'
    BY <2>1 DEF GatewayInv, CacheInv
  <2>3. Gateway!Turn(c)' = Gateway!Turn(c)
    BY <2>1 DEF Gateway!Turn
  <2>4. Fit(c)
    <3>1. call'[c] = "store" /\ result'[c] = a
      BY <1>1, <2>1
    <3>2. Plain(c) => Fits(a, Gateway!Model(c))
      <4> SUFFICES ASSUME Plain(c) PROVE Fits(a, Gateway!Model(c))
        OBVIOUS
      <4>1. c # AtGateway.session
        BY <1>2
      <4> QED
        BY <1>2, <4>1 DEF Fits
    <3>3. a.by = "fallback" /\ a.turn = Gateway!Turn(c)
      OBVIOUS
    <3> HIDE DEF a
    <3> QED
      BY <2>3, <3>1, <3>2, <3>3 DEF Fit
  <2>5. \A d \in Gateway!Callers \ {c} :
          call'[d] = call[d] /\ result'[d] = result[d]
    BY <1>1, <2>1
  <2> HIDE DEF a
  <2> QED
    BY <1>8, <2>1, <2>2, <2>4, <2>5
<1>16. ASSUME NEW c \in Gateway!Callers, Gateway!Exhausted(c) PROVE P
  <2>1. /\ call[c] \in {"standard", "fallback"}
        /\ call' = [call EXCEPT ![c] = "none"]
        /\ UNCHANGED <<cached, result, turns>>
        /\ IF c = AtGateway.session THEN UNCHANGED ended
           ELSE ended' = [ended EXCEPT ![c] = "failed"] /\ spoken' = spoken
    BY <1>16, Zenon DEF Gateway!Exhausted
  <2>2. /\ \A d \in Gateway!Callers \ {c} :
             call'[d] = call[d] /\ result'[d] = result[d]
        /\ call'[c] = "none" /\ result'[c] = Gateway!NoAnswer
    BY <1>1, <1>3, <2>1
  <2>3. \A t \in AtGateway.tasks \ {c} : UNCHANGED <<turns[t], ended[t]>>
    BY <1>1, <2>1
  <2>4. \A d \in Gateway!Callers \ {c} : Fit(d)
    BY <1>6, <2>1, <2>2, <2>3, Zenon
  <2>5. Fit(c)
    BY <2>2 DEF Fit
  <2>6. Mv
    BY <1>1, <1>2, <1>3, <2>1, <2>2, <2>3 DEF Mv
  <2>7. CacheInv'
    BY <2>1 DEF GatewayInv, CacheInv
  <2> QED
    BY <2>4, <2>5, <2>6, <2>7
<1>17. ASSUME NEW c \in Gateway!Callers, Gateway!Store(c) PROVE P
  <2>1. /\ call[c] = "store" /\ result' = result
        /\ turns' = turns /\ ended' = ended /\ spoken' = spoken
        /\ call' = [call EXCEPT ![c] = "done"]
        /\ \/ UNCHANGED cached
           \/ /\ Plain(c)
              /\ cached' = [cached EXCEPT ![Gateway!Model(c)] = result[c]]
    BY <1>2, <1>17, Zenon DEF Gateway!Store
  <2>2. CacheInv'
    <3>1. CASE UNCHANGED cached
      BY <3>1 DEF GatewayInv, CacheInv
    <3>2. CASE /\ Plain(c)
               /\ cached' = [cached EXCEPT ![Gateway!Model(c)] = result[c]]
      <4>1. Fits(result[c], Gateway!Model(c))
        BY <1>3, <2>1, <3>2
      <4> QED
        BY <1>1, <1>3, <3>2, <4>1 DEF CacheInv
    <3> QED
      BY <2>1, <3>1, <3>2
  <2>3. Gateway!Turn(c)' = Gateway!Turn(c)
    BY <2>1 DEF Gateway!Turn
  <2>4. Fit(c)
    BY <1>1, <1>3, <2>1, <2>3 DEF Fit
  <2>5. \A d \in Gateway!Callers \ {c} :
          call'[d] = call[d] /\ result'[d] = result[d]
    BY <1>1, <2>1
  <2> QED
    BY <1>8, <2>1, <2>2, <2>4, <2>5
<1>18. ASSUME NEW m \in Gateway!Models, Gateway!Expire(m) PROVE P
  <2>1. CacheInv'
    BY <1>1, <1>18 DEF Gateway!Expire, GatewayInv, CacheInv
  <2>2. UNCHANGED <<call, result, turns, ended, spoken>>
    BY <1>18 DEF Gateway!Expire
  <2> QED
    BY <1>3, <2>1, <2>2 DEF Mv, Fit, Gateway!Turn
<1>19. CASE UNCHANGED gateway
  BY <1>3, <1>19 DEF gateway, Mv, Fit, GatewayInv, CacheInv, Gateway!Turn
<1> HIDE DEF P
<1> QED
  BY <1>9, <1>10, <1>11, <1>12, <1>13, <1>14, <1>15, <1>16, <1>17, <1>18,
     <1>19
  DEF GatewayStep, Gateway!Next

\* The gateway's variables keep their types.
THEOREM GatewayTypes == Spec => [](part = "gateway" => Gateway!TypeOK)
<1> DEFINE I == part = "gateway" => Gateway!TypeOK /\ GatewayInv
<1>1. Init => I
  BY PartsAreSound, GatewayStart DEF Init
<1>2. I /\ [Next]_vars => I'
  BY PartsAreSound, PartsMove, GatewayTypeStep, AnswerStep
<1>3. I => (part = "gateway" => Gateway!TypeOK)
  OBVIOUS
<1> QED
  BY <1>1, <1>2, <1>3, PTL DEF Spec

\* Whoever has tools or a seed is answered for its own conversation as it
\* stands, or by the fallback; what comes from the cache was made for no such
\* conversation, under the same key (LLMGateway.complete, _cache_get).
THEOREM GatewayAnswersFit == Spec => []AnswersFitTheirCalls
<1> DEFINE I == part = "gateway" => Gateway!TypeOK /\ GatewayInv
<1>1. Init => I
  BY PartsAreSound, GatewayStart DEF Init
<1>2. I /\ [Next]_vars => I'
  BY PartsAreSound, PartsMove, GatewayTypeStep, AnswerStep
<1>3. I => AnswersFitTheirCalls
  BY Zenon DEF GatewayInv, ResultInv, Plain, Fits, AnswersFitTheirCalls,
     Gateway!AnswersFitTheirCalls
<1> QED
  BY <1>1, <1>2, <1>3, PTL DEF Spec

(***************************************************************************)
(* The chat (OrchChat).                                                    *)
(***************************************************************************)

\* Requests are served in the order they were asked, and the one served last
\* is the only one that can be under way without having overrun.
QueueInv ==
  /\ \A i \in DOMAIN inbox : inbox[i] \in 1..asked
  /\ \A i, j \in DOMAIN inbox : i < j => inbox[i] < inbox[j]
  /\ \A k \in Chat!Asks : run[k] # "none" =>
       /\ k <= asked
       /\ \A i \in DOMAIN inbox : k < inbox[i]
       /\ serving # 0 => k <= serving
  /\ serving # 0 => run[serving] # "none"
  /\ \A k \in Chat!Asks : run[k] \in {"call", "tools"} =>
       k = serving \/ k \in overran

\* While tools run, the last message is of their round.
RoundInv ==
  overran = {} => \A k \in Chat!Asks : run[k] = "tools" =>
    /\ messages # <<>>
    /\ messages[Len(messages)].role \in {"calls", "tool"}
    /\ messages[Len(messages)].ask = k
    /\ messages[Len(messages)].round = rounds[k]

\* Nothing that was answered is later than v.
Heard(v) ==
  /\ last <= v
  /\ \A j \in Chat!Asks : got[j] <= v
  /\ \A i \in DOMAIN outbox : outbox[i] <= v

\* What was answered is not later than what is served, or about to be; the
\* answers not read are in order, and follow what was read; those that
\* overran excepted.
OrderInv ==
  /\ Heard(asked)
  /\ serving # 0 => Heard(serving)
  /\ \A i \in DOMAIN inbox : Heard(inbox[i])
  /\ \A j \in Chat!Asks : j > asked => got[j] = 0
  /\ \A i \in DOMAIN outbox : outbox[i] \notin overran =>
       last <= outbox[i] /\ \A j \in Chat!Asks : got[j] <= outbox[i]
  /\ \A i, j \in DOMAIN outbox :
       i < j /\ outbox[j] \notin overran => outbox[i] <= outbox[j]
  /\ last # 0 /\ last \notin overran => \A j \in Chat!Asks : got[j] <= last
  /\ \A j, k \in Chat!Asks :
       j < k /\ got[k] # 0 /\ got[k] < got[j] => got[k] \in overran

\* Answers to k: shown, read and to be shown, written, and still to come.
Shown(k) == Cardinality({j \in Chat!Asks : got[j] = k})
InHand(k) == IF waits /\ ready /\ last = k THEN 1 ELSE 0
Written(k) == Cardinality({i \in DOMAIN outbox : outbox[i] = k})
ToServe(k) == IF k > asked \/ \E i \in DOMAIN inbox : inbox[i] = k THEN 2 ELSE 0
UnderWay(k) == IF run[k] \in {"call", "tools"} THEN 1 ELSE 0
Served(k) == IF serving = k THEN 1 ELSE 0

CountInv ==
  \A k \in Chat!Asks :
    Shown(k) + InHand(k) + Written(k) + ToServe(k) + UnderWay(k) + Served(k) <= 2

ChatInv == QueueInv /\ RoundInv /\ Chat!RoundsAreWhole /\ OrderInv /\ CountInv

\* Numbers and queues, without the flags.
LEMMA ChatFacts ==
  ASSUME Chat!TypeOK
  PROVE  /\ InChat.maxAsks \in Nat /\ asked \in Nat /\ asked <= InChat.maxAsks
         /\ last \in Nat /\ serving \in Nat /\ serving <= asked
         /\ serving # 0 => serving \in Chat!Asks
         /\ \A j \in Chat!Asks : j \in Nat /\ got[j] \in Nat
         /\ got \in [Chat!Asks -> 0..InChat.maxAsks]
         /\ inbox \in Seq(Chat!Asks) /\ outbox \in Seq(Chat!Asks)
         /\ \A i \in DOMAIN inbox : i \in Nat /\ inbox[i] \in Chat!Asks
         /\ \A i \in DOMAIN outbox : i \in Nat /\ outbox[i] \in Chat!Asks
         /\ run \in [Chat!Asks -> {"none", "call", "tools", "done", "failed"}]
<1>1. InChat.maxAsks \in Nat
  BY PartsAreSound, Zenon DEF Chat!ChatConstants
<1>2. /\ asked \in 0..InChat.maxAsks /\ last \in 0..InChat.maxAsks
      /\ got \in [Chat!Asks -> 0..InChat.maxAsks] /\ serving \in 0..asked
      /\ inbox \in Seq(Chat!Asks) /\ outbox \in Seq(Chat!Asks)
      /\ run \in [Chat!Asks -> {"none", "call", "tools", "done", "failed"}]
  BY Zenon DEF Chat!TypeOK
<1>3. \A j \in Chat!Asks : j \in Nat /\ got[j] \in Nat
  <2>1. \A j \in Chat!Asks : got[j] \in 0..InChat.maxAsks
    BY <1>2, Zenon
  <2>2. \A j \in Chat!Asks : j \in Nat
    BY <1>1 DEF Chat!Asks
  <2>3. \A n \in 0..InChat.maxAsks : n \in Nat
    BY <1>1
  <2> QED
    BY <2>1, <2>2, <2>3, Zenon
<1>4. /\ asked \in Nat /\ asked <= InChat.maxAsks /\ last \in Nat
      /\ serving \in Nat /\ serving <= asked
      /\ serving # 0 => serving \in Chat!Asks
  BY <1>1, <1>2 DEF Chat!Asks
<1>5. /\ \A i \in DOMAIN inbox : i \in Nat /\ inbox[i] \in Chat!Asks
      /\ \A i \in DOMAIN outbox : i \in Nat /\ outbox[i] \in Chat!Asks
  BY <1>2
<1> QED
  BY <1>1, <1>2, <1>3, <1>4, <1>5, Zenon

\* One more in a queue.
LEMMA Appended ==
  ASSUME NEW S, NEW s \in Seq(S), NEW e \in S
  PROVE  /\ Append(s, e) \in Seq(S)
         /\ Len(s) + 1 \in DOMAIN Append(s, e) /\ Append(s, e)[Len(s) + 1] = e
         /\ \A i \in DOMAIN Append(s, e) :
              i = Len(s) + 1 \/ (i \in DOMAIN s /\ Append(s, e)[i] = s[i])
         /\ \A i \in DOMAIN s : /\ i \in DOMAIN Append(s, e) /\ i < Len(s) + 1
                                /\ Append(s, e)[i] = s[i]
  OBVIOUS

\* The first one taken from a queue.
LEMMA Taken ==
  ASSUME NEW S, NEW s \in Seq(S), s # <<>>
  PROVE  /\ Tail(s) \in Seq(S) /\ Head(s) \in S
         /\ 1 \in DOMAIN s /\ Head(s) = s[1]
         /\ \A i \in DOMAIN Tail(s) : /\ i \in Nat /\ i + 1 \in DOMAIN s /\ 1 < i + 1
                                      /\ Tail(s)[i] = s[i + 1]
         /\ \A i \in DOMAIN s : i # 1 => i - 1 \in DOMAIN Tail(s)
<1>1. /\ Tail(s) \in Seq(S) /\ Head(s) \in S /\ Head(s) = s[1]
      /\ Len(s) \in Nat /\ Len(s) >= 1 /\ DOMAIN s = 1..Len(s)
      /\ Len(Tail(s)) = Len(s) - 1 /\ DOMAIN Tail(s) = 1..(Len(s) - 1)
  OBVIOUS
<1>2. \A i \in 1..(Len(s) - 1) : Tail(s)[i] = s[i + 1]
  OBVIOUS
<1> QED
  BY <1>1, <1>2

\* The bound on faults holds.
LEMMA MoreSlips ==
  ASSUME Chat!TypeOK, Chat!Slip
  PROVE  slips' \in 0..InChat.maxFaults
<1>1. slips \in 0..InChat.maxFaults
  BY Zenon DEF Chat!TypeOK
<1>2. slips < InChat.maxFaults /\ slips' = slips + 1
  BY DEF Chat!Slip
<1>3. InChat.maxFaults \in Nat
  BY PartsAreSound, Zenon DEF Chat!ChatConstants
<1> QED
  BY <1>1, <1>2, <1>3

\* A conversation starts empty.
LEMMA ChatStarts ==
  Chat!Init => Chat!TypeOK /\ ChatInv
<1> SUFFICES ASSUME Chat!Init PROVE Chat!TypeOK /\ ChatInv
  OBVIOUS
<1> USE DEF Chat!Init
<1>1. /\ 0 \in 0..InChat.maxAsks /\ 0 \in 0..InChat.maxRounds
      /\ 0 \in 0..InChat.maxCalls /\ 0 \in 0..InChat.maxFaults
      /\ InChat.maxAsks \in Nat
  <2>1. /\ InChat.maxAsks \in Nat /\ InChat.maxRounds \in Nat
        /\ InChat.maxCalls \in Nat \ {0} /\ InChat.maxFaults \in Nat
    BY PartsAreSound, Zenon DEF Chat!ChatConstants
  <2> QED
    BY <2>1
<1>2. Chat!TypeOK
  <2>1. /\ got \in [Chat!Asks -> 0..InChat.maxAsks]
        /\ run \in [Chat!Asks -> {"none", "call", "tools", "done", "failed"}]
        /\ rounds \in [Chat!Asks -> 0..InChat.maxRounds]
        /\ pending \in [Chat!Asks -> 0..InChat.maxCalls]
    BY <1>1
  <2>2. \A k \in Chat!Asks : run[k] = "tools" <=> pending[k] > 0
    OBVIOUS
  <2>3. /\ inbox \in Seq(Chat!Asks) /\ outbox \in Seq(Chat!Asks)
        /\ messages \in Seq(Chat!Messages) /\ serving \in 0..asked
    OBVIOUS
  <2>4. /\ asked \in 0..InChat.maxAsks /\ last \in 0..InChat.maxAsks
        /\ slips \in 0..InChat.maxFaults /\ resets \subseteq Chat!Asks
        /\ overran \subseteq Chat!Asks
    BY <1>1
  <2>5. waits \in BOOLEAN /\ ready \in BOOLEAN /\ known \in BOOLEAN /\ up \in BOOLEAN
    OBVIOUS
  <2> QED
    BY <2>1, <2>2, <2>3, <2>4, <2>5, Zenon DEF Chat!TypeOK
<1>3. QueueInv
  BY DEF QueueInv
<1>4. RoundInv /\ Chat!RoundsAreWhole
  BY DEF RoundInv, Chat!RoundsAreWhole
<1>5. OrderInv
  BY <1>1 DEF OrderInv, Heard, Chat!Asks
<1>6. CountInv
  <2> SUFFICES ASSUME NEW k \in Chat!Asks
               PROVE  Shown(k) + InHand(k) + Written(k) + ToServe(k) + UnderWay(k)
                        + Served(k) <= 2
    BY DEF CountInv
  <2>1. k \in Nat /\ k > 0
    BY <1>1 DEF Chat!Asks
  <2>2. {j \in Chat!Asks : got[j] = k} = {} /\ {i \in DOMAIN outbox : outbox[i] = k} = {}
    BY <2>1
  <2>3. Shown(k) = 0 /\ Written(k) = 0
    BY <2>2, FS_EmptySet DEF Shown, Written
  <2>4. InHand(k) = 0 /\ ToServe(k) = 2 /\ UnderWay(k) = 0 /\ Served(k) = 0
    BY <2>1 DEF InHand, ToServe, UnderWay, Served
  <2> QED
    BY <2>3, <2>4
<1> QED
  BY <1>2, <1>3, <1>4, <1>5, <1>6 DEF ChatInv

\* The constants of the chat.
LEMMA ChatNumbers ==
  /\ InChat.maxAsks \in Nat /\ InChat.maxRounds \in Nat
  /\ InChat.maxCalls \in Nat \ {0} /\ InChat.maxHistory \in Nat \ {0}
BY PartsAreSound, Zenon DEF Chat!ChatConstants

\* Messages are trimmed to the last of them.
LEMMA TrimmedIsTail ==
  ASSUME NEW S, NEW h \in Seq(S)
  PROVE  /\ Chat!Trimmed(h) \in Seq(S)
         /\ \E d \in Nat :
              /\ \A i \in DOMAIN Chat!Trimmed(h) :
                   i \in Nat \ {0} /\ i + d \in DOMAIN h
                   /\ Chat!Trimmed(h)[i] = h[i + d]
<1> DEFINE m == InChat.maxHistory
<1>1. CASE Len(h) > m
  <2> DEFINE d == Len(h) - m
  <2>1. d \in Nat /\ Len(h) \in Nat /\ DOMAIN h = 1..Len(h) /\ d + 1 \in 1..Len(h)
    BY <1>1, ChatNumbers
  <2>2. Chat!Trimmed(h) = SubSeq(h, d + 1, Len(h))
    BY <1>1 DEF Chat!Trimmed
  <2> HIDE DEF d
  <2>3. /\ SubSeq(h, d + 1, Len(h)) \in Seq(S)
        /\ Len(SubSeq(h, d + 1, Len(h))) = Len(h) - d
        /\ \A i \in 1..(Len(h) - d) :
             SubSeq(h, d + 1, Len(h))[i] = h[i + d]
    <3>1. \A i \in (d + 1)..Len(h) : h[i] \in S
      BY <2>1
    <3>2. /\ SubSeq(h, d + 1, Len(h)) \in Seq(S)
          /\ Len(SubSeq(h, d + 1, Len(h))) =
               IF d + 1 <= Len(h) THEN Len(h) - (d + 1) + 1 ELSE 0
          /\ \A i \in 1 .. Len(h) - (d + 1) + 1 :
               SubSeq(h, d + 1, Len(h))[i] = h[d + 1 + i - 1]
      BY <2>1, <3>1, SubSeqProperties
    <3>3. \A i \in 1..(Len(h) - d) : d + 1 + i - 1 = i + d
      BY <2>1
    <3> QED
      BY <2>1, <3>2, <3>3
  <2>4. \A i \in DOMAIN Chat!Trimmed(h) :
          i \in Nat \ {0} /\ i + d \in DOMAIN h /\ Chat!Trimmed(h)[i] = h[i + d]
    BY <2>1, <2>2, <2>3
  <2> QED
    BY <2>1, <2>2, <2>3, <2>4
<1>2. CASE ~(Len(h) > m)
  <2>1. Chat!Trimmed(h) = h
    BY <1>2 DEF Chat!Trimmed
  <2>2. \A i \in DOMAIN h : i \in Nat \ {0} /\ i + 0 \in DOMAIN h /\ h[i] = h[i + 0]
    OBVIOUS
  <2> QED
    BY <2>1, <2>2
<1> QED
  BY <1>1, <1>2

\* A message that is appended is one.
LEMMA SaidIsMessage ==
  ASSUME NEW role \in {"user", "reply", "calls", "tool"}, NEW k \in Chat!Asks,
         NEW n \in 0..InChat.maxRounds
  PROVE  Chat!Said(role, k, n) \in Chat!Messages
BY DEF Chat!Said, Chat!Messages

\* The requests asked and answered, typed without the flags.
ChatCounters ==
  /\ asked \in 0..InChat.maxAsks /\ last \in 0..InChat.maxAsks
  /\ got \in [Chat!Asks -> 0..InChat.maxAsks]
  /\ inbox \in Seq(Chat!Asks) /\ resets \subseteq Chat!Asks
  /\ outbox \in Seq(Chat!Asks) /\ serving \in 0..asked

\* The coroutines and what they say.
ChatWork ==
  /\ run \in [Chat!Asks -> {"none", "call", "tools", "done", "failed"}]
  /\ rounds \in [Chat!Asks -> 0..InChat.maxRounds]
  /\ pending \in [Chat!Asks -> 0..InChat.maxCalls]
  /\ \A k \in Chat!Asks : run[k] = "tools" <=> pending[k] > 0
  /\ messages \in Seq(Chat!Messages)

ChatFlags ==
  /\ waits \in BOOLEAN /\ ready \in BOOLEAN /\ known \in BOOLEAN /\ up \in BOOLEAN
  /\ overran \subseteq Chat!Asks /\ slips \in 0..InChat.maxFaults

\* The types of the chat are these three.
LEMMA ChatTypesSplit ==
  Chat!TypeOK <=> ChatCounters /\ ChatWork /\ ChatFlags
BY Zenon DEF Chat!TypeOK, ChatCounters, ChatWork, ChatFlags

\* The GUI keeps the types,
LEMMA GuiTypes ==
  ASSUME Chat!TypeOK, Chat!GuiStep
  PROVE  Chat!TypeOK'
<1> USE DEF Chat!gui, Chat!work
<1>1. ChatCounters /\ ChatWork /\ ChatFlags
  BY ChatTypesSplit
<1>2. ChatWork'
  <2>1. UNCHANGED <<run, rounds, pending, messages>>
    BY Zenon DEF Chat!GuiStep, Chat!Ask, Chat!Return, Chat!StopWaiting,
                 Chat!Read, Chat!ReadEnd, Chat!Start
  <2> QED
    BY <1>1, <2>1, Zenon DEF ChatWork
<1>3. ChatFlags'
  <2>1. /\ waits' \in BOOLEAN /\ ready' \in BOOLEAN /\ known' \in BOOLEAN
        /\ up' \in BOOLEAN
    BY <1>1 DEF ChatFlags, Chat!GuiStep, Chat!Ask, Chat!Return,
                Chat!StopWaiting, Chat!Read, Chat!ReadEnd, Chat!Start
  <2>2. UNCHANGED overran /\ (UNCHANGED slips \/ Chat!Slip)
    BY Zenon DEF Chat!GuiStep, Chat!Ask, Chat!Return, Chat!StopWaiting,
                 Chat!Read, Chat!ReadEnd, Chat!Start
  <2>3. slips' \in 0..InChat.maxFaults
    BY <1>1, <2>2, MoreSlips, Zenon DEF ChatFlags
  <2> QED
    BY <1>1, <2>1, <2>2, <2>3, Zenon DEF ChatFlags
<1>4. ChatCounters'
  <2>1. ASSUME NEW reset, Chat!Ask(reset)
        PROVE  ChatCounters'
    <3>1. /\ asked < InChat.maxAsks /\ asked' = asked + 1
          /\ last' = last \/ last' = 0
          /\ resets' = resets \cup {asked + 1} \/ resets' = resets
          /\ inbox' = Append(inbox, asked + 1)
          /\ UNCHANGED <<got, outbox, serving>>
      BY <2>1 DEF Chat!Ask
    <3>2. /\ asked + 1 \in Chat!Asks /\ asked' \in 0..InChat.maxAsks
          /\ serving' \in 0..asked' /\ 0 \in 0..InChat.maxAsks
      BY <1>1, <3>1, ChatNumbers DEF ChatCounters, Chat!Asks
    <3>3. inbox' \in Seq(Chat!Asks)
      BY <1>1, <3>1, <3>2, Appended, Zenon DEF ChatCounters
    <3> QED
      BY <1>1, <3>1, <3>2, <3>3 DEF ChatCounters
  <2>2. CASE Chat!Return
    <3>1. got' = [got EXCEPT ![asked] = last]
          /\ UNCHANGED <<asked, last, resets, inbox, outbox, serving>>
      BY <2>2, Zenon DEF Chat!Return
    <3> QED
      BY <1>1, <3>1 DEF ChatCounters
  <2>3. CASE Chat!Read
    <3>1. /\ outbox # <<>> /\ outbox' = Tail(outbox) /\ last' = Head(outbox)
          /\ UNCHANGED <<asked, got, resets, inbox, serving>>
      BY <2>3, Zenon DEF Chat!Read
    <3>2. outbox' \in Seq(Chat!Asks) /\ last' \in Chat!Asks
      BY <1>1, <3>1, Taken, Zenon DEF ChatCounters
    <3>3. last' \in 0..InChat.maxAsks
      BY <3>2, ChatNumbers DEF Chat!Asks
    <3> QED
      BY <1>1, <3>1, <3>2, <3>3, Zenon DEF ChatCounters
  <2>4. CASE Chat!StopWaiting \/ Chat!ReadEnd \/ Chat!Start
    <3>1. UNCHANGED <<asked, last, got, resets, inbox, outbox, serving>>
      BY <2>4, Zenon DEF Chat!StopWaiting, Chat!ReadEnd, Chat!Start
    <3> QED
      BY <1>1, <3>1, Zenon DEF ChatCounters
  <2> QED
    BY <2>1, <2>2, <2>3, <2>4, Zenon DEF Chat!GuiStep
<1> QED
  <2>1. ChatCounters' /\ ChatWork' /\ ChatFlags' => Chat!TypeOK'
    BY Zenon DEF Chat!TypeOK, ChatCounters, ChatWork, ChatFlags
  <2> QED
    BY <1>2, <1>3, <1>4, <2>1, Zenon

\* and so does the daemon, which never begins a request that runs tools.
LEMMA DaemonTypes ==
  ASSUME Chat!TypeOK, QueueInv, Chat!DaemonStep
  PROVE  Chat!TypeOK'
<1> USE DEF Chat!gui, Chat!work
<1>1. ChatCounters /\ ChatWork /\ ChatFlags
  BY ChatTypesSplit
<1>2. ChatFlags'
  <2>1. /\ UNCHANGED <<waits, ready, known>>
        /\ up' = up \/ up' = FALSE
        /\ UNCHANGED slips \/ Chat!Slip
        /\ \/ UNCHANGED overran
           \/ overran' = overran \cup {serving} /\ serving # 0
    <3>1. CASE Chat!Overrun
      BY <3>1, Zenon DEF Chat!Overrun
    <3>2. CASE Chat!Serve \/ Chat!FailServe \/ Chat!Settle \/ Chat!Stop
      BY <3>2, Zenon DEF Chat!Serve, Chat!FailServe, Chat!Settle, Chat!Stop
    <3>3. ASSUME NEW k \in Chat!Asks,
                 \/ Chat!Reply(k) \/ Chat!Tool(k) \/ Chat!Raise(k)
                 \/ \E n \in 1..InChat.maxCalls : Chat!CallTools(k, n)
          PROVE  /\ UNCHANGED <<waits, ready, known, up, overran>>
                 /\ UNCHANGED slips \/ Chat!Slip
      BY <3>3, Zenon DEF Chat!Reply, Chat!Tool, Chat!Raise, Chat!CallTools
    <3> QED
      BY <3>1, <3>2, <3>3, Zenon DEF Chat!DaemonStep
  <2>2. slips' \in 0..InChat.maxFaults
    BY <1>1, <2>1, MoreSlips, Zenon DEF ChatFlags
  <2>3. overran' \subseteq Chat!Asks
    <3>1. serving # 0 => serving \in Chat!Asks
      BY ChatFacts
    <3>2. overran \subseteq Chat!Asks
      BY <1>1, Zenon DEF ChatFlags
    <3> QED
      BY <2>1, <3>1, <3>2
  <2>4. up' \in BOOLEAN
    BY <1>1, <2>1 DEF ChatFlags
  <2> QED
    BY <1>1, <2>1, <2>2, <2>3, <2>4, Zenon DEF ChatFlags
<1>3. ASSUME UNCHANGED <<asked, last, got, resets>>, inbox' \in Seq(Chat!Asks),
             outbox' \in Seq(Chat!Asks), serving' \in 0..asked, ChatWork'
      PROVE  Chat!TypeOK'
  <2>1. ChatCounters'
    BY <1>1, <1>3, Zenon DEF ChatCounters
  <2> QED
    BY <1>2, <1>3, <2>1, Zenon DEF Chat!TypeOK, ChatCounters, ChatWork, ChatFlags
<1>4. /\ 0 \in 0..asked /\ 0 \in 0..InChat.maxRounds /\ 0 \in 0..InChat.maxCalls
      /\ InChat.maxRounds \in Nat /\ InChat.maxCalls \in Nat
  BY ChatFacts, ChatNumbers
<1>5. /\ inbox \in Seq(Chat!Asks) /\ outbox \in Seq(Chat!Asks)
      /\ serving \in 0..asked
  BY <1>1, Zenon DEF ChatCounters
<1>6. inbox # <<>> =>
        /\ Tail(inbox) \in Seq(Chat!Asks) /\ Head(inbox) \in Chat!Asks
        /\ Head(inbox) \in 0..asked
  <2>1. inbox # <<>> => /\ Tail(inbox) \in Seq(Chat!Asks)
                        /\ Head(inbox) \in Chat!Asks
                        /\ 1 \in DOMAIN inbox /\ Head(inbox) = inbox[1]
    BY <1>5, Taken, Zenon
  <2>2. 1 \in DOMAIN inbox => inbox[1] \in 1..asked
    BY DEF QueueInv
  <2>3. inbox # <<>> => Head(inbox) \in 1..asked
    BY <2>1, <2>2, Zenon
  <2>4. \A n \in 1..asked : n \in 0..asked
    BY ChatFacts
  <2> QED
    BY <2>1, <2>3, <2>4, Zenon
<1>7. ASSUME NEW k \in Chat!Asks
      PROVE  Append(outbox, k) \in Seq(Chat!Asks)
  BY <1>5, Appended, Zenon
<1>8. ASSUME NEW k \in Chat!Asks, NEW s \in {"none", "call", "done", "failed"},
             run' = [run EXCEPT ![k] = s], run[k] # "tools",
             UNCHANGED <<rounds, pending>>, messages' \in Seq(Chat!Messages)
      PROVE  ChatWork'
  BY <1>1, <1>8 DEF ChatWork
<1>9. ASSUME NEW role \in {"user", "reply", "calls", "tool"}, NEW k \in Chat!Asks,
             NEW n \in 0..InChat.maxRounds
      PROVE  Append(messages, Chat!Said(role, k, n)) \in Seq(Chat!Messages)
  BY <1>1, SaidIsMessage, Appended, Zenon DEF ChatWork
<1>10. ASSUME NEW k \in Chat!Asks
       PROVE  rounds[k] \in 0..InChat.maxRounds
  BY <1>1 DEF ChatWork
<1>11. messages \in Seq(Chat!Messages) /\ <<>> \in Seq(Chat!Messages)
  BY <1>1 DEF ChatWork
<1>12. CASE Chat!Serve
  <2> DEFINE k == Head(inbox)
  <2>1. /\ inbox # <<>> /\ inbox' = Tail(inbox)
        /\ UNCHANGED <<asked, last, got, resets, rounds, pending>>
        /\ \/ /\ messages' = <<>> /\ outbox' = Append(outbox, k)
              /\ UNCHANGED <<serving, run>>
           \/ /\ messages' = Chat!Trimmed(Append(messages, Chat!Said("user", k, 0)))
              /\ run' = [run EXCEPT ![k] = "call"] /\ serving' = k
              /\ UNCHANGED outbox
    BY <1>12, Zenon DEF Chat!Serve
  <2>2. run[k] # "tools"
    <3>1. k \in Chat!Asks /\ 1 \in DOMAIN inbox /\ k = inbox[1]
      BY <1>5, <2>1, Taken, Zenon
    <3>2. run[k] # "none" => k < inbox[1]
      BY <3>1 DEF QueueInv
    <3>3. k \in Nat
      BY <3>1, ChatFacts
    <3> QED
      BY <3>1, <3>2, <3>3
  <2>3. CASE /\ messages' = <<>> /\ outbox' = Append(outbox, k)
             /\ UNCHANGED <<serving, run>>
    <3>1. ChatWork'
      BY <1>1, <1>11, <2>1, <2>3, Zenon DEF ChatWork
    <3> QED
      BY <1>3, <1>5, <1>6, <1>7, <2>1, <2>3, <3>1, Zenon
  <2>4. CASE /\ messages' = Chat!Trimmed(Append(messages, Chat!Said("user", k, 0)))
             /\ run' = [run EXCEPT ![k] = "call"] /\ serving' = k
             /\ UNCHANGED outbox
    <3>1. messages' \in Seq(Chat!Messages)
      BY <1>4, <1>6, <1>9, <2>1, <2>4, TrimmedIsTail, Zenon
    <3>2. ChatWork'
      BY <1>6, <1>8, <2>1, <2>2, <2>4, <3>1, Zenon
    <3> QED
      BY <1>3, <1>5, <1>6, <2>1, <2>4, <3>2, Zenon
  <2> QED
    BY <2>1, <2>3, <2>4, Zenon
<1>13. CASE Chat!FailServe
  <2> DEFINE k == Head(inbox)
  <2>1. /\ inbox # <<>> /\ inbox' = Tail(inbox)
        /\ UNCHANGED <<asked, last, got, resets, rounds, pending, outbox, messages>>
        /\ run' = [run EXCEPT ![k] = "failed"] /\ serving' = k
    BY <1>13, Zenon DEF Chat!FailServe
  <2>2. run[k] # "tools"
    <3>1. k \in Chat!Asks /\ 1 \in DOMAIN inbox /\ k = inbox[1]
      BY <1>5, <2>1, Taken, Zenon
    <3>2. run[k] # "none" => k < inbox[1]
      BY <3>1 DEF QueueInv
    <3>3. k \in Nat
      BY <3>1, ChatFacts
    <3> QED
      BY <3>1, <3>2, <3>3
  <2>3. ChatWork'
    BY <1>6, <1>8, <1>11, <2>1, <2>2, Zenon
  <2> QED
    BY <1>3, <1>5, <1>6, <2>1, <2>3, Zenon
<1>14. CASE Chat!Settle \/ Chat!Overrun
  <2>1. /\ serving # 0 /\ outbox' = Append(outbox, serving) /\ serving' = 0
        /\ UNCHANGED <<asked, last, got, resets, inbox, run, rounds, pending,
                       messages>>
    BY <1>14, Zenon DEF Chat!Settle, Chat!Overrun
  <2>2. serving \in Chat!Asks
    BY <2>1, ChatFacts
  <2>3. ChatWork'
    BY <1>1, <2>1, Zenon DEF ChatWork
  <2> QED
    BY <1>3, <1>4, <1>5, <1>7, <2>1, <2>2, <2>3, Zenon
<1>15. CASE Chat!Stop
  <2>1. /\ inbox' = <<>> /\ outbox' = <<>> /\ serving' = 0
        /\ run' = [k \in Chat!Asks |-> "none"]
        /\ pending' = [k \in Chat!Asks |-> 0] /\ messages' = <<>>
        /\ UNCHANGED <<asked, last, got, resets, rounds>>
    BY <1>15, Zenon DEF Chat!Stop
  <2>2. ChatWork'
    BY <1>1, <1>4, <1>11, <2>1 DEF ChatWork
  <2>3. <<>> \in Seq(Chat!Asks)
    OBVIOUS
  <2> QED
    BY <1>3, <1>4, <2>1, <2>2, <2>3, Zenon
<1>16. ASSUME NEW k \in Chat!Asks, Chat!Reply(k)
       PROVE  Chat!TypeOK'
  <2>1. /\ run[k] = "call" /\ run' = [run EXCEPT ![k] = "done"]
        /\ messages' = Append(messages, Chat!Said("reply", k, rounds[k]))
        /\ outbox' = Append(outbox, k)
        /\ UNCHANGED <<asked, last, got, resets, inbox, serving, rounds, pending>>
    BY <1>16, Zenon DEF Chat!Reply
  <2>2. ChatWork'
    BY <1>8, <1>9, <1>10, <2>1
  <2> QED
    BY <1>3, <1>5, <1>7, <2>1, <2>2, Zenon
<1>17. ASSUME NEW k \in Chat!Asks, Chat!Raise(k)
       PROVE  Chat!TypeOK'
  <2>1. /\ run[k] = "call" /\ run' = [run EXCEPT ![k] = "failed"]
        /\ UNCHANGED <<asked, last, got, resets, inbox, outbox, serving, rounds,
                       pending, messages>>
    BY <1>17, Zenon DEF Chat!Raise
  <2>2. ChatWork'
    BY <1>8, <1>11, <2>1
  <2> QED
    BY <1>3, <1>5, <2>1, <2>2, Zenon
<1>18. ASSUME NEW k \in Chat!Asks, NEW n \in 1..InChat.maxCalls,
              Chat!CallTools(k, n)
       PROVE  Chat!TypeOK'
  <2>1. /\ run' = [run EXCEPT ![k] = "tools"]
        /\ rounds' = [rounds EXCEPT ![k] = @ + 1]
        /\ pending' = [pending EXCEPT ![k] = n]
        /\ messages' = Append(messages, Chat!Said("calls", k, rounds[k] + 1))
        /\ rounds[k] < InChat.maxRounds
        /\ UNCHANGED <<asked, last, got, resets, inbox, outbox, serving>>
    BY <1>18, Zenon DEF Chat!CallTools
  <2>2. rounds[k] + 1 \in 0..InChat.maxRounds
    BY <1>4, <1>10, <2>1
  <2>3. n \in 0..InChat.maxCalls /\ n > 0
    BY <1>4
  <2>4. messages' \in Seq(Chat!Messages)
    BY <1>9, <2>1, <2>2
  <2>5. ChatWork'
    BY <1>1, <2>1, <2>2, <2>3, <2>4 DEF ChatWork
  <2> QED
    BY <1>3, <1>5, <2>1, <2>5, Zenon
<1>19. ASSUME NEW k \in Chat!Asks, Chat!Tool(k)
       PROVE  Chat!TypeOK'
  <2>1. /\ run[k] = "tools"
        /\ run' = [run EXCEPT ![k] = IF pending[k] = 1 THEN "call" ELSE "tools"]
        /\ pending' = [pending EXCEPT ![k] = @ - 1]
        /\ messages' = Append(messages, Chat!Said("tool", k, rounds[k]))
        /\ UNCHANGED <<asked, last, got, resets, inbox, outbox, serving, rounds>>
    BY <1>19, Zenon DEF Chat!Tool
  <2>2. pending[k] \in 0..InChat.maxCalls /\ pending[k] > 0
    BY <1>1, <2>1 DEF ChatWork
  <2>3. /\ pending[k] - 1 \in 0..InChat.maxCalls
        /\ pending[k] - 1 > 0 <=> pending[k] # 1
    BY <1>4, <2>2
  <2>4. messages' \in Seq(Chat!Messages)
    BY <1>9, <1>10, <2>1
  <2>5. ChatWork'
    BY <1>1, <2>1, <2>3, <2>4 DEF ChatWork
  <2> QED
    BY <1>3, <1>5, <2>1, <2>5, Zenon
<1> QED
  BY <1>12, <1>13, <1>14, <1>15, <1>16, <1>17, <1>18, <1>19, Zenon
     DEF Chat!DaemonStep

\* The kinds of step of the daemon: main answers a reset, begins a request,
\* or writes an answer; the loop writes one, or goes on; it ends.
AnswersReset ==
  /\ inbox # <<>> /\ serving = 0
  /\ inbox' = Tail(inbox) /\ outbox' = Append(outbox, Head(inbox))
  /\ messages' = <<>>
  /\ UNCHANGED <<serving, run, rounds, overran>>

Begins ==
  /\ inbox # <<>> /\ serving = 0
  /\ inbox' = Tail(inbox) /\ serving' = Head(inbox)
  /\ \E s \in {"call", "failed"} : run' = [run EXCEPT ![Head(inbox)] = s]
  /\ \/ UNCHANGED messages
     \/ messages' = Chat!Trimmed(Append(messages, Chat!Said("user", Head(inbox), 0)))
  /\ UNCHANGED <<outbox, rounds, overran>>

MainEmits ==
  /\ serving # 0 /\ serving' = 0 /\ outbox' = Append(outbox, serving)
  /\ \/ run[serving] \in {"done", "failed"} /\ UNCHANGED overran
     \/ overran' = overran \cup {serving}
  /\ UNCHANGED <<inbox, run, rounds, messages>>

LoopEmits(k) ==
  /\ run[k] = "call" /\ run' = [run EXCEPT ![k] = "done"]
  /\ outbox' = Append(outbox, k)
  /\ messages' = Append(messages, Chat!Said("reply", k, rounds[k]))
  /\ UNCHANGED <<inbox, serving, rounds, overran>>

LoopFails(k) ==
  /\ run[k] = "call" /\ run' = [run EXCEPT ![k] = "failed"]
  /\ UNCHANGED <<inbox, outbox, serving, rounds, messages, overran>>

LoopCalls(k) ==
  /\ run[k] = "call" /\ run' = [run EXCEPT ![k] = "tools"]
  /\ rounds' = [rounds EXCEPT ![k] = @ + 1]
  /\ messages' = Append(messages, Chat!Said("calls", k, rounds[k] + 1))
  /\ UNCHANGED <<inbox, outbox, serving, overran>>

LoopRuns(k) ==
  /\ run[k] = "tools"
  /\ \E s \in {"call", "tools"} : run' = [run EXCEPT ![k] = s]
  /\ messages' = Append(messages, Chat!Said("tool", k, rounds[k]))
  /\ UNCHANGED <<inbox, outbox, serving, rounds, overran>>

Ends ==
  /\ inbox' = <<>> /\ outbox' = <<>> /\ serving' = 0 /\ messages' = <<>>
  /\ run' = [k \in Chat!Asks |-> "none"]
  /\ UNCHANGED <<rounds, overran>>

\* Every step of the daemon is of one of these kinds.
LEMMA DaemonMoves ==
  ASSUME Chat!DaemonStep
  PROVE  /\ UNCHANGED <<asked, last, got, waits, ready>>
         /\ \/ AnswersReset \/ Begins \/ MainEmits \/ Ends
            \/ \E k \in Chat!Asks : \/ LoopEmits(k) \/ LoopFails(k)
                                    \/ LoopCalls(k) \/ LoopRuns(k)
<1> USE DEF Chat!gui, Chat!work
<1>1. CASE Chat!Serve
  <2>1. UNCHANGED <<asked, last, got, waits, ready>> /\ (AnswersReset \/ Begins)
    BY <1>1, Zenon DEF Chat!Serve, AnswersReset, Begins
  <2> QED
    BY <2>1, Zenon
<1>2. CASE Chat!FailServe
  <2>1. UNCHANGED <<asked, last, got, waits, ready>> /\ Begins
    BY <1>2, Zenon DEF Chat!FailServe, Begins
  <2> QED
    BY <2>1, Zenon
<1>3. CASE Chat!Settle \/ Chat!Overrun
  <2>1. UNCHANGED <<asked, last, got, waits, ready>> /\ MainEmits
    BY <1>3, Zenon DEF Chat!Settle, Chat!Overrun, MainEmits
  <2> QED
    BY <2>1, Zenon
<1>4. CASE Chat!Stop
  <2>1. UNCHANGED <<asked, last, got, waits, ready>> /\ Ends
    BY <1>4, Zenon DEF Chat!Stop, Ends
  <2> QED
    BY <2>1, Zenon
<1>5. ASSUME NEW k \in Chat!Asks,
             \/ Chat!Reply(k) \/ Chat!Tool(k) \/ Chat!Raise(k)
             \/ \E n \in 1..InChat.maxCalls : Chat!CallTools(k, n)
      PROVE  /\ UNCHANGED <<asked, last, got, waits, ready>>
             /\ LoopEmits(k) \/ LoopFails(k) \/ LoopCalls(k) \/ LoopRuns(k)
  <2>1. CASE Chat!Reply(k)
    BY <2>1, Zenon DEF Chat!Reply, LoopEmits
  <2>2. CASE Chat!Raise(k)
    BY <2>2, Zenon DEF Chat!Raise, LoopFails
  <2>3. CASE \E n \in 1..InChat.maxCalls : Chat!CallTools(k, n)
    BY <2>3, Zenon DEF Chat!CallTools, LoopCalls
  <2>4. CASE Chat!Tool(k)
    <3>1. \E s \in {"call", "tools"} : run' = [run EXCEPT ![k] = s]
      BY <2>4 DEF Chat!Tool
    <3> QED
      BY <2>4, <3>1, Zenon DEF Chat!Tool, LoopRuns
  <2> QED
    BY <1>5, <2>1, <2>2, <2>3, <2>4, Zenon
<1> QED
  BY <1>1, <1>2, <1>3, <1>4, <1>5, Zenon DEF Chat!DaemonStep

\* What the GUI does to the queue and to the answers.
LEMMA GuiMoves ==
  ASSUME Chat!GuiStep
  PROVE  /\ UNCHANGED <<serving, run, rounds, messages, overran>>
         /\ \/ /\ asked' = asked + 1 /\ inbox' = Append(inbox, asked + 1)
               /\ last' = last \/ last' = 0
               /\ asked < InChat.maxAsks /\ ready' = FALSE
               /\ UNCHANGED <<got, outbox>>
            \/ /\ waits /\ ready /\ waits' = FALSE
               /\ got' = [got EXCEPT ![asked] = last]
               /\ UNCHANGED <<asked, inbox, last, outbox>>
            \/ /\ outbox # <<>>
               /\ outbox' = Tail(outbox) /\ last' = Head(outbox)
               /\ UNCHANGED <<asked, inbox, got>>
            \/ /\ waits' = waits \/ waits' = FALSE
               /\ UNCHANGED <<asked, inbox, last, ready, got, outbox>>
<1> USE DEF Chat!gui, Chat!work
<1>1. ASSUME NEW reset, Chat!Ask(reset)
      PROVE  /\ UNCHANGED <<serving, run, rounds, messages, overran>>
             /\ asked' = asked + 1 /\ inbox' = Append(inbox, asked + 1)
             /\ last' = last \/ last' = 0
             /\ asked < InChat.maxAsks /\ ready' = FALSE
             /\ UNCHANGED <<got, outbox>>
  BY <1>1, Zenon DEF Chat!Ask
<1>2. CASE Chat!Return
  BY <1>2, Zenon DEF Chat!Return
<1>3. CASE Chat!Read
  BY <1>3, Zenon DEF Chat!Read
<1>4. CASE Chat!StopWaiting \/ Chat!ReadEnd \/ Chat!Start
  BY <1>4, Zenon DEF Chat!StopWaiting, Chat!ReadEnd, Chat!Start
<1> QED
  BY <1>1, <1>2, <1>3, <1>4, Zenon DEF Chat!GuiStep

\* Requests stay in order, and one at a time is at work.
LEMMA QueueKeeps ==
  ASSUME Chat!TypeOK, QueueInv, Chat!GuiStep \/ Chat!DaemonStep
  PROVE  QueueInv'
<1>1. /\ asked \in Nat /\ serving \in Nat /\ serving <= asked
      /\ serving # 0 => serving \in Chat!Asks
      /\ \A j \in Chat!Asks : j \in Nat
      /\ inbox \in Seq(Chat!Asks)
      /\ \A i \in DOMAIN inbox : i \in Nat /\ inbox[i] \in Chat!Asks
      /\ run \in [Chat!Asks -> {"none", "call", "tools", "done", "failed"}]
      /\ InChat.maxAsks \in Nat
  BY ChatFacts
<1>2. CASE Chat!GuiStep
  <2>1. CASE UNCHANGED <<asked, inbox>>
    <3>1. UNCHANGED <<serving, run, overran>>
      BY <1>2, GuiMoves
    <3> QED
      BY <2>1, <3>1 DEF QueueInv
  <2>2. CASE /\ asked' = asked + 1 /\ inbox' = Append(inbox, asked + 1)
             /\ asked < InChat.maxAsks
    <3>1. UNCHANGED <<serving, run, overran>>
      BY <1>2, GuiMoves
    <3>2. asked + 1 \in Chat!Asks
      BY <1>1, <2>2 DEF Chat!Asks
    <3>3. /\ \A i \in DOMAIN inbox' :
               i = Len(inbox) + 1 \/ (i \in DOMAIN inbox /\ inbox'[i] = inbox[i])
          /\ inbox'[Len(inbox) + 1] = asked + 1
          /\ \A i \in DOMAIN inbox : i < Len(inbox) + 1
      BY <1>1, <2>2, <3>2, Appended
    <3>4. \A i \in DOMAIN inbox : inbox[i] \in 1..asked
      BY DEF QueueInv
    <3>5. \A i \in DOMAIN inbox' : inbox'[i] \in 1..asked'
      BY <1>1, <2>2, <3>3, <3>4
    <3>6. ASSUME NEW i \in DOMAIN inbox', NEW j \in DOMAIN inbox', i < j
          PROVE  inbox'[i] < inbox'[j]
      <4>1. i \in DOMAIN inbox
        <5>1. CASE i = Len(inbox) + 1
          <6>1. Len(inbox) \in Nat
            BY <1>1
          <6>2. j \in DOMAIN inbox \/ j = i
            BY <3>3, <5>1
          <6> QED
            BY <3>3, <3>6, <5>1, <6>1, <6>2, <1>1
        <5> QED
          BY <3>3, <5>1
      <4>2. CASE j = Len(inbox) + 1
        BY <1>1, <3>3, <3>4, <4>1, <4>2
      <4>3. CASE j \in DOMAIN inbox /\ inbox'[j] = inbox[j]
        <5>1. inbox[i] < inbox[j]
          BY <3>6, <4>1, <4>3 DEF QueueInv
        <5> QED
          BY <3>3, <4>1, <4>3, <5>1
      <4> QED
        BY <3>3, <4>2, <4>3
    <3>7. ASSUME NEW k \in Chat!Asks, run[k] # "none"
          PROVE  /\ k <= asked' /\ (serving # 0 => k <= serving)
                 /\ \A i \in DOMAIN inbox' : k < inbox'[i]
      <4>1. /\ k <= asked /\ (serving # 0 => k <= serving)
            /\ \A i \in DOMAIN inbox : k < inbox[i]
        BY <3>7 DEF QueueInv
      <4>2. k \in Nat
        BY <1>1
      <4> QED
        BY <1>1, <2>2, <3>3, <4>1, <4>2
    <3> QED
      BY <3>1, <3>5, <3>6, <3>7 DEF QueueInv
  <2> QED
    BY <1>2, <2>1, <2>2, GuiMoves
<1>3. ASSUME AnswersReset \/ Begins, asked' = asked
      PROVE  QueueInv'
  <2>0. inbox # <<>> /\ serving = 0 /\ inbox' = Tail(inbox)
    BY <1>3 DEF AnswersReset, Begins
  <2>1. /\ 1 \in DOMAIN inbox /\ Head(inbox) = inbox[1]
        /\ \A i \in DOMAIN Tail(inbox) : /\ i \in Nat /\ i + 1 \in DOMAIN inbox
                                         /\ 1 < i + 1
                                         /\ Tail(inbox)[i] = inbox[i + 1]
    BY <1>1, <2>0, Taken
  <2>2. \A i \in DOMAIN inbox' : inbox'[i] \in 1..asked'
    BY <1>3, <2>0, <2>1 DEF QueueInv
  <2>3. \A i, j \in DOMAIN inbox' : i < j => inbox'[i] < inbox'[j]
    <3>1. ASSUME NEW i \in DOMAIN inbox', NEW j \in DOMAIN inbox', i < j
          PROVE  inbox'[i] < inbox'[j]
      <4>1. /\ i + 1 \in DOMAIN inbox /\ j + 1 \in DOMAIN inbox /\ i + 1 < j + 1
            /\ inbox'[i] = inbox[i + 1] /\ inbox'[j] = inbox[j + 1]
        BY <2>0, <2>1, <3>1
      <4> QED
        BY <4>1 DEF QueueInv
    <3> QED
      BY <3>1
  <2>4. \A i \in DOMAIN inbox' : Head(inbox) < inbox'[i]
    BY <1>3, <2>0, <2>1 DEF QueueInv
  <2>5. ASSUME NEW k \in Chat!Asks, run[k] # "none"
        PROVE  /\ k <= asked /\ k < Head(inbox)
               /\ \A i \in DOMAIN inbox' : k < inbox'[i]
    BY <2>0, <2>1, <2>5 DEF QueueInv
  <2>6. \A k \in Chat!Asks : run[k] \in {"call", "tools"} => k \in overran
    <3>1. \A k \in Chat!Asks : k # 0
      BY <1>1 DEF Chat!Asks
    <3> QED
      BY <2>0, <3>1 DEF QueueInv
  <2>7. CASE AnswersReset
    <3>1. UNCHANGED <<serving, run, overran>>
      BY <2>7 DEF AnswersReset
    <3> QED
      BY <1>3, <2>0, <2>2, <2>3, <2>5, <2>6, <3>1 DEF QueueInv
  <2>8. CASE Begins
    <3>1. /\ serving' = Head(inbox) /\ UNCHANGED overran
          /\ \E s \in {"call", "failed"} : run' = [run EXCEPT ![Head(inbox)] = s]
      BY <2>8 DEF Begins
    <3>2. Head(inbox) \in Chat!Asks /\ Head(inbox) \in Nat /\ Head(inbox) <= asked
      BY <1>1, <2>1 DEF QueueInv
    <3>3. \A k \in Chat!Asks : k # Head(inbox) => run'[k] = run[k]
      BY <1>1, <3>1
    <3>4. run'[Head(inbox)] # "none"
      BY <1>1, <3>1, <3>2
    <3>5. ASSUME NEW k \in Chat!Asks, run'[k] # "none"
          PROVE  /\ k <= asked /\ k <= Head(inbox)
                 /\ \A i \in DOMAIN inbox' : k < inbox'[i]
      <4>1. CASE k = Head(inbox)
        BY <2>4, <3>2, <4>1
      <4>2. CASE k # Head(inbox)
        <5>1. /\ k <= asked /\ k < Head(inbox)
              /\ \A i \in DOMAIN inbox' : k < inbox'[i]
          BY <2>5, <3>3, <3>5, <4>2
        <5> QED
          BY <1>1, <3>2, <5>1
      <4> QED
        BY <4>1, <4>2
    <3>6. \A k \in Chat!Asks : run'[k] \in {"call", "tools"} =>
            k = serving' \/ k \in overran'
      BY <2>6, <3>1, <3>3
    <3> QED
      BY <1>3, <2>0, <2>2, <2>3, <3>1, <3>4, <3>5, <3>6 DEF QueueInv
  <2> QED
    BY <1>3, <2>7, <2>8
<1>4. CASE MainEmits /\ asked' = asked
  BY <1>1, <1>4 DEF MainEmits, QueueInv
<1>5. CASE Ends /\ asked' = asked
  BY <1>5 DEF Ends, QueueInv
<1>6. ASSUME NEW k \in Chat!Asks, asked' = asked,
             LoopEmits(k) \/ LoopFails(k) \/ LoopCalls(k) \/ LoopRuns(k)
      PROVE  QueueInv'
  <2>1. /\ UNCHANGED <<inbox, serving, overran>>
        /\ run[k] \in {"call", "tools"}
        /\ \E s \in {"call", "tools", "done", "failed"} :
             run' = [run EXCEPT ![k] = s]
    BY <1>6 DEF LoopEmits, LoopFails, LoopCalls, LoopRuns
  <2>2. /\ \A j \in Chat!Asks : j # k => run'[j] = run[j]
        /\ run'[k] # "none" /\ run[k] # "none"
        /\ run'[k] \in {"call", "tools"} => run[k] \in {"call", "tools"}
    BY <1>1, <2>1
  <2>3. \A j \in Chat!Asks : run'[j] # "none" => run[j] # "none"
    BY <2>2
  <2>4. \A j \in Chat!Asks : run'[j] \in {"call", "tools"} =>
          run[j] \in {"call", "tools"}
    BY <2>2
  <2>5. serving # 0 => run'[serving] # "none"
    BY <1>1, <2>2 DEF QueueInv
  <2> QED
    BY <1>6, <2>1, <2>3, <2>4, <2>5 DEF QueueInv
<1>7. CASE Chat!DaemonStep
  <2>1. asked' = asked
    BY <1>7, DaemonMoves
  <2>2. AnswersReset \/ Begins => QueueInv'
    BY <1>3, <2>1
  <2> QED
    BY <1>4, <1>5, <1>6, <1>7, <2>1, <2>2, DaemonMoves
<1> QED
  BY <1>2, <1>7

\* Every result in h follows the calls it belongs to, or only results.
Whole(h) ==
  \A i \in DOMAIN h : h[i].role = "tool" =>
    \/ \A j \in 1..i : h[j].role = "tool"
    \/ /\ h[i - 1].role \in {"calls", "tool"}
       /\ h[i - 1].ask = h[i].ask
       /\ h[i - 1].round = h[i].round

\* A message that is no result, or is of the last round, leaves h whole.
LEMMA AppendedIsWhole ==
  ASSUME NEW h \in Seq(Chat!Messages), Whole(h), NEW m \in Chat!Messages,
         \/ m.role # "tool"
         \/ /\ h # <<>> /\ h[Len(h)].role \in {"calls", "tool"}
            /\ h[Len(h)].ask = m.ask /\ h[Len(h)].round = m.round
  PROVE  Whole(Append(h, m))
<1> DEFINE g == Append(h, m)
<1>1. /\ Len(h) \in Nat /\ DOMAIN g = 1..(Len(h) + 1) /\ DOMAIN h = 1..Len(h)
      /\ g[Len(h) + 1] = m /\ \A i \in DOMAIN h : g[i] = h[i]
  OBVIOUS
<1> HIDE DEF g
<1> SUFFICES ASSUME NEW i \in DOMAIN g, g[i].role = "tool"
             PROVE  \/ \A j \in 1..i : g[j].role = "tool"
                    \/ /\ g[i - 1].role \in {"calls", "tool"}
                       /\ g[i - 1].ask = g[i].ask
                       /\ g[i - 1].round = g[i].round
  BY DEF Whole, g
<1>2. CASE i = Len(h) + 1
  <2>1. /\ h # <<>> /\ h[Len(h)].role \in {"calls", "tool"}
        /\ h[Len(h)].ask = m.ask /\ h[Len(h)].round = m.round
    BY <1>1, <1>2
  <2>2. Len(h) \in DOMAIN h /\ i - 1 = Len(h)
    BY <1>1, <1>2, <2>1
  <2>3. g[i - 1] = h[Len(h)] /\ g[i] = m
    BY <1>1, <1>2, <2>2
  <2> QED
    BY <2>1, <2>3
<1>3. CASE i \in DOMAIN h
  <2>1. h[i].role = "tool" /\ g[i] = h[i] /\ i \in Nat
    BY <1>1, <1>3
  <2>2. CASE \A j \in 1..i : h[j].role = "tool"
    <3>1. \A j \in 1..i : g[j] = h[j]
      BY <1>1, <1>3
    <3> QED
      BY <2>2, <3>1
  <2>3. CASE /\ ~ \A j \in 1..i : h[j].role = "tool"
             /\ h[i - 1].role \in {"calls", "tool"}
             /\ h[i - 1].ask = h[i].ask
             /\ h[i - 1].round = h[i].round
    <3>1. i # 1
      <4>1. i = 1 => \A j \in 1..i : j = i
        OBVIOUS
      <4> QED
        BY <2>1, <2>3, <4>1
    <3>2. i - 1 \in DOMAIN h
      BY <1>1, <1>3, <3>1
    <3> QED
      BY <1>1, <2>1, <2>3, <3>2
  <2> QED
    BY <1>3, <2>1, <2>2, <2>3 DEF Whole
<1> QED
  BY <1>1, <1>2, <1>3

\* Trimming leaves h whole: it cuts at the front.
LEMMA TrimmedIsWhole ==
  ASSUME NEW h \in Seq(Chat!Messages), Whole(h)
  PROVE  Whole(Chat!Trimmed(h))
<1> DEFINE t == Chat!Trimmed(h)
<1>1. t \in Seq(Chat!Messages)
  BY TrimmedIsTail
<1>2. PICK d \in Nat : \A i \in DOMAIN t :
        i \in Nat \ {0} /\ i + d \in DOMAIN h /\ t[i] = h[i + d]
  BY TrimmedIsTail
<1> HIDE DEF t
<1>3. DOMAIN t = 1..Len(t) /\ Len(t) \in Nat /\ DOMAIN h = 1..Len(h) /\ Len(h) \in Nat
  BY <1>1
<1> SUFFICES ASSUME NEW i \in DOMAIN t, t[i].role = "tool"
             PROVE  \/ \A j \in 1..i : t[j].role = "tool"
                    \/ /\ t[i - 1].role \in {"calls", "tool"}
                       /\ t[i - 1].ask = t[i].ask
                       /\ t[i - 1].round = t[i].round
  BY DEF Whole, t
<1>4. PICK e \in DOMAIN h : e = i + d
  BY <1>2
<1>5. t[i] = h[e] /\ e \in Nat /\ h[e].role = "tool" /\ i \in Nat \ {0}
  BY <1>2, <1>3, <1>4
<1>6. CASE \A j \in 1..e : h[j].role = "tool"
  <2>1. \A j \in 1..i : j \in DOMAIN t /\ j + d \in 1..e
    BY <1>3, <1>4, <1>5
  <2> QED
    BY <1>2, <1>6, <2>1
<1>7. CASE /\ h[e - 1].role \in {"calls", "tool"}
           /\ h[e - 1].ask = h[e].ask
           /\ h[e - 1].round = h[e].round
  <2>1. CASE i = 1
    <3>1. \A j \in 1..i : j = i
      BY <2>1
    <3> QED
      BY <3>1
  <2>2. CASE i # 1
    <3>1. i - 1 \in DOMAIN t /\ i - 1 + d = e - 1
      BY <1>3, <1>4, <1>5, <2>2
    <3>2. t[i - 1] = h[e - 1]
      BY <1>2, <3>1
    <3> QED
      BY <1>5, <1>7, <3>2
  <2> QED
    BY <2>1, <2>2
<1> QED
  BY <1>5, <1>6, <1>7, Zenon DEF Whole

\* Only the request served appends, in its own round.
LEMMA RoundsKeep ==
  ASSUME Chat!TypeOK, QueueInv, RoundInv, Chat!RoundsAreWhole,
         Chat!GuiStep \/ Chat!DaemonStep
  PROVE  RoundInv' /\ Chat!RoundsAreWhole'
<1>1. /\ messages \in Seq(Chat!Messages)
      /\ run \in [Chat!Asks -> {"none", "call", "tools", "done", "failed"}]
      /\ rounds \in [Chat!Asks -> 0..InChat.maxRounds]
      /\ inbox \in Seq(Chat!Asks)
  BY Zenon DEF Chat!TypeOK
<1>2. CASE Chat!GuiStep
  <2>1. UNCHANGED <<run, rounds, messages, overran>>
    BY <1>2, GuiMoves, Zenon
  <2> QED
    BY <2>1 DEF RoundInv, Chat!RoundsAreWhole
<1>3. CASE Chat!DaemonStep
  <2> SUFFICES ASSUME overran' = {}
               PROVE  /\ Whole(messages)'
                      /\ \A k \in Chat!Asks : run'[k] = "tools" =>
                           /\ messages' # <<>>
                           /\ messages'[Len(messages')].role \in {"calls", "tool"}
                           /\ messages'[Len(messages')].ask = k
                           /\ messages'[Len(messages')].round = rounds'[k]
    BY DEF RoundInv, Chat!RoundsAreWhole, Whole
  <2>1. overran = {}
    BY <1>3, DaemonMoves
       DEF AnswersReset, Begins, MainEmits, Ends, LoopEmits, LoopFails, LoopCalls,
           LoopRuns
  <2>2. Whole(messages)
    BY <2>1 DEF Whole, Chat!RoundsAreWhole
  <2>3. \A j \in Chat!Asks : run[j] \in {"call", "tools"} => j = serving
    BY <2>1 DEF QueueInv
  <2>4. \A j \in Chat!Asks : j # 0
    BY ChatNumbers DEF Chat!Asks
  <2>5. ASSUME NEW k \in Chat!Asks, NEW s \in {"call", "tools", "done", "failed"},
               run' = [run EXCEPT ![k] = s], k = serving \/ serving = 0
        PROVE  \A j \in Chat!Asks : run'[j] = "tools" => j = k /\ s = "tools"
    BY <1>1, <2>3, <2>4, <2>5
  <2>6. ASSUME NEW role \in {"user", "reply", "calls", "tool"}, NEW k \in Chat!Asks,
               NEW n, Chat!Said(role, k, n) \in Chat!Messages,
               messages' = Append(messages, Chat!Said(role, k, n))
        PROVE  /\ messages' \in Seq(Chat!Messages)
               /\ messages' # <<>> /\ messages'[Len(messages')].role = role
               /\ messages'[Len(messages')].ask = k
               /\ messages'[Len(messages')].round = n
    <3>1. messages' # <<>> /\ messages'[Len(messages')] = Chat!Said(role, k, n)
      BY <1>1, <2>6
    <3>2. messages' \in Seq(Chat!Messages)
      BY <1>1, <2>6, Appended, Zenon
    <3> QED
      BY <3>1, <3>2 DEF Chat!Said
  <2>7. \A role \in {"user", "reply", "calls"} : \A m \in Chat!Messages :
          m.role = role => Whole(Append(messages, m))
    BY <1>1, <2>2, AppendedIsWhole
  <2>8. ASSUME NEW role \in {"user", "reply", "calls"}, NEW k, NEW n,
               Chat!Said(role, k, n) \in Chat!Messages
        PROVE  Whole(Append(messages, Chat!Said(role, k, n)))
    <3>1. Chat!Said(role, k, n).role = role
      BY DEF Chat!Said
    <3> QED
      BY <2>7, <2>8, <3>1
  <2>9. \A k \in Chat!Asks : /\ 0 \in 0..InChat.maxRounds
                             /\ rounds[k] \in 0..InChat.maxRounds
    BY <1>1, ChatNumbers
  <2>10. CASE AnswersReset
    <3>1. messages' = <<>> /\ UNCHANGED run /\ serving = 0
      BY <2>10 DEF AnswersReset
    <3> QED
      BY <2>3, <2>4, <3>1 DEF Whole
  <2>11. CASE Begins
    <3> DEFINE k == Head(inbox)
    <3>1. /\ serving = 0 /\ inbox # <<>>
          /\ \E s \in {"call", "failed"} : run' = [run EXCEPT ![k] = s]
          /\ \/ UNCHANGED messages
             \/ messages' = Chat!Trimmed(Append(messages, Chat!Said("user", k, 0)))
      BY <2>11, Zenon DEF Begins
    <3>2. k \in Chat!Asks
      BY <1>1, <3>1, Taken, Zenon
    <3>3. \A j \in Chat!Asks : run'[j] # "tools"
      <4>1. PICK s \in {"call", "failed"} : run' = [run EXCEPT ![k] = s]
        BY <3>1
      <4> QED
        BY <2>5, <3>1, <3>2, <4>1
    <3>4. Chat!Said("user", k, 0) \in Chat!Messages
      BY <2>9, <3>2, SaidIsMessage
    <3>5. Append(messages, Chat!Said("user", k, 0)) \in Seq(Chat!Messages)
      BY <1>1, <3>4, Appended, Zenon
    <3>6. Whole(Chat!Trimmed(Append(messages, Chat!Said("user", k, 0))))
      BY <2>8, <3>4, <3>5, TrimmedIsWhole
    <3> QED
      BY <2>2, <3>1, <3>3, <3>6
  <2>12. CASE MainEmits
    <3>1. UNCHANGED <<run, rounds, messages>>
      BY <2>12 DEF MainEmits
    <3> QED
      BY <2>1, <2>2, <3>1 DEF RoundInv
  <2>13. CASE Ends
    <3>1. messages' = <<>> /\ run' = [k \in Chat!Asks |-> "none"]
      BY <2>13 DEF Ends
    <3> QED
      BY <3>1 DEF Whole
  <2>14. ASSUME NEW k \in Chat!Asks, LoopEmits(k) \/ LoopFails(k)
         PROVE  /\ Whole(messages)'
                /\ \A j \in Chat!Asks : run'[j] # "tools"
    <3>1. /\ run[k] = "call"
          /\ \E s \in {"done", "failed"} : run' = [run EXCEPT ![k] = s]
          /\ \/ UNCHANGED messages
             \/ messages' = Append(messages, Chat!Said("reply", k, rounds[k]))
      BY <2>14 DEF LoopEmits, LoopFails
    <3>2. \A j \in Chat!Asks : run'[j] # "tools"
      <4>1. PICK s \in {"done", "failed"} : run' = [run EXCEPT ![k] = s]
        BY <3>1
      <4> QED
        BY <2>3, <2>5, <3>1, <4>1
    <3>3. Chat!Said("reply", k, rounds[k]) \in Chat!Messages
      BY <2>9, SaidIsMessage
    <3>4. Whole(Append(messages, Chat!Said("reply", k, rounds[k])))
      BY <2>8, <3>3
    <3> QED
      BY <2>2, <3>1, <3>2, <3>4
  <2>15. ASSUME NEW k \in Chat!Asks, LoopCalls(k)
         PROVE  /\ Whole(messages)'
                /\ \A j \in Chat!Asks : run'[j] = "tools" => j = k
                /\ messages' # <<>> /\ messages'[Len(messages')].role = "calls"
                /\ messages'[Len(messages')].ask = k
                /\ messages'[Len(messages')].round = rounds'[k]
    <3>1. /\ run[k] = "call" /\ run' = [run EXCEPT ![k] = "tools"]
          /\ rounds' = [rounds EXCEPT ![k] = @ + 1]
          /\ messages' = Append(messages, Chat!Said("calls", k, rounds[k] + 1))
      BY <2>15 DEF LoopCalls
    <3>2. rounds'[k] = rounds[k] + 1
      BY <1>1, <3>1
    <3>3. Chat!TypeOK'
      BY <1>3, DaemonTypes
    <3>4. rounds[k] + 1 \in 0..InChat.maxRounds
      <4>1. rounds' \in [Chat!Asks -> 0..InChat.maxRounds]
        BY <3>3, Zenon DEF Chat!TypeOK
      <4> QED
        BY <3>2, <4>1
    <3>5. Chat!Said("calls", k, rounds[k] + 1) \in Chat!Messages
      BY <3>4, SaidIsMessage
    <3>6. Whole(messages)'
      BY <2>8, <3>1, <3>5
    <3>7. \A j \in Chat!Asks : run'[j] = "tools" => j = k
      BY <2>3, <2>5, <3>1
    <3> QED
      BY <2>6, <3>1, <3>2, <3>5, <3>6, <3>7
  <2>16. ASSUME NEW k \in Chat!Asks, LoopRuns(k)
         PROVE  /\ Whole(messages)'
                /\ \A j \in Chat!Asks : run'[j] = "tools" => j = k
                /\ messages' # <<>> /\ messages'[Len(messages')].role = "tool"
                /\ messages'[Len(messages')].ask = k
                /\ messages'[Len(messages')].round = rounds'[k]
    <3>1. /\ run[k] = "tools"
          /\ \E s \in {"call", "tools"} : run' = [run EXCEPT ![k] = s]
          /\ UNCHANGED rounds
          /\ messages' = Append(messages, Chat!Said("tool", k, rounds[k]))
      BY <2>16 DEF LoopRuns
    <3>2. Chat!Said("tool", k, rounds[k]) \in Chat!Messages
      BY <2>9, SaidIsMessage
    <3>3. /\ Chat!Said("tool", k, rounds[k]).ask = k
          /\ Chat!Said("tool", k, rounds[k]).round = rounds[k]
      BY DEF Chat!Said
    <3>4. /\ messages # <<>> /\ messages[Len(messages)].role \in {"calls", "tool"}
          /\ messages[Len(messages)].ask = k
          /\ messages[Len(messages)].round = rounds[k]
      BY <2>1, <3>1 DEF RoundInv
    <3>5. Whole(messages)'
      BY <1>1, <2>2, <3>1, <3>2, <3>3, <3>4, AppendedIsWhole
    <3>6. \A j \in Chat!Asks : run'[j] = "tools" => j = k
      <4>1. PICK s \in {"call", "tools"} : run' = [run EXCEPT ![k] = s]
        BY <3>1
      <4> QED
        BY <2>3, <2>5, <3>1, <4>1
    <3> QED
      BY <2>6, <3>1, <3>2, <3>5, <3>6
  <2> QED
    BY <1>3, <2>10, <2>11, <2>12, <2>13, <2>14, <2>15, <2>16, DaemonMoves
<1> QED
  BY <1>2, <1>3

\* What was heard is a number.
LEMMA HeardAbove ==
  ASSUME Chat!TypeOK, NEW v \in Nat, NEW w \in Nat, Heard(v), v <= w
  PROVE  Heard(w)
BY ChatFacts DEF Heard

\* An answer to e is written.
LEMMA EmittedInOrder ==
  ASSUME Chat!TypeOK, OrderInv, NEW e \in Chat!Asks,
         outbox' = Append(outbox, e), UNCHANGED <<asked, last, got>>,
         overran \subseteq overran', e <= asked,
         serving' # 0 => e <= serving' /\ Heard(serving'),
         \A i \in DOMAIN inbox' : e <= inbox'[i] /\ Heard(inbox'[i]),
         e \notin overran' => Heard(e)
  PROVE  OrderInv'
<1>1. /\ \A i \in DOMAIN outbox' :
           i = Len(outbox) + 1 \/ (i \in DOMAIN outbox /\ outbox'[i] = outbox[i])
      /\ outbox'[Len(outbox) + 1] = e
      /\ \A i \in DOMAIN outbox : i < Len(outbox) + 1 /\ i \in Nat
      /\ Len(outbox) \in Nat
  <2>1. outbox \in Seq(Chat!Asks)
    BY ChatFacts
  <2>2. \A i \in DOMAIN outbox : i \in Nat
    BY <2>1
  <2>3. Len(outbox) \in Nat
    BY <2>1
  <2> QED
    BY <2>1, <2>2, <2>3, Appended
<1>2. \A i \in DOMAIN outbox' : outbox'[i] = e \/ \E j \in DOMAIN outbox :
        outbox'[i] = outbox[j]
  BY <1>1
<1>3. ASSUME NEW v, Heard(v), e <= v
      PROVE  /\ last' <= v /\ \A j \in Chat!Asks : got'[j] <= v
             /\ \A i \in DOMAIN outbox' : outbox'[i] <= v
  BY <1>2, <1>3 DEF Heard
<1>4. Heard(asked)'
  BY <1>3 DEF Heard, OrderInv
<1>5. serving' # 0 => Heard(serving)'
  BY <1>3 DEF Heard
<1>6. \A i \in DOMAIN inbox' : Heard(inbox[i])'
  BY <1>3 DEF Heard
<1>7. /\ \A j \in Chat!Asks : j > asked' => got'[j] = 0
      /\ last' # 0 /\ last' \notin overran' => \A j \in Chat!Asks : got'[j] <= last'
      /\ \A j, k \in Chat!Asks :
           j < k /\ got'[k] # 0 /\ got'[k] < got'[j] => got'[k] \in overran'
  BY DEF OrderInv
<1>8. \A i \in DOMAIN outbox' : outbox'[i] \notin overran' =>
        last' <= outbox'[i] /\ \A j \in Chat!Asks : got'[j] <= outbox'[i]
  <2>1. e \notin overran' => last' <= e /\ \A j \in Chat!Asks : got'[j] <= e
    BY DEF Heard
  <2>2. \A i \in DOMAIN outbox : outbox[i] \notin overran' =>
          last' <= outbox[i] /\ \A j \in Chat!Asks : got'[j] <= outbox[i]
    BY DEF OrderInv
  <2> QED
    BY <1>2, <2>1, <2>2
<1>9. ASSUME NEW i \in DOMAIN outbox', NEW j \in DOMAIN outbox', i < j,
             outbox'[j] \notin overran'
      PROVE  outbox'[i] <= outbox'[j]
  <2>1. i \in DOMAIN outbox /\ outbox'[i] = outbox[i]
    BY <1>1, <1>9
  <2>2. CASE j = Len(outbox) + 1
    BY <1>1, <1>9, <2>1, <2>2 DEF Heard
  <2>3. CASE j \in DOMAIN outbox /\ outbox'[j] = outbox[j]
    BY <1>9, <2>1, <2>3 DEF OrderInv
  <2> QED
    BY <1>1, <2>2, <2>3
<1> QED
  BY <1>4, <1>5, <1>6, <1>7, <1>8, <1>9 DEF OrderInv

\* Every step keeps the answers in order.
LEMMA OrderKeeps ==
  ASSUME Chat!TypeOK, QueueInv, OrderInv, Chat!GuiStep \/ Chat!DaemonStep
  PROVE  OrderInv'
<1>1. /\ asked \in Nat /\ serving \in Nat /\ serving <= asked /\ last \in Nat
      /\ serving # 0 => serving \in Chat!Asks
      /\ \A j \in Chat!Asks : j \in Nat /\ got[j] \in Nat
      /\ got \in [Chat!Asks -> 0..InChat.maxAsks]
      /\ inbox \in Seq(Chat!Asks) /\ outbox \in Seq(Chat!Asks)
      /\ \A i \in DOMAIN inbox : i \in Nat /\ inbox[i] \in Chat!Asks
      /\ \A i \in DOMAIN outbox : i \in Nat /\ outbox[i] \in Chat!Asks
      /\ InChat.maxAsks \in Nat
  BY ChatFacts
<1>2. CASE Chat!GuiStep
  <2>0. UNCHANGED <<serving, run, overran>>
    BY <1>2, GuiMoves, Zenon
  <2>1. CASE /\ asked' = asked + 1 /\ inbox' = Append(inbox, asked + 1)
             /\ last' = last \/ last' = 0
             /\ asked < InChat.maxAsks
             /\ UNCHANGED <<got, outbox>>
    <3>1. asked + 1 \in Chat!Asks
      BY <1>1, <2>1 DEF Chat!Asks
    <3>2. \A i \in DOMAIN inbox' :
            inbox'[i] = asked + 1 \/ (i \in DOMAIN inbox /\ inbox'[i] = inbox[i])
      BY <1>1, <2>1, <3>1, Appended
    <3>3. last' <= last /\ last' \in Nat
      BY <1>1, <2>1
    <3>4. ASSUME NEW v \in Nat, Heard(v)
          PROVE  /\ last' <= v /\ \A j \in Chat!Asks : got'[j] <= v
                 /\ \A i \in DOMAIN outbox' : outbox'[i] <= v
      BY <1>1, <2>1, <3>3, <3>4 DEF Heard
    <3>5. Heard(asked + 1)
      BY <1>1, HeardAbove DEF OrderInv
    <3>6. Heard(asked)' /\ (serving' # 0 => Heard(serving)')
      BY <1>1, <2>0, <2>1, <3>4, <3>5 DEF Heard, OrderInv
    <3>7. \A i \in DOMAIN inbox' : Heard(inbox[i])'
      <4>1. \A i \in DOMAIN inbox' : Heard(inbox'[i])
        BY <3>2, <3>5, Zenon DEF OrderInv
      <4>2. \A i \in DOMAIN inbox' : inbox'[i] \in Nat
        BY <1>1, <3>2
      <4> QED
        BY <3>4, <4>1, <4>2 DEF Heard
    <3>8. \A j \in Chat!Asks : j > asked' => got'[j] = 0
      BY <1>1, <2>1 DEF OrderInv
    <3>9. \A i \in DOMAIN outbox' : outbox'[i] \notin overran' =>
            last' <= outbox'[i] /\ \A j \in Chat!Asks : got'[j] <= outbox'[i]
      BY <1>1, <2>0, <2>1, <3>3 DEF OrderInv
    <3>10. /\ last' # 0 /\ last' \notin overran' =>
                \A j \in Chat!Asks : got'[j] <= last'
           /\ \A i, j \in DOMAIN outbox' :
                i < j /\ outbox'[j] \notin overran' => outbox'[i] <= outbox'[j]
           /\ \A j, k \in Chat!Asks :
                j < k /\ got'[k] # 0 /\ got'[k] < got'[j] => got'[k] \in overran'
      BY <2>0, <2>1 DEF OrderInv
    <3> QED
      BY <3>6, <3>7, <3>8, <3>9, <3>10 DEF OrderInv
  <2>2. CASE /\ got' = [got EXCEPT ![asked] = last]
             /\ UNCHANGED <<asked, inbox, last, outbox>>
    <3>1. \A j \in Chat!Asks : got'[j] = IF j = asked THEN last ELSE got[j]
      BY <1>1, <2>2
    <3>2. ASSUME NEW v, Heard(v)
          PROVE  /\ last' <= v /\ \A j \in Chat!Asks : got'[j] <= v
                 /\ \A i \in DOMAIN outbox' : outbox'[i] <= v
      BY <2>2, <3>1, <3>2 DEF Heard
    <3>3. Heard(asked)' /\ (serving' # 0 => Heard(serving)')
      BY <2>0, <2>2, <3>2 DEF Heard, OrderInv
    <3>4. \A i \in DOMAIN inbox' : Heard(inbox[i])'
      BY <2>2, <3>2 DEF Heard, OrderInv
    <3>5. \A j \in Chat!Asks : j > asked' => got'[j] = 0
      BY <1>1, <2>2, <3>1 DEF OrderInv
    <3>6. \A i \in DOMAIN outbox' : outbox'[i] \notin overran' =>
            last' <= outbox'[i] /\ \A j \in Chat!Asks : got'[j] <= outbox'[i]
      BY <2>0, <2>2, <3>1 DEF OrderInv
    <3>7. last' # 0 /\ last' \notin overran' => \A j \in Chat!Asks : got'[j] <= last'
      BY <1>1, <2>0, <2>2, <3>1 DEF OrderInv
    <3>8. \A i, j \in DOMAIN outbox' :
            i < j /\ outbox'[j] \notin overran' => outbox'[i] <= outbox'[j]
      BY <2>0, <2>2 DEF OrderInv
    <3>9. ASSUME NEW j \in Chat!Asks, NEW k \in Chat!Asks, j < k, got'[k] # 0,
                 got'[k] < got'[j]
          PROVE  got'[k] \in overran'
      <4>1. CASE k = asked
        <5>1. got'[k] = last /\ got'[j] = got[j]
          BY <1>1, <3>1, <3>9, <4>1
        <5>2. ~ last <= last \/ ~ got[j] <= last
          BY <1>1, <3>9, <5>1
        <5>3. last # 0 /\ last \notin overran => got[j] <= last
          BY DEF OrderInv
        <5> QED
          BY <1>1, <2>0, <3>9, <5>1, <5>2, <5>3
      <4>2. CASE k # asked
        <5>1. got'[k] = got[k] /\ k <= asked
          BY <1>1, <3>1, <3>9, <4>2 DEF OrderInv
        <5>2. j # asked
          BY <1>1, <3>9, <4>2, <5>1
        <5> QED
          BY <2>0, <3>1, <3>9, <5>1, <5>2 DEF OrderInv
      <4> QED
        BY <4>1, <4>2
    <3> QED
      BY <3>3, <3>4, <3>5, <3>6, <3>7, <3>8, <3>9 DEF OrderInv
  <2>3. CASE /\ outbox # <<>>
             /\ outbox' = Tail(outbox) /\ last' = Head(outbox)
             /\ UNCHANGED <<asked, inbox, got>>
    <3>1. /\ 1 \in DOMAIN outbox /\ last' = outbox[1]
          /\ \A i \in DOMAIN outbox' : /\ i \in Nat /\ i + 1 \in DOMAIN outbox
                                       /\ 1 < i + 1 /\ outbox'[i] = outbox[i + 1]
      BY <1>1, <2>3, Taken
    <3>2. ASSUME NEW v, Heard(v)
          PROVE  /\ last' <= v /\ \A j \in Chat!Asks : got'[j] <= v
                 /\ \A i \in DOMAIN outbox' : outbox'[i] <= v
      BY <2>3, <3>1, <3>2 DEF Heard
    <3>3. Heard(asked)' /\ (serving' # 0 => Heard(serving)')
      BY <2>0, <2>3, <3>2 DEF Heard, OrderInv
    <3>4. \A i \in DOMAIN inbox' : Heard(inbox[i])'
      BY <2>3, <3>2 DEF Heard, OrderInv
    <3>5. /\ \A j \in Chat!Asks : j > asked' => got'[j] = 0
          /\ \A j, k \in Chat!Asks :
               j < k /\ got'[k] # 0 /\ got'[k] < got'[j] => got'[k] \in overran'
      BY <2>0, <2>3 DEF OrderInv
    <3>6. \A i \in DOMAIN outbox' : outbox'[i] \notin overran' =>
            last' <= outbox'[i] /\ \A j \in Chat!Asks : got'[j] <= outbox'[i]
      <4>1. ASSUME NEW i \in DOMAIN outbox', outbox'[i] \notin overran'
            PROVE  last' <= outbox'[i] /\ \A j \in Chat!Asks : got'[j] <= outbox'[i]
        <5>1. PICK m \in DOMAIN outbox : m = i + 1 /\ 1 < m /\ outbox'[i] = outbox[m]
          BY <3>1
        <5> QED
          BY <2>0, <2>3, <3>1, <4>1, <5>1 DEF OrderInv
      <4> QED
        BY <4>1
    <3>7. last' # 0 /\ last' \notin overran' => \A j \in Chat!Asks : got'[j] <= last'
      BY <2>0, <2>3, <3>1 DEF OrderInv
    <3>8. ASSUME NEW i \in DOMAIN outbox', NEW j \in DOMAIN outbox', i < j,
                 outbox'[j] \notin overran'
          PROVE  outbox'[i] <= outbox'[j]
      <4>1. PICK m \in DOMAIN outbox : m = i + 1 /\ outbox'[i] = outbox[m]
        BY <3>1
      <4>2. PICK n \in DOMAIN outbox : n = j + 1 /\ outbox'[j] = outbox[n]
        BY <3>1
      <4>3. m < n
        BY <3>1, <3>8, <4>1, <4>2
      <4> QED
        BY <2>0, <3>8, <4>1, <4>2, <4>3 DEF OrderInv
    <3> QED
      BY <3>3, <3>4, <3>5, <3>6, <3>7, <3>8 DEF OrderInv
  <2>4. CASE UNCHANGED <<asked, inbox, last, got, outbox>>
    BY <2>0, <2>4 DEF OrderInv, Heard
  <2> QED
    BY <1>2, <2>1, <2>2, <2>3, <2>4, GuiMoves
<1>3. CASE Chat!DaemonStep
  <2>0. UNCHANGED <<asked, last, got>>
    BY <1>3, DaemonMoves, Zenon
  <2>1. CASE AnswersReset
    <3> DEFINE e == Head(inbox)
    <3>1. /\ inbox # <<>> /\ inbox' = Tail(inbox) /\ outbox' = Append(outbox, e)
          /\ serving = 0 /\ UNCHANGED <<serving, overran>>
      BY <2>1, Zenon DEF AnswersReset
    <3>2. /\ e \in Chat!Asks /\ 1 \in DOMAIN inbox /\ e = inbox[1]
          /\ \A i \in DOMAIN inbox' : /\ i \in Nat /\ i + 1 \in DOMAIN inbox
                                      /\ 1 < i + 1 /\ inbox'[i] = inbox[i + 1]
      BY <1>1, <3>1, Taken
    <3> HIDE DEF e
    <3>3. e <= asked /\ Heard(e)
      BY <1>1, <3>2 DEF QueueInv, OrderInv
    <3>4. \A i \in DOMAIN inbox' : e <= inbox'[i] /\ Heard(inbox'[i])
      <4>1. ASSUME NEW i \in DOMAIN inbox'
            PROVE  e <= inbox'[i] /\ Heard(inbox'[i])
        <5>1. PICK m \in DOMAIN inbox : 1 < m /\ inbox'[i] = inbox[m]
          BY <3>2
        <5>2. e < inbox[m] /\ Heard(inbox[m])
          BY <3>2, <5>1 DEF QueueInv, OrderInv
        <5> QED
          BY <1>1, <3>2, <5>1, <5>2
      <4> QED
        BY <4>1
    <3> QED
      BY <2>0, <3>1, <3>2, <3>3, <3>4, EmittedInOrder
  <2>2. CASE Begins
    <3>1. /\ inbox # <<>> /\ inbox' = Tail(inbox) /\ serving' = Head(inbox)
          /\ UNCHANGED <<outbox, overran>>
      BY <2>2, Zenon DEF Begins
    <3>2. /\ 1 \in DOMAIN inbox /\ serving' = inbox[1]
          /\ \A i \in DOMAIN inbox' : /\ i \in Nat /\ i + 1 \in DOMAIN inbox
                                      /\ inbox'[i] = inbox[i + 1]
      BY <1>1, <3>1, Taken
    <3>3. \A v : Heard(v) => /\ last' <= v /\ \A j \in Chat!Asks : got'[j] <= v
                             /\ \A i \in DOMAIN outbox' : outbox'[i] <= v
      BY <2>0, <3>1 DEF Heard
    <3>4. Heard(asked)' /\ Heard(serving)'
      BY <2>0, <3>2, <3>3 DEF Heard, OrderInv
    <3>5. \A i \in DOMAIN inbox' : Heard(inbox[i])'
      <4>1. \A i \in DOMAIN inbox' : Heard(inbox'[i])
        BY <3>2 DEF OrderInv
      <4> QED
        BY <3>3, <4>1 DEF Heard
    <3> QED
      BY <2>0, <3>1, <3>4, <3>5 DEF OrderInv
  <2>3. CASE MainEmits
    <3>1. /\ serving # 0 /\ serving' = 0 /\ outbox' = Append(outbox, serving)
          /\ overran \subseteq overran' /\ UNCHANGED inbox
      BY <2>3 DEF MainEmits
    <3>2. Heard(serving) /\ serving \in Chat!Asks
      BY <1>1, <3>1 DEF OrderInv
    <3>3. \A i \in DOMAIN inbox' : serving <= inbox'[i] /\ Heard(inbox'[i])
      BY <1>1, <3>1, <3>2 DEF QueueInv, OrderInv
    <3> QED
      BY <1>1, <2>0, <3>1, <3>2, <3>3, EmittedInOrder
  <2>4. CASE Ends
    <3>1. /\ inbox' = <<>> /\ outbox' = <<>> /\ serving' = 0 /\ UNCHANGED overran
      BY <2>4 DEF Ends
    <3> QED
      BY <1>1, <2>0, <3>1 DEF OrderInv, Heard
  <2>5. ASSUME NEW k \in Chat!Asks, LoopEmits(k)
        PROVE  OrderInv'
    <3>1. /\ run[k] = "call" /\ outbox' = Append(outbox, k)
          /\ UNCHANGED <<inbox, serving, overran>>
      BY <2>5 DEF LoopEmits
    <3>2. /\ k <= asked /\ (serving # 0 => k <= serving)
          /\ \A i \in DOMAIN inbox : k < inbox[i]
          /\ k = serving \/ k \in overran
      BY <3>1 DEF QueueInv
    <3>3. k # 0
      BY <1>1 DEF Chat!Asks
    <3>4. /\ k \notin overran => Heard(k)
          /\ serving # 0 => Heard(serving)
          /\ \A i \in DOMAIN inbox : Heard(inbox[i])
      BY <3>2, <3>3 DEF OrderInv
    <3>5. /\ serving' # 0 => k <= serving' /\ Heard(serving')
          /\ \A i \in DOMAIN inbox' : k <= inbox'[i] /\ Heard(inbox'[i])
          /\ k \notin overran' => Heard(k)
      BY <1>1, <3>1, <3>2, <3>4
    <3> QED
      BY <2>0, <3>1, <3>2, <3>5, EmittedInOrder
  <2>6. ASSUME NEW k \in Chat!Asks, LoopFails(k) \/ LoopCalls(k) \/ LoopRuns(k)
        PROVE  OrderInv'
    <3>1. UNCHANGED <<inbox, outbox, serving, overran>>
      BY <2>6, Zenon DEF LoopFails, LoopCalls, LoopRuns
    <3> QED
      BY <2>0, <3>1 DEF OrderInv, Heard
  <2> QED
    BY <1>3, <2>1, <2>2, <2>3, <2>4, <2>5, <2>6, DaemonMoves, Zenon
<1> QED
  BY <1>2, <1>3

ShownAt(g, k) == {j \in Chat!Asks : g[j] = k}
WrittenAt(q, k) == {i \in DOMAIN q : q[i] = k}

\* One request more may be answered by v.
LEMMA OneMoreShown ==
  ASSUME NEW k, NEW v, NEW a, got \in [Chat!Asks -> 0..InChat.maxAsks],
         got' = [got EXCEPT ![a] = v]
  PROVE  /\ Shown(k) \in Nat /\ Shown(k)' \in Nat
         /\ v = k => Shown(k)' <= Shown(k) + 1
         /\ v # k => Shown(k)' <= Shown(k)
<1> DEFINE S == ShownAt(got, k)
           T == ShownAt(got', k)
<1>1. IsFiniteSet(Chat!Asks)
  <2>1. 1 \in Int /\ InChat.maxAsks \in Int
    BY ChatNumbers
  <2> QED
    BY <2>1, FS_Interval, Zenon DEF Chat!Asks
<1>2. S \subseteq Chat!Asks /\ T \subseteq Chat!Asks
  BY DEF ShownAt
<1>3. T \subseteq S \cup {a} /\ (v # k => T \subseteq S)
  BY DEF ShownAt
<1>4. Shown(k) = Cardinality(S) /\ Shown(k)' = Cardinality(T)
  BY DEF Shown, ShownAt
<1> HIDE DEF S, T
<1>5. /\ IsFiniteSet(S) /\ IsFiniteSet(T)
      /\ Cardinality(S) \in Nat /\ Cardinality(T) \in Nat
  BY <1>1, <1>2, FS_Subset, FS_CardinalityType
<1>6. /\ IsFiniteSet(S \cup {a})
      /\ Cardinality(S \cup {a}) \in Nat
      /\ Cardinality(S \cup {a}) <= Cardinality(S) + 1
  <2>1. /\ IsFiniteSet(S \cup {a})
        /\ Cardinality(S \cup {a}) =
             IF a \in S THEN Cardinality(S) ELSE Cardinality(S) + 1
    BY <1>5, FS_AddElement, Zenon
  <2> QED
    BY <1>5, <2>1
<1>7. Cardinality(T) <= Cardinality(S \cup {a})
  BY <1>3, <1>6, FS_Subset
<1>8. v # k => Cardinality(T) <= Cardinality(S)
  BY <1>3, <1>5, FS_Subset
<1> QED
  BY <1>4, <1>5, <1>6, <1>7, <1>8

\* Answers written are a number.
LEMMA WrittenIsNumber ==
  ASSUME NEW k, NEW q \in Seq(Chat!Asks)
  PROVE  IsFiniteSet(WrittenAt(q, k)) /\ Cardinality(WrittenAt(q, k)) \in Nat
<1>1. WrittenAt(q, k) \subseteq 1..Len(q) /\ 1 \in Int /\ Len(q) \in Int
  BY DEF WrittenAt
<1>2. IsFiniteSet(1..Len(q))
  BY <1>1, FS_Interval
<1> QED
  BY <1>1, <1>2, FS_Subset, FS_CardinalityType

\* Writing adds an answer to one request.
LEMMA OneMoreWritten ==
  ASSUME NEW k, NEW e \in Chat!Asks, outbox \in Seq(Chat!Asks),
         outbox' = Append(outbox, e)
  PROVE  /\ Written(k) \in Nat /\ Written(k)' \in Nat
         /\ e = k => Written(k)' <= Written(k) + 1
         /\ e # k => Written(k)' <= Written(k)
<1> DEFINE S == WrittenAt(outbox, k)
           T == WrittenAt(outbox', k)
           n == Len(outbox) + 1
<1>1. outbox' \in Seq(Chat!Asks)
  BY Appended, Zenon
<1>2. T \subseteq S \cup {n} /\ (e # k => T \subseteq S)
  <2>1. \A i \in DOMAIN outbox' :
          i = n \/ (i \in DOMAIN outbox /\ outbox'[i] = outbox[i])
    BY Appended
  <2>2. outbox'[n] = e
    BY Appended
  <2> HIDE DEF n
  <2> QED
    BY <2>1, <2>2 DEF WrittenAt
<1>3. Written(k) = Cardinality(S) /\ Written(k)' = Cardinality(T)
  BY DEF Written, WrittenAt
<1>4. /\ IsFiniteSet(S) /\ IsFiniteSet(T)
      /\ Cardinality(S) \in Nat /\ Cardinality(T) \in Nat
  BY <1>1, WrittenIsNumber
<1> HIDE DEF S, T, n
<1>5. /\ IsFiniteSet(S \cup {n})
      /\ Cardinality(S \cup {n}) \in Nat
      /\ Cardinality(S \cup {n}) <= Cardinality(S) + 1
  <2>1. /\ IsFiniteSet(S \cup {n})
        /\ Cardinality(S \cup {n}) =
             IF n \in S THEN Cardinality(S) ELSE Cardinality(S) + 1
    BY <1>4, FS_AddElement, Zenon
  <2> QED
    BY <1>4, <2>1
<1>6. Cardinality(T) <= Cardinality(S \cup {n})
  BY <1>2, <1>5, FS_Subset
<1>7. e # k => Cardinality(T) <= Cardinality(S)
  BY <1>2, <1>4, FS_Subset
<1> QED
  BY <1>3, <1>4, <1>5, <1>6, <1>7

\* Reading takes the answer it finds.
LEMMA OneLessWritten ==
  ASSUME NEW k, outbox \in Seq(Chat!Asks), outbox # <<>>, outbox' = Tail(outbox)
  PROVE  /\ Written(k) \in Nat /\ Written(k)' \in Nat
         /\ Head(outbox) = k => Written(k)' + 1 <= Written(k)
         /\ Head(outbox) # k => Written(k)' <= Written(k)
<1> DEFINE S == WrittenAt(outbox, k)
           T == WrittenAt(outbox', k)
           f == [i \in T |-> i + 1]
<1>1. outbox' \in Seq(Chat!Asks)
  BY Taken, Zenon
<1>2. /\ 1 \in DOMAIN outbox /\ Head(outbox) = outbox[1]
      /\ \A i \in DOMAIN outbox' : /\ i \in Nat /\ i + 1 \in DOMAIN outbox
                                   /\ 1 < i + 1 /\ outbox'[i] = outbox[i + 1]
  BY Taken
<1>3. \A i \in T : i \in Nat /\ i + 1 \in S \ {1}
  BY <1>2 DEF WrittenAt
<1>4. Head(outbox) = k => 1 \in S
  BY <1>2 DEF WrittenAt
<1>5. Written(k) = Cardinality(S) /\ Written(k)' = Cardinality(T)
  BY DEF Written, WrittenAt
<1>6. /\ IsFiniteSet(S) /\ IsFiniteSet(T)
      /\ Cardinality(S) \in Nat /\ Cardinality(T) \in Nat
  BY <1>1, WrittenIsNumber
<1> HIDE DEF S, T
<1>7. /\ IsFiniteSet(S \ {1})
      /\ Cardinality(S \ {1}) = IF 1 \in S THEN Cardinality(S) - 1 ELSE Cardinality(S)
  BY <1>6, FS_RemoveElement
<1>8. f \in Injection(T, S \ {1})
  BY <1>3 DEF Injection, IsInjective
<1>9. Cardinality(T) <= Cardinality(S \ {1})
  BY <1>7, <1>8, FS_Injection
<1> QED
  BY <1>4, <1>5, <1>6, <1>7, <1>9

\* The parts of the count that are not cardinalities.
LEMMA PartsOfCount ==
  ASSUME NEW k
  PROVE  /\ InHand(k) \in {0, 1} /\ ToServe(k) \in {0, 2}
         /\ UnderWay(k) \in {0, 1} /\ Served(k) \in {0, 1}
         /\ InHand(k)' \in {0, 1} /\ ToServe(k)' \in {0, 2}
         /\ UnderWay(k)' \in {0, 1} /\ Served(k)' \in {0, 1}
         /\ UNCHANGED got => Shown(k)' = Shown(k)
         /\ UNCHANGED outbox => Written(k)' = Written(k)
         /\ UNCHANGED <<waits, ready, last>> => InHand(k)' = InHand(k)
         /\ UNCHANGED <<asked, inbox>> => ToServe(k)' = ToServe(k)
         /\ UNCHANGED run => UnderWay(k)' = UnderWay(k)
         /\ UNCHANGED serving => Served(k)' = Served(k)
<1>1. InHand(k) \in {0, 1} /\ InHand(k)' \in {0, 1}
  BY DEF InHand
<1>2. ToServe(k) \in {0, 2} /\ ToServe(k)' \in {0, 2}
  BY DEF ToServe
<1>3. UnderWay(k) \in {0, 1} /\ UnderWay(k)' \in {0, 1}
  BY DEF UnderWay
<1>4. Served(k) \in {0, 1} /\ Served(k)' \in {0, 1}
  BY DEF Served
<1>5. /\ UNCHANGED got => Shown(k)' = Shown(k)
      /\ UNCHANGED outbox => Written(k)' = Written(k)
  BY DEF Shown, Written
<1>6. UNCHANGED <<waits, ready, last>> => InHand(k)' = InHand(k)
  BY DEF InHand
<1>7. UNCHANGED <<asked, inbox>> => ToServe(k)' = ToServe(k)
  BY DEF ToServe
<1>8. UNCHANGED run => UnderWay(k)' = UnderWay(k)
  BY DEF UnderWay
<1>9. UNCHANGED serving => Served(k)' = Served(k)
  BY DEF Served
<1> QED
  BY <1>1, <1>2, <1>3, <1>4, <1>5, <1>6, <1>7, <1>8, <1>9, Zenon

\* What the daemon's steps take from the queue.
LEMMA ToServeShrinks ==
  ASSUME Chat!TypeOK, QueueInv, NEW k \in Chat!Asks, inbox # <<>>,
         inbox' = Tail(inbox), asked' = asked
  PROVE  /\ ToServe(k)' <= ToServe(k)
         /\ Head(inbox) = k => ToServe(k) = 2 /\ ToServe(k)' = 0
<1>1. inbox \in Seq(Chat!Asks)
  BY ChatFacts
<1>2. /\ 1 \in DOMAIN inbox /\ Head(inbox) = inbox[1]
      /\ \A i \in DOMAIN inbox' : /\ i \in Nat /\ i + 1 \in DOMAIN inbox
                                  /\ 1 < i + 1 /\ inbox'[i] = inbox[i + 1]
  BY <1>1, Taken
<1>3. ASSUME NEW i \in DOMAIN inbox'
      PROVE  /\ \E m \in DOMAIN inbox : inbox'[i] = inbox[m]
             /\ inbox'[i] # Head(inbox)
  <2>1. PICK m \in DOMAIN inbox : 1 < m /\ inbox'[i] = inbox[m]
    BY <1>2
  <2>2. inbox[1] < inbox[m] /\ inbox[1] \in Nat /\ inbox[m] \in Nat
    BY <1>2, <2>1, ChatFacts DEF QueueInv
  <2> QED
    BY <1>2, <2>1, <2>2
<1>4. Head(inbox) <= asked /\ asked \in Nat /\ Head(inbox) \in Nat
  BY <1>2, ChatFacts DEF QueueInv
<1>5. Head(inbox) = k => ToServe(k) = 2 /\ ToServe(k)' = 0
  <2>1. CASE Head(inbox) = k
    <3>1. \E i \in DOMAIN inbox : inbox[i] = k
      BY <1>2, <2>1
    <3>2. ~ (k > asked') /\ ~ \E i \in DOMAIN inbox' : inbox'[i] = k
      BY <1>3, <1>4, <2>1
    <3> QED
      BY <3>1, <3>2 DEF ToServe
  <2> QED
    BY <2>1
<1>6. ToServe(k)' <= ToServe(k)
  BY <1>3 DEF ToServe
<1> QED
  BY <1>5, <1>6

\* Every answer comes from something owed.
LEMMA CountKeeps ==
  ASSUME Chat!TypeOK, QueueInv, CountInv, Chat!GuiStep \/ Chat!DaemonStep
  PROVE  CountInv'
<1> SUFFICES ASSUME NEW k \in Chat!Asks
             PROVE  (Shown(k) + InHand(k) + Written(k) + ToServe(k) + UnderWay(k)
                       + Served(k))' <= 2
  BY DEF CountInv
<1>1. Shown(k) + InHand(k) + Written(k) + ToServe(k) + UnderWay(k) + Served(k) <= 2
  BY DEF CountInv
<1>2. /\ InHand(k) \in {0, 1} /\ ToServe(k) \in {0, 2}
      /\ UnderWay(k) \in {0, 1} /\ Served(k) \in {0, 1}
      /\ InHand(k)' \in {0, 1} /\ ToServe(k)' \in {0, 2}
      /\ UnderWay(k)' \in {0, 1} /\ Served(k)' \in {0, 1}
  BY PartsOfCount
<1>3. /\ asked \in Nat /\ serving \in Nat /\ serving <= asked /\ k \in Nat
      /\ serving # 0 => serving \in Chat!Asks
      /\ got \in [Chat!Asks -> 0..InChat.maxAsks]
      /\ inbox \in Seq(Chat!Asks) /\ outbox \in Seq(Chat!Asks)
      /\ run \in [Chat!Asks -> {"none", "call", "tools", "done", "failed"}]
  BY ChatFacts
<1>4. Shown(k) \in Nat /\ Written(k) \in Nat
  <2>1. Shown(k) = Cardinality(ShownAt(got, k))
    BY DEF Shown, ShownAt
  <2>2. Written(k) = Cardinality(WrittenAt(outbox, k))
    BY DEF Written, WrittenAt
  <2>3. IsFiniteSet(Chat!Asks)
    <3>1. 1 \in Int /\ InChat.maxAsks \in Int
      BY ChatNumbers
    <3> QED
      BY <3>1, FS_Interval, Zenon DEF Chat!Asks
  <2>4. ShownAt(got, k) \subseteq Chat!Asks
    BY DEF ShownAt
  <2> QED
    BY <1>3, <2>1, <2>2, <2>3, <2>4, FS_Subset, FS_CardinalityType, WrittenIsNumber
<1>5. CASE Chat!GuiStep
  <2>0. UnderWay(k)' = UnderWay(k) /\ Served(k)' = Served(k)
    BY <1>5, GuiMoves, PartsOfCount, Zenon
  <2>1. CASE /\ asked' = asked + 1 /\ inbox' = Append(inbox, asked + 1)
             /\ ready' = FALSE /\ asked < InChat.maxAsks
             /\ UNCHANGED <<got, outbox>>
    <3>1. Shown(k)' = Shown(k) /\ Written(k)' = Written(k)
      BY <2>1, PartsOfCount, Zenon
    <3>2. InHand(k)' = 0
      BY <2>1, Zenon DEF InHand
    <3>3. asked + 1 \in Chat!Asks
      BY <1>3, <2>1, ChatNumbers DEF Chat!Asks
    <3>4. \A i \in DOMAIN inbox' :
            inbox'[i] = asked + 1 \/ (i \in DOMAIN inbox /\ inbox'[i] = inbox[i])
      BY <1>3, <2>1, <3>3, Appended
    <3>5. (k > asked' \/ \E i \in DOMAIN inbox' : inbox'[i] = k)
            => (k > asked \/ \E i \in DOMAIN inbox : inbox[i] = k)
      BY <1>3, <2>1, <3>4
    <3>6. ToServe(k)' <= ToServe(k)
      BY <3>5 DEF ToServe
    <3> QED
      BY <1>1, <1>2, <1>4, <2>0, <3>1, <3>2, <3>6
  <2>2. CASE /\ waits /\ ready /\ waits' = FALSE
             /\ got' = [got EXCEPT ![asked] = last]
             /\ UNCHANGED <<asked, inbox, last, outbox>>
    <3>1. ToServe(k)' = ToServe(k) /\ Written(k)' = Written(k)
      BY <2>2, PartsOfCount, Zenon
    <3>2. /\ Shown(k)' \in Nat
          /\ last = k => Shown(k)' <= Shown(k) + 1
          /\ last # k => Shown(k)' <= Shown(k)
      BY <1>3, <2>2, OneMoreShown
    <3>3. InHand(k)' = 0 /\ (last = k => InHand(k) = 1)
      BY <2>2, Zenon DEF InHand
    <3> QED
      BY <1>1, <1>2, <1>4, <2>0, <3>1, <3>2, <3>3
  <2>3. CASE /\ outbox # <<>>
             /\ outbox' = Tail(outbox) /\ last' = Head(outbox)
             /\ UNCHANGED <<asked, inbox, got>>
    <3>1. ToServe(k)' = ToServe(k) /\ Shown(k)' = Shown(k)
      BY <2>3, PartsOfCount, Zenon
    <3>2. /\ Written(k)' \in Nat
          /\ Head(outbox) = k => Written(k)' + 1 <= Written(k)
          /\ Head(outbox) # k => Written(k)' <= Written(k)
      BY <1>3, <2>3, OneLessWritten
    <3>3. Head(outbox) # k => InHand(k)' = 0
      BY <2>3, Zenon DEF InHand
    <3> QED
      BY <1>1, <1>2, <1>4, <2>0, <3>1, <3>2, <3>3
  <2>4. CASE /\ waits' = waits \/ waits' = FALSE
             /\ UNCHANGED <<asked, inbox, last, ready, got, outbox>>
    <3>1. /\ ToServe(k)' = ToServe(k) /\ Shown(k)' = Shown(k)
          /\ Written(k)' = Written(k)
      BY <2>4, PartsOfCount, Zenon
    <3>2. InHand(k)' = InHand(k) \/ InHand(k)' = 0
      <4>1. waits' = FALSE => InHand(k)' = 0
        BY Zenon DEF InHand
      <4> QED
        BY <2>4, <4>1, PartsOfCount, Zenon
    <3> QED
      BY <1>1, <1>2, <1>4, <2>0, <3>1, <3>2
  <2> QED
    BY <1>5, <2>1, <2>2, <2>3, <2>4, GuiMoves, Zenon
<1>6. CASE Chat!DaemonStep
  <2>0. /\ UNCHANGED <<asked, last, got, waits, ready>>
        /\ Shown(k)' = Shown(k) /\ InHand(k)' = InHand(k)
    BY <1>6, DaemonMoves, PartsOfCount, Zenon
  <2>1. CASE AnswersReset
    <3>1. /\ inbox # <<>> /\ inbox' = Tail(inbox)
          /\ outbox' = Append(outbox, Head(inbox)) /\ UNCHANGED <<serving, run>>
      BY <2>1, Zenon DEF AnswersReset
    <3>2. Head(inbox) \in Chat!Asks
      BY <1>3, <3>1, Taken, Zenon
    <3>3. /\ Written(k)' \in Nat
          /\ Head(inbox) = k => Written(k)' <= Written(k) + 1
          /\ Head(inbox) # k => Written(k)' <= Written(k)
      BY <1>3, <3>1, <3>2, OneMoreWritten
    <3>4. /\ ToServe(k)' <= ToServe(k)
          /\ Head(inbox) = k => ToServe(k) = 2 /\ ToServe(k)' = 0
      BY <2>0, <3>1, ToServeShrinks
    <3>5. UnderWay(k)' = UnderWay(k) /\ Served(k)' = Served(k)
      BY <3>1, PartsOfCount, Zenon
    <3> QED
      BY <1>1, <1>2, <1>4, <2>0, <3>3, <3>4, <3>5
  <2>2. CASE Begins
    <3>1. /\ inbox # <<>> /\ inbox' = Tail(inbox) /\ serving' = Head(inbox)
          /\ \E s \in {"call", "failed"} : run' = [run EXCEPT ![Head(inbox)] = s]
          /\ UNCHANGED outbox
      BY <2>2, Zenon DEF Begins
    <3>2. /\ ToServe(k)' <= ToServe(k)
          /\ Head(inbox) = k => ToServe(k) = 2 /\ ToServe(k)' = 0
      BY <2>0, <3>1, ToServeShrinks
    <3>3. Written(k)' = Written(k)
      BY <3>1, PartsOfCount, Zenon
    <3>4. Head(inbox) # k => UnderWay(k)' = UnderWay(k) /\ Served(k)' = 0
      BY <1>3, <3>1 DEF UnderWay, Served
    <3> QED
      BY <1>1, <1>2, <1>4, <2>0, <3>2, <3>3, <3>4
  <2>3. CASE MainEmits
    <3>1. /\ serving # 0 /\ serving' = 0 /\ outbox' = Append(outbox, serving)
          /\ UNCHANGED <<inbox, run>>
      BY <2>3, Zenon DEF MainEmits
    <3>2. /\ Written(k)' \in Nat
          /\ serving = k => Written(k)' <= Written(k) + 1
          /\ serving # k => Written(k)' <= Written(k)
      BY <1>3, <3>1, OneMoreWritten
    <3>3. k # 0
      BY ChatNumbers DEF Chat!Asks
    <3>4. Served(k)' = 0 /\ (serving = k => Served(k) = 1)
      BY <3>1, <3>3 DEF Served
    <3>5. ToServe(k)' = ToServe(k) /\ UnderWay(k)' = UnderWay(k)
      BY <2>0, <3>1, PartsOfCount, Zenon
    <3> QED
      BY <1>1, <1>2, <1>4, <2>0, <3>2, <3>4, <3>5
  <2>4. CASE Ends
    <3>1. /\ inbox' = <<>> /\ outbox' = <<>> /\ serving' = 0
          /\ run' = [j \in Chat!Asks |-> "none"]
      BY <2>4, Zenon DEF Ends
    <3>2. k # 0
      BY ChatNumbers DEF Chat!Asks
    <3>3. Served(k)' = 0 /\ UnderWay(k)' = 0
      BY <3>1, <3>2 DEF Served, UnderWay
    <3>4. Written(k)' = 0
      <4>1. {i \in DOMAIN outbox' : outbox'[i] = k} = {}
        BY <3>1
      <4> QED
        BY <4>1, FS_EmptySet, Zenon DEF Written
    <3>5. ToServe(k)' <= ToServe(k)
      BY <2>0, <3>1 DEF ToServe
    <3> QED
      BY <1>1, <1>2, <1>4, <2>0, <3>3, <3>4, <3>5
  <2>5. ASSUME NEW e \in Chat!Asks,
               LoopEmits(e) \/ LoopFails(e) \/ LoopCalls(e) \/ LoopRuns(e)
        PROVE  (Shown(k) + InHand(k) + Written(k) + ToServe(k) + UnderWay(k)
                  + Served(k))' <= 2
    <3>1. /\ run[e] \in {"call", "tools"} /\ UNCHANGED <<inbox, serving>>
          /\ \E s \in {"call", "tools", "done", "failed"} :
               /\ run' = [run EXCEPT ![e] = s]
               /\ \/ UNCHANGED outbox
                  \/ s = "done" /\ outbox' = Append(outbox, e)
      BY <2>5 DEF LoopEmits, LoopFails, LoopCalls, LoopRuns
    <3>2. Served(k)' = Served(k) /\ ToServe(k)' = ToServe(k)
      BY <2>0, <3>1, PartsOfCount, Zenon
    <3>3. PICK s \in {"call", "tools", "done", "failed"} :
               /\ run' = [run EXCEPT ![e] = s]
               /\ \/ UNCHANGED outbox
                  \/ s = "done" /\ outbox' = Append(outbox, e)
      BY <3>1
    <3>4. /\ e # k => UnderWay(k)' = UnderWay(k)
          /\ e = k => UnderWay(k) = 1
          /\ e = k /\ s = "done" => UnderWay(k)' = 0
      BY <1>3, <3>1, <3>3 DEF UnderWay
    <3>5. CASE UNCHANGED outbox
      <4>1. Written(k)' = Written(k)
        BY <3>5, PartsOfCount, Zenon
      <4> QED
        BY <1>1, <1>2, <1>4, <2>0, <3>2, <3>4, <4>1
    <3>6. CASE s = "done" /\ outbox' = Append(outbox, e)
      <4>1. /\ Written(k)' \in Nat
            /\ e = k => Written(k)' <= Written(k) + 1
            /\ e # k => Written(k)' <= Written(k)
        BY <1>3, <3>6, OneMoreWritten
      <4> QED
        BY <1>1, <1>2, <1>4, <2>0, <3>2, <3>4, <3>6, <4>1
    <3> QED
      BY <3>3, <3>5, <3>6, Zenon
  <2> QED
    BY <1>6, <2>1, <2>2, <2>3, <2>4, <2>5, DaemonMoves, Zenon
<1> QED
  BY <1>5, <1>6

\* Each answer is shown no more than the count allows.
LEMMA ShownAtMostTwice ==
  ASSUME Chat!TypeOK, CountInv, NEW k \in Chat!Asks
  PROVE  Chat!Cardinality({j \in Chat!Asks : got[j] = k}) <= 2
<1>1. Shown(k) + InHand(k) + Written(k) + ToServe(k) + UnderWay(k) + Served(k) <= 2
  BY DEF CountInv
<1>2. /\ InHand(k) \in {0, 1} /\ ToServe(k) \in {0, 2}
      /\ UnderWay(k) \in {0, 1} /\ Served(k) \in {0, 1}
  BY PartsOfCount
<1>3. Shown(k) \in Nat
  <2>1. 1 \in Int /\ InChat.maxAsks \in Int
    BY ChatNumbers
  <2>2. IsFiniteSet(Chat!Asks)
    BY <2>1, FS_Interval, Zenon DEF Chat!Asks
  <2>3. {j \in Chat!Asks : got[j] = k} \subseteq Chat!Asks
    OBVIOUS
  <2> QED
    BY <2>2, <2>3, FS_Subset, FS_CardinalityType DEF Shown
<1>4. Written(k) \in Nat
  <2>1. outbox \in Seq(Chat!Asks)
    BY ChatFacts
  <2>2. Written(k) = Cardinality(WrittenAt(outbox, k))
    BY DEF Written, WrittenAt
  <2> QED
    BY <2>1, <2>2, WrittenIsNumber
<1>5. Shown(k) <= 2
  BY <1>1, <1>2, <1>3, <1>4
<1>6. \A S : Chat!Cardinality(S) = Cardinality(S)
  BY DEF Cardinality, Chat!Cardinality
<1>7. Chat!Cardinality({j \in Chat!Asks : got[j] = k}) = Shown(k)
  BY <1>6, Zenon DEF Shown
<1> QED
  BY <1>5, <1>7

\* Every step of the chat keeps its types and its invariant.
LEMMA ChatKeeps ==
  ASSUME Chat!TypeOK, ChatInv, ChatStep
  PROVE  Chat!TypeOK' /\ ChatInv'
<1>1. CASE UNCHANGED chat
  <2> USE DEF chat, Chat!gui, Chat!work
  <2>1. Chat!TypeOK'
    BY <1>1 DEF Chat!TypeOK
  <2>2. QueueInv' /\ RoundInv' /\ Chat!RoundsAreWhole'
    BY <1>1 DEF ChatInv, QueueInv, RoundInv, Chat!RoundsAreWhole
  <2>3. OrderInv'
    BY <1>1 DEF ChatInv, OrderInv, Heard
  <2>4. CountInv'
    <3>1. /\ UNCHANGED got /\ UNCHANGED outbox /\ UNCHANGED run /\ UNCHANGED serving
          /\ UNCHANGED <<waits, ready, last>> /\ UNCHANGED <<asked, inbox>>
      BY <1>1
    <3>2. ASSUME NEW k \in Chat!Asks
          PROVE  /\ Shown(k)' = Shown(k) /\ InHand(k)' = InHand(k)
                 /\ Written(k)' = Written(k) /\ ToServe(k)' = ToServe(k)
                 /\ UnderWay(k)' = UnderWay(k) /\ Served(k)' = Served(k)
      BY <3>1, PartsOfCount, Zenon
    <3> QED
      BY <3>2 DEF ChatInv, CountInv
  <2> QED
    BY <2>1, <2>2, <2>3, <2>4, Zenon DEF ChatInv
<1>2. CASE Chat!Next
  <2>1. Chat!GuiStep \/ Chat!DaemonStep
    BY <1>2, Zenon DEF Chat!Next
  <2>2. QueueInv /\ RoundInv /\ Chat!RoundsAreWhole /\ OrderInv /\ CountInv
    BY Zenon DEF ChatInv
  <2>3. Chat!TypeOK'
    BY <2>1, <2>2, GuiTypes, DaemonTypes, Zenon
  <2>4. QueueInv' /\ RoundInv' /\ Chat!RoundsAreWhole'
    BY <2>1, <2>2, QueueKeeps, RoundsKeep, Zenon
  <2>5. OrderInv' /\ CountInv'
    BY <2>1, <2>2, OrderKeeps, CountKeeps, Zenon
  <2> QED
    BY <2>3, <2>4, <2>5, Zenon DEF ChatInv
<1> QED
  BY <1>1, <1>2, Zenon DEF ChatStep

\* The variables of the chat keep their types.
THEOREM ChatTypes == Spec => [](part = "chat" => Chat!TypeOK)
<1> DEFINE I == part = "chat" => Chat!TypeOK /\ ChatInv
<1>1. Init => I
  BY ChatStarts DEF Init
<1>2. I /\ [Next]_vars => I'
  BY PartsMove, ChatKeeps
<1>3. I => (part = "chat" => Chat!TypeOK)
  OBVIOUS
<1> QED
  BY <1>1, <1>2, <1>3, PTL DEF Spec

\* OrchChat, RoundsAreWhole: while no request overran, every tool result among
\* the messages follows the calls it belongs to, except at the front, where
\* trimming by count cuts (runtime.py, send_message).
THEOREM ChatRoundsAreWhole == Spec => []RoundsAreWhole
<1> DEFINE I == part = "chat" => Chat!TypeOK /\ ChatInv
<1>1. Init => I
  BY ChatStarts DEF Init
<1>2. I /\ [Next]_vars => I'
  BY PartsMove, ChatKeeps
<1>3. I => RoundsAreWhole
  BY Zenon DEF ChatInv, RoundsAreWhole
<1> QED
  BY <1>1, <1>2, <1>3, PTL DEF Spec

\* OrchChat, AnswersComeForward: answers carry no number and are written twice,
\* and still they are shown in the order of their requests, but for those that
\* overran, and each at most twice (orch_daemon.py, gui/cli.py).
THEOREM ChatAnswersComeForward == Spec => []AnswersComeForward
<1> DEFINE I == part = "chat" => Chat!TypeOK /\ ChatInv
<1>1. Init => I
  BY ChatStarts DEF Init
<1>2. I /\ [Next]_vars => I'
  BY PartsMove, ChatKeeps
<1>3. I => AnswersComeForward
  <2> SUFFICES ASSUME Chat!TypeOK, ChatInv
               PROVE  Chat!AnswersComeForward
    BY Zenon DEF AnswersComeForward
  <2>1. OrderInv /\ CountInv
    BY Zenon DEF ChatInv
  <2>2. \A j, k \in Chat!Asks :
          j < k /\ got[k] # 0 /\ got[k] < got[j] => got[k] \in overran
    BY <2>1, Zenon DEF OrderInv
  <2>3. \A j \in Chat!Asks : Chat!Cardinality({k \in Chat!Asks : got[k] = j}) <= 2
    BY <2>1, ShownAtMostTwice
  <2> QED
    BY <2>2, <2>3, Zenon DEF Chat!AnswersComeForward
<1> QED
  BY <1>1, <1>2, <1>3, PTL DEF Spec

(***************************************************************************)
(* The soul loader (SoulLoader).                                           *)
(***************************************************************************)

\* What was read is the sheet unless an edit was missed, times only grow, and
\* the loader has no stamp while it reads.
LoaderInv ==
  /\ mtime <= sheet
  /\ stamp # Loader!None => stamp <= mtime
  /\ step # "idle" => stamp = Loader!None /\ (reading = sheet \/ missed)
  /\ step = "parent" => reading \in Loader!Versions
  /\ step = "stamp" => soul # Loader!NoSoul /\ soul.own = reading
  /\ Loader!OldSoulsAreStale

\* The loader begins as it should.
LEMMA LoaderStart ==
  ASSUME Loader!SoulConstants, Loader!Init PROVE Loader!TypeOK /\ LoaderInv
<1> USE DEF Loader!SoulConstants, Loader!Init, Loader!Versions, Loader!None
<1>1. Loader!TypeOK
  <2>1. /\ sheet \in Loader!Versions /\ base \in Loader!Versions
        /\ mtime \in Loader!Versions
    OBVIOUS
  <2> QED
    BY <2>1 DEF Loader!TypeOK
<1>2. LoaderInv
  BY DEF LoaderInv, Loader!OldSoulsAreStale
<1> QED
  BY <1>1, <1>2

\* Every step keeps it so.
LEMMA LoaderStep ==
  ASSUME Loader!SoulConstants, Loader!TypeOK, LoaderInv, SoulsStep
  PROVE  Loader!TypeOK' /\ LoaderInv'
<1> USE DEF Loader!SoulConstants, Loader!TypeOK, LoaderInv,
            Loader!OldSoulsAreStale, Loader!Stale, Loader!Versions, Loader!None
<1>1. CASE Loader!EditSheet
  <2>1. mtime' \in Loader!Versions /\ mtime <= mtime' /\ mtime' <= sheet'
    BY <1>1 DEF Loader!EditSheet
  <2>2. stamp # Loader!None => stamp \in Nat
    OBVIOUS
  <2>3. Loader!TypeOK'
    BY <1>1, <2>1 DEF Loader!EditSheet
  <2>4. missed' <=> missed \/ step # "idle" \/ mtime' = mtime
    BY <1>1 DEF Loader!EditSheet
  <2>5. mtime' = mtime \/ mtime' = mtime + 1
    BY <1>1 DEF Loader!EditSheet
  <2>6. Loader!OldSoulsAreStale'
    BY <1>1, <2>2, <2>4, <2>5 DEF Loader!EditSheet
  <2>7. LoaderInv'
    BY <1>1, <2>1, <2>2, <2>4, <2>6 DEF Loader!EditSheet
  <2> QED
    BY <2>3, <2>7
<1>2. CASE Loader!EditBase
  BY <1>2 DEF Loader!EditBase, Loader!NoSoul
<1>3. CASE Loader!Load
  BY <1>3 DEF Loader!Load, Loader!Read, Loader!NoSoul
<1>4. CASE Loader!Reload
  BY <1>4 DEF Loader!Reload, Loader!Read, Loader!NoSoul
<1>5. CASE Loader!Resolve
  <2>1. /\ soul' \in [own : Loader!Versions, parent : Loader!Versions]
        /\ soul'.own = reading
    BY <1>5 DEF Loader!Resolve
  <2>2. soul' # Loader!NoSoul
    BY <2>1 DEF Loader!NoSoul
  <2> QED
    BY <1>5, <2>1, <2>2 DEF Loader!Resolve
<1>6. CASE Loader!Stamp
  BY <1>6 DEF Loader!Stamp, Loader!NoSoul
<1>7. CASE UNCHANGED souls
  BY <1>7 DEF souls, Loader!NoSoul
<1> QED
  BY <1>1, <1>2, <1>3, <1>4, <1>5, <1>6, <1>7 DEF SoulsStep, Loader!Next

\* SoulLoader (rasa/agent/soul.py): the variables keep their types.
THEOREM LoaderTypes == Spec => [](part = "souls" => Loader!TypeOK)
<1> DEFINE I == part = "souls" => Loader!TypeOK /\ LoaderInv
<1>1. Init => I
  BY PartsAreSound, LoaderStart DEF Init
<1>2. I /\ [Next]_vars => I'
  BY PartsAreSound, PartsMove, LoaderStep
<1>3. I => (part = "souls" => Loader!TypeOK)
  OBVIOUS
<1> QED
  BY <1>1, <1>2, <1>3, PTL DEF Spec

\* SoulLoader, OldSoulsAreStale: whoever holds a soul that is not the sheet on
\* disk can tell, unless the edit is one that its time cannot show
\* (reload_if_stale, is_stale).
THEOREM LoaderOldSoulsAreStale == Spec => []OldSoulsAreStale
<1> DEFINE I == part = "souls" => Loader!TypeOK /\ LoaderInv
<1>1. Init => I
  BY PartsAreSound, LoaderStart DEF Init
<1>2. I /\ [Next]_vars => I'
  BY PartsAreSound, PartsMove, LoaderStep
<1>3. I => OldSoulsAreStale
  BY Zenon DEF LoaderInv, OldSoulsAreStale
<1> QED
  BY <1>1, <1>2, <1>3, PTL DEF Spec

(***************************************************************************)
(* The registry of capabilities.                                           *)
(***************************************************************************)

\* What a controller holds on to belongs to the stage its pass is in.
PassInv ==
  \A c \in InRegistry.controllers :
    /\ queue[c] # {} => at[c] = "load"
    /\ held[c] # Registry!Nothing => at[c] = "load"
    /\ doomed[c] # {} => at[c] = "delete"

\* Nothing tells of a sheet that is yet to be written, and what is loaded is
\* no older than the sheets the passes found.
AgeInv ==
  /\ \A s \in InRegistry.souls :
       /\ row[s] <= file[s] /\ began.sheet[s] <= file[s]
       /\ began.row[s] <= began.sheet[s]
  /\ \A c \in InRegistry.controllers : held[c] # Registry!Nothing =>
       began.sheet[held[c][1]] <= held[c][2] /\ held[c][2] <= file[held[c][1]]

\* Souls that could be loaded all the time are loaded or about to be by every
\* pass under way, and by none deleted; those that never could are not loaded.
WatchInv ==
  /\ steady \subseteq Registry!Loadable(form)
  /\ absent \cap Registry!Loadable(form) = {}
  /\ \A c \in InRegistry.controllers :
       /\ at[c] = "load" => steady \subseteq queue[c] \cup active[c]
       /\ doomed[c] \cap steady = {}
       /\ at[c] # "idle" => active[c] \cap absent = {}
       /\ held[c] # Registry!Nothing => held[c][1] \notin absent

\* What the passes owe the registry has been done, or one of them has still
\* to do it.
DebtInv ==
  /\ \A s \in steady :
       /\ row[s] >= began.row[s]
       /\ hitch \/ row[s] >= began.sheet[s] \/
            \E c \in InRegistry.controllers :
              \/ s \in queue[c]
              \/ held[c] # Registry!Nothing /\ held[c][1] = s
  /\ \A s \in absent :
       hitch \/ row[s] = Registry!None \/
         \E c \in InRegistry.controllers : at[c] = "load" \/ s \in doomed[c]

RowInv == PassInv /\ AgeInv /\ WatchInv /\ DebtInv

\* The numbers and sets the proofs below are about.
LEMMA RegistryFacts ==
  ASSUME Registry!CapabilityConstants, Registry!TypeOK
  PROVE  /\ InRegistry.maxEdits \in Nat
         /\ \A s \in InRegistry.souls :
              /\ file[s] \in Nat /\ began.sheet[s] \in Nat
              /\ row[s] \in Int /\ began.row[s] \in Int
         /\ \A c \in InRegistry.controllers :
              held[c] # Registry!Nothing =>
                held[c][1] \in InRegistry.souls /\ held[c][2] \in Nat
<1>1. InRegistry.maxEdits \in Nat
  BY DEF Registry!CapabilityConstants
<1>2. /\ file \in [InRegistry.souls -> Registry!Versions]
      /\ row \in [InRegistry.souls -> Registry!Versions \cup {Registry!None}]
      /\ began \in [sheet : [InRegistry.souls -> Registry!Versions],
                    row : [InRegistry.souls ->
                             Registry!Versions \cup {Registry!None}]]
      /\ held \in [InRegistry.controllers ->
                     (InRegistry.souls \X Registry!Versions)
                       \cup {Registry!Nothing}]
  BY DEF Registry!TypeOK
<1>3. /\ Registry!Versions \subseteq Nat /\ Registry!Versions \subseteq Int
      /\ Registry!None \in Int
  BY <1>1 DEF Registry!Versions, Registry!None
<1>4. /\ began.sheet \in [InRegistry.souls -> Registry!Versions]
      /\ began.row \in [InRegistry.souls ->
                          Registry!Versions \cup {Registry!None}]
  BY <1>2
<1>5. \A s \in InRegistry.souls :
        /\ file[s] \in Nat /\ began.sheet[s] \in Nat
        /\ row[s] \in Int /\ began.row[s] \in Int
  <2>1. ASSUME NEW s \in InRegistry.souls
        PROVE  began.sheet[s] \in Nat /\ began.row[s] \in Int
    <3>1. /\ began.sheet[s] \in Registry!Versions
          /\ began.row[s] \in Registry!Versions \cup {Registry!None}
      BY <1>4, Zenon
    <3> QED
      BY <1>3, <3>1, Zenon
  <2>2. /\ file \in [InRegistry.souls -> Registry!Versions]
        /\ row \in [InRegistry.souls ->
                      Registry!Versions \cup {Registry!None}]
    BY DEF Registry!TypeOK
  <2>3. \A s \in InRegistry.souls : file[s] \in Nat /\ row[s] \in Int
    BY <1>3, <2>2
  <2> QED
    BY <2>1, <2>3
<1>6. \A c \in InRegistry.controllers :
        held[c] # Registry!Nothing =>
          held[c] \in InRegistry.souls \X Registry!Versions
  BY <1>2
<1> QED
  BY <1>1, <1>3, <1>5, <1>6

\* A soul that can be loaded has a good sheet.
LEMMA LoadableIsGood ==
  ASSUME NEW f, NEW s
  PROVE  /\ Registry!Loadable(f) \subseteq InRegistry.souls
         /\ s \in Registry!Loadable(f) => f[s] = "good"
         /\ s \in InRegistry.souls =>
              (Registry!Loads(s, f) <=> s \in Registry!Loadable(f))
BY Zenon DEF Registry!Loadable, Registry!Loads

\* The registry begins as the migration left it.
LEMMA RegistryStart ==
  ASSUME Registry!CapabilityConstants, Registry!Init
  PROVE  Registry!TypeOK /\ RowInv
<1>1. 0 \in Registry!Versions /\ 0 \in 0..InRegistry.maxFaults
  BY DEF Registry!CapabilityConstants, Registry!Versions
<1>2. Registry!TypeOK
  BY <1>1 DEF Registry!Init, Registry!TypeOK, Registry!Forms
<1>3. PassInv /\ WatchInv /\ DebtInv
  BY DEF Registry!Init, PassInv, WatchInv, DebtInv
<1>4. AgeInv
  BY DEF Registry!Init, AgeInv, Registry!None
<1> QED
  BY <1>2, <1>3, <1>4 DEF RowInv

\* Every step keeps the variables in their types.
LEMMA RegistryTypeStep ==
  ASSUME Registry!CapabilityConstants, Registry!TypeOK, PassInv, RegistryStep
  PROVE  Registry!TypeOK'
<1> USE DEF Registry!TypeOK, Registry!files, Registry!pass
<1>1. ASSUME NEW s \in InRegistry.souls, Registry!Edit(s)
      PROVE  Registry!TypeOK'
  <2>1. file[s] + 1 \in Registry!Versions
    <3>1. file[s] \in Nat /\ file[s] < InRegistry.maxEdits
      BY <1>1, RegistryFacts, Zenon DEF Registry!Edit
    <3> QED
      BY <3>1, RegistryFacts DEF Registry!Versions
  <2> QED
    BY <1>1, <2>1 DEF Registry!Edit
<1>2. ASSUME NEW c \in InRegistry.controllers, Registry!ListSouls(c)
      PROVE  Registry!TypeOK'
  <2>1. Registry!Loadable(form) \subseteq InRegistry.souls
    BY LoadableIsGood
  <2>2. doomed[c] = {}
    BY <1>2 DEF Registry!ListSouls, PassInv
  <2>3. /\ began' \in [sheet : [InRegistry.souls -> Registry!Versions],
                       row : [InRegistry.souls ->
                                Registry!Versions \cup {Registry!None}]]
        /\ steady' \subseteq InRegistry.souls
        /\ absent' \subseteq InRegistry.souls /\ hitch' \in BOOLEAN
    <3>1. CASE Registry!Resting
      <4>1. /\ began' = [sheet |-> file, row |-> row]
            /\ steady' = Registry!Loadable(form)
            /\ absent' = InRegistry.souls \ Registry!Loadable(form)
            /\ hitch' = FALSE
        BY <1>2, <3>1, Zenon DEF Registry!ListSouls
      <4> QED
        BY <2>1, <4>1
    <3>2. CASE ~Registry!Resting
      BY <1>2, <3>2 DEF Registry!ListSouls
    <3> QED
      BY <3>1, <3>2
  <2> QED
    BY <1>2, <2>2, <2>3 DEF Registry!ListSouls
<1>3. ASSUME NEW c \in InRegistry.controllers, NEW s \in InRegistry.souls,
             Registry!LoadSoul(c, s)
      PROVE  Registry!TypeOK'
  <2>1. doomed[c] = {}
    BY <1>3 DEF Registry!LoadSoul, PassInv
  <2> QED
    BY <1>3, <2>1 DEF Registry!LoadSoul
<1>4. ASSUME NEW c \in InRegistry.controllers, Registry!Register(c)
      PROVE  Registry!TypeOK'
  BY <1>4 DEF Registry!Register
<1>5. ASSUME NEW c \in InRegistry.controllers, Registry!FailRegister(c)
      PROVE  Registry!TypeOK'
  BY <1>5 DEF Registry!FailRegister, Registry!Fault,
     Registry!CapabilityConstants
<1>6. ASSUME NEW c \in InRegistry.controllers, Registry!ListRows(c)
      PROVE  Registry!TypeOK'
  BY <1>6 DEF Registry!ListRows
<1>7. ASSUME NEW c \in InRegistry.controllers, NEW s \in InRegistry.souls,
             Registry!DeleteRow(c, s)
      PROVE  Registry!TypeOK'
  BY <1>7 DEF Registry!DeleteRow
<1>8. ASSUME NEW c \in InRegistry.controllers, Registry!EndPass(c)
      PROVE  Registry!TypeOK'
  BY <1>8 DEF Registry!EndPass
<1>9. ASSUME NEW c \in InRegistry.controllers, Registry!CutShort(c)
      PROVE  Registry!TypeOK'
  BY <1>9 DEF Registry!CutShort, Registry!Fault,
     Registry!CapabilityConstants
<1>10. CASE UNCHANGED registry
  BY <1>10 DEF registry
<1> HIDE DEF Registry!TypeOK
<1> QED
  BY <1>1, <1>2, <1>3, <1>4, <1>5, <1>6, <1>7, <1>8, <1>9, <1>10
  DEF RegistryStep, Registry!Next

\* Every step keeps a pass in its stage.
LEMMA PassStep ==
  ASSUME Registry!TypeOK, PassInv, RegistryStep PROVE PassInv'
<1> USE DEF PassInv, Registry!files, Registry!pass
<1>1. /\ at \in [InRegistry.controllers -> {"idle", "load", "delete"}]
      /\ DOMAIN queue = InRegistry.controllers
      /\ DOMAIN held = InRegistry.controllers
      /\ DOMAIN doomed = InRegistry.controllers
  BY DEF Registry!TypeOK
<1>2. ASSUME NEW s \in InRegistry.souls, Registry!Edit(s) PROVE PassInv'
  BY <1>2 DEF Registry!Edit
<1>3. ASSUME NEW c \in InRegistry.controllers,
             \/ Registry!ListSouls(c) \/ Registry!Register(c)
             \/ Registry!FailRegister(c) \/ Registry!ListRows(c)
             \/ Registry!EndPass(c) \/ Registry!CutShort(c)
      PROVE  PassInv'
  BY <1>1, <1>3 DEF Registry!ListSouls, Registry!Register,
     Registry!FailRegister, Registry!ListRows, Registry!EndPass,
     Registry!CutShort
<1>4. ASSUME NEW c \in InRegistry.controllers, NEW s \in InRegistry.souls,
             Registry!LoadSoul(c, s) \/ Registry!DeleteRow(c, s)
      PROVE  PassInv'
  BY <1>1, <1>4 DEF Registry!LoadSoul, Registry!DeleteRow
<1>5. CASE UNCHANGED registry
  BY <1>5 DEF registry
<1> QED
  BY <1>2, <1>3, <1>4, <1>5 DEF RegistryStep, Registry!Next

\* Every step keeps what is loaded no older than the sheets were.
LEMMA AgeStep ==
  ASSUME Registry!CapabilityConstants, Registry!TypeOK, PassInv, AgeInv,
         RegistryStep
  PROVE  AgeInv'
<1> USE DEF Registry!files, Registry!pass
<1>1. /\ file \in [InRegistry.souls -> Registry!Versions]
      /\ row \in [InRegistry.souls -> Registry!Versions \cup {Registry!None}]
      /\ held \in [InRegistry.controllers ->
                     (InRegistry.souls \X Registry!Versions)
                       \cup {Registry!Nothing}]
  BY DEF Registry!TypeOK
<1>2. /\ \A s \in InRegistry.souls :
           /\ file[s] \in Nat /\ began.sheet[s] \in Nat
           /\ row[s] \in Int /\ began.row[s] \in Int
      /\ \A c \in InRegistry.controllers :
           held[c] # Registry!Nothing =>
             held[c][1] \in InRegistry.souls /\ held[c][2] \in Nat
  BY RegistryFacts
<1>3. ASSUME NEW s \in InRegistry.souls, Registry!Edit(s) PROVE AgeInv'
  <2>1. file' = [file EXCEPT ![s] = file[s] + 1]
        /\ UNCHANGED <<row, began, held>>
    BY <1>3 DEF Registry!Edit
  <2>2. \A u \in InRegistry.souls : file[u] <= file'[u] /\ file'[u] \in Nat
    BY <1>1, <1>2, <2>1
  <2> QED
    BY <1>2, <2>1, <2>2 DEF AgeInv
<1>4. ASSUME NEW c \in InRegistry.controllers, Registry!ListSouls(c)
      PROVE  AgeInv'
  <2>1. UNCHANGED <<file, row, held>>
    BY <1>4 DEF Registry!ListSouls
  <2>2. CASE Registry!Resting
    <3>1. began' = [sheet |-> file, row |-> row]
      BY <1>4, <2>2, Zenon DEF Registry!ListSouls
    <3>2. \A d \in InRegistry.controllers : held[d] = Registry!Nothing
      BY <2>2 DEF Registry!Resting, PassInv
    <3> QED
      BY <1>2, <2>1, <3>1, <3>2 DEF AgeInv
  <2>3. CASE ~Registry!Resting
    BY <1>4, <2>1, <2>3 DEF Registry!ListSouls, AgeInv
  <2> QED
    BY <2>2, <2>3
<1>5. ASSUME NEW c \in InRegistry.controllers, NEW s \in InRegistry.souls,
             Registry!LoadSoul(c, s)
      PROVE  AgeInv'
  <2>1. UNCHANGED <<file, row, began>>
        /\ held' \in {held, [held EXCEPT ![c] = <<s, file[s]>>]}
    BY <1>5 DEF Registry!LoadSoul
  <2> QED
    BY <1>1, <1>2, <2>1 DEF AgeInv
<1>6. ASSUME NEW c \in InRegistry.controllers, Registry!Register(c)
      PROVE  AgeInv'
  <2>1. /\ held[c] # Registry!Nothing /\ UNCHANGED <<file, began>>
        /\ row' = [row EXCEPT ![held[c][1]] = held[c][2]]
        /\ held' = [held EXCEPT ![c] = Registry!Nothing]
    BY <1>6 DEF Registry!Register
  <2>2. \A u \in InRegistry.souls : row'[u] <= file[u]
    BY <1>1, <1>2, <2>1 DEF AgeInv
  <2> QED
    BY <1>1, <2>1, <2>2 DEF AgeInv
<1>7. ASSUME NEW c \in InRegistry.controllers, NEW s \in InRegistry.souls,
             Registry!DeleteRow(c, s)
      PROVE  AgeInv'
  <2>1. row' = [row EXCEPT ![s] = -1] /\ UNCHANGED <<file, began, held>>
    BY <1>7 DEF Registry!DeleteRow, Registry!None
  <2>2. \A u \in InRegistry.souls : row'[u] <= file[u]
    BY <1>1, <1>2, <2>1 DEF AgeInv
  <2> QED
    BY <2>1, <2>2 DEF AgeInv
<1>8. CASE /\ UNCHANGED <<file, row, began>>
           /\ \A c \in InRegistry.controllers :
                held'[c] \in {held[c], Registry!Nothing}
  BY <1>8 DEF AgeInv
<1>9. ASSUME NEW c \in InRegistry.controllers,
             \/ Registry!FailRegister(c) \/ Registry!ListRows(c)
             \/ Registry!EndPass(c) \/ Registry!CutShort(c)
      PROVE  AgeInv'
  BY <1>1, <1>8, <1>9 DEF Registry!FailRegister, Registry!ListRows,
     Registry!EndPass, Registry!CutShort
<1>10. CASE UNCHANGED registry
  BY <1>8, <1>10 DEF registry
<1> QED
  BY <1>3, <1>4, <1>5, <1>6, <1>7, <1>9, <1>10
  DEF RegistryStep, Registry!Next

\* Every step keeps what the passes under way have seen of the souls.
LEMMA WatchStep ==
  ASSUME Registry!TypeOK, PassInv, WatchInv, RegistryStep PROVE WatchInv'
<1> USE DEF Registry!files, Registry!pass
<1>1. /\ at \in [InRegistry.controllers -> {"idle", "load", "delete"}]
      /\ queue \in [InRegistry.controllers -> SUBSET InRegistry.souls]
      /\ held \in [InRegistry.controllers ->
                     (InRegistry.souls \X Registry!Versions)
                       \cup {Registry!Nothing}]
      /\ active \in [InRegistry.controllers -> SUBSET InRegistry.souls]
      /\ doomed \in [InRegistry.controllers -> SUBSET InRegistry.souls]
  BY DEF Registry!TypeOK
<1>2. /\ Registry!Loadable(form) \subseteq InRegistry.souls
      /\ \A s \in Registry!Loadable(form) : form[s] = "good"
      /\ \A s \in InRegistry.souls :
           Registry!Loads(s, form) <=> s \in Registry!Loadable(form)
  BY LoadableIsGood
<1>3. ASSUME NEW s \in InRegistry.souls, Registry!Edit(s) PROVE WatchInv'
  <2>1. /\ steady' = steady \cap Registry!Loadable(form')
        /\ absent' = absent \ Registry!Loadable(form')
        /\ UNCHANGED <<at, queue, held, active, doomed>>
    BY <1>3, Zenon DEF Registry!Edit
  <2>2. Registry!Loadable(form)' = Registry!Loadable(form')
    BY DEF Registry!Loadable, Registry!Loads
  <2> QED
    BY <2>1, <2>2 DEF WatchInv
<1>4. ASSUME form' = form
      PROVE  Registry!Loadable(form)' = Registry!Loadable(form)
  BY <1>4 DEF Registry!Loadable, Registry!Loads
<1>5. ASSUME NEW c \in InRegistry.controllers, Registry!ListSouls(c)
      PROVE  WatchInv'
  <2>1. /\ form' = form /\ UNCHANGED <<held, doomed>>
        /\ at[c] = "idle" /\ at' = [at EXCEPT ![c] = "load"]
        /\ queue' = [queue EXCEPT ![c] =
                       {s \in InRegistry.souls : form[s] = "good"}]
        /\ active' = [active EXCEPT ![c] = {}]
    BY <1>5 DEF Registry!ListSouls
  <2>2. CASE Registry!Resting
    <3>1. /\ steady' = Registry!Loadable(form)
          /\ absent' = InRegistry.souls \ Registry!Loadable(form)
      BY <1>5, <2>2, Zenon DEF Registry!ListSouls
    <3>2. \A d \in InRegistry.controllers :
            at[d] = "idle" /\ held[d] = Registry!Nothing /\ doomed[d] = {}
      BY <2>2 DEF Registry!Resting, PassInv
    <3> QED
      BY <1>1, <1>2, <1>4, <2>1, <3>1, <3>2 DEF WatchInv
  <2>3. CASE ~Registry!Resting
    <3>1. UNCHANGED <<steady, absent>>
      BY <1>5, <2>3 DEF Registry!ListSouls
    <3> QED
      BY <1>1, <1>2, <1>4, <2>1, <3>1 DEF WatchInv
  <2> QED
    BY <2>2, <2>3
<1>6. ASSUME NEW c \in InRegistry.controllers, NEW s \in InRegistry.souls,
             Registry!LoadSoul(c, s)
      PROVE  WatchInv'
  <2>1. /\ at[c] = "load" /\ UNCHANGED <<form, at, doomed, steady, absent>>
        /\ queue' = [queue EXCEPT ![c] = queue[c] \ {s}]
    BY <1>6 DEF Registry!LoadSoul
  <2>2. CASE s \in Registry!Loadable(form)
    <3>1. /\ active' = [active EXCEPT ![c] = active[c] \cup {s}]
          /\ held' = [held EXCEPT ![c] = <<s, file[s]>>]
      BY <1>2, <1>6, <2>2 DEF Registry!LoadSoul
    <3>2. s \notin absent
      BY <2>2 DEF WatchInv
    <3> QED
      BY <1>1, <1>4, <2>1, <3>1, <3>2 DEF WatchInv
  <2>3. CASE s \notin Registry!Loadable(form)
    <3>1. UNCHANGED <<active, held>>
      BY <1>2, <1>6, <2>3 DEF Registry!LoadSoul
    <3>2. s \notin steady
      BY <2>3 DEF WatchInv
    <3> QED
      BY <1>1, <1>4, <2>1, <3>1, <3>2 DEF WatchInv
  <2> QED
    BY <2>2, <2>3
<1>7. ASSUME NEW c \in InRegistry.controllers, Registry!ListRows(c)
      PROVE  WatchInv'
  <2>1. /\ at[c] = "load" /\ queue[c] = {}
        /\ at' = [at EXCEPT ![c] = "delete"]
        /\ UNCHANGED <<form, queue, held, active, steady, absent>>
        /\ doomed' = [doomed EXCEPT ![c] =
             {s \in InRegistry.souls : row[s] # Registry!None} \ active[c]]
    BY <1>7 DEF Registry!ListRows
  <2> QED
    BY <1>1, <1>4, <2>1 DEF WatchInv
<1>8. CASE /\ UNCHANGED <<form, steady, absent>>
           /\ \A c \in InRegistry.controllers :
                /\ at'[c] \in {"idle", at[c]}
                /\ at'[c] # "idle" => queue'[c] = queue[c]
                /\ held'[c] \in {held[c], Registry!Nothing}
                /\ active'[c] = active[c] /\ doomed'[c] \subseteq doomed[c]
  BY <1>4, <1>8 DEF WatchInv
<1>9. ASSUME NEW c \in InRegistry.controllers,
             \/ Registry!Register(c) \/ Registry!FailRegister(c)
             \/ Registry!EndPass(c) \/ Registry!CutShort(c)
             \/ \E s \in InRegistry.souls : Registry!DeleteRow(c, s)
      PROVE  WatchInv'
  BY <1>1, <1>8, <1>9 DEF Registry!Register, Registry!FailRegister,
     Registry!EndPass, Registry!CutShort, Registry!DeleteRow
<1>10. CASE UNCHANGED registry
  BY <1>8, <1>10 DEF registry
<1> QED
  BY <1>3, <1>5, <1>6, <1>7, <1>9, <1>10 DEF RegistryStep, Registry!Next

\* Every step leaves the registry what the passes owe it, or to be done.
LEMMA DebtStep ==
  ASSUME Registry!CapabilityConstants, Registry!TypeOK, RowInv, RegistryStep
  PROVE  DebtInv'
<1> USE DEF Registry!files, Registry!pass
<1>1. /\ at \in [InRegistry.controllers -> {"idle", "load", "delete"}]
      /\ row \in [InRegistry.souls -> Registry!Versions \cup {Registry!None}]
      /\ queue \in [InRegistry.controllers -> SUBSET InRegistry.souls]
      /\ held \in [InRegistry.controllers ->
                     (InRegistry.souls \X Registry!Versions)
                       \cup {Registry!Nothing}]
      /\ doomed \in [InRegistry.controllers -> SUBSET InRegistry.souls]
      /\ steady \subseteq InRegistry.souls /\ absent \subseteq InRegistry.souls
  BY DEF Registry!TypeOK
<1>2. /\ Registry!Loadable(form) \subseteq InRegistry.souls
      /\ \A s \in Registry!Loadable(form) : form[s] = "good"
      /\ \A s \in InRegistry.souls :
           Registry!Loads(s, form) <=> s \in Registry!Loadable(form)
  BY LoadableIsGood
<1>3. PassInv /\ AgeInv /\ WatchInv /\ DebtInv
  BY DEF RowInv
<1>4. CASE /\ steady' \subseteq steady /\ absent' \subseteq absent
           /\ UNCHANGED <<row, began, hitch, at, queue, held, doomed>>
  BY <1>3, <1>4 DEF DebtInv
<1>5. ASSUME NEW s \in InRegistry.souls, Registry!Edit(s) PROVE DebtInv'
  BY <1>4, <1>5 DEF Registry!Edit
<1>6. ASSUME NEW c \in InRegistry.controllers, Registry!ListSouls(c)
      PROVE  DebtInv'
  <2>1. /\ UNCHANGED <<row, held, doomed>>
        /\ at[c] = "idle" /\ at' = [at EXCEPT ![c] = "load"]
        /\ queue' = [queue EXCEPT ![c] =
                       {s \in InRegistry.souls : form[s] = "good"}]
    BY <1>6 DEF Registry!ListSouls
  <2>2. CASE Registry!Resting
    <3>1. /\ steady' = Registry!Loadable(form) /\ began'.row = row
          /\ absent' = InRegistry.souls \ Registry!Loadable(form)
      BY <1>6, <2>2 DEF Registry!ListSouls
    <3>2. \A s \in steady' : s \in queue'[c] /\ row'[s] >= began'.row[s]
      <4>1. \A s \in InRegistry.souls : row[s] >= row[s]
        BY RegistryFacts
      <4> QED
        BY <1>1, <1>2, <2>1, <3>1, <4>1
    <3>3. at'[c] = "load"
      BY <1>1, <2>1
    <3> QED
      BY <3>2, <3>3 DEF DebtInv
  <2>3. CASE ~Registry!Resting
    <3>1. UNCHANGED <<steady, absent, began, hitch>>
      BY <1>6, <2>3 DEF Registry!ListSouls
    <3>2. queue[c] = {} /\ held[c] = Registry!Nothing /\ doomed[c] = {}
      BY <1>3, <2>1 DEF PassInv
    <3>3. \A d \in InRegistry.controllers : queue[d] \subseteq queue'[d]
      BY <1>1, <2>1, <3>2
    <3>4. \A d \in InRegistry.controllers : at[d] = "load" => at'[d] = "load"
      BY <1>1, <2>1
    <3> QED
      BY <1>3, <2>1, <3>1, <3>3, <3>4 DEF DebtInv
  <2> QED
    BY <2>2, <2>3
<1>7. ASSUME NEW c \in InRegistry.controllers, NEW s \in InRegistry.souls,
             Registry!LoadSoul(c, s)
      PROVE  DebtInv'
  <2>1. /\ UNCHANGED <<row, began, hitch, at, doomed, steady, absent>>
        /\ queue' = [queue EXCEPT ![c] = queue[c] \ {s}]
        /\ held[c] = Registry!Nothing
    BY <1>7 DEF Registry!LoadSoul
  <2>2. CASE s \in Registry!Loadable(form)
    <3>1. held' = [held EXCEPT ![c] = <<s, file[s]>>]
      BY <1>2, <1>7, <2>2 DEF Registry!LoadSoul
    <3>2. <<s, file[s]>> # Registry!Nothing
      BY RegistryFacts DEF Registry!Nothing, Registry!None
    <3>3. /\ held'[c] # Registry!Nothing /\ held'[c][1] = s
          /\ \A d \in InRegistry.controllers \ {c} :
               held'[d] = held[d] /\ queue'[d] = queue[d]
          /\ queue'[c] = queue[c] \ {s}
      BY <1>1, <2>1, <3>1, <3>2
    <3> QED
      BY <1>3, <2>1, <3>3 DEF DebtInv
  <2>3. CASE s \notin Registry!Loadable(form)
    <3>1. held' = held /\ s \notin steady
      BY <1>2, <1>3, <1>7, <2>3 DEF Registry!LoadSoul, WatchInv
    <3>2. \A d \in InRegistry.controllers : queue[d] \ {s} \subseteq queue'[d]
      BY <1>1, <2>1
    <3> QED
      BY <1>3, <2>1, <3>1, <3>2 DEF DebtInv
  <2> QED
    BY <2>2, <2>3
<1>8. ASSUME NEW c \in InRegistry.controllers, Registry!Register(c)
      PROVE  DebtInv'
  <2> DEFINE u == held[c][1]
  <2>1. /\ held[c] # Registry!Nothing
        /\ UNCHANGED <<began, hitch, at, queue, doomed, steady, absent>>
        /\ row' = [row EXCEPT ![u] = held[c][2]]
        /\ held' = [held EXCEPT ![c] = Registry!Nothing]
    BY <1>8 DEF Registry!Register
  <2>2. /\ u \in InRegistry.souls /\ u \notin absent
        /\ row'[u] >= began.sheet[u] /\ row'[u] >= began.row[u]
    <3>1. u \in InRegistry.souls /\ row'[u] = held[c][2]
      BY <1>1, <2>1, RegistryFacts
    <3>2. /\ began.sheet[u] <= held[c][2]
          /\ began.row[u] <= began.sheet[u]
      BY <1>3, <2>1, <3>1 DEF AgeInv
    <3>3. u \notin absent
      BY <1>3, <2>1 DEF WatchInv
    <3>4. /\ held[c][2] \in Nat /\ began.sheet[u] \in Nat
          /\ began.row[u] \in Int
      BY <2>1, <3>1, RegistryFacts
    <3> QED
      BY <3>1, <3>2, <3>3, <3>4
  <2>3. /\ \A s \in InRegistry.souls \ {u} : row'[s] = row[s]
        /\ \A d \in InRegistry.controllers \ {c} : held'[d] = held[d]
    BY <1>1, <2>1
  <2>4. ASSUME NEW s \in steady
        PROVE  /\ row'[s] >= began'.row[s]
               /\ hitch' \/ row'[s] >= began'.sheet[s] \/
                    \E d \in InRegistry.controllers :
                      \/ s \in queue'[d]
                      \/ held'[d] # Registry!Nothing /\ held'[d][1] = s
    <3>1. CASE s = u
      BY <2>1, <2>2, <3>1
    <3>2. CASE s # u
      BY <1>1, <1>3, <2>1, <2>3, <3>2 DEF DebtInv
    <3> QED
      BY <3>1, <3>2
  <2>5. ASSUME NEW s \in absent
        PROVE  hitch' \/ row'[s] = Registry!None \/
                 \E d \in InRegistry.controllers :
                   at'[d] = "load" \/ s \in doomed'[d]
    BY <1>1, <1>3, <2>1, <2>2, <2>3 DEF DebtInv
  <2> QED
    BY <2>1, <2>4, <2>5 DEF DebtInv
<1>9. ASSUME NEW c \in InRegistry.controllers,
             Registry!FailRegister(c) \/ Registry!CutShort(c)
      PROVE  DebtInv'
  <2>1. hitch' = TRUE /\ UNCHANGED <<row, began, steady, absent>>
    BY <1>9 DEF Registry!FailRegister, Registry!CutShort, Registry!Fault
  <2> QED
    BY <1>3, <2>1 DEF DebtInv
<1>10. ASSUME NEW c \in InRegistry.controllers, Registry!ListRows(c)
       PROVE  DebtInv'
  <2>1. /\ at[c] = "load"
        /\ UNCHANGED <<row, began, hitch, queue, held, steady, absent>>
        /\ at' = [at EXCEPT ![c] = "delete"]
        /\ doomed' = [doomed EXCEPT ![c] =
             {s \in InRegistry.souls : row[s] # Registry!None} \ active[c]]
    BY <1>10 DEF Registry!ListRows
  <2>2. active[c] \cap absent = {}
    BY <1>3, <2>1 DEF WatchInv
  <2>3. \A s \in absent : row[s] = Registry!None \/ s \in doomed'[c]
    BY <1>1, <2>1, <2>2
  <2> QED
    BY <1>3, <2>1, <2>3 DEF DebtInv
<1>11. ASSUME NEW c \in InRegistry.controllers, NEW s \in InRegistry.souls,
              Registry!DeleteRow(c, s)
       PROVE  DebtInv'
  <2>1. /\ s \in doomed[c] /\ row' = [row EXCEPT ![s] = Registry!None]
        /\ doomed' = [doomed EXCEPT ![c] = doomed[c] \ {s}]
        /\ UNCHANGED <<began, hitch, at, queue, held, steady, absent>>
    BY <1>11 DEF Registry!DeleteRow
  <2>2. s \notin steady
    BY <1>3, <2>1 DEF WatchInv
  <2>3. /\ row'[s] = Registry!None
        /\ \A u \in InRegistry.souls \ {s} : row'[u] = row[u]
        /\ \A d \in InRegistry.controllers : doomed[d] \ {s} \subseteq doomed'[d]
    BY <1>1, <2>1
  <2> QED
    BY <1>1, <1>3, <2>1, <2>2, <2>3 DEF DebtInv
<1>12. ASSUME NEW c \in InRegistry.controllers, Registry!EndPass(c)
       PROVE  DebtInv'
  <2>1. /\ at[c] = "delete" /\ doomed[c] = {}
        /\ at' = [at EXCEPT ![c] = "idle"]
        /\ UNCHANGED <<row, began, hitch, queue, held, doomed, steady, absent>>
    BY <1>12 DEF Registry!EndPass
  <2>2. \A d \in InRegistry.controllers : at[d] = "load" => at'[d] = "load"
    BY <1>1, <2>1
  <2> QED
    BY <1>3, <2>1, <2>2 DEF DebtInv
<1>13. CASE UNCHANGED registry
  BY <1>4, <1>13 DEF registry
<1> QED
  BY <1>5, <1>6, <1>7, <1>8, <1>9, <1>10, <1>11, <1>12, <1>13
  DEF RegistryStep, Registry!Next

\* The registry's variables keep their types.
THEOREM RegistryTypes == Spec => [](part = "registry" => Registry!TypeOK)
<1> DEFINE I == part = "registry" => Registry!TypeOK /\ RowInv
<1>1. Init => I
  BY PartsAreSound, RegistryStart DEF Init
<1>2. I /\ [Next]_vars => I'
  BY PartsAreSound, PartsMove, RegistryTypeStep, PassStep, AgeStep, WatchStep,
     DebtStep DEF RowInv
<1>3. I => (part = "registry" => Registry!TypeOK)
  OBVIOUS
<1> QED
  BY <1>1, <1>2, <1>3, PTL DEF Spec

\* When no pass is under way, the rows of souls that could be loaded all the
\* time tell of the sheets as the passes found them, or later ones, and those
\* of souls that never could are gone, although passes overlapped and sheets
\* were edited under them (PoolController._reconcile_capabilities).
THEOREM RegistryRowsFollow == Spec => []RowsFollowSheets
<1> DEFINE I == part = "registry" => Registry!TypeOK /\ RowInv
<1>1. Init => I
  BY PartsAreSound, RegistryStart DEF Init
<1>2. I /\ [Next]_vars => I'
  BY PartsAreSound, PartsMove, RegistryTypeStep, PassStep, AgeStep, WatchStep,
     DebtStep DEF RowInv
<1>3. I => RowsFollowSheets
  BY DEF RowInv, PassInv, DebtInv, RowsFollowSheets,
     Registry!RowsFollowSheets, Registry!Resting
<1> QED
  BY <1>1, <1>2, <1>3, PTL DEF Spec

(***************************************************************************)
(* The graph of the codebase (CanonicalModel).                             *)
(***************************************************************************)

\* A nonempty set of numbers has a least one.
LEMMA HasLeast ==
  ASSUME NEW S \in SUBSET Nat, S # {}
  PROVE  \E i \in S : \A j \in S : i <= j
<1>1. PICK x \in S : \A y \in S : ~ (<<y, x>> \in OpToRel(<, Nat))
  BY NatLessThanWellFounded, WFMin, Zenon
<1>2. \A y \in S : ~(y < x)
  BY <1>1 DEF OpToRel
<1> QED
  BY <1>2

\* One below a bound has a greatest one.
LEMMA HasGreatest ==
  ASSUME NEW n \in Nat, NEW S \in SUBSET (1..n), S # {}
  PROVE  \E i \in S : \A j \in S : i >= j
<1>0. n \in Int /\ \A j \in S : j \in Int
  OBVIOUS
<1> DEFINE T == {n - i : i \in S}
<1>1. T \in SUBSET Nat /\ T # {}
  <2>1. \A i \in S : i \in Int /\ i <= n
    OBVIOUS
  <2>2. \A i \in S : n - i \in Nat
    BY <2>1
  <2> QED
    BY <2>2
<1>2. PICK t \in T : \A u \in T : t <= u
  <2> HIDE DEF T
  <2> QED
    BY <1>1, HasLeast
<1>3. PICK i \in S : t = n - i
  OBVIOUS
<1>4. \A j \in S : n - i <= n - j
  BY <1>2, <1>3
<1>5. \A j \in S : i >= j
  <2> HIDE DEF T
  <2>1. ASSUME NEW j \in S PROVE i >= j
    <3>1. n - i <= n - j /\ i \in Int /\ j \in Int /\ n \in Int
      BY <1>0, <1>4
    <3> QED
      BY <3>1
  <2> QED
    BY <2>1
<1> QED
  BY <1>5

\* The first and the last file of the scan that have a name are among them.
LEMMA PlacesHaveEnds ==
  ASSUME NEW t, NEW k, Graph!Places(t, k) # {}
  PROVE  /\ Graph!First(Graph!Places(t, k)) \in Graph!Places(t, k)
         /\ Graph!Last(Graph!Places(t, k)) \in Graph!Places(t, k)
<1> DEFINE S == Graph!Places(t, k)
           n == Len(OfGraph.scanned)
<1>1. OfGraph.scanned \in Seq(OfGraph.files)
  BY PartsAreSound DEF Graph!ModelConstants
<1>2. n \in Nat /\ DOMAIN OfGraph.scanned = 1..n
  BY <1>1
<1>3. S \in SUBSET (1..n)
  BY <1>2 DEF Graph!Places
<1> HIDE DEF S, n
<1>4. \E i \in S : \A j \in S : i <= j
  BY <1>2, <1>3, HasLeast DEF S
<1>5. \E i \in S : \A j \in S : i >= j
  BY <1>2, <1>3, HasGreatest DEF S
<1>6. Graph!First(S) \in S
  BY <1>4 DEF Graph!First
<1>7. Graph!Last(S) \in S
  BY <1>5 DEF Graph!Last
<1> QED
  BY <1>6, <1>7 DEF S

\* A name that is not defined twice is in one file, and there once.
LEMMA OnlyPlace ==
  ASSUME NEW t, NEW k, NEW i \in Graph!Places(t, k), ~Graph!Twice(t, k)
  PROVE  Graph!Places(t, k) = {i} /\ ~(t[OfGraph.scanned[i]][k[2]] > 1)
BY DEF Graph!Twice

\* A file of the scan is a file.
LEMMA PlacesAreFiles ==
  ASSUME NEW t, NEW k, NEW i \in Graph!Places(t, k)
  PROVE  /\ OfGraph.scanned[i] \in OfGraph.files
         /\ OfGraph.owner[OfGraph.scanned[i]] = k[1]
         /\ t[OfGraph.scanned[i]][k[2]] > 0
<1>1. OfGraph.scanned \in Seq(OfGraph.files)
  BY PartsAreSound DEF Graph!ModelConstants
<1> QED
  BY <1>1 DEF Graph!Places

\* What a file defines is counted, up to the bound.
LEMMA SourcesCount ==
  ASSUME NEW t \in Graph!Trees, NEW f \in OfGraph.files,
         NEW n \in OfGraph.names \cup {Graph!Self}
  PROVE  t[f][n] \in 0..OfGraph.maxCopies
<1>1. OfGraph.maxCopies \in Nat \ {0}
  BY PartsAreSound, Zenon DEF Graph!ModelConstants
<1>2. t[f] \in Graph!Sources
  BY DEF Graph!Trees
<1>3. CASE t[f] = Graph!NoFile
  <2>1. t[f][n] = 0
    BY <1>3 DEF Graph!NoFile
  <2> QED
    BY <2>1, <1>1
<1>4. CASE t[f] # Graph!NoFile
  <2>1. t[f] \in [OfGraph.names \cup {Graph!Self} -> 0..OfGraph.maxCopies]
    BY <1>2, <1>4 DEF Graph!Sources
  <2> QED
    BY <2>1
<1> QED
  BY <1>3, <1>4

\* No id that a run makes is the mark of a row that is not there.
LEMMA NewIdsAreIds ==
  /\ Graph!NoId \notin Graph!NewIds
  /\ Graph!None \notin OfGraph.runs
<1>1. "none" \notin OfGraph.runs
  BY PartsAreSound, Zenon DEF Graph!ModelConstants
<1> QED
  BY <1>1 DEF Graph!NoId, Graph!NewIds, Graph!None

\* What a run has deleted is every row there is, unless it met another run; the
\* run whose table this is has ended.
WipeInv ==
  /\ fresh # Graph!None => progress[fresh] = "over"
  /\ \A r \in OfGraph.runs :
       /\ wiped[r] # {} => progress[r] = "wiped" /\ wiped[r] = Graph!Ids
       /\ progress[r] = "wiped" /\ r \notin met => wiped[r] = Graph!Ids

\* Each edge names a node that has a row.
EdgeInv ==
  \A k \in Graph!Keys : \A e \in edges[k] :
    node[<<k[1], e[3]>>] # Graph!NoId

\* What the run that made the table found is what the table holds.
WholeInv ==
  fresh # Graph!None => \A k \in Graph!Keys :
    /\ node[k] # Graph!NoId <=> Graph!Places(found[fresh], k) # {}
    /\ \A e \in edges[k] :
         \/ e \in Graph!Ids
         \/ Graph!Twice(found[fresh], <<k[1], e[3]>>)

\* Jobs that never ran at once are one at a time, and what is left for it to
\* do is without an embedding.
JobInv ==
  ~together =>
    /\ \A i, j \in OfGraph.jobs : job[i] = "busy" /\ job[j] = "busy" => i = j
    /\ \A j \in OfGraph.jobs : job[j] = "busy" =>
         \A c \in chunks : c[1] \notin rest[j]

GraphInv ==
  WipeInv /\ EdgeInv /\ WholeInv /\ JobInv /\ Graph!EmbeddedOnce

\* Edge e of k is one that run r writes.
EdgeOf(r, k, e) ==
  \E n \in OfGraph.names, m \in 1..OfGraph.maxCopies :
    LET i == Graph!Last(Graph!Places(found[r], k))
    IN  /\ i \in Graph!Places(found[r], <<k[1], n>>)
        /\ <<k[1], n>> \in Graph!Keys
        /\ m <= found[r][OfGraph.scanned[i]][n]
        /\ e = <<r, OfGraph.scanned[i], n, m>>

\* What Write makes of the rows, of their edges and of the history.
LEMMA WriteMakes ==
  ASSUME Graph!TypeOK, NEW r \in OfGraph.runs, Graph!Write(r)
  PROVE  /\ progress[r] \in {"scanned", "wiped"}
         /\ \A s \in OfGraph.runs \ {r} : wiped[s] = {}
         /\ progress' = [progress EXCEPT ![r] = "over"]
         /\ wiped' = [wiped EXCEPT ![r] = {}]
         /\ node' \in [Graph!Keys -> Graph!NewIds \cup {Graph!NoId}]
         /\ edges' \in [Graph!Keys -> SUBSET Graph!NewIds]
         /\ chunks' = {c \in chunks : c[1] \notin wiped[r]}
         /\ fresh' = IF r \notin met /\ (progress[r] = "wiped" \/ Graph!Ids = {})
                     THEN r ELSE Graph!None
         /\ met' = met \cup {s \in OfGraph.runs \ {r} : progress[s] = "wiped"}
         /\ UNCHANGED <<code, changes, found, job, rest, together, refused>>
         /\ \A k \in Graph!Keys :
              /\ Graph!Kept(r, k) # Graph!NoId => node'[k] = Graph!Kept(r, k)
              /\ Graph!Places(found[r], k) = {} =>
                   /\ node'[k] = Graph!Kept(r, k)
                   /\ edges'[k] = IF Graph!Kept(r, k) = Graph!NoId THEN {}
                                  ELSE edges[k]
              /\ Graph!Places(found[r], k) # {} =>
                   /\ node'[k] # Graph!NoId
                   /\ Graph!Kept(r, k) = Graph!NoId =>
                        node'[k] =
                          <<r, OfGraph.scanned[Graph!First(Graph!Places(found[r], k))],
                            k[2], 1>>
                   /\ \A e \in edges'[k] : EdgeOf(r, k, e)
<1> DEFINE of(k) == Graph!Places(found[r], k)
           id(i, n, m) == <<r, OfGraph.scanned[i], n, m>>
           final(k) == Graph!Last(of(k))
           N(k) == IF Graph!Kept(r, k) # Graph!NoId \/ of(k) = {}
                   THEN Graph!Kept(r, k)
                   ELSE id(Graph!First(of(k)), k[2], 1)
           E(k) == IF of(k) = {} THEN IF Graph!Kept(r, k) = Graph!NoId THEN {}
                                      ELSE edges[k]
                   ELSE IF k[2] # Graph!Self THEN {}
                   ELSE UNION {{id(final(k), n, m) :
                                  m \in 1..found[r][OfGraph.scanned[final(k)]][n]} :
                               n \in OfGraph.names}
<1>1. /\ node' = [k \in Graph!Keys |-> N(k)]
      /\ edges' = [k \in Graph!Keys |-> E(k)]
  BY DEF Graph!Write
<1>2. found[r] \in Graph!Trees
  BY DEF Graph!TypeOK
<1>3. ASSUME NEW k \in Graph!Keys, of(k) # {}
      PROVE  /\ id(Graph!First(of(k)), k[2], 1) \in Graph!NewIds
             /\ final(k) \in of(k)
             /\ OfGraph.scanned[final(k)] \in OfGraph.files
             /\ OfGraph.owner[OfGraph.scanned[final(k)]] = k[1]
  <2>1. Graph!First(of(k)) \in of(k) /\ final(k) \in of(k)
    BY <1>3, PlacesHaveEnds, Zenon
  <2>2. /\ OfGraph.scanned[Graph!First(of(k))] \in OfGraph.files
        /\ OfGraph.scanned[final(k)] \in OfGraph.files
        /\ OfGraph.owner[OfGraph.scanned[final(k)]] = k[1]
    BY <2>1, PlacesAreFiles, Zenon
  <2>3. 1 \in 1..OfGraph.maxCopies
    <3>1. OfGraph.maxCopies \in Nat \ {0}
      BY PartsAreSound, Zenon DEF Graph!ModelConstants
    <3> QED
      BY <3>1
  <2>4. k[2] \in OfGraph.names \cup {Graph!Self}
    BY DEF Graph!Keys
  <2> HIDE DEF of
  <2>5. id(Graph!First(of(k)), k[2], 1) \in Graph!NewIds
    BY <2>2, <2>3, <2>4 DEF Graph!NewIds
  <2> QED
    BY <2>1, <2>2, <2>5
<1>4. ASSUME NEW k \in Graph!Keys
      PROVE  Graph!Kept(r, k) \in Graph!NewIds \cup {Graph!NoId}
  BY DEF Graph!Kept, Graph!TypeOK
<1>5. ASSUME NEW k \in Graph!Keys, of(k) # {}, NEW n \in OfGraph.names,
             NEW m \in 1..found[r][OfGraph.scanned[final(k)]][n]
      PROVE  /\ final(k) \in Graph!Places(found[r], <<k[1], n>>)
             /\ <<k[1], n>> \in Graph!Keys
             /\ m \in 1..OfGraph.maxCopies
             /\ m <= found[r][OfGraph.scanned[final(k)]][n]
             /\ id(final(k), n, m) \in Graph!NewIds
  <2> DEFINE i == final(k)
             f == OfGraph.scanned[i]
             c == found[r][f][n]
  <2>1. i \in of(k) /\ f \in OfGraph.files /\ OfGraph.owner[f] = k[1]
    BY <1>3, <1>5
  <2>2. i \in DOMAIN OfGraph.scanned
    BY <2>1, Zenon DEF Graph!Places
  <2>3. c \in 0..OfGraph.maxCopies
    BY <2>1, <1>2, SourcesCount, Zenon
  <2>4. m \in 1..OfGraph.maxCopies /\ m <= c /\ c > 0
    <3>1. OfGraph.maxCopies \in Nat
      BY PartsAreSound, Zenon DEF Graph!ModelConstants
    <3>2. m \in 1..c
      OBVIOUS
    <3> HIDE DEF c
    <3> QED
      BY <2>3, <3>1, <3>2
  <2> HIDE DEF of, final, i
  <2>5. i \in Graph!Places(found[r], <<k[1], n>>)
    BY <2>1, <2>2, <2>4 DEF Graph!Places
  <2>6. <<k[1], n>> \in Graph!Keys
    BY <2>1 DEF Graph!Keys
  <2>7. <<r, f, n, m>> \in Graph!NewIds
    BY <2>1, <2>4 DEF Graph!NewIds
  <2> QED
    BY <2>4, <2>5, <2>6, <2>7 DEF i
<1>6. \A k \in Graph!Keys : edges[k] \in SUBSET Graph!NewIds
  BY DEF Graph!TypeOK
<1> HIDE DEF of, final
<1>7. node' \in [Graph!Keys -> Graph!NewIds \cup {Graph!NoId}]
  <2>1. \A k \in Graph!Keys : N(k) \in Graph!NewIds \cup {Graph!NoId}
    BY <1>3, <1>4
  <2> HIDE DEF N
  <2> QED
    BY <1>1, <2>1
<1>8. ASSUME NEW k \in Graph!Keys, NEW e \in E(k)
      PROVE  e \in Graph!NewIds
  <2>1. CASE of(k) = {}
    <3>1. e \in edges[k]
      BY <2>1, <1>8
    <3> QED
      BY <3>1, <1>6
  <2>2. CASE of(k) # {}
    <3>1. PICK n \in OfGraph.names :
            \E m \in 1..found[r][OfGraph.scanned[final(k)]][n] :
              e = id(final(k), n, m)
      BY <2>2, <1>8
    <3>2. PICK m \in 1..found[r][OfGraph.scanned[final(k)]][n] :
            e = id(final(k), n, m)
      BY <3>1
    <3>3. id(final(k), n, m) \in Graph!NewIds
      BY <2>2, <1>5, Zenon
    <3> QED
      BY <3>2, <3>3, Zenon
  <2> QED
    BY <2>1, <2>2
<1>9. edges' \in [Graph!Keys -> SUBSET Graph!NewIds]
  <2> HIDE DEF E
  <2>1. \A k \in Graph!Keys : E(k) \in SUBSET Graph!NewIds
    BY <1>8
  <2> QED
    BY <1>1, <2>1
<1>10. \A k \in Graph!Keys :
         /\ Graph!Kept(r, k) # Graph!NoId => node'[k] = Graph!Kept(r, k)
         /\ of(k) = {} =>
              /\ node'[k] = Graph!Kept(r, k)
              /\ edges'[k] = IF Graph!Kept(r, k) = Graph!NoId THEN {}
                             ELSE edges[k]
         /\ of(k) # {} /\ Graph!Kept(r, k) = Graph!NoId =>
              node'[k] = id(Graph!First(of(k)), k[2], 1)
  BY <1>1
<1>11. \A k \in Graph!Keys : of(k) # {} => node'[k] # Graph!NoId
  <2>1. ASSUME NEW k \in Graph!Keys, of(k) # {}, Graph!Kept(r, k) = Graph!NoId
        PROVE  node'[k] # Graph!NoId
    <3>1. node'[k] = id(Graph!First(of(k)), k[2], 1)
      BY <2>1, <1>10, Zenon
    <3>2. id(Graph!First(of(k)), k[2], 1) \in Graph!NewIds
      BY <2>1, <1>3, Zenon
    <3> HIDE DEF id
    <3> QED
      BY <3>1, <3>2, NewIdsAreIds
  <2>2. \A k \in Graph!Keys : Graph!Kept(r, k) # Graph!NoId =>
          node'[k] # Graph!NoId
    BY <1>10, Zenon
  <2> QED
    BY <2>1, <2>2, Zenon
<1>12. ASSUME NEW k \in Graph!Keys, of(k) # {}, NEW e \in edges'[k]
       PROVE  EdgeOf(r, k, e)
  <2>1. e \in E(k)
    BY <1>1, <1>12
  <2>2. PICK n \in OfGraph.names :
          \E m \in 1..found[r][OfGraph.scanned[final(k)]][n] : e = id(final(k), n, m)
    BY <2>1, <1>12
  <2>3. PICK m \in 1..found[r][OfGraph.scanned[final(k)]][n] : e = id(final(k), n, m)
    BY <2>2
  <2>4. /\ final(k) \in Graph!Places(found[r], <<k[1], n>>)
        /\ <<k[1], n>> \in Graph!Keys
        /\ m \in 1..OfGraph.maxCopies
        /\ m <= found[r][OfGraph.scanned[final(k)]][n]
    BY <1>5, <1>12, Zenon
  <2> QED
    BY <2>3, <2>4, Zenon DEF EdgeOf, of, final
<1>13. /\ progress[r] \in {"scanned", "wiped"}
       /\ \A s \in OfGraph.runs \ {r} : wiped[s] = {}
       /\ progress' = [progress EXCEPT ![r] = "over"]
       /\ wiped' = [wiped EXCEPT ![r] = {}]
       /\ chunks' = {c \in chunks : c[1] \notin wiped[r]}
       /\ fresh' = IF r \notin met /\ (progress[r] = "wiped" \/ Graph!Ids = {})
                   THEN r ELSE Graph!None
       /\ met' = met \cup {s \in OfGraph.runs \ {r} : progress[s] = "wiped"}
       /\ UNCHANGED <<code, changes, found, job, rest, together, refused>>
  BY Zenon DEF Graph!Write, Graph!tree, Graph!work
<1> QED
  BY <1>7, <1>9, <1>10, <1>11, <1>12, <1>13, Zenon DEF of, final

\* The same for one row.
LEMMA WriteMakesRow ==
  ASSUME Graph!TypeOK, NEW r \in OfGraph.runs, Graph!Write(r),
         NEW k \in Graph!Keys
  PROVE  /\ Graph!Kept(r, k) # Graph!NoId => node'[k] = Graph!Kept(r, k)
         /\ Graph!Places(found[r], k) = {} =>
              /\ node'[k] = Graph!Kept(r, k)
              /\ edges'[k] = IF Graph!Kept(r, k) = Graph!NoId THEN {} ELSE edges[k]
         /\ Graph!Places(found[r], k) # {} =>
              /\ node'[k] # Graph!NoId
              /\ Graph!Kept(r, k) = Graph!NoId =>
                   node'[k] =
                     <<r, OfGraph.scanned[Graph!First(Graph!Places(found[r], k))],
                       k[2], 1>>
              /\ \A e \in edges'[k] : EdgeOf(r, k, e)
BY WriteMakes, Zenon

\* A fault is counted.
LEMMA MoreFaults ==
  ASSUME Graph!TypeOK, Graph!Fault
  PROVE  refused' \in 0..OfGraph.maxFaults
<1>1. refused \in 0..OfGraph.maxFaults
  BY Zenon DEF Graph!TypeOK
<1>2. refused < OfGraph.maxFaults /\ refused' = refused + 1
  BY DEF Graph!Fault
<1>3. OfGraph.maxFaults \in Nat
  BY PartsAreSound, Zenon DEF Graph!ModelConstants
<1> QED
  BY <1>1, <1>2, <1>3

\* What a batch writes, and what it leaves to do.
LEMMA BatchMakes ==
  ASSUME NEW j \in OfGraph.jobs, Graph!EmbedBatch(j)
  PROVE  \E ids \in SUBSET rest[j] :
           \/ /\ ids \subseteq Graph!Ids
              /\ chunks' = chunks \cup {<<i, j>> : i \in ids}
              /\ rest' = [rest EXCEPT ![j] = @ \ ids]
           \/ rest' = [rest EXCEPT ![j] = {}] /\ UNCHANGED chunks
<1>1. PICK ids \in Graph!AtMost(OfGraph.batch, rest[j]) :
        IF ids \subseteq Graph!Ids
        THEN /\ chunks' = chunks \cup {<<i, j>> : i \in ids}
             /\ rest' = [rest EXCEPT ![j] = @ \ ids]
        ELSE rest' = [rest EXCEPT ![j] = {}] /\ UNCHANGED chunks
  BY Zenon DEF Graph!EmbedBatch
<1>2. ids \in SUBSET rest[j]
  BY DEF Graph!AtMost
<1> QED
  BY <1>1, <1>2, Zenon

\* Every step of the graph keeps its types.
LEMMA GraphTypesHold ==
  ASSUME Graph!TypeOK, GraphStep
  PROVE  Graph!TypeOK'
<1> USE DEF Graph!TypeOK
<1>1. CASE UNCHANGED graph
  BY <1>1, Zenon
     DEF graph, Graph!Keys, Graph!NewIds, Graph!Trees, Graph!Sources,
         Graph!NoFile
<1>2. ASSUME NEW f \in OfGraph.files, Graph!Edit(f)
      PROVE  Graph!TypeOK'
  <2>1. PICK c \in Graph!Sources : code' = [code EXCEPT ![f] = c]
    BY <1>2 DEF Graph!Edit
  <2>2. code' \in Graph!Trees
    BY <2>1 DEF Graph!Trees
  <2>3. changes' \in 0..OfGraph.maxEdits
    <3>1. changes \in 0..OfGraph.maxEdits /\ changes < OfGraph.maxEdits
      BY <1>2 DEF Graph!Edit
    <3>2. changes' = changes + 1
      BY <1>2, Zenon DEF Graph!Edit
    <3>3. OfGraph.maxEdits \in Nat
      BY PartsAreSound, Zenon DEF Graph!ModelConstants
    <3> HIDE DEF Graph!TypeOK
    <3> QED
      BY <3>1, <3>2, <3>3
  <2> QED
    BY <1>2, <2>2, <2>3, Zenon
       DEF Graph!Edit, Graph!table, Graph!run, Graph!work
<1>3. ASSUME NEW r \in OfGraph.runs, Graph!Scan(r)
      PROVE  Graph!TypeOK'
  BY <1>3 DEF Graph!Scan, Graph!tree, Graph!table, Graph!work
<1>4. ASSUME NEW r \in OfGraph.runs, Graph!Wipe(r)
      PROVE  Graph!TypeOK'
  <2>1. Graph!Ids \in SUBSET Graph!NewIds
    BY DEF Graph!Ids
  <2> QED
    BY <1>4, <2>1 DEF Graph!Wipe, Graph!tree, Graph!table, Graph!work
<1>5. ASSUME NEW r \in OfGraph.runs, Graph!Write(r)
      PROVE  Graph!TypeOK'
  <2>1. /\ node' \in [Graph!Keys -> Graph!NewIds \cup {Graph!NoId}]
        /\ edges' \in [Graph!Keys -> SUBSET Graph!NewIds]
        /\ progress' = [progress EXCEPT ![r] = "over"]
        /\ wiped' = [wiped EXCEPT ![r] = {}]
        /\ chunks' = {c \in chunks : c[1] \notin wiped[r]}
        /\ fresh' = r \/ fresh' = Graph!None
        /\ met' = met \cup {s \in OfGraph.runs \ {r} : progress[s] = "wiped"}
        /\ UNCHANGED <<code, changes, found, job, rest, together, refused>>
    <3> HIDE DEF Graph!TypeOK
    <3> QED
      BY <1>5, WriteMakes, Zenon DEF Graph!TypeOK
  <2>2. met' \subseteq OfGraph.runs /\ chunks' \subseteq chunks
    BY <2>1
  <2>3. /\ progress' \in [OfGraph.runs -> {"new", "scanned", "wiped", "over"}]
        /\ wiped' \in [OfGraph.runs -> SUBSET Graph!NewIds]
    BY <2>1
  <2>4. chunks' \subseteq Graph!NewIds \X OfGraph.jobs
    BY <2>2
  <2> QED
    BY <2>1, <2>2, <2>3, <2>4, Zenon
<1>6. ASSUME NEW r \in OfGraph.runs, Graph!FailRun(r)
      PROVE  Graph!TypeOK'
  <2>1. refused' \in 0..OfGraph.maxFaults
    BY <1>6, MoreFaults, Zenon DEF Graph!FailRun
  <2> QED
    BY <1>6, <2>1 DEF Graph!FailRun, Graph!tree, Graph!table, Graph!work
<1>7. ASSUME NEW j \in OfGraph.jobs, Graph!Pick(j)
      PROVE  Graph!TypeOK'
  <2>1. PICK ids \in Graph!AtMost(OfGraph.limit, Graph!Unembedded) :
          /\ rest' = [rest EXCEPT ![j] = ids]
          /\ job' = [job EXCEPT ![j] = IF ids = {} THEN "over" ELSE "busy"]
    BY <1>7, Zenon DEF Graph!Pick
  <2>2. ids \in SUBSET Graph!NewIds
    <3>1. ids \subseteq Graph!Ids
      BY DEF Graph!AtMost, Graph!Unembedded
    <3> QED
      BY <3>1 DEF Graph!Ids
  <2>3. /\ rest' \in [OfGraph.jobs -> SUBSET Graph!NewIds]
        /\ job' \in [OfGraph.jobs -> {"new", "busy", "over"}]
    BY <2>1, <2>2
  <2>4. together' \in BOOLEAN
    BY <1>7, Zenon DEF Graph!Pick
  <2> QED
    BY <1>7, <2>3, <2>4, Zenon
       DEF Graph!Pick, Graph!tree, Graph!table, Graph!run
<1>8. ASSUME NEW j \in OfGraph.jobs, Graph!EmbedBatch(j)
      PROVE  Graph!TypeOK'
  <2>1. PICK ids \in SUBSET rest[j] :
          \/ /\ chunks' = chunks \cup {<<i, j>> : i \in ids}
             /\ rest' = [rest EXCEPT ![j] = @ \ ids]
          \/ rest' = [rest EXCEPT ![j] = {}] /\ UNCHANGED chunks
    BY <1>8, BatchMakes, Zenon
  <2>2. ids \subseteq Graph!NewIds
    BY <2>1
  <2>3. /\ chunks' \subseteq Graph!NewIds \X OfGraph.jobs
        /\ rest' \in [OfGraph.jobs -> SUBSET Graph!NewIds]
    BY <2>1, <2>2
  <2>4. job' \in [OfGraph.jobs -> {"new", "busy", "over"}]
    BY <1>8 DEF Graph!EmbedBatch
  <2> QED
    BY <1>8, <2>3, <2>4, Zenon
       DEF Graph!EmbedBatch, Graph!tree, Graph!table, Graph!run
<1>9. ASSUME NEW j \in OfGraph.jobs, Graph!FailBatch(j)
      PROVE  Graph!TypeOK'
  <2>1. refused' \in 0..OfGraph.maxFaults
    BY <1>9, MoreFaults, Zenon DEF Graph!FailBatch
  <2> QED
    BY <1>9, <2>1 DEF Graph!FailBatch, Graph!tree, Graph!table, Graph!run
<1> QED
  BY <1>1, <1>2, <1>3, <1>4, <1>5, <1>6, <1>7, <1>8, <1>9, Zenon
     DEF GraphStep, Graph!Next

\* The graph starts empty.
LEMMA GraphStarts ==
  Graph!Init => Graph!TypeOK /\ GraphInv
<1> SUFFICES ASSUME Graph!Init
             PROVE  Graph!TypeOK /\ GraphInv
  OBVIOUS
<1>1. OfGraph.maxEdits \in Nat /\ OfGraph.maxFaults \in Nat
  BY PartsAreSound, Zenon DEF Graph!ModelConstants
<1>2. 0 \in 0..OfGraph.maxEdits /\ 0 \in 0..OfGraph.maxFaults
  BY <1>1
<1>3. [f \in OfGraph.files |-> Graph!NoFile] \in Graph!Trees
  BY DEF Graph!Trees, Graph!Sources
<1>4. Graph!TypeOK
  <2>1. /\ node \in [Graph!Keys -> Graph!NewIds \cup {Graph!NoId}]
        /\ edges \in [Graph!Keys -> SUBSET Graph!NewIds]
        /\ progress \in [OfGraph.runs -> {"new", "scanned", "wiped", "over"}]
        /\ wiped \in [OfGraph.runs -> SUBSET Graph!NewIds]
        /\ job \in [OfGraph.jobs -> {"new", "busy", "over"}]
        /\ rest \in [OfGraph.jobs -> SUBSET Graph!NewIds]
    BY DEF Graph!Init
  <2>2. found \in [OfGraph.runs -> Graph!Trees]
    BY <1>3 DEF Graph!Init
  <2> QED
    BY <1>2, <2>1, <2>2 DEF Graph!Init, Graph!TypeOK
<1>5. WipeInv
  BY DEF Graph!Init, WipeInv
<1>6. EdgeInv /\ WholeInv
  BY DEF Graph!Init, EdgeInv, WholeInv
<1>7. JobInv /\ Graph!EmbeddedOnce
  BY DEF Graph!Init, JobInv, Graph!EmbeddedOnce
<1> QED
  BY <1>4, <1>5, <1>6, <1>7 DEF GraphInv

\* What does not touch the table, the runs nor the history leaves the
\* invariant of the rows as it is.
LEMMA RowsStay ==
  ASSUME WipeInv, EdgeInv, WholeInv,
         UNCHANGED <<node, edges, progress, found, wiped, fresh, met>>
  PROVE  WipeInv' /\ EdgeInv' /\ WholeInv'
BY DEF WipeInv, EdgeInv, WholeInv, Graph!Ids, Graph!Keys, Graph!Places,
       Graph!Twice

\* The rows that a writing run finds are all of them, and stay, or all go.
LEMMA AllOrNothing ==
  ASSUME WipeInv, NEW r \in OfGraph.runs, NEW k \in Graph!Keys,
         Graph!Kept(r, k) # Graph!NoId
  PROVE  /\ node[k] # Graph!NoId
         /\ \A l \in Graph!Keys : Graph!Kept(r, l) = node[l]
<1>1. node[k] \notin wiped[r] /\ node[k] # Graph!NoId
  BY DEF Graph!Kept
<1>2. wiped[r] = {}
  BY <1>1 DEF WipeInv, Graph!Ids
<1> QED
  BY <1>1, <1>2 DEF Graph!Kept

\* Writing a file keeps what is known of rows.
LEMMA WriteKeepsRows ==
  ASSUME Graph!TypeOK, WipeInv, EdgeInv, WholeInv,
         NEW r \in OfGraph.runs, Graph!Write(r)
  PROVE  WipeInv' /\ EdgeInv' /\ WholeInv'
<1> DEFINE of(k) == Graph!Places(found[r], k)
<1>1. /\ \A s \in OfGraph.runs \ {r} : wiped'[s] = {}
      /\ wiped'[r] = {} /\ progress'[r] = "over"
      /\ \A s \in OfGraph.runs \ {r} :
           progress'[s] = progress[s] /\ (progress[s] = "wiped" => s \in met')
      /\ found' = found
    BY WriteMakes DEF Graph!TypeOK
<1>2. fresh' # Graph!None =>
        /\ fresh' = r /\ progress[r] \in {"scanned", "wiped"}
        /\ r \notin met /\ (progress[r] = "wiped" \/ Graph!Ids = {})
  BY WriteMakes
<1>3. WipeInv'
  <2>1. fresh' # Graph!None => progress'[fresh'] = "over"
    BY <1>1, <1>2
  <2>2. \A s \in OfGraph.runs :
          wiped'[s] = {} /\ (progress'[s] = "wiped" => s \in met')
    BY <1>1
  <2> QED
    BY <2>1, <2>2 DEF WipeInv
<1>4. EdgeInv'
  <2> SUFFICES ASSUME NEW k \in Graph!Keys, NEW e \in edges'[k]
               PROVE  node'[<<k[1], e[3]>>] # Graph!NoId
    BY DEF EdgeInv, Graph!Keys
  <2>1. CASE of(k) # {}
    <3>1. PICK n \in OfGraph.names, m \in 1..OfGraph.maxCopies :
            LET i == Graph!Last(of(k))
            IN  /\ i \in Graph!Places(found[r], <<k[1], n>>)
                /\ <<k[1], n>> \in Graph!Keys
                /\ e = <<r, OfGraph.scanned[i], n, m>>
      <4>1. EdgeOf(r, k, e)
        BY <2>1, WriteMakesRow, Zenon
      <4> QED
        BY <4>1, Zenon DEF EdgeOf
    <3>2. e[3] = n /\ Graph!Places(found[r], <<k[1], n>>) # {}
      BY <3>1
    <3>3. node'[<<k[1], n>>] # Graph!NoId
      BY <3>1, <3>2, WriteMakesRow, Zenon
    <3> QED
      BY <3>2, <3>3
  <2>2. CASE of(k) = {}
    <3>1. Graph!Kept(r, k) # Graph!NoId /\ e \in edges[k]
      <4>1. edges'[k] = IF Graph!Kept(r, k) = Graph!NoId THEN {} ELSE edges[k]
        BY <2>2, WriteMakesRow, Zenon
      <4> QED
        BY <4>1
    <3>2. node[<<k[1], e[3]>>] # Graph!NoId
      BY <3>1 DEF EdgeInv
    <3>3. <<k[1], e[3]>> \in Graph!Keys
      <4>1. e \in Graph!NewIds
        BY <3>1 DEF Graph!TypeOK
      <4> QED
        BY <4>1 DEF Graph!NewIds, Graph!Keys
    <3>4. Graph!Kept(r, <<k[1], e[3]>>) # Graph!NoId
      BY <3>1, <3>2, <3>3, AllOrNothing
    <3>5. node'[<<k[1], e[3]>>] = Graph!Kept(r, <<k[1], e[3]>>)
      BY <3>3, <3>4, WriteMakesRow, Zenon
    <3> QED
      BY <3>4, <3>5
  <2> QED
    BY <2>1, <2>2
<1>5. ASSUME fresh' # Graph!None, NEW k \in Graph!Keys
      PROVE  Graph!Kept(r, k) = Graph!NoId
  <2>1. progress[r] = "wiped" => wiped[r] = Graph!Ids
    BY <1>2, <1>5 DEF WipeInv
  <2>2. node[k] = Graph!NoId \/ node[k] \in Graph!Ids
    BY DEF Graph!Ids
  <2> QED
    BY <2>1, <2>2, <1>2, <1>5 DEF Graph!Kept
<1>6. ASSUME fresh' # Graph!None, NEW k \in Graph!Keys
      PROVE  node'[k] # Graph!NoId <=> of(k) # {}
  BY <1>5, <1>6, WriteMakesRow, Zenon
<1>7. ASSUME fresh' # Graph!None, NEW k \in Graph!Keys, NEW e \in edges'[k],
             ~Graph!Twice(found[r], <<k[1], e[3]>>)
      PROVE  e \in Graph!Ids'
  <2>1. of(k) # {}
    <3>1. CASE of(k) = {}
      <4>1. edges'[k] = {}
        BY <1>5, <1>7, <3>1, WriteMakesRow, Zenon
      <4> QED
        BY <4>1, <1>7
    <3> QED
      BY <3>1
  <2> DEFINE i == Graph!Last(of(k))
  <2>2. PICK n \in OfGraph.names, m \in 1..OfGraph.maxCopies :
          /\ i \in Graph!Places(found[r], <<k[1], n>>)
          /\ <<k[1], n>> \in Graph!Keys
          /\ m <= found[r][OfGraph.scanned[i]][n]
          /\ e = <<r, OfGraph.scanned[i], n, m>>
    <3>1. EdgeOf(r, k, e)
      BY <1>7, <2>1, WriteMakesRow, Zenon
    <3> QED
      BY <3>1, Zenon DEF EdgeOf
  <2> DEFINE l == <<k[1], n>>
  <2>3. e[3] = n /\ l[2] = n
    BY <2>2
  <2>4. Graph!Places(found[r], l) = {i} /\ m = 1
    <3>1. ~Graph!Twice(found[r], l)
      BY <1>7, <2>3
    <3>2. i \in Graph!Places(found[r], l)
      BY <2>2
    <3>3. OfGraph.scanned[i] \in OfGraph.files /\ found[r] \in Graph!Trees
      BY <3>2, PlacesAreFiles DEF Graph!TypeOK
    <3> DEFINE c == found[r][OfGraph.scanned[i]][n]
    <3>4. c \in 0..OfGraph.maxCopies /\ OfGraph.maxCopies \in Nat
      <4>1. OfGraph.maxCopies \in Nat
        BY PartsAreSound, Zenon DEF Graph!ModelConstants
      <4> HIDE DEF i
      <4> QED
        BY <3>3, <4>1, SourcesCount
    <3> HIDE DEF l, i
    <3>5. Graph!Places(found[r], l) = {i}
          /\ ~(found[r][OfGraph.scanned[i]][l[2]] > 1)
      BY <3>1, <3>2, OnlyPlace
    <3>6. ~(c > 1) /\ m <= c
      BY <3>5, <2>2, <2>3
    <3> HIDE DEF c
    <3>7. m = 1
      BY <3>4, <3>6
    <3> QED
      BY <3>5, <3>7
  <2> HIDE DEF i
  <2>5. Graph!First(Graph!Places(found[r], l)) = i
    <3>1. Graph!First(Graph!Places(found[r], l)) \in Graph!Places(found[r], l)
      BY <2>4, PlacesHaveEnds
    <3> QED
      BY <3>1, <2>4
  <2>6. node'[l] =
          <<r, OfGraph.scanned[Graph!First(Graph!Places(found[r], l))], l[2], 1>>
    <3> HIDE DEF l
    <3>1. Graph!Places(found[r], l) # {} /\ Graph!Kept(r, l) = Graph!NoId
      BY <1>5, <1>7, <2>2, <2>4 DEF l
    <3>2. l \in Graph!Keys
      BY <2>2 DEF l
    <3> QED
      BY <3>1, <3>2, WriteMakesRow, Zenon
  <2>7. node'[l] = e
    BY <2>2, <2>3, <2>4, <2>5, <2>6
  <2>8. node'[l] # Graph!NoId /\ l \in Graph!Keys
    <3>1. e # Graph!NoId
      BY <2>2, NewIdsAreIds DEF Graph!NoId
    <3> QED
      BY <3>1, <2>2, <2>7
  <2> QED
    BY <2>7, <2>8 DEF Graph!Ids, Graph!Keys
<1>8. WholeInv'
  <2> SUFFICES ASSUME fresh' # Graph!None, NEW k \in Graph!Keys
               PROVE  /\ node'[k] # Graph!NoId <=> of(k) # {}
                      /\ \A e \in edges'[k] :
                           \/ e \in Graph!Ids'
                           \/ Graph!Twice(found[r], <<k[1], e[3]>>)
    <3>1. fresh' # Graph!None => found'[fresh'] = found[r]
      BY <1>1, <1>2
    <3> QED
      BY <3>1 DEF WholeInv, Graph!Keys, Graph!Places, Graph!Twice
  <2> QED
    BY <1>6, <1>7
<1> QED
  BY <1>3, <1>4, <1>8

\* Scans that begin, wipe or end keep it too.
LEMMA RunsKeepRows ==
  ASSUME Graph!TypeOK, WipeInv, EdgeInv, WholeInv, NEW r \in OfGraph.runs,
         Graph!Scan(r) \/ Graph!Wipe(r) \/ Graph!FailRun(r)
  PROVE  WipeInv' /\ EdgeInv' /\ WholeInv'
<1>1. UNCHANGED <<node, edges, fresh, met>>
  BY Zenon DEF Graph!Scan, Graph!Wipe, Graph!FailRun, Graph!table
<1>2. EdgeInv'
  BY <1>1 DEF EdgeInv, Graph!Keys
<1>3. progress \in [OfGraph.runs -> {"new", "scanned", "wiped", "over"}]
      /\ found \in [OfGraph.runs -> Graph!Trees]
      /\ wiped \in [OfGraph.runs -> SUBSET Graph!NewIds]
      /\ fresh \in OfGraph.runs \cup {Graph!None}
  BY Zenon DEF Graph!TypeOK
<1>4. Graph!Ids' = Graph!Ids
  BY <1>1 DEF Graph!Ids, Graph!Keys
<1>5. progress[r] # "over"
  BY DEF Graph!Scan, Graph!Wipe, Graph!FailRun
<1>6. fresh # Graph!None => fresh # r
  BY <1>5 DEF WipeInv
<1>7. \A s \in OfGraph.runs \ {r} :
        progress'[s] = progress[s] /\ found'[s] = found[s] /\ wiped'[s] = wiped[s]
  BY <1>3 DEF Graph!Scan, Graph!Wipe, Graph!FailRun
<1>8. /\ wiped'[r] # {} => progress'[r] = "wiped" /\ wiped'[r] = Graph!Ids
      /\ progress'[r] = "wiped" => wiped'[r] = Graph!Ids
  <2>1. CASE Graph!Scan(r)
    <3>1. progress'[r] = "scanned" /\ wiped' = wiped /\ progress[r] = "new"
      BY <2>1, <1>3 DEF Graph!Scan
    <3> QED
      BY <3>1 DEF WipeInv
  <2>2. CASE Graph!Wipe(r)
    BY <2>2, <1>3 DEF Graph!Wipe
  <2>3. CASE Graph!FailRun(r)
    BY <2>3, <1>3 DEF Graph!FailRun
  <2> QED
    BY <2>1, <2>2, <2>3
<1>9. WipeInv'
  <2>1. fresh' # Graph!None => progress'[fresh'] = "over"
    BY <1>1, <1>3, <1>6, <1>7 DEF WipeInv
  <2>2. ASSUME NEW s \in OfGraph.runs
        PROVE  /\ wiped'[s] # {} => progress'[s] = "wiped" /\ wiped'[s] = Graph!Ids
               /\ progress'[s] = "wiped" /\ s \notin met => wiped'[s] = Graph!Ids
    BY <1>7, <1>8 DEF WipeInv
  <2> QED
    BY <1>1, <1>4, <2>1, <2>2 DEF WipeInv
<1>10. WholeInv'
  <2>1. fresh # Graph!None => found'[fresh] = found[fresh]
    BY <1>3, <1>6, <1>7
  <2> QED
    BY <2>1, <1>1, <1>4 DEF WholeInv, Graph!Keys, Graph!Places, Graph!Twice
<1> QED
  BY <1>2, <1>9, <1>10

\* A row that is written is not embedded yet.
LEMMA WriteKeepsEmbeddings ==
  ASSUME Graph!TypeOK, JobInv, Graph!EmbeddedOnce,
         NEW r \in OfGraph.runs, Graph!Write(r)
  PROVE  JobInv' /\ Graph!EmbeddedOnce'
<1>1. /\ chunks' = {c \in chunks : c[1] \notin wiped[r]}
      /\ UNCHANGED <<job, rest, together>>
  BY WriteMakes, Zenon
<1>2. JobInv'
  BY <1>1 DEF JobInv
<1>3. ASSUME NEW c \in chunks'
      PROVE  c[1] \in Graph!Ids'
  <2>1. c \in chunks /\ c[1] \notin wiped[r]
    BY <1>1, <1>3
  <2>2. PICK k \in Graph!Keys : node[k] = c[1] /\ c[1] # Graph!NoId
    BY <2>1 DEF Graph!EmbeddedOnce, Graph!Ids
  <2>3. Graph!Kept(r, k) = c[1]
    BY <2>1, <2>2 DEF Graph!Kept
  <2>4. node'[k] = c[1]
    BY <2>2, <2>3, WriteMakesRow
  <2> QED
    BY <2>2, <2>4 DEF Graph!Ids, Graph!Keys
<1>4. Graph!EmbeddedOnce'
  BY <1>1, <1>3 DEF Graph!EmbeddedOnce
<1> QED
  BY <1>2, <1>4

\* A job takes what is not embedded.
LEMMA PickKeepsEmbeddings ==
  ASSUME Graph!TypeOK, JobInv, Graph!EmbeddedOnce,
         NEW j \in OfGraph.jobs, Graph!Pick(j)
  PROVE  JobInv' /\ Graph!EmbeddedOnce'
<1>1. PICK ids \in Graph!AtMost(OfGraph.limit, Graph!Unembedded) :
        /\ rest' = [rest EXCEPT ![j] = ids]
        /\ job' = [job EXCEPT ![j] = IF ids = {} THEN "over" ELSE "busy"]
  BY Zenon DEF Graph!Pick
<1>2. /\ together' = (together \/ \E i \in OfGraph.jobs : job[i] = "busy")
      /\ UNCHANGED <<chunks, node>>
  BY Zenon DEF Graph!Pick, Graph!table
<1>3. ids \subseteq Graph!Ids /\ \A c \in chunks : c[1] \notin ids
  BY DEF Graph!AtMost, Graph!Unembedded
<1>4. /\ rest \in [OfGraph.jobs -> SUBSET Graph!NewIds]
      /\ job \in [OfGraph.jobs -> {"new", "busy", "over"}]
  BY Zenon DEF Graph!TypeOK
<1>5. JobInv'
  <2> SUFFICES ASSUME ~together'
               PROVE  /\ \A i, l \in OfGraph.jobs :
                           job'[i] = "busy" /\ job'[l] = "busy" => i = l
                      /\ \A l \in OfGraph.jobs : job'[l] = "busy" =>
                           \A c \in chunks' : c[1] \notin rest'[l]
    BY DEF JobInv
  <2>1. \A i \in OfGraph.jobs \ {j} : job'[i] # "busy"
    BY <1>1, <1>2, <1>4
  <2>2. rest'[j] = ids
    BY <1>1, <1>4
  <2> QED
    BY <1>2, <1>3, <2>1, <2>2
<1>6. Graph!EmbeddedOnce'
  BY <1>2 DEF Graph!EmbeddedOnce, Graph!Ids, Graph!Keys
<1> QED
  BY <1>5, <1>6

\* A batch embeds what the job has taken.
LEMMA BatchKeepsEmbeddings ==
  ASSUME Graph!TypeOK, JobInv, Graph!EmbeddedOnce,
         NEW j \in OfGraph.jobs, Graph!EmbedBatch(j)
  PROVE  JobInv' /\ Graph!EmbeddedOnce'
<1>1. /\ rest \in [OfGraph.jobs -> SUBSET Graph!NewIds]
      /\ job \in [OfGraph.jobs -> {"new", "busy", "over"}]
  BY Zenon DEF Graph!TypeOK
<1>2. /\ job[j] = "busy" /\ UNCHANGED <<node, together>>
      /\ \A i \in OfGraph.jobs \ {j} : job'[i] = job[i]
  BY <1>1 DEF Graph!EmbedBatch, Graph!table
<1>3. ~together => \A i \in OfGraph.jobs \ {j} : job'[i] # "busy"
  BY <1>2 DEF JobInv
<1>4. PICK ids \in SUBSET rest[j] :
        \/ /\ ids \subseteq Graph!Ids
           /\ chunks' = chunks \cup {<<i, j>> : i \in ids}
           /\ rest' = [rest EXCEPT ![j] = @ \ ids]
        \/ rest' = [rest EXCEPT ![j] = {}] /\ UNCHANGED chunks
  BY BatchMakes, Zenon
<1>5. CASE /\ ids \subseteq Graph!Ids
           /\ chunks' = chunks \cup {<<i, j>> : i \in ids}
           /\ rest' = [rest EXCEPT ![j] = @ \ ids]
  <2>1. rest'[j] = rest[j] \ ids
    BY <1>1, <1>5
  <2>2. ASSUME NEW c \in chunks', c \notin chunks
        PROVE  c[1] \in ids /\ c[2] = j /\ c = <<c[1], j>>
    <3>1. PICK i \in ids : c = <<i, j>>
      BY <1>5, <2>2, Zenon
    <3> QED
      BY <3>1
  <2>3. ~together => \A c \in chunks : c[1] \notin rest[j]
    BY <1>2 DEF JobInv
  <2>4. ~together => \A c \in chunks' : c[1] \notin rest'[j]
    BY <2>1, <2>2, <2>3
  <2>5. JobInv'
    BY <1>2, <1>3, <2>4 DEF JobInv
  <2>6. \A c \in chunks' : c[1] \in Graph!Ids
    BY <1>5, <2>2 DEF Graph!EmbeddedOnce
  <2>7. ~together => \A c, d \in chunks' : c[1] = d[1] => c = d
    BY <2>2, <2>3 DEF Graph!EmbeddedOnce
  <2>8. Graph!EmbeddedOnce'
    BY <1>2, <2>6, <2>7 DEF Graph!EmbeddedOnce, Graph!Ids, Graph!Keys
  <2> QED
    BY <2>5, <2>8
<1>6. CASE rest' = [rest EXCEPT ![j] = {}] /\ UNCHANGED chunks
  <2>1. rest'[j] = {}
    BY <1>1, <1>6
  <2>2. JobInv'
    BY <1>2, <1>3, <2>1 DEF JobInv
  <2>3. Graph!EmbeddedOnce'
    BY <1>2, <1>6 DEF Graph!EmbeddedOnce, Graph!Ids, Graph!Keys
  <2> QED
    BY <2>2, <2>3
<1> QED
  BY <1>4, <1>5, <1>6

\* Every step of the graph keeps its invariant.
LEMMA GraphMoves ==
  ASSUME Graph!TypeOK, GraphInv, GraphStep
  PROVE  GraphInv'
<1> USE DEF GraphInv
<1>1. ASSUME UNCHANGED <<node, edges, progress, found, wiped, fresh, met,
                         chunks, job, rest, together>>
      PROVE  GraphInv'
  <2>1. WipeInv' /\ EdgeInv' /\ WholeInv'
    BY <1>1, RowsStay
  <2>2. JobInv' /\ Graph!EmbeddedOnce'
    BY <1>1 DEF JobInv, Graph!EmbeddedOnce, Graph!Ids, Graph!Keys
  <2> QED
    BY <2>1, <2>2
<1>2. CASE UNCHANGED graph
  BY <1>1, <1>2, Zenon DEF graph
<1>3. ASSUME NEW f \in OfGraph.files, Graph!Edit(f)
      PROVE  GraphInv'
  BY <1>1, <1>3, Zenon DEF Graph!Edit, Graph!table, Graph!run, Graph!work
<1>4. ASSUME NEW r \in OfGraph.runs,
             Graph!Scan(r) \/ Graph!Wipe(r) \/ Graph!FailRun(r)
      PROVE  GraphInv'
  <2>1. WipeInv' /\ EdgeInv' /\ WholeInv'
    BY <1>4, RunsKeepRows
  <2>2. UNCHANGED <<node, chunks, job, rest, together>>
    BY <1>4, Zenon DEF Graph!Scan, Graph!Wipe, Graph!FailRun, Graph!table,
                       Graph!work
  <2>3. JobInv' /\ Graph!EmbeddedOnce'
    BY <2>2 DEF JobInv, Graph!EmbeddedOnce, Graph!Ids, Graph!Keys
  <2> QED
    BY <2>1, <2>3
<1>5. ASSUME NEW r \in OfGraph.runs, Graph!Write(r)
      PROVE  GraphInv'
  BY <1>5, WriteKeepsRows, WriteKeepsEmbeddings
<1>6. ASSUME NEW j \in OfGraph.jobs,
             Graph!Pick(j) \/ Graph!EmbedBatch(j) \/ Graph!FailBatch(j)
      PROVE  GraphInv'
  <2>1. UNCHANGED <<node, edges, progress, found, wiped, fresh, met>>
    BY <1>6, Zenon DEF Graph!Pick, Graph!EmbedBatch, Graph!FailBatch,
                       Graph!table, Graph!run
  <2>2. WipeInv' /\ EdgeInv' /\ WholeInv'
    BY <2>1, RowsStay
  <2>3. CASE Graph!FailBatch(j)
    <3>1. /\ job \in [OfGraph.jobs -> {"new", "busy", "over"}]
          /\ rest \in [OfGraph.jobs -> SUBSET Graph!NewIds]
      BY Zenon DEF Graph!TypeOK
    <3>2. /\ UNCHANGED <<node, chunks, together>> /\ job'[j] = "over"
          /\ \A i \in OfGraph.jobs \ {j} : job'[i] = job[i] /\ rest'[i] = rest[i]
      BY <2>3, <3>1 DEF Graph!FailBatch, Graph!table
    <3>3. JobInv' /\ Graph!EmbeddedOnce'
      BY <3>2 DEF JobInv, Graph!EmbeddedOnce, Graph!Ids, Graph!Keys
    <3> QED
      BY <2>2, <3>3
  <2> QED
    BY <1>6, <2>2, <2>3, PickKeepsEmbeddings, BatchKeepsEmbeddings
<1> QED
  BY <1>2, <1>3, <1>4, <1>5, <1>6, Zenon DEF GraphStep, Graph!Next

\* CanonicalModel: the variables of the graph keep their types.
THEOREM GraphTypes == Spec => [](part = "graph" => Graph!TypeOK)
<1> DEFINE I == part = "graph" => Graph!TypeOK
<1>1. Init => I
  BY GraphStarts DEF Init
<1>2. I /\ [Next]_vars => I'
  BY PartsMove, GraphTypesHold
<1> QED
  BY <1>1, <1>2, PTL DEF Spec

\* CanonicalModel, GraphIsWhole and EmbeddedOnce: an ingestion that began with
\* an empty table and met no other leaves a row for every name it found, and
\* no edge of it leads nowhere but to a name defined twice, in two files of
\* the module or package or in one; each edge names a node with a row; each embedding is of a node that exists, and a node has
\* one unless two jobs ran at once.
THEOREM GraphStaysWhole == Spec => []GraphIsWhole
<1> DEFINE I == part = "graph" => Graph!TypeOK /\ GraphInv
<1>1. Init => I
  BY GraphStarts DEF Init
<1>2. I /\ [Next]_vars => I'
  BY PartsMove, GraphTypesHold, GraphMoves
<1>3. I => GraphIsWhole
  <2>1. GraphInv => Graph!GraphIsWhole
    BY DEF GraphInv, WholeInv, EdgeInv, Graph!GraphIsWhole
  <2> QED
    BY <2>1 DEF GraphIsWhole, GraphInv
<1> QED
  BY <1>1, <1>2, <1>3, PTL DEF Spec
=============================================================================
