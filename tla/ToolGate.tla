------------------------------ MODULE ToolGate ------------------------------
(***************************************************************************)
(* What stands between a tool call and its execution in an agent           *)
(* (rasa/agent/runtime.py): the policy rules through the client's cache    *)
(* (rasa/policy/client.py), and a person's answer to a review (the table   *)
(* human_reviews, rasa/orchestrator/reviews.py).                           *)
(*                                                                         *)
(* A rule is known by the tools it denies; every other action lets a call  *)
(* pass, and so does "review", which only the decision "deny" of evaluate  *)
(* keeps from the tool.  Matching of fields and operators is left out, and *)
(* the audit log, which nothing reads.  Nothing in src/ calls              *)
(* respond_to_review: people answer by means of their own.                 *)
(***************************************************************************)
EXTENDS Naturals, FiniteSets

CONSTANTS
  Agents, Tools,
  AutoInvoke,  \* agents whose soul sheet has auto_invoke: others pass all
  Confirm,     \* tools that require_human_confirm names
  MaxReviews, MaxEdits, MaxFaults,  \* bounds
  NoTool       \* no tool

GateConstants ==
  /\ AutoInvoke \subseteq Agents
  /\ Confirm \subseteq Tools /\ NoTool \notin Tools
  /\ MaxReviews \in Nat /\ MaxEdits \in Nat /\ MaxFaults \in Nat

VARIABLES
  denied,   \* policy_rules: the tools a call of which they deny
  longOut,  \* history: those denied for more than the TTL
  cache,    \* cache[a]: _cache of the agent's policy client, "none" or tools
  young,    \* agents whose _cache_at is less than the TTL ago
  blind,    \* history: agents whose last load of the rules failed
  pc,       \* pc[a]: "idle", or where its tool call is
  tool,     \* tool[a]: the tool it calls
  ticket,   \* ticket[a]: the review it waits for, or 0
  answer,   \* answer[r]: "none" before the INSERT, "pending", "yes", "no"
  asker,    \* asker[r]: history, <<agent, tool>>
  dropped,  \* history: reviews nobody waits for any more
  ran,      \* ran[r]: history, executions that review r let through
  slipped,  \* history: <<agent, tool>> let through against a rule long out
  edits, mishaps  \* changes of the rules, faults so far

rules == <<denied, longOut, edits>>
client == <<cache, young, blind>>
call == <<pc, tool, ticket>>
reviews == <<answer, asker, dropped, ran>>
vars == <<rules, client, call, reviews, slipped, mishaps>>

Reviews == 1..MaxReviews

TypeOK ==
  /\ denied \subseteq Tools /\ longOut \subseteq denied
  /\ cache \in [Agents -> (SUBSET Tools) \cup {{"none"}}]
  /\ young \subseteq Agents /\ blind \subseteq Agents
  /\ pc \in [Agents -> {"idle", "ask", "wait", "run"}]
  /\ tool \in [Agents -> Tools \cup {NoTool}]
  /\ \A a \in Agents : pc[a] = "idle" <=> tool[a] = NoTool
  /\ ticket \in [Agents -> Reviews \cup {0}]
  /\ \A a \in Agents : pc[a] = "wait" => ticket[a] # 0
  /\ answer \in [Reviews -> {"none", "pending", "yes", "no"}]
  /\ asker \in [Reviews -> (Agents \X Tools) \cup {<<>>}]
  /\ dropped \subseteq Reviews /\ ran \in [Reviews -> Nat]
  /\ slipped \subseteq Agents \X Tools
  /\ edits \in 0..MaxEdits /\ mishaps \in 0..MaxFaults

Init ==
  /\ denied = {} /\ longOut = {}
  /\ cache = [a \in Agents |-> {"none"}] /\ young = {} /\ blind = {}
  /\ pc = [a \in Agents |-> "idle"] /\ tool = [a \in Agents |-> NoTool]
  /\ ticket = [a \in Agents |-> 0]
  /\ answer = [r \in Reviews |-> "none"] /\ asker = [r \in Reviews |-> <<>>]
  /\ dropped = {} /\ ran = [r \in Reviews |-> 0] /\ slipped = {}
  /\ edits = 0 /\ mishaps = 0

Mishap == mishaps < MaxFaults /\ mishaps' = mishaps + 1

(* Somebody changes the rules.  Nothing invalidates a cache. *)
SetRules(ts) ==
  /\ edits < MaxEdits /\ ts # denied
  /\ edits' = edits + 1
  /\ denied' = ts /\ longOut' = longOut \cap ts
  /\ UNCHANGED <<client, call, reviews, slipped, mishaps>>

(* Thirty seconds pass, the TTL of the caches. *)
Tick ==
  /\ young # {} \/ longOut # denied
  /\ young' = {} /\ longOut' = denied
  /\ UNCHANGED <<denied, edits, cache, blind, call, reviews, slipped, mishaps>>

(***************************************************************************)
(* The policy client.                                                      *)
(***************************************************************************)

(* A faulty variant, for the mutant: every look makes the cache young.     *)
GetRulesSliding(a) ==
  \/ /\ cache[a] # {"none"} /\ a \in young
     /\ UNCHANGED <<client, mishaps>>
  \/ /\ cache' = [cache EXCEPT ![a] = IF @ = {"none"} THEN denied ELSE @]
     /\ young' = young \cup {a} /\ blind' = blind \ {a}
     /\ UNCHANGED mishaps

(* _get_rules, _load_rules: a load that fails keeps what there was, or     *)
(* nothing, for another TTL.                                               *)
GetRules(a) ==
  \/ /\ cache[a] # {"none"} /\ a \in young
     /\ UNCHANGED <<client, mishaps>>
  \/ /\ cache[a] = {"none"} \/ a \notin young
     /\ young' = young \cup {a}
     /\ \/ cache' = [cache EXCEPT ![a] = denied] /\ blind' = blind \ {a}
           /\ UNCHANGED mishaps
        \/ /\ cache' = [cache EXCEPT ![a] = IF @ = {"none"} THEN {} ELSE @]
           /\ blind' = blind \cup {a}
           /\ Mishap

(* evaluate: the rules, unless auto_invoke is off, which is "review".      *)
Refuses(a, t) == a \in AutoInvoke /\ t \in cache'[a]

(* _execute_task: a tool call, up to what it waits for.                    *)
CallTool(a, t) ==
  /\ pc[a] = "idle"
  /\ IF a \in AutoInvoke THEN GetRules(a) ELSE UNCHANGED <<client, mishaps>>
  /\ IF Refuses(a, t)
     THEN UNCHANGED <<pc, tool, slipped>>
     ELSE /\ pc' = [pc EXCEPT ![a] = IF t \in Confirm THEN "ask" ELSE "run"]
          /\ tool' = [tool EXCEPT ![a] = t]
          /\ slipped' = IF t \in longOut /\ a \notin blind'
                        THEN slipped \cup {<<a, t>>} ELSE slipped
  /\ UNCHANGED <<rules, ticket, reviews>>

(***************************************************************************)
(* Reviews.                                                                *)
(***************************************************************************)

(* The call is over, whether the tool ran or not. *)
Over(a) ==
  /\ pc' = [pc EXCEPT ![a] = "idle"] /\ tool' = [tool EXCEPT ![a] = NoTool]
  /\ ticket' = [ticket EXCEPT ![a] = 0]

(* create_review. *)
Request(a, r) ==
  /\ pc[a] = "ask"
  /\ answer[r] = "none" /\ \A q \in 1..(r - 1) : answer[q] # "none"
  /\ answer' = [answer EXCEPT ![r] = "pending"]
  /\ asker' = [asker EXCEPT ![r] = <<a, tool[a]>>]
  /\ pc' = [pc EXCEPT ![a] = "wait"] /\ ticket' = [ticket EXCEPT ![a] = r]
  /\ UNCHANGED <<rules, client, tool, dropped, ran, slipped, mishaps>>

(* respond_to_review, of a pending review only. *)
Respond(r, verdict) ==
  /\ answer[r] = "pending"
  /\ answer' = [answer EXCEPT ![r] = verdict]
  /\ UNCHANGED <<rules, client, call, asker, dropped, ran, slipped, mishaps>>

(* get_review: every three seconds. *)
Look(a) ==
  /\ pc[a] = "wait" /\ answer[ticket[a]] \in {"yes", "no"}
  /\ IF answer[ticket[a]] = "yes"
     THEN pc' = [pc EXCEPT ![a] = "run"] /\ UNCHANGED <<tool, ticket>>
     ELSE Over(a)
  /\ UNCHANGED <<rules, client, reviews, slipped, mishaps>>

(* Sixty seconds have passed; an answer after the last look is not seen.   *)
StopWaiting(a) ==
  /\ pc[a] = "wait"
  /\ dropped' = dropped \cup {ticket[a]}
  /\ Over(a)
  /\ UNCHANGED <<rules, client, answer, asker, ran, slipped, mishaps>>

(* A statement fails, and the tool counts as blocked; or the agent dies.   *)
Fail(a) ==
  /\ pc[a] # "idle" /\ Mishap
  /\ dropped' = dropped \cup ({ticket[a]} \ {0})
  /\ Over(a)
  /\ UNCHANGED <<rules, client, answer, asker, ran, slipped>>

(* execute_tool. *)
Execute(a) ==
  /\ pc[a] = "run"
  /\ ran' = IF ticket[a] = 0 THEN ran ELSE [ran EXCEPT ![ticket[a]] = @ + 1]
  /\ Over(a)
  /\ UNCHANGED <<rules, client, answer, asker, dropped, slipped, mishaps>>

AgentStep(a) ==
  \/ \E t \in Tools : CallTool(a, t)
  \/ \E r \in Reviews : Request(a, r)
  \/ Look(a) \/ StopWaiting(a) \/ Fail(a) \/ Execute(a)

Next ==
  \/ \E ts \in SUBSET Tools : SetRules(ts)
  \/ Tick
  \/ \E a \in Agents : AgentStep(a)
  \/ \E r \in Reviews, v \in {"yes", "no"} : Respond(r, v)

Spec == Init /\ [][Next]_vars

(* A tool that needs a person's word is about to run only on an approval   *)
(* of this very call, and an approval lets a tool run once.                *)
RunsAreApproved ==
  /\ \A a \in Agents : pc[a] = "run" /\ tool[a] \in Confirm =>
       /\ ticket[a] # 0 /\ answer[ticket[a]] = "yes"
       /\ asker[ticket[a]] = <<a, tool[a]>> /\ ran[ticket[a]] = 0
  /\ \A r \in Reviews : ran[r] <= 1 /\ (ran[r] = 1 => answer[r] = "yes")

(* An approval is acted on, unless whoever asked stopped waiting for it.   *)
ApprovalsCount ==
  \A r \in Reviews : answer[r] = "yes" =>
    ran[r] = 1 \/ r \in dropped \/ \E a \in Agents : ticket[a] = r

(* A rule that is out for longer than the TTL is obeyed by every agent     *)
(* that could read the rules when it last tried and has auto_invoke on.    *)
(* One whose auto_invoke is off looks at no rule at all: GuardrailsBind.   *)
OldRulesHold == \A s \in slipped : s[1] \notin AutoInvoke

(* Whatever the interleaving of agents, people and rules. *)
GateHolds == RunsAreApproved /\ ApprovalsCount /\ OldRulesHold

(* policy_engine.md: soul sheets cannot override the organization's rules. *)
(* A rule out for longer than the TTL is obeyed by every agent that could  *)
(* read the rules, whatever its sheet says.  It is not: with auto_invoke   *)
(* off evaluate answers "review" first, and only "deny" keeps a call back. *)
GuardrailsBind == slipped = {}
=============================================================================
