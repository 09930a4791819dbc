----------------------------- MODULE AgentPool -----------------------------
(***************************************************************************)
(* The pool controller's record of the agents (internal/pool): the registry*)
(* in memory with its index by soul, from which tasks are routed, the map  *)
(* of heartbeat sequence numbers, and the durable rows of table agents.    *)
(*                                                                         *)
(* Two goroutines write them.  The heartbeat handler upserts the agent into*)
(* the registry, takes a sequence number and then writes the row; the      *)
(* reaper removes from the registry the agents that were not heard of for  *)
(* too long and then, one by one, marks their rows DISCONNECTED and forgets*)
(* their sequence numbers.  The registry and the map have a mutex each; no *)
(* lock spans two steps.                                                   *)
(*                                                                         *)
(* A heartbeat that Redis Pub/Sub loses is one that was not sent, and an   *)
(* agent that died one that sends no more.  Time is abstracted to fresh: an*)
(* entry may age at any moment.  Left out, because nothing here depends on *)
(* them: the value of a sequence number, the ledger row it is written to   *)
(* (table heartbeats, one INSERT before the row), a row's soul and times.  *)
(***************************************************************************)
EXTENDS Naturals, Sequences

CONSTANTS
  Agents,
  Souls,
  BeatStates,   \* current_state of the heartbeats considered
  MaxInbox,     \* bound on heartbeats that wait for the handler
  MaxFaults     \* bound on restarts and failed statements

\* AgentState of rasa/agent/runtime.py, and the enum agent_state of rasa_pool
AgentStates == {"IDLE", "WARMING", "ACTIVE", "PAUSED", "RESUMING",
                "CHECKPOINTED", "RECOVERING"}
RowStates == {"REGISTERED", "WARMING", "ACTIVE", "PAUSED", "CHECKPOINTED",
              "DRAINING", "UNRESPONSIVE", "DISCONNECTED"}

ASSUME PoolAssumption ==
  /\ BeatStates \subseteq AgentStates
  /\ MaxInbox \in Nat
  /\ MaxFaults \in Nat
  /\ "nobody" \notin Agents

Beats == [agent : Agents, soul : Souls, state : BeatStates]

VARIABLES
  inbox,    \* heartbeats in the order Redis delivers them
  known,    \* the keys of registry.agents
  soulOf,   \* soulOf[a]: SoulID of the entry of a, "none" without one
  fresh,    \* fresh[a]: its LastHeartbeat is not before the deadline
  bySoul,   \* bySoul[s]: the index
  hbSeq,    \* the keys of the map hbSeq
  hand,     \* the heartbeat in the handler, and the step that comes next
  doomed,   \* agents the reaper has removed and not yet marked
  marked,   \* the one it marked and whose hbSeq it deletes next
  rows,     \* rows[a]: agents.state, "none" without a row
  faults,
  excused   \* excused[a]: history; since the last heartbeat of a was handled
            \*   the controller restarted, the UPDATE of its row failed, or its
            \*   entry aged while the handler had not finished with it

registry == <<known, soulOf, fresh, bySoul>>
reaper == <<doomed, marked>>
vars == <<inbox, registry, hbSeq, hand, reaper, rows, faults, excused>>

NoHand == [step |-> "none"]
Steps == {"seq", "row"}

TypeOK ==
  /\ inbox \in Seq(Beats)
  /\ known \in SUBSET Agents
  /\ soulOf \in [Agents -> Souls \cup {"none"}]
  /\ fresh \in [Agents -> BOOLEAN]
  /\ bySoul \in [Souls -> SUBSET Agents]
  /\ hbSeq \in SUBSET Agents
  /\ hand \in [step : Steps, beat : Beats] \cup {NoHand}
  /\ doomed \in SUBSET Agents
  /\ marked \in Agents \cup {"nobody"}
  /\ rows \in [Agents -> RowStates \cup {"none"}]
  /\ faults \in Nat
  /\ excused \in [Agents -> BOOLEAN]

\* The handler has a heartbeat of a
Holds(a) == hand # NoHand /\ hand.beat.agent = a

\* HandleHeartbeat: dbState
DbState(st) == IF st = "IDLE" THEN "REGISTERED" ELSE st

Live(a) == rows[a] \notin {"none", "DISCONNECTED"}

Fault == faults < MaxFaults /\ faults' = faults + 1

-----------------------------------------------------------------------------
(***************************************************************************)
(* Faulty variants of the definitions that follow them.  No specification  *)
(* uses them: each is a change to the code some property must notice.      *)
(***************************************************************************)
\* Upsert of an agent with another soul adds to the index and removes nothing.
ReindexedAddOnly(a, s) == [bySoul EXCEPT ![s] = @ \cup {a}]

\* The reaper leaves the rows alone.
RemoveOnly ==
  /\ doomed = {} /\ marked = "nobody"
  /\ known' = {a \in known : fresh[a]}
  /\ known' # known
  /\ bySoul' = [s \in Souls |-> bySoul[s] \cap known']
  /\ hbSeq' = hbSeq \cap known'
  /\ UNCHANGED <<inbox, soulOf, fresh, hand, reaper, rows, faults, excused>>

\* ON CONFLICT DO NOTHING.
WriteRowOnce ==
  /\ hand # NoHand /\ hand.step = "row"
  /\ rows' = IF rows[hand.beat.agent] = "none"
               THEN [rows EXCEPT ![hand.beat.agent] = DbState(hand.beat.state)]
               ELSE rows
  /\ hand' = NoHand
  /\ UNCHANGED <<inbox, registry, hbSeq, reaper, faults, excused>>

\* The column state is TEXT.
WriteRowUnchecked ==
  /\ hand # NoHand /\ hand.step = "row"
  /\ rows' = [rows EXCEPT ![hand.beat.agent] = DbState(hand.beat.state)]
  /\ hand' = NoHand
  /\ UNCHANGED <<inbox, registry, hbSeq, reaper, faults, excused>>

-----------------------------------------------------------------------------
Init ==
  /\ inbox = <<>>
  /\ known = {}
  /\ soulOf = [a \in Agents |-> "none"]
  /\ fresh = [a \in Agents |-> FALSE]
  /\ bySoul = [s \in Souls |-> {}]
  /\ hbSeq = {}
  /\ hand = NoHand
  /\ doomed = {}
  /\ marked = "nobody"
  /\ rows = [a \in Agents |-> "none"]
  /\ faults = 0
  /\ excused = [a \in Agents |-> FALSE]

\* _heartbeat_loop: an agent publishes; Redis queues it for the subscriber.
Beat(b) ==
  /\ Len(inbox) < MaxInbox
  /\ inbox' = Append(inbox, b)
  /\ UNCHANGED <<registry, hbSeq, hand, reaper, rows, faults, excused>>

(***************************************************************************)
(* HandleHeartbeat, called by the one goroutine that drains the            *)
(* subscription.                                                           *)
(***************************************************************************)
\* The index after an Upsert of a with soul s
Reindexed(a, s) ==
  [u \in Souls |-> IF u = s THEN bySoul[u] \cup {a}
                   ELSE IF a \in known /\ u = soulOf[a] THEN bySoul[u] \ {a}
                   ELSE bySoul[u]]

\* Upsert.
Hear ==
  /\ hand = NoHand
  /\ inbox # <<>>
  /\ LET b == Head(inbox) IN
       /\ bySoul' = Reindexed(b.agent, b.soul)
       /\ known' = known \cup {b.agent}
       /\ soulOf' = [soulOf EXCEPT ![b.agent] = b.soul]
       /\ fresh' = [fresh EXCEPT ![b.agent] = TRUE]
       /\ excused' = [excused EXCEPT ![b.agent] = FALSE]
       /\ hand' = [step |-> "seq", beat |-> b]
  /\ inbox' = Tail(inbox)
  /\ UNCHANGED <<hbSeq, reaper, rows, faults>>

\* hbSeq[agentID]++
Number ==
  /\ hand # NoHand /\ hand.step = "seq"
  /\ hbSeq' = hbSeq \cup {hand.beat.agent}
  /\ hand' = [hand EXCEPT !.step = "row"]
  /\ UNCHANGED <<inbox, registry, reaper, rows, faults, excused>>

\* INSERT INTO agents .. ON CONFLICT DO UPDATE.  PostgreSQL refuses a state
\* that is not in its enum; the error is not looked at.
WriteRow ==
  /\ hand # NoHand /\ hand.step = "row"
  /\ rows' = IF DbState(hand.beat.state) \in RowStates
               THEN [rows EXCEPT ![hand.beat.agent] = DbState(hand.beat.state)]
               ELSE rows
  /\ hand' = NoHand
  /\ UNCHANGED <<inbox, registry, hbSeq, reaper, faults, excused>>

\* The statement fails for another reason.
FailRow ==
  /\ hand # NoHand /\ hand.step = "row"
  /\ Fault
  /\ hand' = NoHand
  /\ UNCHANGED <<inbox, registry, hbSeq, reaper, rows, excused>>

(***************************************************************************)
(* Time, and reapLoop.                                                     *)
(***************************************************************************)
\* DeadAgentTimeout passes since the last heartbeat of a.
Age(a) ==
  /\ a \in known /\ fresh[a]
  /\ fresh' = [fresh EXCEPT ![a] = FALSE]
  /\ excused' = [excused EXCEPT ![a] = @ \/ Holds(a)]
  /\ UNCHANGED <<inbox, known, soulOf, bySoul, hbSeq, hand, reaper, rows, faults>>

\* RemoveDead.
Remove ==
  /\ doomed = {} /\ marked = "nobody"
  /\ doomed' = {a \in known : ~fresh[a]}
  /\ doomed' # {}
  /\ known' = known \ doomed'
  /\ bySoul' = [s \in Souls |-> bySoul[s] \ {a \in doomed' : soulOf[a] = s}]
  /\ soulOf' = [a \in Agents |-> IF a \in doomed' THEN "none" ELSE soulOf[a]]
  /\ UNCHANGED <<inbox, fresh, hbSeq, hand, marked, rows, faults, excused>>

\* UPDATE agents SET state='DISCONNECTED' ..
Mark(a) ==
  /\ marked = "nobody" /\ a \in doomed
  /\ rows' = [rows EXCEPT ![a] = IF @ = "none" THEN @ ELSE "DISCONNECTED"]
  /\ doomed' = doomed \ {a}
  /\ marked' = a
  /\ UNCHANGED <<inbox, registry, hbSeq, hand, faults, excused>>

\* .. which fails; the error is not looked at.
FailMark(a) ==
  /\ marked = "nobody" /\ a \in doomed
  /\ Fault
  /\ excused' = [excused EXCEPT ![a] = TRUE]
  /\ doomed' = doomed \ {a}
  /\ marked' = a
  /\ UNCHANGED <<inbox, registry, hbSeq, hand, rows>>

\* delete(c.hbSeq, id)
Forget ==
  /\ marked # "nobody"
  /\ hbSeq' = hbSeq \ {marked}
  /\ marked' = "nobody"
  /\ UNCHANGED <<inbox, registry, hand, doomed, rows, faults, excused>>

\* The controller restarts with an empty registry and never reads the rows.
Restart ==
  /\ Fault
  /\ inbox' = <<>>
  /\ known' = {}
  /\ soulOf' = [a \in Agents |-> "none"]
  /\ fresh' = [a \in Agents |-> FALSE]
  /\ bySoul' = [s \in Souls |-> {}]
  /\ hbSeq' = {}
  /\ hand' = NoHand
  /\ doomed' = {}
  /\ marked' = "nobody"
  /\ excused' = [a \in Agents |-> TRUE]
  /\ UNCHANGED rows

Handler == Hear \/ Number \/ WriteRow
Reaper == Remove \/ Forget \/ \E a \in Agents : Mark(a)

Next ==
  \/ \E b \in Beats : Beat(b)
  \/ Handler \/ FailRow
  \/ Reaper \/ \E a \in Agents : Age(a) \/ FailMark(a)
  \/ Restart

Spec == Init /\ [][Next]_vars

\* The two goroutines run; no agent has to send anything.
FairSpec == Spec /\ WF_vars(Handler) /\ WF_vars(Reaper)
-----------------------------------------------------------------------------
(***************************************************************************)
(* Properties.                                                             *)
(***************************************************************************)
\* FindBySoul finds the agents whose last heartbeat named the soul, and no
\* agent that was reaped: the index, written in three places, agrees with the
\* entries, so that no task is routed to an agent of another soul.
IndexAgrees ==
  \A s \in Souls : bySoul[s] = {a \in known : soulOf[a] = s}

\* What the handler writes about an agent does not outlive its entry: a row
\* that reads live and a sequence number belong to an agent in the registry,
\* or one the handler or the reaper is about to deal with, although the two
\* interleave.  (Not after a restart, a failed UPDATE, or when the handler is
\* so slow that its own agent is reaped meanwhile: then they stay for good.)
NothingIsLeftBehind ==
  \A a \in Agents :
    Live(a) \/ a \in hbSeq
      => a \in known \/ Holds(a) \/ a \in doomed \/ marked = a \/ excused[a]

\* The reaper may mark the row of an agent that was heard of again meanwhile.
\* That heals: if an agent stays fresh from some time on and goes on sending
\* states the table accepts, its row reads live for good.
BeatingAgentReadsLive ==
  \A a \in Agents :
    /\ <>[](a \in known /\ fresh[a])
    /\ []<>(Holds(a) /\ hand.step = "row" /\ DbState(hand.beat.state) \in RowStates)
    => <>[]Live(a)
=============================================================================
