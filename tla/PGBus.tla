------------------------------- MODULE PGBus -------------------------------
(***************************************************************************)
(* The durable bus: the table bus_messages, NOTIFY, and the subscribers of *)
(* one channel (internal/bus/pg_publisher.go, internal/bus/pg_subscriber.go*)
(* and rasa/bus/pg.py).  Rows of another channel never meet these: every   *)
(* query filters on the channel, and another channel's handler only delays *)
(* the dispatch loop of a process.                                         *)
(*                                                                         *)
(* A publisher inserts a row and fires NOTIFY in one transaction, so the   *)
(* NOTIFY leaves with the commit.  A subscriber's dispatch loop takes one  *)
(* NOTIFY, fetches the OLDEST pending row (the payload of the NOTIFY is not*)
(* used), marks it consumed, and only then calls the handler.              *)
(* GoSubs lock the row (SELECT .. FOR UPDATE) and mark it in the same      *)
(* transaction; PySubs read and mark in two autocommitted statements.      *)
(*                                                                         *)
(* A queue of NOTIFYs of one channel carries no data, so it is its length, *)
(* owed[s].  missed[s] is a history variable: the NOTIFYs of committed rows*)
(* s never had (it was down or disconnected), lost when it crashed, or     *)
(* spent on a fetch that failed.                                           *)
(***************************************************************************)
EXTENDS Naturals, FiniteSets

CONSTANTS
  Msgs,      \* messages; each is published at most once
  GoSubs,    \* subscribers that run internal/bus/pg_subscriber.go
  PySubs,    \* subscribers that run rasa/bus/pg.py
  MaxWakes,  \* bound on NOTIFYs sent without a row (pg_notify by an agent)
  MaxFaults  \* bound on crashes, lost connections, failed statements

Subs == GoSubs \cup PySubs

ASSUME BusAssumption ==
  /\ IsFiniteSet(Msgs)
  /\ GoSubs \cap PySubs = {}
  /\ MaxWakes \in Nat
  /\ MaxFaults \in Nat

VARIABLES
  row,        \* row[m]: the row of m in bus_messages
  rowId,      \* rowId[m]: its BIGSERIAL id, 0 before the insert
  lastId,     \* the sequence behind BIGSERIAL
  wakes,      \* NOTIFYs sent without a row so far
  faults,     \* crashes, lost connections, failed statements so far
  link,       \* link[s]: the LISTEN connection of s is up
  owed,       \* owed[s]: NOTIFYs queued in s
  pc,         \* pc[s]: where the dispatch loop of s is
  reach,      \* reach[s]: rows the fetch under way may still return; the
              \*   message being handled once there is one
  delivered,  \* delivered[s][m]: calls of the handler of s with m
  missed      \* missed[s]: history, see above

vars == <<row, rowId, lastId, wakes, faults, link, owed, pc, reach, delivered,
          missed>>
publishing == <<row, rowId, lastId, wakes>>

RowStates == {"none", "open", "pending", "consumed", "rolledback"}
PcStates == {"down", "idle", "select", "locked", "read", "handle"}

TypeOK ==
  /\ row \in [Msgs -> RowStates]
  /\ rowId \in [Msgs -> Nat]
  /\ lastId \in Nat
  /\ wakes \in Nat
  /\ faults \in Nat
  /\ link \in [Subs -> BOOLEAN]
  /\ owed \in [Subs -> Nat]
  /\ pc \in [Subs -> PcStates]
  /\ reach \in [Subs -> SUBSET Msgs]
  /\ delivered \in [Subs -> [Msgs -> Nat]]
  /\ missed \in [Subs -> Nat]

\* ORDER BY id LIMIT 1 over the rows S
IsOldest(m, S) == m \in S /\ \A n \in S : rowId[m] <= rowId[n]

Fetching(s) == pc[s] \in {"select", "locked", "read"}

-----------------------------------------------------------------------------
(***************************************************************************)
(* Faulty variants of the definitions that follow them.  No specification  *)
(* uses them: each is a change to the code some property must notice.      *)
(***************************************************************************)
\* SELECT without FOR UPDATE.
NeverLocked(m) == FALSE

\* A fetch reads rows that are not committed.
PendingOrOpen == {m \in Msgs : row[m] \in {"open", "pending"}}

Pending == {m \in Msgs : row[m] = "pending"}

\* m is row-locked by the open transaction of a Go subscriber
Locked(m) == \E s \in GoSubs : pc[s] = "locked" /\ m \in reach[s]

\* The dispatch loop treats all queued NOTIFYs as one.
FetchCoalesced(s) ==
  /\ pc[s] = "idle"
  /\ owed[s] > 0
  /\ owed' = [owed EXCEPT ![s] = 0]
  /\ \E m \in Pending :
       /\ IsOldest(m, Pending)
       /\ reach' = [reach EXCEPT ![s] = {m}]
  /\ pc' = [pc EXCEPT ![s] = IF s \in GoSubs THEN "select" ELSE "read"]
  /\ UNCHANGED <<publishing, faults, link, delivered, missed>>

\* The fetch does not wait for a NOTIFY.
FetchUnprompted(s) ==
  /\ pc[s] = "idle"
  /\ owed' = [owed EXCEPT ![s] = @ - 1]
  /\ UNCHANGED <<publishing, faults, link, pc, reach, delivered, missed>>

\* A NOTIFY reaches only loops that are not busy.
CommitWakesIdle(m) ==
  /\ row[m] = "open"
  /\ row' = [row EXCEPT ![m] = "pending"]
  /\ owed' = [s \in Subs |->
                IF link[s] /\ pc[s] = "idle" THEN owed[s] + 1 ELSE owed[s]]
  /\ missed' = [s \in Subs |-> IF link[s] THEN missed[s] ELSE missed[s] + 1]
  /\ UNCHANGED <<rowId, lastId, wakes, faults, link, pc, reach, delivered>>

-----------------------------------------------------------------------------
Init ==
  /\ row = [m \in Msgs |-> "none"]
  /\ rowId = [m \in Msgs |-> 0]
  /\ lastId = 0
  /\ wakes = 0
  /\ faults = 0
  /\ link = [s \in Subs |-> FALSE]
  /\ owed = [s \in Subs |-> 0]
  /\ pc = [s \in Subs |-> "down"]
  /\ reach = [s \in Subs |-> {}]
  /\ delivered = [s \in Subs |-> [m \in Msgs |-> 0]]
  /\ missed = [s \in Subs |-> 0]

(***************************************************************************)
(* Publishers.  Insert takes the id; other publishers may commit in between*)
(***************************************************************************)
Insert(m) ==
  /\ row[m] = "none"
  /\ row' = [row EXCEPT ![m] = "open"]
  /\ lastId' = lastId + 1
  /\ rowId' = [rowId EXCEPT ![m] = lastId + 1]
  /\ UNCHANGED <<wakes, faults, link, owed, pc, reach, delivered, missed>>

\* The row becomes visible and every LISTENing connection gets one NOTIFY.
Commit(m) ==
  /\ row[m] = "open"
  /\ row' = [row EXCEPT ![m] = "pending"]
  /\ owed' = [s \in Subs |-> IF link[s] THEN owed[s] + 1 ELSE owed[s]]
  /\ missed' = [s \in Subs |-> IF link[s] THEN missed[s] ELSE missed[s] + 1]
  /\ UNCHANGED <<rowId, lastId, wakes, faults, link, pc, reach, delivered>>

\* The publisher dies or a statement fails: no row, no NOTIFY.
Rollback(m) ==
  /\ row[m] = "open"
  /\ row' = [row EXCEPT ![m] = "rolledback"]
  /\ UNCHANGED <<rowId, lastId, wakes, faults, link, owed, pc, reach, delivered, missed>>

\* SELECT pg_notify(channel, ..) by an agent or the delegator: no row.
RawNotify ==
  /\ wakes < MaxWakes
  /\ wakes' = wakes + 1
  /\ owed' = [s \in Subs |-> IF link[s] THEN owed[s] + 1 ELSE owed[s]]
  /\ UNCHANGED <<row, rowId, lastId, faults, link, pc, reach, delivered, missed>>

Fault == faults < MaxFaults /\ faults' = faults + 1

(***************************************************************************)
(* Subscriber processes and their LISTEN connections.                      *)
(***************************************************************************)
Subscribe(s) ==
  /\ pc[s] = "down"
  /\ pc' = [pc EXCEPT ![s] = "idle"]
  /\ link' = [link EXCEPT ![s] = TRUE]
  /\ UNCHANGED <<publishing, faults, owed, reach, delivered, missed>>

\* NOTIFYs sent while the connection is down are gone; those already queued
\* in the process stay.
Disconnect(s) ==
  /\ link[s]
  /\ Fault
  /\ link' = [link EXCEPT ![s] = FALSE]
  /\ UNCHANGED <<publishing, owed, pc, reach, delivered, missed>>

\* pq.Listener reconnects, re-issues LISTEN and delivers a nil notification,
\* which the dispatch loop skips.  rasa/bus/pg.py does not reconnect.
Reconnect(s) ==
  /\ s \in GoSubs
  /\ pc[s] # "down" /\ ~link[s]
  /\ link' = [link EXCEPT ![s] = TRUE]
  /\ UNCHANGED <<publishing, faults, owed, pc, reach, delivered, missed>>

\* The process dies: its queue, its open transaction and the message in its
\* handler go with it.
Crash(s) ==
  /\ pc[s] # "down"
  /\ Fault
  /\ pc' = [pc EXCEPT ![s] = "down"]
  /\ link' = [link EXCEPT ![s] = FALSE]
  /\ owed' = [owed EXCEPT ![s] = 0]
  /\ reach' = [reach EXCEPT ![s] = {}]
  /\ missed' = [missed EXCEPT ![s] =
                  @ + owed[s] + (IF Fetching(s) THEN 1 ELSE 0)]
  /\ UNCHANGED <<publishing, delivered>>

(***************************************************************************)
(* The dispatch loop.                                                      *)
(***************************************************************************)
\* Take one NOTIFY and read: a Go fetch sees the pending rows of its
\* snapshot, a Python fetch already has its row.
Fetch(s) ==
  /\ pc[s] = "idle"
  /\ owed[s] > 0
  /\ owed' = [owed EXCEPT ![s] = @ - 1]
  /\ \/ /\ Pending = {}                     \* no row: not an error
        /\ UNCHANGED <<pc, reach>>
     \/ /\ Pending # {}
        /\ s \in GoSubs
        /\ reach' = [reach EXCEPT ![s] = Pending]
        /\ pc' = [pc EXCEPT ![s] = "select"]
     \/ /\ s \in PySubs
        /\ \E m \in Pending :
             /\ IsOldest(m, Pending)
             /\ reach' = [reach EXCEPT ![s] = {m}]
        /\ pc' = [pc EXCEPT ![s] = "read"]
  /\ UNCHANGED <<publishing, faults, link, delivered, missed>>

\* FOR UPDATE: wait for the lock of the oldest row of the snapshot, then look
\* at its status again; a row consumed meanwhile is passed over.
LockRow(s) ==
  /\ pc[s] = "select"
  /\ \E m \in reach[s] :
       /\ IsOldest(m, reach[s])
       /\ ~Locked(m)
       /\ \/ /\ row[m] = "pending"
             /\ reach' = [reach EXCEPT ![s] = {m}]
             /\ pc' = [pc EXCEPT ![s] = "locked"]
          \/ /\ row[m] # "pending"
             /\ reach' = [reach EXCEPT ![s] = @ \ {m}]
             /\ pc' = [pc EXCEPT ![s] = IF reach[s] = {m} THEN "idle" ELSE "select"]
  /\ UNCHANGED <<publishing, faults, link, owed, delivered, missed>>

\* UPDATE .. 'consumed'.  For Go it commits with the lock still held; for
\* Python it is a statement of its own with no condition on the status.  The
\* handler is called next.
Mark(s) ==
  /\ pc[s] \in {"locked", "read"}
  /\ \E m \in reach[s] :
       /\ pc[s] = "read" => ~Locked(m)
       /\ row' = [row EXCEPT ![m] = "consumed"]
       /\ delivered' = [delivered EXCEPT ![s][m] = @ + 1]
  /\ pc' = [pc EXCEPT ![s] = "handle"]
  /\ UNCHANGED <<rowId, lastId, wakes, faults, link, owed, reach, missed>>

\* A statement of the fetch fails: the transaction rolls back and the loop
\* goes on to its next NOTIFY; this one is spent.
FailFetch(s) ==
  /\ Fetching(s)
  /\ Fault
  /\ pc' = [pc EXCEPT ![s] = "idle"]
  /\ reach' = [reach EXCEPT ![s] = {}]
  /\ missed' = [missed EXCEPT ![s] = @ + 1]
  /\ UNCHANGED <<publishing, link, owed, delivered>>

\* The mark took effect but the subscriber does not get to its handler: the
\* answer to the COMMIT (or to the UPDATE) is lost, or the process is stopped
\* between the two.  The message is gone.
LoseMark(s) ==
  /\ pc[s] \in {"locked", "read"}
  /\ Fault
  /\ \E m \in reach[s] :
       /\ pc[s] = "read" => ~Locked(m)
       /\ row' = [row EXCEPT ![m] = "consumed"]
  /\ pc' = [pc EXCEPT ![s] = "idle"]
  /\ reach' = [reach EXCEPT ![s] = {}]
  /\ UNCHANGED <<rowId, lastId, wakes, link, owed, delivered, missed>>

\* The handler returns (rasa/bus/pg.py: or raises, which is swallowed).
Return(s) ==
  /\ pc[s] = "handle"
  /\ pc' = [pc EXCEPT ![s] = "idle"]
  /\ reach' = [reach EXCEPT ![s] = {}]
  /\ UNCHANGED <<publishing, faults, link, owed, delivered, missed>>

Publisher(m) == Insert(m) \/ Commit(m) \/ Rollback(m)
Dispatch(s) == Fetch(s) \/ LockRow(s) \/ Mark(s) \/ Return(s)
Process(s) == Subscribe(s) \/ Disconnect(s) \/ Reconnect(s) \/ Crash(s)

Next ==
  \/ \E m \in Msgs : Publisher(m)
  \/ RawNotify
  \/ \E s \in Subs : Dispatch(s) \/ FailFetch(s) \/ LoseMark(s) \/ Process(s)

Spec == Init /\ [][Next]_vars

\* The dispatch loop of a live Go process keeps running.  Nothing is assumed of
\* the Python one: psycopg calls its NOTIFY callback only while the connection
\* happens to be in use.
FairSpec == Spec /\ \A s \in GoSubs : WF_vars(Dispatch(s))
-----------------------------------------------------------------------------
(***************************************************************************)
(* Properties.                                                             *)
(***************************************************************************)
\* Conservation of NOTIFYs: against every row that is still pending, each
\* subscriber holds a NOTIFY, is in the middle of a fetch, or has lost one.
\* The dispatch loop takes "the oldest pending row" for a NOTIFY that was
\* sent for another, in competition with other subscribers; this says that
\* the pairing loses nothing by itself, so that a row is left behind only
\* where a crash, a disconnection or a failed statement lost a NOTIFY.
NoRowLeftBehind ==
  \A s \in Subs :
    Cardinality(Pending) <= owed[s] + missed[s] + (IF Fetching(s) THEN 1 ELSE 0)

\* FOR UPDATE plus the mark in the same transaction: of all Go subscribers at
\* most one ever gets a message, and gets it once, even with a Python
\* subscriber on the same channel that takes no lock.
GoHandsOutOnce ==
  \A m \in Msgs, s, t \in GoSubs :
    /\ delivered[s][m] <= 1
    /\ delivered[s][m] > 0 /\ delivered[t][m] > 0 => s = t

\* The bus implements the abstract channel: a row is queued while it is
\* pending and sent once it is committed.
Channel == INSTANCE BusChannel
  WITH Exclusive <- GoSubs, Shared <- PySubs,
       queued <- {m \in Msgs : row[m] = "pending"},
       sent <- {m \in Msgs : row[m] \in {"pending", "consumed"}}
ImplementsChannel == Channel!Spec

\* A Go subscriber that never loses a NOTIFY leaves no row pending for ever,
\* whatever the other subscribers do.
LoyalSubscriberDrains ==
  \A s \in GoSubs, m \in Msgs :
    [](missed[s] = 0) => (row[m] = "pending" ~> row[m] # "pending")

\* schema/implementation/message_bus.md, 3.3: "On reconnect, re-issue LISTEN
\* for all channels and replay unconsumed rows": a subscriber that ran when m
\* was published, and whose connection is up again for good, does not leave m
\* unconsumed.
ReplayedOnReconnect ==
  \A s \in GoSubs, m \in Msgs :
    [](row[m] # "none" => pc[s] # "down") /\ <>[]link[s]
      => []<>(row[m] # "pending")
=============================================================================
