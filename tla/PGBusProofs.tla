---------------------------- MODULE PGBusProofs ----------------------------
(***************************************************************************)
(* Theorems about the bus, for any sets of messages and subscribers.       *)
(*                                                                         *)
(* BusInv is the inductive invariant.  Next to the type invariant it says  *)
(* which row a fetch has in hand (ReachInv), that the row a Go fetch holds *)
(* the lock of is still pending and is held by nobody else (LockInv), that *)
(* no handler was called with a row that is not consumed (FreshInv), and,  *)
(* for the count of NOTIFYs, that the rows OTHER than the one a fetch has  *)
(* in hand are covered too (CoverInv): without it the step that gives a    *)
(* fetch up because its row was consumed meanwhile could not be proved.    *)
(***************************************************************************)
EXTENDS PGBus, FiniteSetTheorems, TLAPS

\* What the program counter says of the row in hand.
ReachInv ==
  \A s \in Subs :
    /\ pc[s] \in {"select", "locked"} => s \in GoSubs
    /\ pc[s] = "read" => s \in PySubs
    /\ pc[s] \in {"locked", "read"} => \E m \in Msgs : reach[s] = {m}
    /\ Fetching(s) => \A m \in reach[s] : row[m] \in {"pending", "consumed"}

\* A row lock is held by one subscriber, and keeps the row pending.
LockInv ==
  \A s \in GoSubs, m \in Msgs :
    pc[s] = "locked" /\ m \in reach[s] =>
      /\ row[m] = "pending"
      /\ \A t \in GoSubs : pc[t] = "locked" /\ m \in reach[t] => t = s

\* A handler is called with consumed rows only, and with a row read by a
\* Python subscriber not before it is marked.
FreshInv ==
  \A s \in Subs, m \in Msgs :
    /\ row[m] # "consumed" => delivered[s][m] = 0
    /\ pc[s] = "read" /\ m \in reach[s] => delivered[s][m] = 0

\* What the NOTIFYs owed to a subscriber cover: all pending rows, and all but
\* the one in hand while it fetches.
Covered(t) ==
  /\ Cardinality(Pending) <= owed[t] + missed[t] + (IF Fetching(t) THEN 1 ELSE 0)
  /\ Fetching(t) => Cardinality(Pending \ reach[t]) <= owed[t] + missed[t]

CoverInv == \A t \in Subs : Covered(t)

BusInv ==
  TypeOK /\ ReachInv /\ LockInv /\ FreshInv /\ CoverInv /\ GoHandsOutOnce

\* Every step keeps the variables in their types.
LEMMA TypeStep ==
  TypeOK /\ [Next]_vars => TypeOK'
<1> SUFFICES ASSUME TypeOK, [Next]_vars
             PROVE  TypeOK'
  OBVIOUS
<1>1. ASSUME NEW m \in Msgs, Insert(m) PROVE TypeOK'
  BY <1>1 DEF Insert, TypeOK, PcStates, RowStates, publishing
<1>2. ASSUME NEW m \in Msgs, Commit(m) PROVE TypeOK'
  BY <1>2 DEF Commit, TypeOK, PcStates, RowStates, publishing
<1>3. ASSUME NEW m \in Msgs, Rollback(m) PROVE TypeOK'
  BY <1>3 DEF Rollback, TypeOK, PcStates, RowStates, publishing
<1>4. CASE RawNotify
  BY <1>4 DEF RawNotify, TypeOK, PcStates, RowStates, publishing
<1>5. ASSUME NEW s \in Subs, Subscribe(s) PROVE TypeOK'
  BY <1>5 DEF Subscribe, TypeOK, PcStates, RowStates, publishing
<1>6. ASSUME NEW s \in Subs, Disconnect(s) PROVE TypeOK'
  BY <1>6 DEF Disconnect, Fault, TypeOK, PcStates, RowStates, publishing
<1>7. ASSUME NEW s \in Subs, Reconnect(s) PROVE TypeOK'
  BY <1>7 DEF Reconnect, TypeOK, PcStates, RowStates, publishing
<1>8. ASSUME NEW s \in Subs, Crash(s) PROVE TypeOK'
  BY <1>8 DEF Crash, Fault, Fetching, TypeOK, PcStates, RowStates, publishing
<1>9. ASSUME NEW s \in Subs, Fetch(s) PROVE TypeOK'
  <2>1. CASE Pending = {}
    BY <1>9, <2>1 DEF Fetch, TypeOK, PcStates, RowStates, publishing
  <2>2. ASSUME reach' = [reach EXCEPT ![s] = Pending],
               pc' = [pc EXCEPT ![s] = "select"]
        PROVE  TypeOK'
    BY <1>9, <2>2 DEF Fetch, Pending, TypeOK, PcStates, RowStates, publishing
  <2>3. ASSUME NEW m \in Pending, reach' = [reach EXCEPT ![s] = {m}],
               pc' = [pc EXCEPT ![s] = "read"]
        PROVE  TypeOK'
    BY <1>9, <2>3 DEF Fetch, Pending, TypeOK, PcStates, RowStates, publishing
  <2> QED
    BY <1>9, <2>1, <2>2, <2>3 DEF Fetch
<1>10. ASSUME NEW s \in Subs, LockRow(s) PROVE TypeOK'
  <2>1. ASSUME NEW m \in reach[s], row[m] = "pending",
               reach' = [reach EXCEPT ![s] = {m}],
               pc' = [pc EXCEPT ![s] = "locked"]
        PROVE  TypeOK'
    BY <1>10, <2>1 DEF LockRow, TypeOK, PcStates, RowStates, publishing
  <2>2. ASSUME NEW m \in reach[s], reach' = [reach EXCEPT ![s] = @ \ {m}],
               pc' = [pc EXCEPT ![s] = IF reach[s] = {m} THEN "idle" ELSE "select"]
        PROVE  TypeOK'
    BY <1>10, <2>2 DEF LockRow, TypeOK, PcStates, RowStates, publishing
  <2> QED
    BY <1>10, <2>1, <2>2 DEF LockRow
<1>11. ASSUME NEW s \in Subs, Mark(s) PROVE TypeOK'
  BY <1>11 DEF Mark, TypeOK, PcStates, RowStates, publishing
<1>12. ASSUME NEW s \in Subs, FailFetch(s) PROVE TypeOK'
  BY <1>12 DEF FailFetch, Fault, TypeOK, PcStates, RowStates, publishing
<1>13. ASSUME NEW s \in Subs, LoseMark(s) PROVE TypeOK'
  BY <1>13 DEF LoseMark, Fault, TypeOK, PcStates, RowStates, publishing
<1>14. ASSUME NEW s \in Subs, Return(s) PROVE TypeOK'
  BY <1>14 DEF Return, TypeOK, PcStates, RowStates, publishing
<1>15. CASE UNCHANGED vars
  BY <1>15 DEF vars, TypeOK
<1> QED
  BY <1>1, <1>2, <1>3, <1>4, <1>5, <1>6, <1>7, <1>8,
     <1>9, <1>10, <1>11, <1>12, <1>13, <1>14, <1>15 DEF Next, Publisher, Dispatch, Process

\* Every step keeps what the program counter says of the row in hand.
LEMMA ReachStep ==
  TypeOK /\ ReachInv /\ [Next]_vars => ReachInv'
<1> SUFFICES ASSUME TypeOK, ReachInv, [Next]_vars
             PROVE  ReachInv'
  OBVIOUS
<1>1. ASSUME NEW m \in Msgs, Insert(m) PROVE ReachInv'
  BY <1>1 DEF Insert, TypeOK, ReachInv, Fetching, publishing, Subs
<1>2. ASSUME NEW m \in Msgs, Commit(m) PROVE ReachInv'
  BY <1>2 DEF Commit, TypeOK, ReachInv, Fetching, publishing, Subs
<1>3. ASSUME NEW m \in Msgs, Rollback(m) PROVE ReachInv'
  BY <1>3 DEF Rollback, TypeOK, ReachInv, Fetching, publishing, Subs
<1>4. CASE RawNotify
  BY <1>4 DEF RawNotify, TypeOK, ReachInv, Fetching, publishing, Subs
<1>5. ASSUME NEW s \in Subs, Subscribe(s) PROVE ReachInv'
  BY <1>5 DEF Subscribe, TypeOK, ReachInv, Fetching, publishing, Subs
<1>6. ASSUME NEW s \in Subs, Disconnect(s) PROVE ReachInv'
  BY <1>6 DEF Disconnect, TypeOK, ReachInv, Fetching, publishing, Subs
<1>7. ASSUME NEW s \in Subs, Reconnect(s) PROVE ReachInv'
  BY <1>7 DEF Reconnect, TypeOK, ReachInv, Fetching, publishing, Subs
<1>8. ASSUME NEW s \in Subs, Crash(s) PROVE ReachInv'
  BY <1>8 DEF Crash, TypeOK, ReachInv, Fetching, publishing, Subs
<1>9. ASSUME NEW s \in Subs, Fetch(s) PROVE ReachInv'
  <2>1. CASE Pending = {}
    BY <1>9, <2>1 DEF Fetch, TypeOK, ReachInv, Fetching, publishing, Subs
  <2>2. ASSUME reach' = [reach EXCEPT ![s] = Pending],
               pc' = [pc EXCEPT ![s] = "select"], s \in GoSubs
        PROVE  ReachInv'
    BY <1>9, <2>2 DEF Fetch, Pending, TypeOK, ReachInv, Fetching, publishing, Subs
  <2>3. ASSUME NEW m \in Pending, reach' = [reach EXCEPT ![s] = {m}],
               pc' = [pc EXCEPT ![s] = "read"], s \in PySubs
        PROVE  ReachInv'
    BY <1>9, <2>3 DEF Fetch, Pending, TypeOK, ReachInv, Fetching, publishing, Subs
  <2> QED
    BY <1>9, <2>1, <2>2, <2>3 DEF Fetch
<1>10. ASSUME NEW s \in Subs, LockRow(s) PROVE ReachInv'
  <2>1. ASSUME NEW m \in reach[s], row[m] = "pending",
               reach' = [reach EXCEPT ![s] = {m}],
               pc' = [pc EXCEPT ![s] = "locked"]
        PROVE  ReachInv'
    BY <1>10, <2>1 DEF LockRow, TypeOK, ReachInv, Fetching, publishing, Subs
  <2>2. ASSUME NEW m \in reach[s], reach' = [reach EXCEPT ![s] = @ \ {m}],
               pc' = [pc EXCEPT ![s] = IF reach[s] = {m} THEN "idle" ELSE "select"]
        PROVE  ReachInv'
    BY <1>10, <2>2 DEF LockRow, TypeOK, ReachInv, Fetching, publishing, Subs
  <2> QED
    BY <1>10, <2>1, <2>2 DEF LockRow
<1>11. ASSUME NEW s \in Subs, Mark(s) PROVE ReachInv'
  BY <1>11 DEF Mark, TypeOK, ReachInv, Fetching, publishing, Subs
<1>12. ASSUME NEW s \in Subs, FailFetch(s) PROVE ReachInv'
  BY <1>12 DEF FailFetch, TypeOK, ReachInv, Fetching, publishing, Subs
<1>13. ASSUME NEW s \in Subs, LoseMark(s) PROVE ReachInv'
  BY <1>13 DEF LoseMark, TypeOK, ReachInv, Fetching, publishing, Subs
<1>14. ASSUME NEW s \in Subs, Return(s) PROVE ReachInv'
  BY <1>14 DEF Return, TypeOK, ReachInv, Fetching, publishing, Subs
<1>15. CASE UNCHANGED vars
  BY <1>15 DEF vars, ReachInv, Fetching
<1> QED
  BY <1>1, <1>2, <1>3, <1>4, <1>5, <1>6, <1>7, <1>8,
     <1>9, <1>10, <1>11, <1>12, <1>13, <1>14, <1>15 DEF Next, Publisher, Dispatch, Process

\* Every step keeps locked rows pending and locked once.
LEMMA LockStep ==
  TypeOK /\ ReachInv /\ LockInv /\ [Next]_vars => LockInv'
<1> SUFFICES ASSUME TypeOK, ReachInv, LockInv, [Next]_vars
             PROVE  LockInv'
  OBVIOUS
<1>1. ASSUME NEW m \in Msgs, Insert(m) PROVE LockInv'
  BY <1>1 DEF Insert, TypeOK, ReachInv, LockInv, publishing, Subs
<1>2. ASSUME NEW m \in Msgs, Commit(m) PROVE LockInv'
  BY <1>2 DEF Commit, TypeOK, ReachInv, LockInv, publishing, Subs
<1>3. ASSUME NEW m \in Msgs, Rollback(m) PROVE LockInv'
  BY <1>3 DEF Rollback, TypeOK, ReachInv, LockInv, publishing, Subs
<1>4. CASE RawNotify
  BY <1>4 DEF RawNotify, TypeOK, ReachInv, LockInv, publishing, Subs
<1>5. ASSUME NEW s \in Subs, Subscribe(s) PROVE LockInv'
  BY <1>5 DEF Subscribe, TypeOK, ReachInv, LockInv, publishing, Subs
<1>6. ASSUME NEW s \in Subs, Disconnect(s) PROVE LockInv'
  BY <1>6 DEF Disconnect, TypeOK, ReachInv, LockInv, publishing, Subs
<1>7. ASSUME NEW s \in Subs, Reconnect(s) PROVE LockInv'
  BY <1>7 DEF Reconnect, TypeOK, ReachInv, LockInv, publishing, Subs
<1>8. ASSUME NEW s \in Subs, Crash(s) PROVE LockInv'
  BY <1>8 DEF Crash, TypeOK, ReachInv, LockInv, publishing, Subs
<1>9. ASSUME NEW s \in Subs, Fetch(s) PROVE LockInv'
  BY <1>9 DEF Fetch, TypeOK, ReachInv, LockInv, publishing, Subs
<1>10. ASSUME NEW s \in Subs, LockRow(s) PROVE LockInv'
  <2> PICK m \in reach[s] :
        /\ ~Locked(m)
        /\ \/ /\ row[m] = "pending"
              /\ reach' = [reach EXCEPT ![s] = {m}]
              /\ pc' = [pc EXCEPT ![s] = "locked"]
           \/ /\ row[m] # "pending"
              /\ reach' = [reach EXCEPT ![s] = @ \ {m}]
              /\ pc' = [pc EXCEPT ![s] = IF reach[s] = {m} THEN "idle" ELSE "select"]
    BY <1>10 DEF LockRow
  <2>1. row' = row /\ s \in GoSubs
    BY <1>10 DEF LockRow, publishing, ReachInv
  <2>2. CASE row[m] = "pending"
    BY <2>1, <2>2 DEF Locked, TypeOK, LockInv, Subs
  <2>3. CASE row[m] # "pending"
    BY <2>1, <2>3 DEF TypeOK, LockInv, Subs
  <2> QED
    BY <2>2, <2>3
<1>11. ASSUME NEW s \in Subs, Mark(s) PROVE LockInv'
  BY <1>11 DEF Mark, Locked, TypeOK, ReachInv, LockInv, publishing, Subs
<1>12. ASSUME NEW s \in Subs, FailFetch(s) PROVE LockInv'
  BY <1>12 DEF FailFetch, TypeOK, ReachInv, LockInv, publishing, Subs
<1>13. ASSUME NEW s \in Subs, LoseMark(s) PROVE LockInv'
  BY <1>13 DEF LoseMark, Locked, TypeOK, ReachInv, LockInv, publishing, Subs
<1>14. ASSUME NEW s \in Subs, Return(s) PROVE LockInv'
  BY <1>14 DEF Return, TypeOK, ReachInv, LockInv, publishing, Subs
<1>15. CASE UNCHANGED vars
  BY <1>15 DEF vars, LockInv
<1> QED
  BY <1>1, <1>2, <1>3, <1>4, <1>5, <1>6, <1>7, <1>8,
     <1>9, <1>10, <1>11, <1>12, <1>13, <1>14, <1>15 DEF Next, Publisher, Dispatch, Process

\* Every step keeps handlers away from rows that are not consumed.
LEMMA FreshStep ==
  TypeOK /\ ReachInv /\ FreshInv /\ [Next]_vars => FreshInv'
<1> SUFFICES ASSUME TypeOK, ReachInv, FreshInv, [Next]_vars
             PROVE  FreshInv'
  OBVIOUS
<1>1. ASSUME NEW m \in Msgs, Insert(m) PROVE FreshInv'
  BY <1>1 DEF Insert, TypeOK, ReachInv, FreshInv, publishing, Subs
<1>2. ASSUME NEW m \in Msgs, Commit(m) PROVE FreshInv'
  BY <1>2 DEF Commit, TypeOK, ReachInv, FreshInv, publishing, Subs
<1>3. ASSUME NEW m \in Msgs, Rollback(m) PROVE FreshInv'
  BY <1>3 DEF Rollback, TypeOK, ReachInv, FreshInv, publishing, Subs
<1>4. CASE RawNotify
  BY <1>4 DEF RawNotify, TypeOK, ReachInv, FreshInv, publishing, Subs
<1>5. ASSUME NEW s \in Subs, Subscribe(s) PROVE FreshInv'
  BY <1>5 DEF Subscribe, TypeOK, ReachInv, FreshInv, publishing, Subs
<1>6. ASSUME NEW s \in Subs, Disconnect(s) PROVE FreshInv'
  BY <1>6 DEF Disconnect, TypeOK, ReachInv, FreshInv, publishing, Subs
<1>7. ASSUME NEW s \in Subs, Reconnect(s) PROVE FreshInv'
  BY <1>7 DEF Reconnect, TypeOK, ReachInv, FreshInv, publishing, Subs
<1>8. ASSUME NEW s \in Subs, Crash(s) PROVE FreshInv'
  BY <1>8 DEF Crash, TypeOK, ReachInv, FreshInv, publishing, Subs
<1>9. ASSUME NEW s \in Subs, Fetch(s) PROVE FreshInv'
  <2>1. CASE Pending = {}
    BY <1>9, <2>1 DEF Fetch, TypeOK, ReachInv, FreshInv, publishing, Subs
  <2>2. ASSUME reach' = [reach EXCEPT ![s] = Pending],
               pc' = [pc EXCEPT ![s] = "select"], s \in GoSubs
        PROVE  FreshInv'
    BY <1>9, <2>2 DEF Fetch, Pending, TypeOK, ReachInv, FreshInv, publishing, Subs
  <2>3. ASSUME NEW m \in Pending, reach' = [reach EXCEPT ![s] = {m}],
               pc' = [pc EXCEPT ![s] = "read"], s \in PySubs
        PROVE  FreshInv'
    BY <1>9, <2>3 DEF Fetch, Pending, TypeOK, ReachInv, FreshInv, publishing, Subs
  <2> QED
    BY <1>9, <2>1, <2>2, <2>3 DEF Fetch
<1>10. ASSUME NEW s \in Subs, LockRow(s) PROVE FreshInv'
  BY <1>10 DEF LockRow, TypeOK, ReachInv, FreshInv, publishing, Subs
<1>11. ASSUME NEW s \in Subs, Mark(s) PROVE FreshInv'
  BY <1>11 DEF Mark, TypeOK, ReachInv, FreshInv, publishing, Subs
<1>12. ASSUME NEW s \in Subs, FailFetch(s) PROVE FreshInv'
  BY <1>12 DEF FailFetch, TypeOK, ReachInv, FreshInv, publishing, Subs
<1>13. ASSUME NEW s \in Subs, LoseMark(s) PROVE FreshInv'
  BY <1>13 DEF LoseMark, TypeOK, ReachInv, FreshInv, publishing, Subs
<1>14. ASSUME NEW s \in Subs, Return(s) PROVE FreshInv'
  BY <1>14 DEF Return, TypeOK, ReachInv, FreshInv, publishing, Subs
<1>15. CASE UNCHANGED vars
  BY <1>15 DEF vars, FreshInv
<1> QED
  BY <1>1, <1>2, <1>3, <1>4, <1>5, <1>6, <1>7, <1>8,
     <1>9, <1>10, <1>11, <1>12, <1>13, <1>14, <1>15 DEF Next, Publisher, Dispatch, Process
\* The pending rows, and those of them outside any set, are finitely many.
LEMMA PendingFinite ==
  ASSUME TypeOK
  PROVE  /\ IsFiniteSet(Pending)
         /\ Cardinality(Pending) \in Nat
         /\ \A T : IsFiniteSet(Pending \ T) /\ Cardinality(Pending \ T) \in Nat
<1>1. IsFiniteSet(Pending)
  BY FS_Subset, BusAssumption DEF Pending
<1>2. \A T : IsFiniteSet(Pending \ T)
  BY <1>1, FS_Subset
<1> QED
  BY <1>1, <1>2, FS_CardinalityType

\* A subscriber stays covered in a step that adds no pending row, spends no
\* NOTIFY of its own and does not change the fetch it is in.
LEMMA CoveredKept ==
  ASSUME TypeOK, TypeOK', NEW t \in Subs, Covered(t),
         Pending' \subseteq Pending,
         Fetching(t)' <=> Fetching(t),
         Fetching(t) => reach'[t] = reach[t],
         owed'[t] + missed'[t] >= owed[t] + missed[t]
  PROVE  Covered(t)'
<1>1. /\ Pending' \in SUBSET Pending
      /\ Pending' \ reach[t] \in SUBSET (Pending \ reach[t])
  OBVIOUS
<1>2. /\ Cardinality(Pending') <= Cardinality(Pending)
      /\ Cardinality(Pending' \ reach[t]) <= Cardinality(Pending \ reach[t])
  BY <1>1, PendingFinite, FS_Subset
<1>3. /\ Cardinality(Pending') \in Nat
      /\ Cardinality(Pending' \ reach[t]) \in Nat
  BY <1>1, PendingFinite, FS_Subset, FS_CardinalityType
<1>4. /\ Cardinality(Pending) \in Nat
      /\ Cardinality(Pending \ reach[t]) \in Nat
  BY PendingFinite
<1>5. /\ owed[t] \in Nat /\ missed[t] \in Nat
      /\ owed'[t] \in Nat /\ missed'[t] \in Nat
  BY DEF TypeOK
<1>6. CASE Fetching(t)
  <2>1. Cardinality(Pending') <= owed'[t] + missed'[t] + 1
    BY <1>2, <1>3, <1>4, <1>5, <1>6 DEF Covered
  <2>2. Cardinality(Pending' \ reach'[t]) <= owed'[t] + missed'[t]
    BY <1>2, <1>3, <1>4, <1>5, <1>6 DEF Covered
  <2> QED
    BY <1>6, <2>1, <2>2 DEF Covered
<1>7. CASE ~Fetching(t)
  <2>1. Cardinality(Pending') <= owed'[t] + missed'[t] + 0
    BY <1>2, <1>3, <1>4, <1>5, <1>7 DEF Covered
  <2> QED
    BY <1>7, <2>1 DEF Covered
<1> QED
  BY <1>6, <1>7

\* A commit adds one pending row, and a NOTIFY (or a missed one) everywhere.
LEMMA CoveredCommit ==
  ASSUME TypeOK, TypeOK', NEW t \in Subs, Covered(t), NEW m \in Msgs, Commit(m)
  PROVE  Covered(t)'
<1>1. Pending' = Pending \cup {m} /\ m \notin Pending
  BY DEF Commit, Pending, TypeOK
<1>2. /\ IsFiniteSet(Pending)
      /\ Cardinality(Pending) \in Nat
      /\ IsFiniteSet(Pending \ reach[t])
      /\ Cardinality(Pending \ reach[t]) \in Nat
      /\ owed[t] \in Nat /\ missed[t] \in Nat
  BY PendingFinite DEF TypeOK
<1>3. Cardinality(Pending') = Cardinality(Pending) + 1
  BY <1>1, <1>2, FS_AddElement
<1>4. /\ Cardinality(Pending' \ reach[t]) \in Nat
      /\ Cardinality(Pending' \ reach[t]) <= Cardinality(Pending \ reach[t]) + 1
  <2>1. CASE m \in reach[t]
    <3>1. Pending' \ reach[t] = Pending \ reach[t]
      BY <1>1, <2>1
    <3>2. Cardinality(Pending' \ reach[t]) = Cardinality(Pending \ reach[t])
      BY ONLY <3>1, Zenon
    <3> QED
      BY <1>2, <3>2
  <2>2. CASE m \notin reach[t]
    <3>1. Pending' \ reach[t] = (Pending \ reach[t]) \cup {m}
      BY <1>1, <2>2
    <3>2. Cardinality(Pending' \ reach[t])
            = IF m \in Pending \ reach[t] THEN Cardinality(Pending \ reach[t])
              ELSE Cardinality(Pending \ reach[t]) + 1
      BY <1>2, <3>1, FS_AddElement, Zenon
    <3> QED
      BY <1>2, <3>2
  <2> QED
    BY <2>1, <2>2
<1>5. owed'[t] + missed'[t] = owed[t] + missed[t] + 1
  BY <1>2 DEF Commit, TypeOK
<1>6. reach'[t] = reach[t] /\ (Fetching(t)' <=> Fetching(t))
  BY DEF Commit, Fetching
<1>7. CASE Fetching(t)
  <2>1. Cardinality(Pending') <= owed'[t] + missed'[t] + 1
    BY <1>2, <1>3, <1>5, <1>7 DEF Covered
  <2>2. Cardinality(Pending' \ reach'[t]) <= owed'[t] + missed'[t]
    BY <1>2, <1>4, <1>5, <1>6, <1>7 DEF Covered
  <2> QED
    BY <1>6, <1>7, <2>1, <2>2 DEF Covered
<1>8. CASE ~Fetching(t)
  <2>1. Cardinality(Pending') <= owed'[t] + missed'[t] + 0
    BY <1>2, <1>3, <1>5, <1>8 DEF Covered
  <2> QED
    BY <1>6, <1>8, <2>1 DEF Covered
<1> QED
  BY <1>7, <1>8
\* A subscriber that takes a NOTIFY is covered: what it spends stands for a
\* row it has in hand.
LEMMA CoveredFetch ==
  ASSUME TypeOK, TypeOK', NEW t \in Subs, Covered(t), Fetch(t)
  PROVE  Covered(t)'
<1>1. Pending' = Pending /\ missed' = missed
  BY DEF Fetch, Pending, publishing
<1>2. /\ Cardinality(Pending) \in Nat /\ IsFiniteSet(Pending)
      /\ owed[t] \in Nat /\ missed[t] \in Nat /\ owed'[t] = owed[t] - 1
  BY PendingFinite DEF Fetch, TypeOK
<1>3. ~Fetching(t)
  BY DEF Fetch, Fetching
<1>4. Cardinality(Pending) <= owed[t] + missed[t] + 0
  BY <1>3 DEF Covered
<1>5. Cardinality(Pending') <= owed'[t] + missed'[t] + 1
  BY <1>1, <1>2, <1>4
<1>6. CASE Pending = {} /\ UNCHANGED <<pc, reach>>
  <2>1. ~Fetching(t)'
    BY <1>3, <1>6 DEF Fetching
  <2>2. Cardinality(Pending') = 0
    BY <1>1, <1>6, FS_EmptySet
  <2>3. owed'[t] \in Nat /\ missed'[t] \in Nat
    BY DEF TypeOK
  <2> QED
    BY <2>1, <2>2, <2>3 DEF Covered
<1>7. CASE reach' = [reach EXCEPT ![t] = Pending] /\ pc' = [pc EXCEPT ![t] = "select"]
  <2>1. Fetching(t)' /\ reach'[t] = Pending
    BY <1>7 DEF TypeOK, Fetching
  <2>2. Pending' \ reach'[t] = {}
    BY <1>1, <2>1
  <2>3. Cardinality(Pending' \ reach'[t]) = 0
    BY <2>2, FS_EmptySet, Zenon
  <2>4. owed'[t] \in Nat /\ missed'[t] \in Nat
    BY DEF TypeOK
  <2> QED
    BY <1>5, <2>1, <2>3, <2>4 DEF Covered
<1>8. ASSUME NEW m \in Pending, reach' = [reach EXCEPT ![t] = {m}],
             pc' = [pc EXCEPT ![t] = "read"]
      PROVE  Covered(t)'
  <2>1. Fetching(t)' /\ reach'[t] = {m}
    BY <1>8 DEF TypeOK, Fetching
  <2>2. Cardinality(Pending \ {m}) = Cardinality(Pending) - 1
    BY <1>2, FS_RemoveElement
  <2>3. Cardinality(Pending' \ reach'[t]) = Cardinality(Pending) - 1
    BY <1>1, <2>1, <2>2, Zenon
  <2>4. Cardinality(Pending' \ reach'[t]) <= owed'[t] + missed'[t]
    BY <1>1, <1>2, <1>4, <2>3
  <2> QED
    BY <1>5, <2>1, <2>4 DEF Covered
<1> QED
  BY <1>6, <1>7, <1>8 DEF Fetch

\* Waiting for the lock keeps a subscriber covered: a row that is passed over
\* is not pending any more.
LEMMA CoveredLockRow ==
  ASSUME TypeOK, TypeOK', NEW t \in Subs, Covered(t), LockRow(t)
  PROVE  Covered(t)'
<1>1. /\ Pending' = Pending /\ missed' = missed /\ owed' = owed
      /\ Fetching(t)
  BY DEF LockRow, Pending, Fetching, publishing
<1>2. /\ Cardinality(Pending) \in Nat /\ IsFiniteSet(Pending)
      /\ owed[t] \in Nat /\ missed[t] \in Nat
  BY PendingFinite DEF TypeOK
<1>3. /\ Cardinality(Pending) <= owed[t] + missed[t] + 1
      /\ Cardinality(Pending \ reach[t]) <= owed[t] + missed[t]
  BY <1>1 DEF Covered
<1>4. ASSUME NEW m \in reach[t], row[m] = "pending",
             reach' = [reach EXCEPT ![t] = {m}],
             pc' = [pc EXCEPT ![t] = "locked"]
      PROVE  Covered(t)'
  <2>1. Fetching(t)' /\ reach'[t] = {m} /\ m \in Pending
    BY <1>4 DEF TypeOK, Fetching, Pending
  <2>2. Cardinality(Pending \ {m}) = Cardinality(Pending) - 1
    BY <1>2, <2>1, FS_RemoveElement
  <2>3. Cardinality(Pending' \ reach'[t]) = Cardinality(Pending) - 1
    BY <1>1, <2>1, <2>2, Zenon
  <2> QED
    BY <1>1, <1>2, <1>3, <2>1, <2>3 DEF Covered
<1>5. ASSUME NEW m \in reach[t], row[m] # "pending",
             reach' = [reach EXCEPT ![t] = @ \ {m}],
             pc' = [pc EXCEPT ![t] = IF reach[t] = {m} THEN "idle" ELSE "select"]
      PROVE  Covered(t)'
  <2>1. m \notin Pending
    BY <1>5 DEF Pending
  <2>2. CASE reach[t] = {m}
    <3>1. ~Fetching(t)'
      BY <1>5, <2>2 DEF TypeOK, Fetching
    <3>2. Pending \ reach[t] = Pending
      BY <2>1, <2>2
    <3>3. Cardinality(Pending') <= owed[t] + missed[t]
      BY <1>1, <1>3, <3>2, Zenon
    <3> QED
      BY <1>1, <1>2, <3>1, <3>3 DEF Covered
  <2>3. CASE reach[t] # {m}
    <3>1. Fetching(t)' /\ reach'[t] = reach[t] \ {m}
      BY <1>5, <2>3 DEF TypeOK, Fetching
    <3>2. Pending' \ reach'[t] = Pending \ reach[t]
      BY <1>1, <2>1, <3>1
    <3>3. /\ Cardinality(Pending' \ reach'[t]) <= owed'[t] + missed'[t]
          /\ Cardinality(Pending') <= owed'[t] + missed'[t] + 1
      BY <1>1, <1>3, <3>2, Zenon
    <3> QED
      BY <3>1, <3>3 DEF Covered
  <2> QED
    BY <2>2, <2>3
<1> QED
  BY <1>4, <1>5 DEF LockRow

\* The row a subscriber marks is the one it has in hand, so that the rows left
\* are those covered besides.
LEMMA CoveredMark ==
  ASSUME TypeOK, TypeOK', ReachInv, NEW t \in Subs, Covered(t),
         Mark(t) \/ LoseMark(t)
  PROVE  Covered(t)'
<1>1. /\ missed' = missed /\ owed' = owed
      /\ Fetching(t) /\ ~Fetching(t)'
  BY DEF Mark, LoseMark, Fetching, TypeOK
<1>2. PICK m \in Msgs : reach[t] = {m} /\ row' = [row EXCEPT ![m] = "consumed"]
  BY DEF Mark, LoseMark, ReachInv
<1>3. Pending' = Pending \ reach[t]
  BY <1>2 DEF Pending, TypeOK
<1>4. Cardinality(Pending') <= owed'[t] + missed'[t]
  BY <1>1, <1>3, Zenon DEF Covered
<1>5. owed'[t] \in Nat /\ missed'[t] \in Nat
  BY DEF TypeOK
<1> QED
  BY <1>1, <1>4, <1>5 DEF Covered

\* A crash or a failed statement books the NOTIFYs it costs as missed.
LEMMA CoveredFault ==
  ASSUME TypeOK, TypeOK', NEW t \in Subs, Covered(t), Crash(t) \/ FailFetch(t)
  PROVE  Covered(t)'
<1>1. Pending' = Pending /\ ~Fetching(t)'
  BY DEF Crash, FailFetch, Pending, Fetching, TypeOK, publishing
<1>2. /\ Cardinality(Pending) \in Nat
      /\ owed[t] \in Nat /\ missed[t] \in Nat
  BY PendingFinite DEF TypeOK
<1>3. owed'[t] + missed'[t] = owed[t] + missed[t] + (IF Fetching(t) THEN 1 ELSE 0)
  <2>1. CASE Crash(t)
    <3>1. /\ owed'[t] = 0
          /\ missed'[t] = missed[t] + owed[t] + (IF Fetching(t) THEN 1 ELSE 0)
      BY <2>1 DEF Crash, TypeOK
    <3> QED
      BY <1>2, <3>1
  <2>2. CASE FailFetch(t)
    BY <1>2, <2>2 DEF FailFetch, TypeOK
  <2> QED
    BY <2>1, <2>2
<1>4. Cardinality(Pending') <= owed'[t] + missed'[t]
  BY <1>1, <1>3 DEF Covered
<1>5. owed'[t] \in Nat /\ missed'[t] \in Nat
  BY DEF TypeOK
<1> QED
  BY <1>1, <1>4, <1>5 DEF Covered
\* Every step keeps every subscriber covered.
LEMMA CoveredStep ==
  ASSUME TypeOK, TypeOK', ReachInv, [Next]_vars,
         NEW t \in Subs, Covered(t)
  PROVE  Covered(t)'
<1>c. /\ owed[t] \in Nat /\ missed[t] \in Nat
      /\ owed'[t] \in Nat /\ missed'[t] \in Nat
  BY DEF TypeOK
<1>1. ASSUME NEW m \in Msgs, Insert(m) \/ Rollback(m) PROVE Covered(t)'
  <2>1. Pending' \subseteq Pending
    BY <1>1 DEF Insert, Rollback, Pending, TypeOK
  <2> QED
    BY <1>1, <1>c, <2>1, CoveredKept DEF Insert, Rollback, Fetching
<1>2. CASE RawNotify
  <2>1. Pending' \subseteq Pending
    BY <1>2 DEF RawNotify, Pending
  <2>2. owed'[t] + missed'[t] >= owed[t] + missed[t]
    BY <1>2, <1>c DEF RawNotify
  <2> QED
    BY <1>2, <2>1, <2>2, CoveredKept DEF RawNotify, Fetching
<1>3. ASSUME NEW s \in Subs,
             Subscribe(s) \/ Disconnect(s) \/ Reconnect(s) \/ Return(s)
      PROVE  Covered(t)'
  <2>1. /\ Pending' \subseteq Pending /\ owed' = owed /\ missed' = missed
    BY <1>3 DEF Subscribe, Disconnect, Reconnect, Return, Pending, publishing
  <2>2. /\ Fetching(t)' <=> Fetching(t)
        /\ Fetching(t) => reach'[t] = reach[t]
    BY <1>3 DEF Subscribe, Disconnect, Reconnect, Return, Fetching, TypeOK
  <2> QED
    BY <1>c, <2>1, <2>2, CoveredKept
<1>4. ASSUME NEW s \in Subs, s # t,
             Fetch(s) \/ LockRow(s) \/ Mark(s) \/ LoseMark(s) \/ Crash(s) \/ FailFetch(s)
      PROVE  Covered(t)'
  <2>1. Pending' \subseteq Pending
    BY <1>4 DEF Fetch, LockRow, Mark, LoseMark, Crash, FailFetch, Pending,
                publishing, TypeOK
  <2>2. /\ pc'[t] = pc[t] /\ reach'[t] = reach[t]
        /\ owed'[t] = owed[t] /\ missed'[t] = missed[t]
    BY <1>4 DEF Fetch, LockRow, Mark, LoseMark, Crash, FailFetch, TypeOK
  <2>3. Fetching(t)' <=> Fetching(t)
    BY <2>2 DEF Fetching
  <2> QED
    BY <1>c, <2>1, <2>2, <2>3, CoveredKept
<1>5. CASE UNCHANGED vars
  BY <1>5, <1>c, CoveredKept DEF vars, Pending, Fetching
<1> QED
  BY <1>1, <1>2, <1>3, <1>4, <1>5, CoveredCommit, CoveredFetch, CoveredLockRow,
     CoveredMark, CoveredFault DEF Next, Publisher, Dispatch, Process
\* Only Mark calls a handler.
LEMMA OthersDoNotDeliver ==
  ASSUME [Next]_vars, ~ \E s \in Subs : Mark(s)
  PROVE  delivered' = delivered
BY DEF Next, vars, Publisher, Dispatch, Process, Insert, Commit, Rollback,
       RawNotify, Subscribe, Disconnect, Reconnect, Crash, Fetch, LockRow,
       FailFetch, LoseMark, Return

\* A Go subscriber marks a row it holds the lock of, hence a pending one, which
\* nobody was handed so far.
LEMMA OnceStep ==
  ASSUME TypeOK, TypeOK', ReachInv, LockInv, FreshInv, GoHandsOutOnce, [Next]_vars
  PROVE  GoHandsOutOnce'
<1>1. CASE ~ \E s \in Subs : Mark(s)
  BY <1>1, OthersDoNotDeliver DEF GoHandsOutOnce
<1>2. ASSUME NEW s \in Subs, Mark(s) PROVE GoHandsOutOnce'
  <2>1. PICK m \in reach[s] : delivered' = [delivered EXCEPT ![s][m] = @ + 1]
    BY <1>2 DEF Mark
  <2>2. m \in Msgs
    BY DEF TypeOK
  <2>3. CASE s \in PySubs
    <3>1. \A t \in GoSubs : delivered'[t] = delivered[t]
      BY <2>1, <2>3, BusAssumption DEF TypeOK, Subs
    <3> QED
      BY <3>1 DEF GoHandsOutOnce
  <2>4. CASE s \in GoSubs
    <3>1. pc[s] = "locked"
      BY <1>2, <2>4, BusAssumption DEF Mark, ReachInv, Subs
    <3>2. \A t \in Subs : delivered[t][m] = 0
      BY <2>2, <2>4, <3>1 DEF LockInv, FreshInv
    <3>3. /\ \A t \in GoSubs : delivered'[t][m] = IF t = s THEN 1 ELSE 0
          /\ \A t \in GoSubs, n \in Msgs : n # m => delivered'[t][n] = delivered[t][n]
      BY <2>1, <2>2, <3>2 DEF TypeOK, Subs
    <3> QED
      BY <3>3 DEF GoHandsOutOnce
  <2> QED
    BY <2>3, <2>4 DEF Subs
<1> QED
  BY <1>1, <1>2

\* The inductive invariant holds initially.
LEMMA InitBusInv == Init => BusInv
<1> SUFFICES ASSUME Init PROVE BusInv
  OBVIOUS
<1>1. TypeOK /\ ReachInv /\ LockInv /\ FreshInv /\ GoHandsOutOnce
  BY DEF Init, TypeOK, RowStates, PcStates, ReachInv, Fetching, LockInv, FreshInv,
         GoHandsOutOnce, Subs
<1>2. Pending = {}
  BY DEF Init, Pending
<1>3. Cardinality(Pending) = 0
  BY <1>2, FS_EmptySet
<1>4. CoverInv
  BY <1>3 DEF Init, CoverInv, Covered, Fetching
<1> QED
  BY <1>1, <1>4 DEF BusInv

\* Every step keeps the inductive invariant.
LEMMA NextBusInv == BusInv /\ [Next]_vars => BusInv'
<1> SUFFICES ASSUME BusInv, [Next]_vars PROVE BusInv'
  OBVIOUS
<1>1. TypeOK'
  BY TypeStep DEF BusInv
<1>2. ReachInv' /\ LockInv' /\ FreshInv'
  BY ReachStep, LockStep, FreshStep DEF BusInv
<1>3. CoverInv'
  BY <1>1, CoveredStep DEF BusInv, CoverInv
<1>4. GoHandsOutOnce'
  BY <1>1, OnceStep DEF BusInv
<1> QED
  BY <1>1, <1>2, <1>3, <1>4 DEF BusInv

\* The inductive invariant always holds.
LEMMA BusInvariant == Spec => []BusInv
BY InitBusInv, NextBusInv, PTL DEF Spec

-----------------------------------------------------------------------------
\* The variables keep their types: no step leaves a count negative or a
\* dispatch loop in an unknown place.
THEOREM BusTypes == Spec => []TypeOK
<1>1. BusInv => TypeOK
  BY DEF BusInv
<1> QED
  BY <1>1, BusInvariant, PTL

\* Each pending row is covered, at every subscriber, by a NOTIFY it holds, by
\* the fetch it is in, or by one it missed: "the oldest pending row for each
\* NOTIFY" strands no row, for any number of messages and subscribers.
THEOREM BusLeavesNoRowBehind == Spec => []NoRowLeftBehind
<1>1. BusInv => NoRowLeftBehind
  BY DEF BusInv, CoverInv, Covered, NoRowLeftBehind
<1> QED
  BY <1>1, BusInvariant, PTL

\* A message goes to one Go subscriber at most, and once.
THEOREM BusGoHandsOutOnce == Spec => []GoHandsOutOnce
<1>1. BusInv => GoHandsOutOnce
  BY DEF BusInv
<1> QED
  BY <1>1, BusInvariant, PTL

-----------------------------------------------------------------------------
(***************************************************************************)
(* The refinement.  A commit is a Send, a mark is a Take (Go) or a         *)
(* TakeShared (Python), a mark that loses its message is a Lose or, when   *)
(* the row was consumed already, a stutter; all else stutters.             *)
(***************************************************************************)
Queued == {m \in Msgs : row[m] = "pending"}
Sent == {m \in Msgs : row[m] \in {"pending", "consumed"}}

\* The refinement of the channel: initial states map to initial states, ..
LEMMA ChannelInit == Init => Channel!Init
BY DEF Init, Channel!Init, Channel!Subs, Subs

\* A step that moves no row into or out of "pending" and "consumed", and calls
\* no handler, is a stutter of the channel.
LEMMA ChannelStutter ==
  ASSUME Queued' = Queued, Sent' = Sent, delivered' = delivered
  PROVE  UNCHANGED Channel!vars
BY DEF Queued, Sent, Channel!vars

\* .. a commit to a Send, ..
LEMMA ChannelCommit ==
  ASSUME TypeOK, NEW m \in Msgs, Commit(m)
  PROVE  Channel!Send(m)
BY DEF Commit, Channel!Send, TypeOK

\* .. a mark to a Take or a TakeShared, ..
LEMMA ChannelMark ==
  ASSUME TypeOK, ReachInv, LockInv, FreshInv, NEW s \in Subs, Mark(s)
  PROVE  \E m \in Msgs :
           \/ s \in GoSubs /\ Channel!Take(s, m)
           \/ s \in PySubs /\ Channel!TakeShared(s, m)
<1>0. PICK k \in Msgs : reach[s] = {k}
  BY DEF Mark, ReachInv
<1>1. PICK m \in Msgs : /\ reach[s] = {m}
                        /\ row' = [row EXCEPT ![m] = "consumed"]
                        /\ delivered' = [delivered EXCEPT ![s][m] = @ + 1]
  BY <1>0 DEF Mark
<1>2. /\ Queued' = Queued \ {m}
      /\ row[m] \in {"pending", "consumed"} => Sent' = Sent
  BY <1>1 DEF Queued, Sent, TypeOK
<1>3. CASE s \in GoSubs
  <2>1. row[m] = "pending"
    BY <1>1, <1>3, BusAssumption DEF Mark, ReachInv, LockInv, Subs
  <2> QED
    BY <1>1, <1>2, <1>3, <2>1 DEF Channel!Take, Channel!Hand, Queued, Sent
<1>4. CASE s \in PySubs
  <2>1. pc[s] = "read"
    BY <1>4, BusAssumption DEF Mark, ReachInv, Subs
  <2>2. row[m] \in {"pending", "consumed"} /\ delivered[s][m] = 0
    BY <1>1, <2>1 DEF ReachInv, FreshInv, Fetching
  <2> QED
    BY <1>1, <1>2, <1>4, <2>2 DEF Channel!TakeShared, Channel!Hand, Queued, Sent
<1> QED
  BY <1>3, <1>4 DEF Subs

\* .. a mark whose message is lost to a Lose or a stutter, ..
LEMMA ChannelLose ==
  ASSUME TypeOK, ReachInv, NEW s \in Subs, LoseMark(s)
  PROVE  (\E m \in Msgs : Channel!Lose(m)) \/ UNCHANGED Channel!vars
<1>1. PICK m \in Msgs : /\ reach[s] = {m}
                        /\ row' = [row EXCEPT ![m] = "consumed"]
                        /\ delivered' = delivered
  BY DEF LoseMark, ReachInv
<1>2. row[m] \in {"pending", "consumed"}
  BY <1>1 DEF LoseMark, ReachInv, Fetching
<1>3. Queued' = Queued \ {m} /\ Sent' = Sent
  BY <1>1, <1>2 DEF Queued, Sent, TypeOK
<1>4. CASE row[m] = "pending"
  <2>1. Channel!Lose(m)
    BY <1>1, <1>3, <1>4 DEF Channel!Lose, Queued, Sent
  <2> QED
    BY <2>1
<1>5. CASE row[m] = "consumed"
  <2>1. Queued' = Queued
    BY <1>3, <1>5 DEF Queued
  <2> QED
    BY <1>1, <1>3, <2>1, ChannelStutter
<1> QED
  BY <1>2, <1>4, <1>5

\* .. and every other step to a stutter.
LEMMA ChannelStep == BusInv /\ [Next]_vars => [Channel!Next]_(Channel!vars)
<1> SUFFICES ASSUME BusInv, [Next]_vars
             PROVE  Channel!Next \/ UNCHANGED Channel!vars
  OBVIOUS
<1> USE DEF BusInv
<1>1. ASSUME NEW m \in Msgs, Insert(m) \/ Rollback(m)
      PROVE  UNCHANGED Channel!vars
  <2>1. Queued' = Queued /\ Sent' = Sent
    BY <1>1 DEF Insert, Rollback, Queued, Sent, TypeOK
  <2> QED
    BY <1>1, <2>1, ChannelStutter DEF Insert, Rollback
<1>2. ASSUME NEW m \in Msgs, Commit(m) PROVE Channel!Next
  BY <1>2, ChannelCommit DEF Channel!Next
<1>3. ASSUME NEW s \in Subs, Mark(s) PROVE Channel!Next
  BY <1>3, ChannelMark DEF Channel!Next
<1>4. ASSUME NEW s \in Subs, LoseMark(s)
      PROVE  Channel!Next \/ UNCHANGED Channel!vars
  BY <1>4, ChannelLose DEF Channel!Next
<1>5. ASSUME NEW s \in Subs,
             \/ Subscribe(s) \/ Disconnect(s) \/ Reconnect(s) \/ Crash(s)
             \/ Fetch(s) \/ LockRow(s) \/ FailFetch(s) \/ Return(s)
      PROVE  UNCHANGED Channel!vars
  BY <1>5, ChannelStutter DEF Subscribe, Disconnect, Reconnect, Crash, Fetch,
     LockRow, FailFetch, Return, publishing, Queued, Sent
<1>6. CASE RawNotify \/ UNCHANGED vars
  BY <1>6, ChannelStutter DEF RawNotify, vars, Queued, Sent
<1> QED
  BY <1>1, <1>2, <1>3, <1>4, <1>5, <1>6 DEF Next, Publisher, Dispatch, Process

\* The bus implements the abstract channel, whatever crashes, disconnects or
\* fails: nothing is handed out before its commit, a subscriber is handed a
\* message once, and the Go subscribers share each message out.
THEOREM BusImplementsChannel == Spec => ImplementsChannel
BY ChannelInit, ChannelStep, BusInvariant, PTL DEF Spec, ImplementsChannel, Channel!Spec
=============================================================================
