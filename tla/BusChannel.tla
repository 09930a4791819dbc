----------------------------- MODULE BusChannel -----------------------------
(***************************************************************************)
(* What one channel of the durable message bus promises its users, whatever*)
(* the number of subscribers, crashes and reconnects:                      *)
(*   - a message is handed to a handler only after its publisher committed;*)
(*   - a subscriber is handed a message at most once;                      *)
(*   - a message one subscriber of Exclusive (the Go PGSub, which locks the*)
(*     row it fetches) was handed goes to no other subscriber of Exclusive.*)
(* It promises no order and no delivery: a queued message may stay queued, *)
(* and one that was taken may be lost before its handler is called.        *)
(* Shared subscribers (the Python PostgresSubscriber) take no lock, and may*)
(* be handed a message that somebody else was handed too.                  *)
(*                                                                         *)
(* Module PGBus implements this specification.                             *)
(***************************************************************************)
EXTENDS Naturals

CONSTANTS
  Msgs,        \* the messages that may be published
  Exclusive,   \* subscribers that lock what they fetch
  Shared       \* subscribers that do not

VARIABLES
  sent,        \* messages whose publisher committed
  queued,      \* those nobody has taken yet
  delivered    \* delivered[s][m]: how often the handler of s was called with m

vars == <<sent, queued, delivered>>

Subs == Exclusive \cup Shared

Init ==
  /\ sent = {}
  /\ queued = {}
  /\ delivered = [s \in Subs |-> [m \in Msgs |-> 0]]

Send(m) ==
  /\ m \notin sent
  /\ sent' = sent \cup {m}
  /\ queued' = queued \cup {m}
  /\ UNCHANGED delivered

Hand(s, m) == delivered' = [delivered EXCEPT ![s][m] = @ + 1]

Take(s, m) ==
  /\ m \in queued
  /\ queued' = queued \ {m}
  /\ Hand(s, m)
  /\ UNCHANGED sent

TakeShared(s, m) ==
  /\ m \in sent
  /\ delivered[s][m] = 0
  /\ queued' = queued \ {m}
  /\ Hand(s, m)
  /\ UNCHANGED sent

Lose(m) ==
  /\ m \in queued
  /\ queued' = queued \ {m}
  /\ UNCHANGED <<sent, delivered>>

Next ==
  \E m \in Msgs :
    \/ Send(m)
    \/ Lose(m)
    \/ \E s \in Exclusive : Take(s, m)
    \/ \E s \in Shared : TakeShared(s, m)

Spec == Init /\ [][Next]_vars
=============================================================================
