---------------------------- MODULE CaravanTrade ----------------------------
(***************************************************************************)
(* The markets of the caravaneer game and what ships carry: cargo in       *)
(* stacks (caravaneer/player.py), buying, selling and market events        *)
(* (economy.py), the human's and the NPCs' trades (game.py, ai_agent.py,   *)
(* gui/app.py), and what fights, pirates and derelicts do to a hold        *)
(* (combat.py, travel.py).  Where a ship is belongs to module Caravan.     *)
(*                                                                         *)
(* A unit of every good weighs 1 and costs BasePrice; a system differs     *)
(* from another by the events it feels.                                    *)
(***************************************************************************)
EXTENDS Integers, Sequences, FiniteSets, FiniteSetsExt, SequencesExt

CONSTANTS
  Humans, Npcs,  \* the ships
  Goods,
  Systems,
  Illegal,       \* pairs <<good, system>>: against the law of the faction
  Quantities,    \* what humans type into the quantity field
  Capacity,      \* max_cargo
  StartCredits,
  Cushion,       \* what an NPC keeps: 200 credits in the code
  BasePrice,
  Terms,         \* the lives of events, in turns: 2..5 in the code
  MaxEvents, MaxMoves  \* bounds: events and changes of a hold per game

Ships == Humans \cup Npcs

TradeConstants ==
  /\ Goods # {} /\ IsFiniteSet(Systems)
  /\ Illegal \subseteq Goods \X Systems
  /\ Quantities \subseteq Nat \ {0}
  /\ Capacity \in Nat /\ StartCredits \in Nat /\ Cushion \in Nat
  /\ BasePrice \in Nat \ {0} /\ Terms \subseteq Nat \ {0}
  /\ MaxEvents \in Nat /\ MaxMoves \in Nat

VARIABLES
  hold,     \* hold[s]: the stacks of ship s
  credits,  \* credits[s]
  events,   \* events so far, numbered
  left,     \* left[e]: turns_remaining of the one object all systems share
  term,     \* term[e]: history, the turns that were announced
  age,      \* age[e]: history, the turns that have ended since
  factor,   \* factor[e]: <<good, 2 or -2>>: its price doubles or halves
  felt,     \* felt[e]: the systems whose list still holds e
  moves,    \* changes of a hold so far
  net       \* net[s][g]: history, units that came into the hold of s minus
            \* units that left it

trade == <<hold, credits, moves, net>>
market == <<events, left, term, age, factor, felt>>
vars == <<trade, market>>

Events == 1..MaxEvents
Stacks == [good : Goods, qty : Nat \ {0}, price : Nat]

(* The units of some goods in a hold, summed over its stacks. *)
Held(h, some) ==
  LET upto[i \in 0..Len(h)] ==
        IF i = 0 THEN 0
        ELSE upto[i - 1] + (IF h[i].good \in some THEN h[i].qty ELSE 0)
  IN upto[Len(h)]

TypeOK ==
  /\ hold \in [Ships -> Seq(Stacks)]
  /\ \A s \in Ships : Held(hold[s], Goods) <= Capacity
  /\ credits \in [Ships -> Nat]
  /\ events \in 0..MaxEvents
  /\ left \in [Events -> Int] /\ term \in [Events -> Nat]
  /\ age \in [Events -> Nat]
  /\ factor \in [Events -> Goods \X {2, -2}]
  /\ felt \in [Events -> SUBSET Systems]
  /\ \A e \in Events : e > events => felt[e] = {}
  /\ moves \in 0..MaxMoves
  /\ net \in [Ships -> [Goods -> Int]]

Init ==
  /\ hold = [s \in Ships |-> <<>>]
  /\ credits = [s \in Ships |-> StartCredits]
  /\ events = 0
  /\ left = [e \in Events |-> 0] /\ term = [e \in Events |-> 0]
  /\ age = [e \in Events |-> 0]
  /\ factor = [e \in Events |-> <<CHOOSE g \in Goods : TRUE, 2>>]
  /\ felt = [e \in Events |-> {}]
  /\ moves = 0
  /\ net = [s \in Ships |-> [g \in Goods |-> 0]]

(***************************************************************************)
(* Cargo.                                                                  *)
(***************************************************************************)

Units(h, g) == Held(h, {g})
Free(h) == Capacity - Held(h, Goods)

(* add_cargo: onto the stack of the same good and price, or a new one. *)
Added(h, g, q, p) ==
  LET same == {i \in DOMAIN h : h[i].good = g /\ h[i].price = p} IN
  IF same = {} THEN Append(h, [good |-> g, qty |-> q, price |-> p])
  ELSE [h EXCEPT ![Min(same)].qty = @ + q]

(* A faulty variant, for the mutant: whatever stack of the good is first. *)
RemovedFromFirst(h, g, q) ==
  LET some == {i \in DOMAIN h : h[i].good = g} IN
  IF some = {} \/ h[Min(some)].qty < q THEN h
  ELSE IF h[Min(some)].qty = q THEN RemoveAt(h, Min(some))
  ELSE [h EXCEPT ![Min(some)].qty = @ - q]

(* remove_cargo: from the first stack of the good that has enough. *)
Removed(h, g, q) ==
  LET enough == {i \in DOMAIN h : h[i].good = g /\ h[i].qty >= q} IN
  IF enough = {} THEN h
  ELSE IF h[Min(enough)].qty = q THEN RemoveAt(h, Min(enough))
  ELSE [h EXCEPT ![Min(enough)].qty = @ - q]

(***************************************************************************)
(* Buying and selling.                                                     *)
(***************************************************************************)

(* get_price: every event the system feels multiplies. *)
Price(g, y) ==
  LET up == {e \in Events : y \in felt[e] /\ factor[e] = <<g, 2>>}
      down == {e \in Events : y \in felt[e] /\ factor[e] = <<g, -2>>}
      price == (BasePrice * 2^Cardinality(up)) \div 2^Cardinality(down)
  IN IF price < 1 THEN 1 ELSE price

CanBuy(h, c, g, q, y) ==
  <<g, y>> \notin Illegal /\ q <= Free(h) /\ c >= q * Price(g, y)

(* sell looks at the first stack of the good only. *)
CanSell(h, g, q, y) ==
  LET some == {i \in DOMAIN h : h[i].good = g} IN
  <<g, y>> \notin Illegal /\ some # {} /\ h[Min(some)].qty >= q

Move == moves < MaxMoves /\ moves' = moves + 1

(* player_buy, with the quantity of the input field. *)
HumanBuy(s, g, q, y) ==
  /\ Move
  /\ CanBuy(hold[s], credits[s], g, q, y)
  /\ credits' = [credits EXCEPT ![s] = @ - q * Price(g, y)]
  /\ hold' = [hold EXCEPT ![s] = Added(@, g, q, Price(g, y))]
  /\ net' = [net EXCEPT ![s][g] = @ + q]
  /\ UNCHANGED market

(* The quantity of the field, or "all", the quantity of the first stack.   *)
Offers(h, g) ==
  LET some == {i \in DOMAIN h : h[i].good = g} IN
  Quantities \cup (IF some = {} THEN {} ELSE {h[Min(some)].qty})

(* player_sell. *)
HumanSell(s, g, q, y) ==
  /\ Move
  /\ CanSell(hold[s], g, q, y)
  /\ credits' = [credits EXCEPT ![s] = @ + q * Price(g, y)]
  /\ hold' = [hold EXCEPT ![s] = Removed(@, g, q)]
  /\ net' = [net EXCEPT ![s][g] = @ - q]
  /\ UNCHANGED market

Least(a, b) == IF a < b THEN a ELSE b

(* One turn of _execute_trade's first loop.  A sale takes from a stack at  *)
(* or before the item, so the quantity of an item is still what it was.    *)
NpcSells(y, acc, item) ==
  LET q == Least(item.qty, 3) IN
  IF Price(item.good, y) > BasePrice /\ CanSell(acc.hold, item.good, q, y)
  THEN [hold |-> Removed(acc.hold, item.good, q),
        credits |-> acc.credits + q * Price(item.good, y),
        net |-> [acc.net EXCEPT ![item.good] = @ - q]]
  ELSE acc

(* _execute_trade: sell what is dear, then buy up to five of something     *)
(* that is not.  A smuggler's purchase of an illegal good, the last part,  *)
(* is refused by buy.                                                      *)
NpcTrade(s, y) ==
  LET loop[i \in 0..Len(hold[s])] ==
        IF i = 0 THEN [hold |-> hold[s], credits |-> credits[s], net |-> net[s]]
        ELSE NpcSells(y, loop[i - 1], hold[s][i])
      sold == loop[Len(hold[s])]
      q == Least(5, Free(sold.hold))
      cheap == {g \in Goods : /\ <<g, y>> \notin Illegal
                              /\ Price(g, y) <= BasePrice}
      bought(g) == /\ g \in cheap /\ sold.credits > Cushion /\ q > 0
                   /\ CanBuy(sold.hold, sold.credits, g, q, y)
  IN /\ Move
     /\ \E g \in (IF cheap = {} THEN Goods ELSE cheap) :
          /\ hold' = [hold EXCEPT ![s] =
               IF bought(g) THEN Added(sold.hold, g, q, Price(g, y))
               ELSE sold.hold]
          /\ credits' = [credits EXCEPT ![s] =
               IF bought(g) THEN sold.credits - q * Price(g, y)
               ELSE sold.credits]
          /\ net' = [net EXCEPT ![s] =
               IF bought(g) THEN [sold.net EXCEPT ![g] = @ + q] ELSE sold.net]
     /\ UNCHANGED market

(***************************************************************************)
(* Fights and finds.                                                       *)
(***************************************************************************)

(* resolve: a fifth of the credits of a destroyed defender, and of each of *)
(* its stacks a fifth or at least one, as far as it fits.  A wreck can be  *)
(* plundered again.                                                        *)
Plunder(acc, item) ==
  LET q == IF item.qty \div 5 > 1 THEN item.qty \div 5 ELSE 1 IN
  IF q > Free(acc.winner) THEN acc
  ELSE [winner |-> Added(acc.winner, item.good, q, item.price),
        loser |-> Removed(acc.loser, item.good, q),
        taken |-> [acc.taken EXCEPT ![item.good] = @ + q]]

Loot(a, d) ==
  LET loop[i \in 0..Len(hold[d])] ==
        IF i = 0 THEN [winner |-> hold[a], loser |-> hold[d],
                       taken |-> [g \in Goods |-> 0]]
        ELSE Plunder(loop[i - 1], hold[d][i])
      after == loop[Len(hold[d])]
      coins == credits[d] \div 5
  IN /\ Move /\ a # d
     /\ hold' = [hold EXCEPT ![a] = after.winner, ![d] = after.loser]
     /\ credits' = [credits EXCEPT ![a] = @ + coins, ![d] = @ - coins]
     /\ net' = [net EXCEPT ![a] = [g \in Goods |-> @[g] + after.taken[g]],
                           ![d] = [g \in Goods |-> @[g] - after.taken[g]]]
     /\ UNCHANGED market

(* A derelict's cargo, one to three units, or the loot of the pirate of a  *)
(* lair: one, of a stack of at most eight.  The credits that come with     *)
(* finds and bounties are left out.                                        *)
Find(s, g, q) ==
  /\ Move
  /\ q <= Free(hold[s])
  /\ hold' = [hold EXCEPT ![s] = Added(@, g, q, 0)]
  /\ net' = [net EXCEPT ![s][g] = @ + q]
  /\ UNCHANGED <<credits, market>>

(* cargo_hold.pop, at whatever place. *)
Popped(acc, i) ==
  [hold |-> RemoveAt(acc.hold, i),
   net |-> [acc.net EXCEPT ![acc.hold[i].good] = @ - acc.hold[i].qty]]

(* _pirate_encounter: up to three stacks, one after the other. *)
Robbed(s, pops) ==
  LET loop[n \in 0..Len(pops)] ==
        IF n = 0 THEN [hold |-> hold[s], net |-> net[s]]
        ELSE Popped(loop[n - 1], pops[n])
      after == loop[Len(pops)]
  IN /\ Move
     /\ \A n \in DOMAIN pops : pops[n] <= Len(hold[s]) - n + 1
     /\ hold' = [hold EXCEPT ![s] = after.hold]
     /\ net' = [net EXCEPT ![s] = after.net]
     /\ UNCHANGED <<credits, market>>

(***************************************************************************)
(* Market events.                                                          *)
(***************************************************************************)

(* generate_market_event: one object in the lists of two to six systems,   *)
(* or of all there are.                                                    *)
Announce(n, f, where) ==
  /\ events < MaxEvents
  /\ Cardinality(where) >= Least(2, Cardinality(Systems))
  /\ Cardinality(where) <= 6
  /\ events' = events + 1
  /\ left' = [left EXCEPT ![events + 1] = n]
  /\ term' = [term EXCEPT ![events + 1] = n]
  /\ factor' = [factor EXCEPT ![events + 1] = f]
  /\ felt' = [felt EXCEPT ![events + 1] = where]
  /\ UNCHANGED <<trade, age>>

(* A faulty variant, for the mutant: at exactly nought. *)
DroppedAtNought(e) ==
  IF left[e] \in 1..Cardinality(felt[e]) THEN 1 ELSE 0

(* The number of systems at which the loop of tick_events drops e: it  *)
(* visits them one by one, and counts e down at each.                      *)
Dropped(e) ==
  LET k == Cardinality(felt[e]) IN
  IF left[e] < 1 THEN k ELSE IF left[e] > k THEN 0 ELSE k - left[e] + 1

(* tick_events, at the end of a turn. *)
TickEvents ==
  /\ \E e \in Events : felt[e] # {}
  /\ felt' \in [Events -> SUBSET Systems]
  /\ \A e \in Events :
       /\ felt'[e] \subseteq felt[e]
       /\ Cardinality(felt'[e]) = Cardinality(felt[e]) - Dropped(e)
  /\ left' = [e \in Events |-> left[e] - Cardinality(felt[e])]
  /\ age' = [e \in Events |-> IF felt[e] = {} THEN age[e] ELSE age[e] + 1]
  /\ UNCHANGED <<trade, events, term, factor>>

Next ==
  \/ \E s \in Humans, g \in Goods, y \in Systems :
       \/ \E q \in Quantities : HumanBuy(s, g, q, y)
       \/ \E q \in Offers(hold[s], g) : HumanSell(s, g, q, y)
  \/ \E s \in Npcs, y \in Systems : NpcTrade(s, y)
  \/ \E a, d \in Ships : Loot(a, d)
  \/ \E s \in Ships, g \in Goods, q \in {1, 3} : Find(s, g, q)
  \/ \E s \in Ships, k \in 1..3 :
       \E pops \in [1..k -> DOMAIN hold[s]] : Robbed(s, pops)
  \/ \E n \in Terms, f \in Goods \X {2, -2}, where \in SUBSET Systems :
       Announce(n, f, where)
  \/ TickEvents

Spec == Init /\ [][Next]_vars

(* Goods change hands and are never made or lost: the stacks of a good at  *)
(* several prices, the sale that looks at one stack and takes from another,*)
(* the loot that walks through the loser's stacks while it takes from them,*)
(* all agree on every unit.                                                *)
GoodsConserved ==
  \A s \in Ships, g \in Goods : Units(hold[s], g) = net[s][g]

(* No system feels an event for more turns than were announced, although   *)
(* all of them count down the one object and each drops it on its own.     *)
(* This bounds an event from above only; below it is EventsLast.           *)
EventsEndInTime ==
  \A e \in Events : felt[e] # {} => age[e] < term[e]

(* An event is over everywhere only after the turns that were announced to *)
(* the player.  It is not: a turn counts it down once per system.          *)
EventsLast ==
  \A e \in Events : e <= events /\ felt[e] = {} => age[e] >= term[e]
=============================================================================
