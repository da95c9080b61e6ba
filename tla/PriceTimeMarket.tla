--------------------------- MODULE PriceTimeMarket ---------------------------
(***************************************************************************)
(* What an order book is for: continuous trading by price-time priority.   *)
(* An order comes in, trades with the resting orders of the other side,    *)
(* best price first and the oldest first at a price, and rests when none   *)
(* of them suits it.  There are no lists, threads, calls or stop orders    *)
(* here; OrderBookRefinement shows how OrderBook implements this.          *)
(***************************************************************************)
EXTENDS Integers

CONSTANTS
  Ids,       \* names of orders
  Unpriced   \* the limit of an order that takes any price

VARIABLES
  resting,   \* of each side, the orders that wait in the market
  incoming,  \* of each side, the orders on their way into it
  open,      \* quantity of an order in the market that has not traded
  limit,     \* worst price the order takes
  ahead,     \* the resting orders that come before an order
  ltp,       \* last traded price
  volume     \* total traded quantity

vars == <<resting, incoming, open, limit, ahead, ltp, volume>>

Sides == {"buy", "sell"}

OtherSide(s) == IF s = "buy" THEN "sell" ELSE "buy"

(* For side s, price p is as good as q or better: it is served first.      *)
AsGood(s, p, q) == IF s = "buy" THEN p >= q ELSE p <= q

(* An order of side s with limit p can trade at price q.                   *)
Suits(s, p, q) == p = Unpriced \/ AsGood(s, p, q)

(* All orders but i keep what f says of them.                              *)
SameButFor(i, f, g) == \A j \in Ids \ {i} : g[j] = f[j]

(* Nobody waits for i any more.                                            *)
Without(i) == [j \in Ids |-> IF j = i THEN {} ELSE ahead[j] \ {i}]

Init ==
  /\ resting = [s \in Sides |-> {}]
  /\ incoming = [s \in Sides |-> {}]
  /\ open = [i \in Ids |-> 0]
  /\ limit = [i \in Ids |-> Unpriced]
  /\ ahead = [i \in Ids |-> {}]
  /\ ltp = 0 /\ volume = 0

(* An order comes in, with any quantity and any limit.                     *)
Enter(s, i) ==
  /\ open[i] = 0
  /\ open'[i] > 0 /\ SameButFor(i, open, open')
  /\ SameButFor(i, limit, limit')
  /\ incoming' = [incoming EXCEPT ![s] = @ \cup {i}]
  /\ UNCHANGED <<resting, ahead, ltp, volume>>

(* A new quantity costs a resting order nothing.                           *)
Amend(s, i) ==
  /\ open'[i] > 0 /\ SameButFor(i, open, open')
  /\ UNCHANGED <<resting, incoming, limit, ahead, ltp, volume>>

(* A new limit costs it its place: it comes in again.                      *)
Requeue(s, i) ==
  /\ resting' = [resting EXCEPT ![s] = @ \ {i}]
  /\ incoming' = [incoming EXCEPT ![s] = @ \cup {i}]
  /\ SameButFor(i, limit, limit')
  /\ ahead' = Without(i)
  /\ UNCHANGED <<open, ltp, volume>>

(* An incoming order trades with the first order of the other side at that *)
(* order's price.  Orders with nothing left are no longer in the market.   *)
Trade(s, i, r, q) ==
  /\ q <= open[r]
  /\ volume' = volume + q /\ ltp' = limit[r]
  /\ ahead[r] = {}
  /\ Suits(s, limit[i], limit[r])
  /\ open' = [open EXCEPT ![i] = @ - q, ![r] = @ - q]
  /\ incoming' = [incoming EXCEPT ![s] = IF q = open[i] THEN @ \ {i} ELSE @]
  /\ resting' = [resting EXCEPT ![OtherSide(s)] = IF q = open[r] THEN @ \ {r} ELSE @]
  /\ limit' = [j \in Ids |-> IF open'[j] > 0 THEN limit[j] ELSE Unpriced]
  /\ ahead' = IF q = open[r] THEN Without(r) ELSE ahead

(* An order that suits nobody rests behind those with as good a price; an  *)
(* unpriced one rests at the last traded price.                            *)
Rest(s, i) ==
  LET p == IF limit[i] = Unpriced THEN ltp ELSE limit[i]
      before == {r \in resting[s] : AsGood(s, limit[r], p)}
  IN
  /\ resting' = [resting EXCEPT ![s] = @ \cup {i}]
  /\ \A r \in resting[OtherSide(s)] : ~Suits(s, limit[i], limit[r])
  /\ incoming' = [incoming EXCEPT ![s] = @ \ {i}]
  /\ limit' = [limit EXCEPT ![i] = p]
  /\ ahead' = [j \in Ids |-> IF j = i THEN before
                             ELSE IF j \in resting[s] \ before THEN ahead[j] \cup {i}
                             ELSE ahead[j]]
  /\ UNCHANGED <<open, ltp, volume>>

(* An order is withdrawn, whether it rests or comes in.                    *)
Leave(s, i) ==
  /\ open'[i] = 0 /\ SameButFor(i, open, open')
  /\ resting' = [resting EXCEPT ![s] = @ \ {i}]
  /\ incoming' = [incoming EXCEPT ![s] = @ \ {i}]
  /\ limit' = [limit EXCEPT ![i] = Unpriced]
  /\ ahead' = Without(i)
  /\ UNCHANGED <<ltp, volume>>

(* What may happen to orders outside, resting in and coming into a side.   *)
Next ==
  \E s \in Sides :
    \/ \E i \in Ids : Enter(s, i)
    \/ \E i \in resting[s] : Amend(s, i) \/ Requeue(s, i) \/ Leave(s, i)
    \/ \E i \in incoming[s] :
         \/ Rest(s, i) \/ Leave(s, i)
         \/ \E r \in resting[OtherSide(s)], q \in 1 .. open[i] : Trade(s, i, r, q)

Spec == Init /\ [][Next]_vars
=============================================================================
