------------------------- MODULE OrderBookRefinement -------------------------
(***************************************************************************)
(* OrderBook with one thread implements PriceTimeMarket.  What a call has  *)
(* begun but not finished is the state of an incoming order; an order that *)
(* waits for its stop price is not in the market.                          *)
(***************************************************************************)
EXTENDS OrderBook

(* None stands for the limit of an order that takes any price.             *)
ASSUME UnpricedAssumption == None \notin Int

(* A call of insertBuy or insertSell has the order, and some of it is left.*)
Inserting(f, l, id) == f.id = id /\ f.list = l /\ f.pc \in {"lock", "match", "fill", "rest"}

ComesIn(l, id) ==
  /\ \E t \in Threads : \E d \in DOMAIN stack[t] : Inserting(stack[t][d], l, id)
  /\ ActualPending(order[id]) > 0

restingOrders == [s \in {"buy", "sell"} |-> Resting(s)]

incomingOrders == [s \in {"buy", "sell"} |-> {id \in Ids : ComesIn(s, id)}]

Trading(id) == \E s \in {"buy", "sell"} : Holds(s, id) \/ ComesIn(s, id)

openQuantity == [id \in Ids |-> IF Trading(id) THEN ActualPending(order[id]) ELSE 0]

(* A resting order is in its list under the price it waits for, whatever a *)
(* replace under way has written into it.                                  *)
KeyIn(l, id) == book[l][CHOOSE p \in DOMAIN book[l] : book[l][p].id = id].key

LimitOf(id) ==
  IF Holds("buy", id) THEN KeyIn("buy", id)
  ELSE IF Holds("sell", id) THEN KeyIn("sell", id)
  ELSE IF Trading(id) /\ order[id].type # "MARKET" THEN order[id].price ELSE None

limitPrice == [id \in Ids |-> LimitOf(id)]

AheadIn(l, id) ==
  {book[l][p].id : p \in {p \in DOMAIN book[l] :
                          \E q \in DOMAIN book[l] : p < q /\ book[l][q].id = id}}

aheadInList == [id \in Ids |-> AheadIn("buy", id) \cup AheadIn("sell", id)]

Market ==
  INSTANCE PriceTimeMarket
    WITH Unpriced <- None, resting <- restingOrders, incoming <- incomingOrders,
         open <- openQuantity, limit <- limitPrice, ahead <- aheadInList

(* With one thread, whatever trades, rests, moves and is triggered inside  *)
(* insertBuy, insertSell and checkTriggeredOrders is trading by price-time *)
(* priority.                                                               *)
PriceTimePriority == Market!Spec
=============================================================================
