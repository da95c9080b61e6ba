------------------------------- MODULE Order -------------------------------
(***************************************************************************)
(* The order of esm/order.h: its fields and the pure effect of the methods *)
(* that change them.  Client order ids and the sender are left out, and    *)
(* the average price is a number beside the order: nothing in the matching *)
(* reads them.                                                             *)
(***************************************************************************)
EXTENDS Integers

Side        == {"BUY", "SELL", "SELL_SHORT"}
OrderType   == {"MARKET", "LIMIT", "STOP", "STOP_LIMIT"}
TimeInForce == {"DAY", "IOC"}

(* pending is _disclosedPendingQty, what getPendingQty() returns: the part *)
(* of the open quantity that the book shows and matches.                   *)
OrderRecord ==
  [side : Side, type : OrderType, tif : TimeInForce, price : Int, stop : Int,
   qty : Int, filled : Int, disclosed : Int, pending : Int]

IsStop(type) == type \in {"STOP", "STOP_LIMIT"}

ActualPending(o) == o.qty - o.filled

(* setPendingQty(): an iceberg order shows its disclosed quantity while    *)
(* more than that is open.                                                 *)
WithPending(o) ==
  [o EXCEPT !.pending = IF o.disclosed > 0 /\ o.disclosed < ActualPending(o)
                          THEN o.disclosed ELSE ActualPending(o)]

(* The constructor, followed by the setters the request handlers call.     *)
MakeOrder(side, type, tif, price, stop, qty, disclosed) ==
  WithPending([side |-> side, type |-> type, tif |-> tif, price |-> price,
               stop |-> stop, qty |-> qty, filled |-> 0,
               disclosed |-> disclosed, pending |-> qty])

(* Mutant: a fill takes all that the order shows.                          *)
FillWhole(o, q) == WithPending([o EXCEPT !.filled = @ + o.pending])

(* Mutant: an order keeps showing what it showed.                          *)
FillKeepsPending(o, q) == [o EXCEPT !.filled = @ + q]

FillOrder(o, q) == WithPending([o EXCEPT !.filled = @ + q])

(* Mutant: the fill is counted before the average is taken.                *)
AveragePriceTooLate(o, avg, price, q) ==
  (q * price + avg * (o.filled + q)) \div (q + o.filled + q)

(* fill(): the new _avgPrice, an integer division at every fill.           *)
AveragePrice(o, avg, price, q) == (q * price + avg * o.filled) \div (q + o.filled)

TriggerOrder(o) ==
  [o EXCEPT !.type = IF @ = "STOP_LIMIT" THEN "LIMIT" ELSE "MARKET"]

MarketToLimit(o, p) == [o EXCEPT !.type = "LIMIT", !.price = p]

(* Order::replace throws RejectReplace, before it changes anything, unless *)
(* the new quantity exceeds what is already filled.                        *)
CanReplace(old, new) == new.qty > old.filled

(* Mutant: the disclosed quantity stays.                                   *)
ReplacedKeepsDisclosed(old, new) ==
  WithPending([old EXCEPT !.qty = new.qty, !.tif = new.tif, !.type = new.type,
                 !.stop = new.stop,
                 !.price = IF new.type \in {"MARKET", "STOP"} THEN @ ELSE new.price])

(* A MARKET or STOP request carries no price, so the old one stays.        *)
ReplacedOrder(old, new) ==
  WithPending([old EXCEPT !.qty = new.qty, !.disclosed = new.disclosed,
                 !.tif = new.tif, !.type = new.type, !.stop = new.stop,
                 !.price = IF new.type \in {"MARKET", "STOP"} THEN @ ELSE new.price])

(* Mutant: a new price keeps the priority.                                 *)
LosesPriorityButForPrice(old, new) ==
  new.type \in {"MARKET", "STOP"} \/ old.type # new.type \/ old.stop # new.stop

(* When Order::replace throws OrderHasChanged after changing the order.    *)
LosesPriority(old, new) ==
  \/ new.type \in {"MARKET", "STOP"}
  \/ old.type # new.type
  \/ old.price # new.price
  \/ old.stop # new.stop
=============================================================================
