------------------------------ MODULE Requests ------------------------------
(***************************************************************************)
(* RequestApplication (esm/requestApplication.cpp, esm/fixToOrder.h): how  *)
(* FIX requests become orders, and the conversation of a client with the   *)
(* exchange about one order.  OrderQty of a replace request is the open    *)
(* quantity the client wants: the handler adds the CumQty the client knew  *)
(* when it sent the request, while the order may be filled further.        *)
(*                                                                         *)
(* Prices and quantities of messages are decimals, those of orders whole   *)
(* numbers.  Messages count in halves, and so does the client; order and   *)
(* reports in units.                                                       *)
(*                                                                         *)
(* A FIX session delivers in order; what the order book does by itself is  *)
(* Trigger, Restate, Fill and CancelByBook.                                *)
(***************************************************************************)
EXTENDS Order, Sequences, SequencesExt

CONSTANTS
  NewMessages,      \* NewOrderSingle messages
  ReplaceMessages,  \* OrderCancelReplaceRequest messages, but for CumQty
  CancelMessages,   \* OrderCancelRequest messages
  Prices,           \* prices of trades
  MaxReplaces,      \* bound on the replace requests of the client
  MaxUnanswered,    \* bound on its requests that have no answer
  Absent            \* a field that a message does not have, no order

ASSUME BoundsAssumption == Prices \subseteq Nat /\ MaxReplaces \in Nat
ASSUME MessagesAssumption ==
  \A m \in NewMessages \cup ReplaceMessages :
    /\ m.qty \in Nat
    /\ m.price \in Nat \cup {Absent}
    /\ m.stopPx \in Nat \cup {Absent}
    /\ m.maxFloor \in Nat \cup {Absent}
ASSUME AbsentAssumption == Absent \notin Int /\ Absent \notin OrderRecord

VARIABLES
  order,     \* the order as the book has it
  inbox,     \* messages under way to the exchange
  outbox,    \* answers and reports under way to the client
  client,    \* what the client knows and asked for
  replaces,  \* replace requests sent so far
  floor,     \* MaxFloor of the message that last shaped the order
  average,   \* _avgPrice of the order
  spent      \* what its fills came to, and the lowest price among them

vars == <<order, inbox, outbox, client, replaces, floor, average, spent>>

-----------------------------------------------------------------------------
(* FromFix::convert() and getField() throw; onMessage() swallows only the  *)
(* exception for a time in force it does not know.                         *)
NeedsPrice(m)   == m.type \in {"LIMIT", "STOP_LIMIT"}
NeedsStopPx(m)  == m.type \in {"STOP", "STOP_LIMIT"}
Convertible(m)  == m.side \in Side /\ m.type \in OrderType

Decodable(m) ==
  /\ Convertible(m)
  /\ NeedsPrice(m) => m.price # Absent
  /\ NeedsStopPx(m) => m.stopPx # Absent

(* Mutant: a field is rounded up.                                          *)
RoundedUp(x) == (x + 1) \div 2

(* The conversion of a FIX field, which is not negative, to long.          *)
Whole(x) == x \div 2

(* Any other time in force throws, and the order keeps the default.        *)
TimeInForceOf(m) == IF m.tif \in TimeInForce THEN m.tif ELSE "DAY"

(* The constructor and the setters: an order without MaxFloor discloses    *)
(* the OrderQty of its message.                                            *)
Decoded(m) ==
  MakeOrder(m.side, m.type, TimeInForceOf(m),
            IF NeedsPrice(m) THEN Whole(m.price) ELSE 0,
            IF NeedsStopPx(m) THEN Whole(m.stopPx) ELSE 0,
            Whole(m.qty), Whole(IF m.maxFloor = Absent THEN m.qty ELSE m.maxFloor))

(* Mutant: OrderQty is taken for the total quantity.                       *)
IgnoreCumQty(o, cum) == o

addOrderQty(o, cum) == [o EXCEPT !.qty = @ + Whole(cum)]

-----------------------------------------------------------------------------
(* open is the open quantity the client counts on, known the CumQty of its *)
(* latest report, limit the price it was last told is in force, and asks   *)
(* the requests it has no answer to: their OrderQty and price, and the     *)
(* CumQty it knew.                                                         *)
Ask(m) ==
  [qty |-> m.qty, known |-> client.known, limit |-> IF NeedsPrice(m) THEN m.price ELSE Absent]

Init ==
  /\ order = Absent
  /\ inbox = <<>> /\ outbox = <<>>
  /\ client = [state |-> "new", side |-> Absent, open |-> 0, known |-> 0,
               limit |-> Absent, asks |-> <<>>]
  /\ replaces = 0
  /\ floor = Absent
  /\ average = 0 /\ spent = [sum |-> 0, lowest |-> Absent]

SendNew ==
  /\ client.state = "new"
  /\ \E m \in NewMessages :
       /\ inbox' = Append(inbox, [kind |-> "new", body |-> m, cum |-> Absent])
       /\ client' = [client EXCEPT !.state = "waiting", !.side = m.side, !.asks = <<Ask(m)>>]
  /\ UNCHANGED <<order, outbox, replaces, floor, average, spent>>

(* Changes name the order id of the NewConfirm; they need not wait for     *)
(* each other's answers.  A client may leave CumQty out.                   *)
CanAsk == client.state = "working" /\ Len(client.asks) < MaxUnanswered

SendReplace ==
  /\ CanAsk /\ replaces < MaxReplaces
  /\ \E m \in ReplaceMessages, cum \in {2 * client.known, Absent} :
       /\ inbox' = Append(inbox, [kind |-> "replace", body |-> m, cum |-> cum])
       /\ client' = [client EXCEPT !.asks = Append(@, Ask(m))]
  /\ replaces' = replaces + 1
  /\ UNCHANGED <<order, outbox, floor, average, spent>>

SendCancel ==
  /\ CanAsk
  /\ \E m \in CancelMessages :
       /\ inbox' = Append(inbox, [kind |-> "cancel", body |-> m, cum |-> Absent])
       /\ client' = [client EXCEPT !.asks = Append(@, Ask(m))]
  /\ UNCHANGED <<order, outbox, replaces, floor, average, spent>>

(* What an answer or a report makes of client c.  Answers come in the     *)
(* order of the requests; the confirm of a cancel ends the conversation.   *)
Told(c, r) ==
  LET ask      == Head(c.asks)
      answered == [c EXCEPT !.asks = Tail(@)]
  IN
  CASE r.kind \in {"NewConfirm", "ReplaceConfirm"} ->
         [answered EXCEPT !.state = "working", !.limit = ask.limit,
                          !.open = ask.qty - 2 * (c.known - ask.known)]
    [] r.kind = "Fill" ->
         [c EXCEPT !.open = @ - 2 * (r.cum - c.known), !.known = r.cum]
    [] r.kind = "Restated" -> c
    [] r.kind = "CancelConfirm" ->
         [c EXCEPT !.state = "over", !.open = 0, !.asks = <<>>]
    [] r.kind \in {"Reject", "NewReject", "ReplaceReject", "CancelReject"} ->
         [answered EXCEPT !.state = IF @ = "waiting" THEN "over" ELSE @]

Receive ==
  /\ outbox # <<>> /\ outbox' = Tail(outbox)
  /\ client' = IF client.state = "over" THEN client ELSE Told(client, Head(outbox))
  /\ UNCHANGED <<order, inbox, replaces, floor, average, spent>>

-----------------------------------------------------------------------------
Report(kind, cum, price) ==
  outbox' = Append(outbox, [kind |-> kind, cum |-> cum, price |-> price])
Answer(kind, cum) == Report(kind, cum, Absent)
Takes(kind)       == inbox # <<>> /\ Head(inbox).kind = kind /\ inbox' = Tail(inbox)

(* fromApp(): whatever a handler throws becomes a FIX Reject.              *)
RejectMessage ==
  /\ inbox # <<>> /\ inbox' = Tail(inbox)
  /\ LET r == Head(inbox) IN
       \/ r.kind = "cancel" /\ ~Convertible(r.body)
       \/ r.kind # "cancel" /\ ~Decodable(r.body)
       \/ r.kind = "replace" /\ r.cum = Absent
  /\ Answer("Reject", 0)
  /\ UNCHANGED <<order, client, replaces, floor, average, spent>>

HandleNew ==
  LET m == Head(inbox).body IN
  /\ Takes("new") /\ Decodable(m)
  /\ \/ order' = Decoded(m) /\ floor' = m.maxFloor /\ Answer("NewConfirm", 0)
     \/ Answer("NewReject", 0) /\ UNCHANGED <<order, floor>>   \* a closed book
  /\ UNCHANGED <<client, replaces, average, spent>>

(* Filled and canceled orders rest nowhere, and a request looks in lists   *)
(* of its side only; a cancel only in the stop or the limit list.          *)
Rests         == order # Absent /\ ActualPending(order) > 0
FoundBy(m)    == Rests /\ (order.side = "BUY" <=> m.side = "BUY")
CanceledBy(m) == FoundBy(m) /\ (IsStop(order.type) <=> IsStop(m.type))

HandleReplace ==
  LET r == Head(inbox)
      o == addOrderQty(Decoded(r.body), r.cum)
  IN
  /\ Takes("replace") /\ Decodable(r.body) /\ r.cum # Absent
  /\ IF FoundBy(r.body) /\ CanReplace(order, o)
       THEN /\ order' = ReplacedOrder(order, o) /\ floor' = r.body.maxFloor
            /\ Answer("ReplaceConfirm", order.filled)
       ELSE Answer("ReplaceReject", 0) /\ UNCHANGED <<order, floor>>
  /\ UNCHANGED <<client, replaces, average, spent>>

HandleCancel ==
  /\ Takes("cancel") /\ Convertible(Head(inbox).body)
  /\ IF CanceledBy(Head(inbox).body)
              THEN order' = Absent /\ Answer("CancelConfirm", 0)
              ELSE order' = order /\ Answer("CancelReject", 0)
  /\ UNCHANGED <<client, replaces, floor, average, spent>>

(* The last price reaches the stop price of the order.                     *)
Trigger ==
  /\ Rests /\ IsStop(order.type)
  /\ order' = TriggerOrder(order)
  /\ Answer("Restated", order.filled)
  /\ UNCHANGED <<inbox, client, replaces, floor, average, spent>>

(* The rest of a market order rests at the last price.                     *)
Restate ==
  /\ Rests /\ order.type = "MARKET"
  /\ \E p \in Prices : order' = MarketToLimit(order, p)
  /\ Answer("Restated", order.filled)
  /\ UNCHANGED <<inbox, client, replaces, floor, average, spent>>

(* A trade of the book with what the order shows, within its limit.        *)
Within(o, p) ==
  o.type = "LIMIT" => IF o.side = "BUY" THEN p <= o.price ELSE p >= o.price

Fill ==
  /\ Rests /\ ~IsStop(order.type)
  /\ \E q \in 1 .. order.pending, p \in Prices :
       /\ Within(order, p)
       /\ order' = FillOrder(order, q)
       /\ average' = AveragePrice(order, average, p, q)
       /\ spent' = [sum |-> spent.sum + q * p,
                    lowest |-> IF spent.lowest = Absent \/ p < spent.lowest
                                 THEN p ELSE spent.lowest]
       /\ Report("Fill", order.filled + q, p)
  /\ UNCHANGED <<inbox, client, replaces, floor>>

(* The book cancels the rest of an IOC order, or all orders when it stops.  *)
CancelByBook ==
  /\ Rests /\ order' = Absent
  /\ Answer("CancelConfirm", 0)
  /\ UNCHANGED <<inbox, client, replaces, floor, average, spent>>

Next ==
  \/ SendNew \/ SendReplace \/ SendCancel \/ Receive
  \/ RejectMessage \/ HandleNew \/ HandleReplace \/ HandleCancel
  \/ Trigger \/ Restate \/ Fill \/ CancelByBook

Spec == Init /\ [][Next]_vars

-----------------------------------------------------------------------------
(* What the handlers hand to the book is what OrderBook assumes of its     *)
(* requests, and at all times the order shows what setPendingQty() says.   *)
TypeOK ==
  /\ order # Absent => order \in OrderRecord /\ order = WithPending(order)
  /\ client.state \in {"new", "waiting", "working", "over"}
  /\ replaces \in 0 .. MaxReplaces
  /\ average \in Nat /\ spent \in [sum : Nat, lowest : Nat \cup {Absent}]

(* When nothing is under way, the order is open for the quantity the       *)
(* client counts on, up to the half the exchange cannot trade: although    *)
(* fills were reported after it had sent its replace requests, several     *)
(* requests were under way at once and some of them were rejected.         *)
OpenAsWanted ==
  inbox = <<>> /\ outbox = <<>> =>
    Whole(client.open) = IF order = Absent THEN 0 ELSE ActualPending(order)

(* An order whose message had no MaxFloor shows all its open quantity,     *)
(* whatever was filled while the message was under way: a replace does not *)
(* turn it into an iceberg.                                                *)
WholeOrderShows ==
  order # Absent /\ floor = Absent => order.pending = ActualPending(order)

(* However prices are cut to whole numbers and limits replaced while fills *)
(* are under way: a client never buys above the limit it was told is in    *)
(* force, and never sells a whole unit below it.                           *)
FillsRespectLimit ==
  [][LET r == Head(outbox) IN
     outbox # <<>> /\ outbox' = Tail(outbox) /\ r.kind = "Fill" /\ client.limit # Absent =>
       IF client.side = "BUY" THEN 2 * r.price <= client.limit
                              ELSE 2 * (r.price + 1) > client.limit]_vars

(* The average price in the reports, rounded at every fill, never exceeds  *)
(* what the filled shares cost on average, nor falls below the lowest      *)
(* price among them.                                                       *)
AverageIsEarned ==
  order # Absent /\ order.filled > 0 =>
    average * order.filled <= spent.sum /\ spent.lowest <= average
=============================================================================
