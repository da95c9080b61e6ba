--------------------------- MODULE RequestsProof ---------------------------
(***************************************************************************)
(* Theorems about Requests, for all messages of the client, all prices of  *)
(* trades and any number of requests under way.                            *)
(***************************************************************************)
EXTENDS Requests, DataLemmas

ClientFields == {"state", "side", "open", "known", "limit", "asks"}

InMessage ==
       [kind : {"new"}, body : NewMessages, cum : {Absent}]
  \cup [kind : {"replace"}, body : ReplaceMessages, cum : Nat \cup {Absent}]
  \cup [kind : {"cancel"}, body : CancelMessages, cum : {Absent}]

OutMessage ==
  [kind : {"NewConfirm", "ReplaceConfirm", "Fill", "Restated", "CancelConfirm",
           "Reject", "NewReject", "ReplaceReject", "CancelReject"},
   cum : Nat, price : Nat \cup {Absent}]

(* The queues, and the record of the client.                               *)
QueuesInv ==
  /\ inbox \in Seq(InMessage) /\ outbox \in Seq(OutMessage)
  /\ client = [f \in ClientFields |-> client[f]]
  /\ client.known \in Nat

(* Until its order is handled the client is told nothing, and there is     *)
(* nothing else under way.                                                 *)
Fresh == client.state = "new" \/ \E i \in DOMAIN inbox : inbox[i].kind = "new"

FreshInv ==
  /\ client.state = "new" => inbox = <<>>
  /\ Fresh =>
       /\ order = Absent /\ outbox = <<>> /\ client.known = 0
       /\ Len(inbox) <= 1 /\ client.state \in {"new", "waiting"}
       /\ average = 0 /\ spent = [sum |-> 0, lowest |-> Absent]

(* Nobody knows of more fills than there were.                             *)
KnownInv ==
  order # Absent =>
    /\ order.filled \in Nat
    /\ client.known <= order.filled
    /\ \A i \in DOMAIN outbox : outbox[i].cum <= order.filled
    /\ \A i \in DOMAIN inbox : inbox[i].cum # Absent => Whole(inbox[i].cum) <= order.filled

(* An order without a floor discloses all it has open.                     *)
FloorInv == order # Absent /\ floor = Absent => ActualPending(order) <= order.disclosed

(* What the average price is computed from.                                *)
AverageInv ==
  order # Absent =>
    \/ order.filled = 0 /\ average = 0 /\ spent = [sum |-> 0, lowest |-> Absent]
    \/ /\ order.filled > 0 /\ spent.lowest \in Nat
       /\ average * order.filled <= spent.sum /\ spent.lowest <= average

IInv == TypeOK /\ QueuesInv /\ FreshInv /\ KnownInv /\ FloorInv /\ AverageInv

-----------------------------------------------------------------------------
LEMMA WholeOfNat == \A x \in Nat : Whole(x) \in Nat /\ Whole(2 * x) = x
BY DEF Whole

LEMMA WholeShifts == \A x, k \in Int : Whole(x - 2 * k) = Whole(x) - k /\ Whole(x) \in Int
BY DEF Whole

LEMMA WithPendingKeeps ==
  ASSUME NEW o \in OrderRecord
  PROVE  LET w == WithPending(o) IN
         /\ w.side = o.side /\ w.type = o.type /\ w.price = o.price
         /\ w.qty = o.qty /\ w.filled = o.filled
BY DEF WithPending, OrderRecord

(* The order a message describes.                                          *)
LEMMA DecodedType ==
  ASSUME NEW m \in NewMessages \cup ReplaceMessages, Decodable(m)
  PROVE  /\ Decoded(m) \in OrderRecord
         /\ Decoded(m) = WithPending(Decoded(m))
         /\ Decoded(m).side = m.side /\ Decoded(m).type = m.type
         /\ NeedsPrice(m) => Decoded(m).price = Whole(m.price)
         /\ Decoded(m).qty = Whole(m.qty)
         /\ Decoded(m).filled = 0
         /\ m.maxFloor = Absent => Decoded(m).disclosed = Whole(m.qty)
<1> DEFINE price  == IF NeedsPrice(m) THEN Whole(m.price) ELSE 0
           stop   == IF NeedsStopPx(m) THEN Whole(m.stopPx) ELSE 0
           shown  == Whole(IF m.maxFloor = Absent THEN m.qty ELSE m.maxFloor)
           o == [side |-> m.side, type |-> m.type, tif |-> TimeInForceOf(m),
                 price |-> price, stop |-> stop, qty |-> Whole(m.qty), filled |-> 0,
                 disclosed |-> shown, pending |-> Whole(m.qty)]
<1>1. price \in Int /\ stop \in Int /\ shown \in Int /\ Whole(m.qty) \in Int
  BY MessagesAssumption, WholeOfNat DEF Decodable
<1>2. m.side \in Side /\ m.type \in OrderType /\ TimeInForceOf(m) \in TimeInForce
  BY DEF Decodable, Convertible, TimeInForceOf, TimeInForce
<1>3. Decoded(m) = WithPending(o)
  BY DEF Decoded, MakeOrder
<1>4. /\ m.maxFloor = Absent => shown = Whole(m.qty)
      /\ NeedsPrice(m) => price = Whole(m.price)
  OBVIOUS
<1> HIDE DEF price, stop, shown
<1>5. o \in OrderRecord
  BY <1>1, <1>2 DEF OrderRecord
<1>6. /\ o.qty = Whole(m.qty) /\ o.filled = 0 /\ o.disclosed = shown
      /\ o.side = m.side /\ o.type = m.type /\ o.price = price
  OBVIOUS
<1> HIDE DEF o
<1> QED BY <1>3, <1>4, <1>5, <1>6, WithPendingFields, WithPendingKeeps, OrderOperatorTypes

(* What a report tells the client.                                         *)
LEMMA ToldFields ==
  ASSUME QueuesInv, NEW r \in OutMessage,
         client.state \in {"new", "waiting", "working", "over"}
  PROVE  /\ Told(client, r) = [f \in ClientFields |-> Told(client, r)[f]]
         /\ Told(client, r).known = IF r.kind = "Fill" THEN r.cum ELSE client.known
         /\ Told(client, r).state \in {"working", "over"} \/ Told(client, r).state = client.state
<1> DEFINE answered == [client EXCEPT !.asks = Tail(@)]
<1>1. /\ answered = [f \in ClientFields |-> answered[f]]
      /\ answered.known = client.known /\ answered.state = client.state
  BY DEF QueuesInv, ClientFields
<1> HIDE DEF answered
<1>2. CASE r.kind \in {"NewConfirm", "ReplaceConfirm"}
  BY <1>1, <1>2 DEF Told, ClientFields, answered
<1>3. CASE r.kind = "Fill"
  BY <1>3 DEF Told, ClientFields, QueuesInv
<1>4. CASE r.kind = "Restated"
  BY <1>4 DEF Told, ClientFields, QueuesInv
<1>5. CASE r.kind = "CancelConfirm"
  BY <1>5 DEF Told, ClientFields, QueuesInv
<1>6. CASE r.kind \in {"Reject", "NewReject", "ReplaceReject", "CancelReject"}
  BY <1>1, <1>6 DEF Told, ClientFields, answered
<1> QED BY <1>2, <1>3, <1>4, <1>5, <1>6 DEF OutMessage

-----------------------------------------------------------------------------
LEMMA InitInv == Init => IInv
<1> SUFFICES ASSUME Init PROVE IInv
  OBVIOUS
<1>1. TypeOK
  BY BoundsAssumption DEF Init, TypeOK
<1>2. QueuesInv
  BY ShortSequences DEF Init, QueuesInv, ClientFields
<1>3. FreshInv
  BY DEF Init, FreshInv, Fresh
<1> QED BY <1>1, <1>2, <1>3 DEF Init, IInv, KnownInv, FloorInv, AverageInv

(* A message goes out to the exchange.                                     *)
LEMMA Sends ==
  ASSUME QueuesInv, NEW m \in InMessage, inbox' = Append(inbox, m)
  PROVE  /\ inbox' \in Seq(InMessage)
         /\ Len(inbox) \in Nat /\ DOMAIN inbox = 1 .. Len(inbox)
         /\ Len(inbox') = Len(inbox) + 1 /\ DOMAIN inbox' = 1 .. Len(inbox) + 1
         /\ \A i \in 1 .. Len(inbox) : inbox'[i] = inbox[i]
         /\ inbox'[Len(inbox) + 1] = m
<1>1. inbox \in Seq(InMessage)
  BY DEF QueuesInv
<1> QED BY <1>1, AppendElements, LenProperties

(* A message is handled: it is not new, or it was the only one.            *)
LEMMA Handles ==
  ASSUME IInv, inbox # <<>>, inbox' = Tail(inbox), client' = client
  PROVE  /\ Head(inbox) \in InMessage /\ Head(inbox) = inbox[1] /\ 1 \in DOMAIN inbox
         /\ inbox' \in Seq(InMessage)
         /\ \A i \in DOMAIN inbox' : i + 1 \in DOMAIN inbox /\ inbox'[i] = inbox[i + 1]
         /\ client.state # "new" /\ ~Fresh'
<1>1. inbox \in Seq(InMessage)
  BY DEF IInv, QueuesInv
<1>2. /\ Head(inbox) \in InMessage /\ Head(inbox) = inbox[1] /\ Len(inbox) \in Nat \ {0}
      /\ inbox' \in Seq(InMessage) /\ Len(inbox') = Len(inbox) - 1
      /\ \A i \in 1 .. Len(inbox) - 1 : inbox'[i] = inbox[i + 1]
  BY <1>1, TailElements
<1>3. DOMAIN inbox = 1 .. Len(inbox) /\ DOMAIN inbox' = 1 .. Len(inbox) - 1
  BY <1>1, <1>2, LenProperties
<1>4. \A i \in DOMAIN inbox' : i + 1 \in DOMAIN inbox /\ inbox'[i] = inbox[i + 1]
  BY <1>2, <1>3
<1>5. client.state # "new"
  BY DEF IInv, FreshInv
<1>6. ~Fresh'
  <2> SUFFICES ASSUME NEW i \in DOMAIN inbox', inbox'[i].kind = "new" PROVE FALSE
    BY <1>5 DEF Fresh
  <2>1. Fresh
    BY <1>4 DEF Fresh
  <2> QED BY <1>2, <1>3, <2>1 DEF IInv, FreshInv
<1> QED BY <1>2, <1>3, <1>4, <1>5, <1>6

(* An answer or a report goes out to the client.                           *)
LEMMA Answers ==
  ASSUME QueuesInv, NEW m \in OutMessage, outbox' = Append(outbox, m)
  PROVE  /\ outbox' \in Seq(OutMessage)
         /\ \A i \in DOMAIN outbox' : outbox'[i] = m \/ (i \in DOMAIN outbox /\ outbox'[i] = outbox[i])
<1>1. outbox \in Seq(OutMessage)
  BY DEF QueuesInv
<1>2. /\ outbox' \in Seq(OutMessage) /\ Len(outbox') = Len(outbox) + 1
      /\ \A i \in 1 .. Len(outbox) : outbox'[i] = outbox[i]
      /\ outbox'[Len(outbox) + 1] = m
  BY <1>1, AppendElements
<1>3. /\ Len(outbox) \in Nat /\ DOMAIN outbox = 1 .. Len(outbox)
      /\ DOMAIN outbox' = 1 .. Len(outbox) + 1
  BY <1>1, <1>2, LenProperties
<1> QED BY <1>2, <1>3

-----------------------------------------------------------------------------
(* The client sends a change.                                              *)
LEMMA AskInv ==
  ASSUME IInv, CanAsk, NEW m \in InMessage, m.kind # "new",
         m.cum # Absent => m.cum = 2 * client.known,
         inbox' = Append(inbox, m), NEW a, client' = [client EXCEPT !.asks = a],
         replaces' \in 0 .. MaxReplaces,
         UNCHANGED <<order, outbox, floor, average, spent>>
  PROVE  IInv'
<1>1. /\ client' = [f \in ClientFields |-> client'[f]]
      /\ client'.known = client.known /\ client'.state = client.state
  BY DEF IInv, QueuesInv, ClientFields
<1>2. TypeOK'
  BY <1>1 DEF IInv, TypeOK
<1>3. QueuesInv'
  BY <1>1, Sends DEF IInv, QueuesInv
<1>4. ~Fresh
  BY DEF CanAsk, IInv, FreshInv
<1>5. FreshInv'
  <2>1. client'.state = "working"
    BY <1>1 DEF CanAsk
  <2>2. \A i \in DOMAIN inbox' : inbox'[i].kind # "new"
    BY <1>4, Sends DEF Fresh, IInv
  <2> QED BY <2>1, <2>2 DEF FreshInv, Fresh
<1>6. KnownInv'
  <2> SUFFICES ASSUME order # Absent PROVE KnownInv'
    BY DEF KnownInv
  <2>1. m.cum # Absent => Whole(m.cum) <= order.filled
    BY WholeOfNat DEF IInv, KnownInv, QueuesInv
  <2>2. \A i \in DOMAIN inbox' : inbox'[i].cum # Absent => Whole(inbox'[i].cum) <= order.filled
    BY <2>1, Sends DEF IInv, KnownInv
  <2> QED BY <1>1, <2>2 DEF IInv, KnownInv
<1>7. FloorInv' /\ AverageInv'
  BY DEF IInv, FloorInv, AverageInv
<1> QED BY <1>2, <1>3, <1>5, <1>6, <1>7 DEF IInv

LEMMA ClientInv == IInv /\ (SendNew \/ SendReplace \/ SendCancel) => IInv'
<1> SUFFICES ASSUME IInv, SendNew \/ SendReplace \/ SendCancel PROVE IInv'
  OBVIOUS
<1>1. CASE SendNew
  <2>1. PICK m \in NewMessages :
          /\ inbox' = Append(inbox, [kind |-> "new", body |-> m, cum |-> Absent])
          /\ client' = [client EXCEPT !.state = "waiting", !.side = m.side, !.asks = <<Ask(m)>>]
    BY <1>1 DEF SendNew
  <2> DEFINE n == [kind |-> "new", body |-> m, cum |-> Absent]
  <2>2. n \in InMessage /\ n.kind = "new"
    BY DEF InMessage
  <2>3. /\ client' = [f \in ClientFields |-> client'[f]]
        /\ client'.known = client.known /\ client'.state = "waiting"
    BY <2>1 DEF IInv, QueuesInv, ClientFields
  <2>4. /\ Fresh /\ inbox = <<>> /\ order = Absent
        /\ UNCHANGED <<order, outbox, replaces, floor, average, spent>>
    BY <1>1 DEF SendNew, Fresh, IInv, FreshInv
  <2> HIDE DEF n
  <2>5. QueuesInv'
    BY <2>1, <2>2, <2>3, <2>4, Sends DEF IInv, QueuesInv, n
  <2>6. FreshInv'
    <3>1. Len(inbox') <= 1
      BY <2>1, <2>2, <2>4, Sends DEF IInv, n
    <3> QED BY <2>3, <2>4, <3>1 DEF IInv, FreshInv, Fresh
  <2>7. TypeOK'
    BY <2>3, <2>4 DEF IInv, TypeOK
  <2> QED BY <2>4, <2>5, <2>6, <2>7 DEF IInv, KnownInv, FloorInv, AverageInv
<1>2. CASE SendReplace
  <2>1. PICK m \in ReplaceMessages, cum \in {2 * client.known, Absent} :
          /\ inbox' = Append(inbox, [kind |-> "replace", body |-> m, cum |-> cum])
          /\ client' = [client EXCEPT !.asks = Append(@, Ask(m))]
    BY <1>2 DEF SendReplace
  <2> DEFINE n == [kind |-> "replace", body |-> m, cum |-> cum]
  <2>2. n \in InMessage /\ n.kind = "replace" /\ (n.cum # Absent => n.cum = 2 * client.known)
    BY DEF InMessage, IInv, QueuesInv
  <2>3. replaces' \in 0 .. MaxReplaces
    BY <1>2, BoundsAssumption DEF SendReplace, IInv, TypeOK
  <2>4. client' = [client EXCEPT !.asks = Append(client.asks, Ask(m))]
    BY <2>1
  <2> HIDE DEF n
  <2> QED BY <1>2, <2>1, <2>2, <2>3, <2>4, AskInv DEF SendReplace, n
<1>3. CASE SendCancel
  <2>1. PICK m \in CancelMessages :
          /\ inbox' = Append(inbox, [kind |-> "cancel", body |-> m, cum |-> Absent])
          /\ client' = [client EXCEPT !.asks = Append(@, Ask(m))]
    BY <1>3 DEF SendCancel
  <2> DEFINE n == [kind |-> "cancel", body |-> m, cum |-> Absent]
  <2>2. n \in InMessage /\ n.kind = "cancel" /\ n.cum = Absent
    BY DEF InMessage
  <2>3. replaces' \in 0 .. MaxReplaces
    BY <1>3 DEF SendCancel, IInv, TypeOK
  <2>4. client' = [client EXCEPT !.asks = Append(client.asks, Ask(m))]
    BY <2>1
  <2> HIDE DEF n
  <2> QED BY <1>3, <2>1, <2>2, <2>3, <2>4, AskInv DEF SendCancel, n
<1> QED BY <1>1, <1>2, <1>3

LEMMA ReceiveInv == IInv /\ Receive => IInv'
<1> SUFFICES ASSUME IInv, Receive PROVE IInv'
  OBVIOUS
<1> DEFINE r == Head(outbox)
<1>1. /\ r \in OutMessage /\ r = outbox[1] /\ 1 \in DOMAIN outbox
      /\ outbox' \in Seq(OutMessage)
      /\ \A i \in DOMAIN outbox' : i + 1 \in DOMAIN outbox /\ outbox'[i] = outbox[i + 1]
  <2>1. outbox \in Seq(OutMessage) /\ outbox # <<>> /\ outbox' = Tail(outbox)
    BY DEF IInv, QueuesInv, Receive
  <2>2. /\ r \in OutMessage /\ r = outbox[1] /\ Len(outbox) \in Nat \ {0}
        /\ outbox' \in Seq(OutMessage) /\ Len(outbox') = Len(outbox) - 1
        /\ \A i \in 1 .. Len(outbox) - 1 : outbox'[i] = outbox[i + 1]
    BY <2>1, TailElements
  <2>3. DOMAIN outbox = 1 .. Len(outbox) /\ DOMAIN outbox' = 1 .. Len(outbox) - 1
    BY <2>1, <2>2, LenProperties
  <2> QED BY <2>2, <2>3
<1> HIDE DEF r
<1>2. client' = IF client.state = "over" THEN client ELSE Told(client, r)
  BY DEF Receive, r
<1>3. UNCHANGED <<order, inbox, replaces, floor, average, spent>>
  BY DEF Receive
<1>4. /\ client' = [f \in ClientFields |-> client'[f]]
      /\ client'.known \in {client.known, r.cum} /\ r.cum \in Nat
      /\ client'.state \in {"working", "over"} \/ client'.state = client.state
  BY <1>1, <1>2, ToldFields DEF IInv, TypeOK, QueuesInv, OutMessage
<1>5. QueuesInv'
  BY <1>1, <1>3, <1>4 DEF IInv, QueuesInv
<1>6. TypeOK'
  BY <1>3, <1>4 DEF IInv, TypeOK
<1>7. ~Fresh /\ FreshInv'
  <2>1. ~Fresh
    BY <1>1 DEF IInv, FreshInv
  <2> QED BY <1>3, <1>4, <2>1 DEF FreshInv, Fresh
<1>8. KnownInv'
  BY <1>1, <1>3, <1>4 DEF IInv, KnownInv
<1>9. FloorInv' /\ AverageInv'
  BY <1>3 DEF IInv, FloorInv, AverageInv
<1> QED BY <1>5, <1>6, <1>7, <1>8, <1>9 DEF IInv

-----------------------------------------------------------------------------
AnswerMessage(kind, cum) == [kind |-> kind, cum |-> cum, price |-> Absent]

LEMMA AnswerType ==
  ASSUME NEW kind \in {"NewConfirm", "ReplaceConfirm", "Restated", "CancelConfirm",
                      "Reject", "NewReject", "ReplaceReject", "CancelReject"},
         NEW cum \in Nat, Answer(kind, cum)
  PROVE  /\ AnswerMessage(kind, cum) \in OutMessage
         /\ AnswerMessage(kind, cum).cum = cum
         /\ outbox' = Append(outbox, AnswerMessage(kind, cum))
BY DEF Answer, Report, AnswerMessage, OutMessage

(* A request is handled and leaves the order as it is, or cancels it.      *)
LEMMA RefusalInv ==
  ASSUME IInv, inbox # <<>>, inbox' = Tail(inbox), order' \in {order, Absent},
         NEW m \in OutMessage, m.cum = 0, outbox' = Append(outbox, m),
         UNCHANGED <<client, replaces, floor, average, spent>>
  PROVE  IInv'
<1>1. TypeOK'
  BY DEF IInv, TypeOK
<1>2. QueuesInv'
  BY Handles, Answers DEF IInv, QueuesInv
<1>3. FreshInv'
  BY Handles DEF FreshInv, Fresh
<1>4. KnownInv'
  BY Handles, Answers DEF IInv, KnownInv
<1>5. FloorInv' /\ AverageInv'
  BY DEF IInv, FloorInv, AverageInv
<1> QED BY <1>1, <1>2, <1>3, <1>4, <1>5 DEF IInv

LEMMA HandleNewInv == IInv /\ HandleNew => IInv'
<1> SUFFICES ASSUME IInv, HandleNew PROVE IInv'
  OBVIOUS
<1> DEFINE m == Head(inbox).body
<1>1. /\ inbox # <<>> /\ inbox' = Tail(inbox) /\ Head(inbox).kind = "new" /\ Decodable(m)
      /\ UNCHANGED <<client, replaces, average, spent>>
  BY DEF HandleNew, Takes
<1>2. m \in NewMessages /\ Fresh
  BY <1>1, Handles DEF InMessage, Fresh
<1>3. /\ order = Absent /\ outbox = <<>> /\ client.known = 0
      /\ average = 0 /\ spent = [sum |-> 0, lowest |-> Absent] /\ inbox' = <<>>
  <2>1. inbox \in Seq(InMessage) /\ Len(inbox) <= 1
    BY <1>2 DEF IInv, QueuesInv, FreshInv
  <2>2. inbox' = <<>>
    BY <1>1, <2>1, TailElements, EmptySeq
  <2> QED BY <1>2, <2>2 DEF IInv, FreshInv
<1> HIDE DEF m
<1>4. CASE Answer("NewReject", 0) /\ UNCHANGED <<order, floor>>
  BY <1>1, <1>4, AnswerType, RefusalInv
<1>5. CASE order' = Decoded(m) /\ floor' = m.maxFloor /\ Answer("NewConfirm", 0)
  <2>1. /\ order' \in OrderRecord /\ order' = WithPending(order')
        /\ order'.qty = Whole(m.qty) /\ order'.filled = 0
        /\ floor' = Absent => order'.disclosed = Whole(m.qty)
    BY <1>1, <1>2, <1>5, DecodedType
  <2>2. QueuesInv'
    BY <1>1, <1>5, AnswerType, Handles, Answers DEF IInv, QueuesInv
  <2>3. TypeOK'
    BY <1>1, <2>1 DEF IInv, TypeOK
  <2>4. FreshInv'
    BY <1>1, Handles DEF FreshInv, Fresh
  <2>5. \A i \in DOMAIN outbox' : outbox'[i].cum = 0
    BY <1>3, <1>5, AnswerType, Answers DEF IInv
  <2>6. KnownInv'
    BY <1>1, <1>3, <2>1, <2>5 DEF KnownInv
  <2>7. Whole(m.qty) \in Nat
    BY <1>2, MessagesAssumption, WholeOfNat
  <2>8. FloorInv'
    BY <2>1, <2>7 DEF FloorInv, ActualPending
  <2>9. AverageInv'
    BY <1>1, <1>3, <2>1 DEF AverageInv
  <2> QED BY <2>2, <2>3, <2>4, <2>6, <2>8, <2>9 DEF IInv
<1> QED BY <1>4, <1>5 DEF HandleNew, m

(* The order a replace request describes, and what it makes of the order.  *)
LEMMA ReplaceFields ==
  ASSUME NEW m \in ReplaceMessages, NEW cum \in Nat, Decodable(m),
         NEW old \in OrderRecord
  PROVE  LET o == addOrderQty(Decoded(m), cum)
             new == ReplacedOrder(old, o)
         IN  /\ o \in OrderRecord /\ new \in OrderRecord /\ new = WithPending(new)
             /\ new.side = old.side /\ new.type = m.type /\ new.filled = old.filled
             /\ NeedsPrice(m) => new.price = Whole(m.price)
             /\ new.qty = Whole(m.qty) + Whole(cum)
             /\ m.maxFloor = Absent => new.disclosed = Whole(m.qty)
<1> DEFINE d == Decoded(m)
           o == addOrderQty(d, cum)
           r == [old EXCEPT !.qty = o.qty, !.disclosed = o.disclosed,
                   !.tif = o.tif, !.type = o.type, !.stop = o.stop,
                   !.price = IF o.type \in {"MARKET", "STOP"} THEN @ ELSE o.price]
<1>1. /\ d \in OrderRecord /\ d.qty = Whole(m.qty) /\ d.type = m.type
      /\ NeedsPrice(m) => d.price = Whole(m.price)
      /\ m.maxFloor = Absent => d.disclosed = Whole(m.qty)
  BY DecodedType
<1>2. Whole(cum) \in Nat
  BY WholeOfNat
<1> HIDE DEF d
<1>3. /\ o \in OrderRecord /\ o.qty = Whole(m.qty) + Whole(cum) /\ o.disclosed = d.disclosed
      /\ o.type = d.type /\ o.price = d.price
  BY <1>1, <1>2 DEF addOrderQty, OrderRecord
<1> HIDE DEF o
<1>4. /\ r \in OrderRecord /\ r.filled = old.filled /\ r.qty = o.qty
      /\ r.disclosed = o.disclosed /\ r.side = old.side /\ r.type = o.type
      /\ o.type \notin {"MARKET", "STOP"} => r.price = o.price
  BY <1>3 DEF OrderRecord
<1>5. ReplacedOrder(old, o) = WithPending(r)
  BY DEF ReplacedOrder
<1> HIDE DEF r
<1>6. /\ WithPending(r) \in OrderRecord /\ WithPending(r) = WithPending(WithPending(r))
      /\ WithPending(r).filled = old.filled /\ WithPending(r).qty = o.qty
      /\ WithPending(r).disclosed = o.disclosed
      /\ WithPending(r).side = r.side /\ WithPending(r).type = r.type
      /\ WithPending(r).price = r.price
  BY <1>4, WithPendingFields, WithPendingKeeps, OrderOperatorTypes
<1>7. NeedsPrice(m) => o.type \notin {"MARKET", "STOP"}
  BY <1>1, <1>3 DEF NeedsPrice
<1> QED BY <1>1, <1>3, <1>4, <1>5, <1>6, <1>7 DEF o, d

LEMMA HandleReplaceInv == IInv /\ HandleReplace => IInv'
<1> SUFFICES ASSUME IInv, HandleReplace PROVE IInv'
  OBVIOUS
<1> DEFINE r == Head(inbox)
           o == addOrderQty(Decoded(r.body), r.cum)
<1>1. /\ inbox # <<>> /\ inbox' = Tail(inbox) /\ r.kind = "replace"
      /\ Decodable(r.body) /\ r.cum # Absent
      /\ UNCHANGED <<client, replaces, average, spent>>
  BY DEF HandleReplace, Takes
<1>2. r.body \in ReplaceMessages /\ r.cum \in Nat
  BY <1>1, Handles DEF InMessage
<1>3. CASE Answer("ReplaceReject", 0) /\ UNCHANGED <<order, floor>>
  BY <1>1, <1>3, AnswerType, RefusalInv
<1>4. CASE /\ FoundBy(r.body)
           /\ order' = ReplacedOrder(order, o) /\ floor' = r.body.maxFloor
           /\ Answer("ReplaceConfirm", order.filled)
  <2>1. /\ order # Absent /\ order \in OrderRecord /\ order.filled \in Nat
        /\ Whole(r.cum) <= order.filled
    BY <1>1, <1>4, Handles DEF FoundBy, Rests, IInv, TypeOK, KnownInv
  <2>2. /\ order' \in OrderRecord /\ order' = WithPending(order')
        /\ order'.filled = order.filled
        /\ order'.qty = Whole(r.body.qty) + Whole(r.cum)
        /\ floor' = Absent => order'.disclosed = Whole(r.body.qty)
    BY <1>1, <1>2, <1>4, <2>1, ReplaceFields
  <2>3. QueuesInv'
    BY <1>1, <1>4, <2>1, AnswerType, Handles, Answers DEF IInv, QueuesInv
  <2>4. TypeOK'
    BY <1>1, <2>2 DEF IInv, TypeOK
  <2>5. FreshInv'
    BY <1>1, Handles DEF FreshInv, Fresh
  <2>6. \A i \in DOMAIN outbox' : outbox'[i].cum <= order.filled
    BY <1>4, <2>1, AnswerType, Answers DEF IInv, KnownInv
  <2>7. KnownInv'
    BY <1>1, <2>1, <2>2, <2>6, Handles DEF IInv, KnownInv
  <2>8. FloorInv'
    <3>1. Whole(r.body.qty) \in Nat /\ Whole(r.cum) \in Nat
      BY <1>2, MessagesAssumption, WholeOfNat
    <3> QED BY <2>1, <2>2, <3>1 DEF FloorInv, ActualPending
  <2>9. AverageInv'
    BY <1>1, <2>1, <2>2 DEF IInv, AverageInv
  <2> QED BY <2>3, <2>4, <2>5, <2>7, <2>8, <2>9 DEF IInv
<1> QED BY <1>3, <1>4 DEF HandleReplace

-----------------------------------------------------------------------------
(* The book changes the order and reports it.                              *)
LEMMA BookInv ==
  ASSUME IInv, Rests, NEW m \in OutMessage, outbox' = Append(outbox, m),
         order' # Absent =>
           /\ order' \in OrderRecord /\ order' = WithPending(order')
           /\ order'.filled \in Nat /\ order.filled <= order'.filled /\ m.cum <= order'.filled
           /\ order'.qty = order.qty /\ order'.disclosed = order.disclosed,
         average' \in Nat, spent' \in [sum : Nat, lowest : Nat \cup {Absent}], AverageInv',
         UNCHANGED <<inbox, client, replaces, floor>>
  PROVE  IInv'
<1>1. /\ order # Absent /\ order \in OrderRecord /\ order.filled \in Nat /\ ~Fresh
  BY DEF Rests, IInv, TypeOK, KnownInv, FreshInv
<1>2. TypeOK'
  BY DEF IInv, TypeOK
<1>3. QueuesInv'
  BY Answers DEF IInv, QueuesInv
<1>4. FreshInv'
  BY <1>1 DEF FreshInv, Fresh
<1>5. KnownInv'
  <2> SUFFICES ASSUME order' # Absent PROVE KnownInv'
    BY DEF KnownInv
  <2>1. client.known <= order'.filled
    BY <1>1 DEF IInv, KnownInv, QueuesInv
  <2>2. \A i \in DOMAIN outbox' : outbox'[i].cum <= order'.filled
    <3> SUFFICES ASSUME NEW i \in DOMAIN outbox' PROVE outbox'[i].cum <= order'.filled
      OBVIOUS
    <3>1. CASE outbox'[i] = m
      BY <3>1
    <3>2. CASE i \in DOMAIN outbox /\ outbox'[i] = outbox[i]
      <4>1. outbox[i] \in OutMessage
        BY <3>2, ElementOfSeq, LenProperties DEF IInv, QueuesInv
      <4>2. outbox[i].cum \in Nat /\ outbox[i].cum <= order.filled
        BY <1>1, <3>2, <4>1 DEF OutMessage, IInv, KnownInv
      <4> QED BY <1>1, <3>2, <4>2
    <3> QED BY <3>1, <3>2, Answers DEF IInv
  <2>3. \A i \in DOMAIN inbox : inbox[i].cum # Absent => Whole(inbox[i].cum) <= order'.filled
    <3> SUFFICES ASSUME NEW i \in DOMAIN inbox, inbox[i].cum # Absent
                 PROVE  Whole(inbox[i].cum) <= order'.filled
      OBVIOUS
    <3>1. inbox[i] \in InMessage
      BY ElementOfSeq, LenProperties DEF IInv, QueuesInv
    <3>2. inbox[i].cum \in Nat
      BY <3>1 DEF InMessage
    <3>3. Whole(inbox[i].cum) \in Nat /\ Whole(inbox[i].cum) <= order.filled
      BY <1>1, <3>2, WholeOfNat DEF IInv, KnownInv
    <3> QED BY <1>1, <3>3
  <2> QED BY <2>1, <2>2, <2>3 DEF KnownInv
<1>6. FloorInv'
  <2> SUFFICES ASSUME order' # Absent, floor = Absent
               PROVE  ActualPending(order') <= order'.disclosed
    BY DEF FloorInv
  <2>1. order.qty \in Int /\ order.disclosed \in Int /\ order.qty - order.filled <= order.disclosed
    BY <1>1 DEF IInv, FloorInv, ActualPending, OrderRecord
  <2> QED BY <1>1, <2>1 DEF ActualPending
<1> QED BY <1>2, <1>3, <1>4, <1>5, <1>6 DEF IInv

(* What the book does to an order keeps these of its fields.               *)
LEMMA BookSteps ==
  ASSUME NEW o \in OrderRecord, o = WithPending(o)
  PROVE  /\ \A r \in {TriggerOrder(o)} \cup {MarketToLimit(o, p) : p \in Nat} :
              /\ r \in OrderRecord /\ r = WithPending(r)
              /\ r.filled = o.filled /\ r.qty = o.qty /\ r.disclosed = o.disclosed
         /\ \A q \in Nat :
              LET r == FillOrder(o, q) IN
                /\ r \in OrderRecord /\ r = WithPending(r)
                /\ r.filled = o.filled + q /\ r.qty = o.qty /\ r.disclosed = o.disclosed
<1>1. o.pending = IF o.disclosed > 0 /\ o.disclosed < ActualPending(o)
                    THEN o.disclosed ELSE ActualPending(o)
  BY WithPendingFields
<1>2. ASSUME NEW r \in OrderRecord, r.filled = o.filled, r.qty = o.qty,
             r.disclosed = o.disclosed, r.pending = o.pending
      PROVE  r = WithPending(r)
  <2>1. r.pending = IF r.disclosed > 0 /\ r.disclosed < ActualPending(r)
                      THEN r.disclosed ELSE ActualPending(r)
    BY <1>1, <1>2 DEF ActualPending
  <2> QED BY <2>1 DEF WithPending, OrderRecord
<1>3. LET r == TriggerOrder(o) IN
        /\ r \in OrderRecord /\ r.pending = o.pending
        /\ r.filled = o.filled /\ r.qty = o.qty /\ r.disclosed = o.disclosed
  BY OrderOperatorTypes DEF TriggerOrder, OrderRecord
<1>4. ASSUME NEW p \in Nat
      PROVE  LET r == MarketToLimit(o, p) IN
               /\ r \in OrderRecord /\ r.pending = o.pending
               /\ r.filled = o.filled /\ r.qty = o.qty /\ r.disclosed = o.disclosed
  <2>1. MarketToLimit(o, p) \in OrderRecord
    BY OrderOperatorTypes
  <2> QED BY <2>1 DEF MarketToLimit, OrderRecord
<1>5. ASSUME NEW q \in Nat
      PROVE  LET r == FillOrder(o, q) IN
               /\ r \in OrderRecord /\ r = WithPending(r)
               /\ r.filled = o.filled + q /\ r.qty = o.qty /\ r.disclosed = o.disclosed
  <2> DEFINE n == [o EXCEPT !.filled = @ + q]
  <2>1. /\ n \in OrderRecord /\ n.filled = o.filled + q /\ n.qty = o.qty
        /\ n.disclosed = o.disclosed
    BY DEF OrderRecord
  <2>2. FillOrder(o, q) = WithPending(n)
    BY DEF FillOrder
  <2> HIDE DEF n
  <2> QED BY <2>1, <2>2, WithPendingFields, OrderOperatorTypes
<1> QED BY <1>2, <1>3, <1>4, <1>5

(* A request the book does not see.                                        *)
LEMMA RefusingInv == IInv /\ (RejectMessage \/ HandleCancel) => IInv'
<1> SUFFICES ASSUME IInv, RejectMessage \/ HandleCancel PROVE IInv'
  OBVIOUS
<1>1. CASE RejectMessage
  BY <1>1, AnswerType, RefusalInv DEF RejectMessage
<1>2. CASE HandleCancel
  <2>1. inbox # <<>> /\ inbox' = Tail(inbox) /\ order' \in {order, Absent}
    BY <1>2 DEF HandleCancel, Takes
  <2>2. Answer("CancelConfirm", 0) \/ Answer("CancelReject", 0)
    BY <1>2 DEF HandleCancel
  <2>3. UNCHANGED <<client, replaces, floor, average, spent>>
    BY <1>2 DEF HandleCancel
  <2> QED BY <2>1, <2>2, <2>3, AnswerType, RefusalInv
<1> QED BY <1>1, <1>2

(* The book changes the order, or cancels it, without a trade.             *)
LEMMA RestatingInv == IInv /\ (Trigger \/ Restate \/ CancelByBook) => IInv'
<1> SUFFICES ASSUME IInv, Trigger \/ Restate \/ CancelByBook PROVE IInv'
  OBVIOUS
<1>1. Rests /\ UNCHANGED <<inbox, client, replaces, floor, average, spent>>
  BY DEF Trigger, Restate, CancelByBook
<1>2. order \in OrderRecord /\ order = WithPending(order) /\ order.filled \in Nat
  BY <1>1 DEF Rests, IInv, TypeOK, KnownInv
<1>3. average' \in Nat /\ spent' \in [sum : Nat, lowest : Nat \cup {Absent}]
  BY <1>1 DEF IInv, TypeOK
<1>4. CASE CancelByBook
  <2>1. order' = Absent /\ Answer("CancelConfirm", 0)
    BY <1>4 DEF CancelByBook
  <2>2. AverageInv'
    BY <2>1 DEF AverageInv
  <2> QED BY <1>1, <1>3, <2>1, <2>2, AnswerType, BookInv
<1>5. CASE Trigger \/ Restate
  <2>1. /\ order' \in {TriggerOrder(order)} \cup {MarketToLimit(order, p) : p \in Nat}
        /\ Answer("Restated", order.filled)
    BY <1>5, BoundsAssumption DEF Trigger, Restate
  <2>2. /\ order' \in OrderRecord /\ order' = WithPending(order')
        /\ order'.filled = order.filled /\ order'.qty = order.qty
        /\ order'.disclosed = order.disclosed
    BY <1>2, <2>1, BookSteps
  <2>3. AverageInv'
    BY <1>1, <2>2 DEF IInv, AverageInv, Rests
  <2>4. order'.filled \in Nat /\ order.filled <= order'.filled
    BY <1>2, <2>2
  <2> DEFINE m == AnswerMessage("Restated", order.filled)
  <2>5. m \in OutMessage /\ m.cum = order.filled /\ outbox' = Append(outbox, m)
    BY <1>2, <2>1, AnswerType
  <2> HIDE DEF m
  <2> QED BY <1>1, <1>3, <2>2, <2>3, <2>4, <2>5, BookInv
<1> QED BY <1>4, <1>5

(* Multiplication and integer division.                                    *)
LEMMA Multiplied == \A a, b \in Nat : a * b \in Nat
OBVIOUS

LEMMA Divided ==
  ASSUME NEW x \in Nat, NEW d \in Nat \ {0}
  PROVE  /\ x \div d \in Nat /\ (x \div d) * d <= x
         /\ \A l \in Nat : l * d <= x => l <= x \div d
<1>1. x \div d \in Nat /\ d * (x \div d) <= x /\ x < d * (x \div d) + d
  OBVIOUS
<1> DEFINE k == x \div d
<1> HIDE DEF k
<1>2. ASSUME NEW l \in Nat, l * d <= x, k \in Nat, x < d * k + d, k < l PROVE FALSE
  <2>1. k + 1 <= l
    BY <1>2
  <2>2. (k + 1) * d <= l * d
    BY <1>2, <2>1
  <2>3. (k + 1) * d = d * k + d
    BY <1>2
  <2> QED BY <1>2, <2>2, <2>3
<1> QED BY <1>1, <1>2 DEF k

LEMMA FillInv == IInv /\ Fill => IInv'
<1> SUFFICES ASSUME IInv, Fill PROVE IInv'
  OBVIOUS
<1>1. /\ Rests /\ order # Absent
      /\ order \in OrderRecord /\ order = WithPending(order) /\ order.filled \in Nat
      /\ UNCHANGED <<inbox, client, replaces, floor>>
      /\ average \in Nat /\ spent \in [sum : Nat, lowest : Nat \cup {Absent}]
  BY DEF Fill, Rests, IInv, TypeOK, KnownInv
<1>2. PICK q \in 1 .. order.pending, p \in Prices :
        /\ order' = FillOrder(order, q)
        /\ average' = AveragePrice(order, average, p, q)
        /\ spent' = [sum |-> spent.sum + q * p,
                     lowest |-> IF spent.lowest = Absent \/ p < spent.lowest
                                  THEN p ELSE spent.lowest]
        /\ Report("Fill", order.filled + q, p)
  BY DEF Fill
<1>3. q \in Nat \ {0} /\ p \in Nat /\ q * p \in Nat
  <2>1. q \in Nat \ {0} /\ p \in Nat
    BY <1>1, BoundsAssumption DEF OrderRecord
  <2> QED BY <2>1
<1>4. /\ order' \in OrderRecord /\ order' = WithPending(order')
      /\ order'.filled = order.filled + q /\ order'.qty = order.qty
      /\ order'.disclosed = order.disclosed
  BY <1>1, <1>2, <1>3, BookSteps
<1> DEFINE f == order.filled
           x == q * p + average * f
           d == q + f
           low == spent'.lowest
<1>5. f \in Nat /\ average * f \in Nat /\ x \in Nat /\ d \in Nat \ {0}
  BY <1>1, <1>3
<1>6. average' = x \div d /\ order'.filled = d
  BY <1>2, <1>3, <1>4, <1>5 DEF AveragePrice
<1>7. spent'.sum = spent.sum + q * p /\ spent.sum \in Nat /\ low \in Nat /\ low <= p
  BY <1>1, <1>2, <1>3
<1>8. spent' \in [sum : Nat, lowest : Nat \cup {Absent}]
  BY <1>2, <1>3, <1>7
<1>9. x <= spent'.sum /\ low * d <= x
  <2>1. low * d = low * q + low * f
    BY <1>3, <1>5, <1>7
  <2>2. low * q <= q * p
    BY <1>3, <1>7
  <2>3. CASE f = 0 /\ average = 0 /\ spent = [sum |-> 0, lowest |-> Absent]
    BY <1>3, <1>5, <1>7, <2>1, <2>2, <2>3
  <2>4. CASE /\ f > 0 /\ spent.lowest \in Nat
             /\ average * f <= spent.sum /\ spent.lowest <= average
    <3>1. low <= average
      BY <1>1, <1>2, <1>3, <2>4, AbsentAssumption
    <3>2. low * f <= average * f
      BY <1>1, <1>5, <1>7, <3>1
    <3> HIDE DEF d, f, low
    <3>3. x <= spent'.sum
      BY <1>3, <1>5, <1>7, <2>4
    <3>4. low * q \in Nat /\ low * f \in Nat
      BY <1>3, <1>5, <1>7
    <3> QED BY <1>3, <1>5, <2>1, <2>2, <3>2, <3>3, <3>4
  <2> QED BY <1>1, <2>3, <2>4 DEF IInv, AverageInv
<1> HIDE DEF x, d, low
<1>10. average' \in Nat /\ average' * d <= x /\ low <= average'
  BY <1>5, <1>6, <1>7, <1>9, Divided
<1>11. AverageInv'
  <2>1. average' * d \in Nat
    BY <1>5, <1>10, Multiplied
  <2>2. average' * order'.filled <= spent'.sum
    <3>1. average' * order'.filled = average' * d
      BY <1>6
    <3>2. spent'.sum \in Nat
      BY <1>8
    <3> DEFINE y == average' * d
    <3>3. y \in Nat /\ y <= x
      BY <1>10, <2>1
    <3> HIDE DEF y
    <3>4. y <= spent'.sum
      BY <1>5, <1>9, <3>2, <3>3
    <3> QED BY <3>1, <3>4 DEF y
  <2> QED BY <1>5, <1>6, <1>7, <1>10, <2>2 DEF AverageInv, low
<1> DEFINE m == [kind |-> "Fill", cum |-> f + q, price |-> p]
<1>12. m \in OutMessage /\ m.cum = f + q /\ outbox' = Append(outbox, m)
  BY <1>2, <1>3, <1>5 DEF Report, OutMessage
<1>13. order'.filled \in Nat /\ order.filled <= order'.filled /\ m.cum <= order'.filled
  BY <1>3, <1>4, <1>5, <1>12
<1> HIDE DEF m
<1> QED BY <1>1, <1>4, <1>8, <1>10, <1>11, <1>12, <1>13, BookInv

LEMMA NextInv == IInv /\ [Next]_vars => IInv'
<1> SUFFICES ASSUME IInv, [Next]_vars PROVE IInv'
  OBVIOUS
<1>1. CASE UNCHANGED vars
  BY <1>1 DEF IInv, TypeOK, QueuesInv, FreshInv, Fresh, KnownInv, FloorInv, AverageInv, vars
<1>2. CASE SendNew \/ SendReplace \/ SendCancel
  BY <1>2, ClientInv
<1>3. CASE RejectMessage \/ HandleCancel
  BY <1>3, RefusingInv
<1>4. CASE Trigger \/ Restate \/ CancelByBook
  BY <1>4, RestatingInv
<1> QED BY <1>1, <1>2, <1>3, <1>4, ReceiveInv, HandleNewInv, HandleReplaceInv, FillInv
        DEF Next

-----------------------------------------------------------------------------
LEMMA Inductive == Spec => []IInv
BY InitInv, NextInv, PTL DEF Spec

(* The order a FIX message is turned into, or a later one turns it into,   *)
(* is one the book is meant for, and what it shows is at all times what    *)
(* setPendingQty() makes of its quantities.                                *)
THEOREM TypeCorrect == Spec => []TypeOK
<1>1. IInv => TypeOK
  BY DEF IInv
<1> QED BY <1>1, Inductive, PTL

(* The CumQty of a replace request is never ahead of the order, whatever   *)
(* is under way; so an order without MaxFloor never becomes an iceberg.    *)
THEOREM WholeOrders == Spec => []WholeOrderShows
<1>1. IInv => WholeOrderShows
  <2> SUFFICES ASSUME IInv, order # Absent, floor = Absent
               PROVE  order.pending = ActualPending(order)
    BY DEF WholeOrderShows
  <2>1. order \in OrderRecord /\ order = WithPending(order)
    BY DEF IInv, TypeOK
  <2>2. order.pending = IF order.disclosed > 0 /\ order.disclosed < ActualPending(order)
                          THEN order.disclosed ELSE ActualPending(order)
    BY <2>1, WithPendingFields
  <2>3. ActualPending(order) <= order.disclosed
    BY DEF IInv, FloorInv
  <2>4. ActualPending(order) \in Int /\ order.disclosed \in Int
    BY <2>1 DEF ActualPending, OrderRecord
  <2> QED BY <2>2, <2>3, <2>4
<1> QED BY <1>1, Inductive, PTL

(* The average price of Order::fill(), rounded down at every fill, stays   *)
(* between the lowest price and the exact average of any series of fills.  *)
THEOREM AverageEarned == Spec => []AverageIsEarned
<1>1. IInv => AverageIsEarned
  BY DEF IInv, AverageInv, AverageIsEarned
<1> QED BY <1>1, Inductive, PTL

-----------------------------------------------------------------------------
(* What the client will know once it has the answers and reports that are  *)
(* under way, one after the other.  A CancelConfirm ends the conversation: *)
(* what follows it tells the client nothing.                               *)
AllMessages == NewMessages \cup ReplaceMessages \cup CancelMessages

AskRecord ==
  [qty : {m.qty : m \in AllMessages}, known : Nat,
   limit : {m.price : m \in AllMessages} \cup {Absent}]

ClientRecord ==
  [state : {"new", "waiting", "working", "over"},
   side : {m.side : m \in NewMessages} \cup {Absent},
   open : Int, known : Nat, limit : Nat \cup {Absent}, asks : Seq(AskRecord)]

Confirms(r) == r.kind \in {"NewConfirm", "ReplaceConfirm"}
Answering(r) == r.kind \notin {"Fill", "Restated"}

(* A trade at p that a client on that side accepts.                        *)
Fair(side, limit, p) == IF side = "BUY" THEN 2 * p <= limit ELSE 2 * (p + 1) > limit

(* A client c can be told r: it is an answer to something, and a trade     *)
(* within the limit it was told of.                                        *)
Hears(c, r) ==
  /\ c.state # "over" /\ r.kind # "CancelConfirm"
  /\ Answering(r) => c.asks # <<>>
  /\ r.kind = "Fill" /\ c.limit # Absent => Fair(c.side, c.limit, r.price)

(* c[i] is the client after the first i of the messages o.                 *)
Path(o, z, c) ==
  /\ z \in 0 .. Len(o) /\ c \in [0 .. z -> ClientRecord]
  /\ \A i \in 1 .. z : Hears(c[i - 1], o[i]) /\ c[i] = Told(c[i - 1], o[i])
  /\ \A i \in 0 .. z : \A j \in i .. z : c[i].state = "working" => c[j].state = "working"

(* The request a client remembers and the message it sent.                 *)
Matches(m, a) ==
  /\ m.kind \in {"new", "replace"} =>
       a.qty = m.body.qty /\ a.limit = IF NeedsPrice(m.body) THEN m.body.price ELSE Absent
  /\ m.kind = "new" => a.known = 0
  /\ m.cum # Absent => m.cum = 2 * a.known

(* The requests that client d has no answer to are those in box.           *)
Waits(box, d) ==
  /\ Len(d.asks) = Len(box)
  /\ \A j \in 1 .. Len(box) :
       Matches(box[j], d.asks[j]) /\ (box[j].kind = "new" => d.side = box[j].body.side)
  /\ d.state # "working" => Len(box) <= 1 /\ (d.state = "over" => box = <<>>)

(* The order is as client d has it.                                        *)
Agrees(ord, d) ==
  IF ord = Absent THEN d.open = 0
  ELSE /\ d.state = "working" /\ d.side = ord.side
       /\ d.known = ord.filled /\ Whole(d.open) + d.known = ord.qty
       /\ d.limit # Absent =>
            ord.type \in {"LIMIT", "STOP_LIMIT"} /\ ord.price = Whole(d.limit)

(* Without a CancelConfirm, the client will know all; after one there is   *)
(* no order, and no trade.                                                 *)
Ends(ord, box, o, z, d) ==
  \/ z = Len(o) /\ Waits(box, d) /\ Agrees(ord, d)
  \/ /\ z < Len(o) /\ ord = Absent /\ d.state # "over" /\ o[z + 1].kind = "CancelConfirm"
     /\ \A i \in z + 1 .. Len(o) : o[i].kind # "Fill"

Leads(cl, ord, box, o) ==
  \E z \in Nat : \E c \in [0 .. z -> ClientRecord] :
    Path(o, z, c) /\ c[0] = cl /\ Ends(ord, box, o, z, c[z])

Ended(cl, ord, o) ==
  cl.open = 0 /\ ord = Absent /\ \A i \in 1 .. Len(o) : o[i].kind # "Fill"

ViewInv ==
  IF client.state = "over" THEN Ended(client, order, outbox)
                           ELSE Leads(client, order, inbox, outbox)

-----------------------------------------------------------------------------
(* What a message makes of a client.                                       *)
LEMMA ToldClient ==
  ASSUME NEW c \in ClientRecord, NEW r \in OutMessage, r.kind # "CancelConfirm",
         Answering(r) => c.asks # <<>>,
         Confirms(r) => Head(c.asks).qty \in Nat /\ Head(c.asks).limit \in Nat \cup {Absent}
  PROVE  LET d == Told(c, r) IN
         /\ d \in ClientRecord /\ d.side = c.side
         /\ d.known = IF r.kind = "Fill" THEN r.cum ELSE c.known
         /\ d.asks = IF Answering(r) THEN Tail(c.asks) ELSE c.asks
         /\ d.limit = IF Confirms(r) THEN Head(c.asks).limit ELSE c.limit
         /\ Confirms(r) => d.state = "working"
         /\ ~Confirms(r) => d.state = IF Answering(r) /\ c.state = "waiting" THEN "over" ELSE c.state
         /\ Confirms(r) => d.open = Head(c.asks).qty - 2 * (c.known - Head(c.asks).known)
         /\ r.kind = "Fill" => d.open = c.open - 2 * (r.cum - c.known)
         /\ ~Confirms(r) /\ r.kind # "Fill" => d.open = c.open
<1> DEFINE a == [c EXCEPT !.asks = Tail(@)]
           d == Told(c, r)
           q == Head(c.asks)
<1>1. c.open \in Int /\ c.known \in Nat /\ c.asks \in Seq(AskRecord) /\ r.cum \in Nat
  BY DEF ClientRecord, OutMessage
<1>2. Answering(r) => q \in AskRecord /\ q.known \in Nat /\ Tail(c.asks) \in Seq(AskRecord)
  <2>1. ASSUME Answering(r) PROVE q \in AskRecord /\ Tail(c.asks) \in Seq(AskRecord)
    BY <1>1, <2>1, TailElements
  <2>2. \A x \in AskRecord : x.known \in Nat
    BY DEF AskRecord
  <2> QED BY <2>1, <2>2
<1> HIDE DEF q
<1>3. Answering(r) => a \in ClientRecord /\ a.asks = Tail(c.asks) /\ a.side = c.side
                      /\ a.known = c.known /\ a.limit = c.limit /\ a.state = c.state
                      /\ a.open = c.open
  BY <1>2 DEF ClientRecord
<1> HIDE DEF a
<1>4. CASE Confirms(r)
  <2> DEFINE n == q.qty - 2 * (c.known - q.known)
  <2>1. n \in Int /\ q.limit \in Nat \cup {Absent} /\ Answering(r)
    BY <1>1, <1>2, <1>4 DEF Confirms, Answering, q
  <2> HIDE DEF n
  <2>2. d = [a EXCEPT !.state = "working", !.limit = q.limit, !.open = n]
    BY <1>4 DEF Told, Confirms, a, q, n
  <2>3. d \in ClientRecord /\ d.side = a.side /\ d.known = a.known /\ d.asks = a.asks
        /\ d.limit = q.limit /\ d.state = "working" /\ d.open = n
    BY <1>3, <2>1, <2>2 DEF ClientRecord
  <2>4. r.kind # "Fill"
    BY <1>4 DEF Confirms
  <2> QED BY <1>3, <1>4, <2>1, <2>3, <2>4 DEF n, q
<1>5. CASE r.kind = "Fill"
  <2> DEFINE n == c.open - 2 * (r.cum - c.known)
  <2>1. n \in Int /\ ~Answering(r) /\ ~Confirms(r)
    BY <1>1, <1>5 DEF Confirms, Answering
  <2>2. d = [c EXCEPT !.open = n, !.known = r.cum]
    BY <1>5 DEF Told
  <2> HIDE DEF n
  <2>3. d \in ClientRecord /\ d.side = c.side /\ d.known = r.cum /\ d.asks = c.asks
        /\ d.limit = c.limit /\ d.state = c.state /\ d.open = n
    BY <1>1, <2>1, <2>2 DEF ClientRecord
  <2> QED BY <1>5, <2>1, <2>3 DEF n
<1>6. CASE r.kind = "Restated"
  <2>1. d = c /\ ~Answering(r) /\ ~Confirms(r) /\ r.kind # "Fill"
    BY <1>6 DEF Told, Answering, Confirms
  <2> QED BY <2>1
<1>7. CASE r.kind \in {"Reject", "NewReject", "ReplaceReject", "CancelReject"}
  <2> DEFINE s == IF c.state = "waiting" THEN "over" ELSE c.state
  <2>1. Answering(r) /\ ~Confirms(r) /\ r.kind # "Fill" /\ s \in {"new", "waiting", "working", "over"}
    BY <1>7 DEF Answering, Confirms, ClientRecord
  <2>2. d = [a EXCEPT !.state = IF @ = "waiting" THEN "over" ELSE @]
    BY <1>7 DEF Told, a
  <2>3. d = [a EXCEPT !.state = s]
    BY <1>3, <2>1, <2>2
  <2> HIDE DEF s
  <2>4. d \in ClientRecord /\ d.side = a.side /\ d.known = a.known /\ d.asks = a.asks
        /\ d.limit = a.limit /\ d.state = s /\ d.open = a.open
    BY <1>3, <2>1, <2>3 DEF ClientRecord
  <2> QED BY <1>3, <2>1, <2>4 DEF s
<1> QED BY <1>4, <1>5, <1>6, <1>7 DEF OutMessage, Confirms

(* A request more changes nothing of what earlier answers mean.            *)
WithAsk(c, a) == [c EXCEPT !.asks = Append(@, a)]

LEMMA WithAskFields ==
  ASSUME NEW c \in ClientRecord, NEW a \in AskRecord
  PROVE  LET d == WithAsk(c, a) IN
         /\ d \in ClientRecord /\ d.asks = Append(c.asks, a) /\ d.asks # <<>>
         /\ d.state = c.state /\ d.side = c.side /\ d.open = c.open
         /\ d.known = c.known /\ d.limit = c.limit
<1>1. c.asks \in Seq(AskRecord)
  BY DEF ClientRecord
<1>2. Append(c.asks, a) \in Seq(AskRecord) /\ Append(c.asks, a) # <<>>
  BY <1>1, AppendProperties
<1> QED BY <1>2 DEF WithAsk, ClientRecord

LEMMA ToldWithAsk ==
  ASSUME NEW c \in ClientRecord, NEW a \in AskRecord, NEW r \in OutMessage, Hears(c, r)
  PROVE  Told(WithAsk(c, a), r) = WithAsk(Told(c, r), a) /\ Hears(WithAsk(c, a), r)
<1> DEFINE w == WithAsk(c, a)
           x == Append(c.asks, a)
<1>1. c.asks \in Seq(AskRecord) /\ r.kind # "CancelConfirm"
  BY DEF ClientRecord, Hears
<1>2. /\ w.asks = x /\ x # <<>> /\ w.known = c.known /\ w.state = c.state /\ w.open = c.open
      /\ w.side = c.side /\ w.limit = c.limit /\ w = [c EXCEPT !.asks = x]
  BY WithAskFields DEF WithAsk
<1>3. Hears(w, r)
  BY <1>2 DEF Hears
<1>4. ASSUME Answering(r) PROVE Head(x) = Head(c.asks) /\ Tail(x) = Append(Tail(c.asks), a)
  BY <1>1, <1>4, HeadTailAppend DEF Hears
<1> HIDE DEF w, x
<1> SUFFICES Told(w, r) = WithAsk(Told(c, r), a)
  BY <1>3 DEF w
<1>5. CASE r.kind \in {"Fill", "Restated"}
  <2>1. CASE r.kind = "Restated"
    BY <2>1 DEF Told, w
  <2>2. CASE r.kind = "Fill"
    <3> DEFINE n == c.open - 2 * (r.cum - c.known)
    <3>1. Told(c, r) = [c EXCEPT !.open = n, !.known = r.cum]
      BY <2>2 DEF Told
    <3>2. Told(w, r) = [w EXCEPT !.open = n, !.known = r.cum]
      BY <1>2, <2>2 DEF Told
    <3> HIDE DEF n
    <3> QED BY <3>1, <3>2 DEF w, WithAsk, ClientRecord
  <2> QED BY <1>5, <2>1, <2>2
<1>6. CASE r.kind \notin {"Fill", "Restated"}
  <2>1. Head(x) = Head(c.asks) /\ Tail(x) = Append(Tail(c.asks), a)
    BY <1>4, <1>6 DEF Answering
  <2> DEFINE t == Tail(c.asks)
  <2> HIDE DEF t
  <2>2. [w EXCEPT !.asks = Tail(@)] = [[c EXCEPT !.asks = t] EXCEPT !.asks = Append(@, a)]
    BY <1>2, <2>1 DEF ClientRecord, t
  <2> DEFINE b == [c EXCEPT !.asks = Tail(@)]
  <2>3. b = [c EXCEPT !.asks = t] /\ [w EXCEPT !.asks = Tail(@)] = WithAsk(b, a)
    BY <2>2 DEF t, WithAsk
  <2>4. b.state = c.state /\ b.asks = t
    BY <2>3 DEF ClientRecord
  <2> HIDE DEF b
  <2>5. CASE Confirms(r)
    <3> DEFINE n == Head(c.asks).qty - 2 * (c.known - Head(c.asks).known)
               l == Head(c.asks).limit
    <3>1. Told(c, r) = [b EXCEPT !.state = "working", !.limit = l, !.open = n]
      BY <2>5 DEF Told, Confirms, b
    <3>2. Told(w, r) = [WithAsk(b, a) EXCEPT !.state = "working", !.limit = l, !.open = n]
      BY <1>2, <2>1, <2>3, <2>5 DEF Told, Confirms
    <3> HIDE DEF n, l
    <3> QED BY <2>3, <3>1, <3>2 DEF WithAsk, ClientRecord
  <2>6. CASE ~Confirms(r)
    <3> DEFINE s == IF c.state = "waiting" THEN "over" ELSE c.state
    <3>1. r.kind \in {"Reject", "NewReject", "ReplaceReject", "CancelReject"}
      BY <1>1, <1>6, <2>6 DEF OutMessage, Confirms
    <3>2. Told(c, r) = [b EXCEPT !.state = IF @ = "waiting" THEN "over" ELSE @]
      BY <3>1 DEF Told, b
    <3>3. Told(w, r) = [WithAsk(b, a) EXCEPT !.state = IF @ = "waiting" THEN "over" ELSE @]
      BY <2>3, <3>1 DEF Told
    <3>4. WithAsk(b, a).state = c.state
      BY <2>3, <2>4 DEF WithAsk, ClientRecord
    <3>5. Told(c, r) = [b EXCEPT !.state = s] /\ Told(w, r) = [WithAsk(b, a) EXCEPT !.state = s]
      BY <2>4, <3>2, <3>3, <3>4
    <3> HIDE DEF s
    <3> QED BY <2>3, <3>5 DEF WithAsk, ClientRecord
  <2> QED BY <2>5, <2>6
<1> QED BY <1>5, <1>6

-----------------------------------------------------------------------------
(* A message is sent to the client: what it will know before stays.        *)
LEMMA PathKept ==
  ASSUME NEW o \in Seq(OutMessage), NEW m \in OutMessage, NEW z, NEW c, Path(o, z, c)
  PROVE  Path(Append(o, m), z, c)
<1>1. /\ Len(Append(o, m)) = Len(o) + 1 /\ Len(o) \in Nat
      /\ \A i \in 1 .. Len(o) : Append(o, m)[i] = o[i]
  BY AppendElements, LenProperties
<1> DEFINE p == Append(o, m)
<1> HIDE DEF p
<1>2. z \in 0 .. Len(o) /\ z \in 0 .. Len(p) /\ \A i \in 1 .. z : p[i] = o[i]
  BY <1>1 DEF Path, p
<1> QED BY <1>2 DEF Path, p

(* A message is sent to the client, and the client can be told.            *)
LEMMA PathExtends ==
  ASSUME NEW o \in Seq(OutMessage), NEW m \in OutMessage, NEW c, Path(o, Len(o), c),
         Hears(c[Len(o)], m), Told(c[Len(o)], m) \in ClientRecord,
         c[Len(o)].state = "working" => Told(c[Len(o)], m).state = "working"
  PROVE  \E d \in [0 .. Len(o) + 1 -> ClientRecord] :
           /\ Path(Append(o, m), Len(o) + 1, d)
           /\ d[0] = c[0] /\ d[Len(o) + 1] = Told(c[Len(o)], m)
<1> DEFINE p == Append(o, m)
           n == Len(o)
           e == Told(c[n], m)
<1>1. /\ n \in Nat /\ Len(p) = n + 1 /\ p[n + 1] = m
      /\ \A i \in 1 .. n : p[i] = o[i]
  BY AppendElements, LenProperties
<1>2. e \in ClientRecord /\ Hears(c[n], m) /\ Path(o, n, c)
      /\ (c[n].state = "working" => e.state = "working") /\ e = Told(c[n], m)
  OBVIOUS
<1> SUFFICES \E d \in [0 .. n + 1 -> ClientRecord] :
               Path(p, n + 1, d) /\ d[0] = c[0] /\ d[n + 1] = e
  OBVIOUS
<1> HIDE DEF p, n, e
<1> DEFINE d == [i \in 0 .. n + 1 |-> IF i = n + 1 THEN e ELSE c[i]]
<1>3. \A i \in 0 .. n : c[i] \in ClientRecord
  BY <1>1, <1>2 DEF Path
<1>4. d \in [0 .. n + 1 -> ClientRecord] /\ d[n + 1] = e /\ \A i \in 0 .. n : d[i] = c[i]
  BY <1>1, <1>2, <1>3
<1> HIDE DEF d
<1>5. \A i \in 1 .. n + 1 : Hears(d[i - 1], p[i]) /\ d[i] = Told(d[i - 1], p[i])
  <2> SUFFICES ASSUME NEW i \in 1 .. n + 1
               PROVE  Hears(d[i - 1], p[i]) /\ d[i] = Told(d[i - 1], p[i])
    OBVIOUS
  <2>1. CASE i = n + 1
    <3>1. d[i - 1] = c[n] /\ d[i] = e /\ p[i] = m
      BY <1>1, <1>4, <2>1
    <3> QED BY <1>2, <3>1
  <2>2. CASE i \in 1 .. n
    <3>1. d[i - 1] = c[i - 1] /\ d[i] = c[i] /\ p[i] = o[i]
      BY <1>1, <1>4, <2>2
    <3> QED BY <1>2, <2>2, <3>1 DEF Path
  <2> QED BY <1>1, <2>1, <2>2
<1>6. \A i \in 0 .. n + 1 : \A j \in i .. n + 1 : d[i].state = "working" => d[j].state = "working"
  <2> SUFFICES ASSUME NEW i \in 0 .. n + 1, NEW j \in i .. n + 1, d[i].state = "working"
               PROVE  d[j].state = "working"
    OBVIOUS
  <2>1. CASE i = n + 1
    BY <1>1, <2>1
  <2>2. CASE i \in 0 .. n /\ j \in i .. n
    BY <1>1, <1>2, <1>4, <2>2 DEF Path
  <2>3. CASE i \in 0 .. n /\ j = n + 1
    <3>1. c[i].state = "working" /\ n \in i .. n
      BY <1>1, <1>4, <2>3
    <3> QED BY <1>2, <1>4, <2>3, <3>1 DEF Path
  <2> QED BY <1>1, <2>1, <2>2, <2>3
<1>7. n + 1 \in 0 .. Len(p)
  BY <1>1
<1>8. Path(p, n + 1, d)
  BY <1>4, <1>5, <1>6, <1>7 DEF Path
<1>9. d[0] = c[0]
  BY <1>1, <1>4
<1> QED BY <1>4, <1>8, <1>9

(* The client reads the first message.                                     *)
LEMMA PathShifts ==
  ASSUME NEW o \in Seq(OutMessage), NEW z \in Nat \ {0}, NEW c, Path(o, z, c)
  PROVE  \E d \in [0 .. z - 1 -> ClientRecord] :
           Path(Tail(o), z - 1, d) /\ d[0] = c[1] /\ d[z - 1] = c[z]
<1> DEFINE p == Tail(o)
           n == Len(o)
<1>0. o # <<>>
  BY EmptySeq DEF Path
<1>1. n \in Nat /\ z <= n /\ Len(p) = n - 1 /\ \A i \in 1 .. n - 1 : p[i] = o[i + 1]
  BY <1>0, TailElements, LenProperties DEF Path
<1> HIDE DEF p, n
<1> DEFINE d == [i \in 0 .. z - 1 |-> c[i + 1]]
<1>2. \A i \in 0 .. z - 1 : c[i + 1] \in ClientRecord
  BY DEF Path
<1>3. d \in [0 .. z - 1 -> ClientRecord] /\ \A i \in 0 .. z - 1 : d[i] = c[i + 1]
  BY <1>2
<1> HIDE DEF d
<1>4. \A i \in 1 .. z - 1 : Hears(d[i - 1], p[i]) /\ d[i] = Told(d[i - 1], p[i])
  <2> SUFFICES ASSUME NEW i \in 1 .. z - 1
               PROVE  Hears(d[i - 1], p[i]) /\ d[i] = Told(d[i - 1], p[i])
    OBVIOUS
  <2>1. PICK k \in 1 .. z : k = i + 1
    OBVIOUS
  <2>2. d[i - 1] = c[k - 1] /\ d[i] = c[k] /\ p[i] = o[k]
    BY <1>1, <1>3, <2>1
  <2> QED BY <2>1, <2>2 DEF Path
<1>5. \A i \in 0 .. z - 1 : \A j \in i .. z - 1 : d[i].state = "working" => d[j].state = "working"
  <2> SUFFICES ASSUME NEW i \in 0 .. z - 1, NEW j \in i .. z - 1, d[i].state = "working"
               PROVE  d[j].state = "working"
    OBVIOUS
  <2>1. i + 1 \in 0 .. z /\ j + 1 \in i + 1 .. z /\ d[i] = c[i + 1] /\ d[j] = c[j + 1]
    BY <1>3
  <2> QED BY <2>1 DEF Path
<1>6. z - 1 \in 0 .. Len(p)
  BY <1>1
<1>7. Path(p, z - 1, d)
  BY <1>3, <1>4, <1>5, <1>6 DEF Path
<1>8. d[0] = c[1] /\ d[z - 1] = c[z]
  BY <1>3
<1> QED BY <1>3, <1>7, <1>8 DEF p

(* The client sends a request more.                                        *)
LEMMA PathAsks ==
  ASSUME NEW o \in Seq(OutMessage), NEW z \in Nat, NEW c, Path(o, z, c), NEW a \in AskRecord
  PROVE  \E d \in [0 .. z -> ClientRecord] :
           Path(o, z, d) /\ d[0] = WithAsk(c[0], a) /\ d[z] = WithAsk(c[z], a)
<1> DEFINE d == [i \in 0 .. z |-> WithAsk(c[i], a)]
<1>1. \A i \in 0 .. z : c[i] \in ClientRecord
  BY DEF Path
<1>2. \A i \in 0 .. z : WithAsk(c[i], a) \in ClientRecord /\ WithAsk(c[i], a).state = c[i].state
  BY <1>1, WithAskFields
<1>3. d \in [0 .. z -> ClientRecord] /\ \A i \in 0 .. z : d[i] = WithAsk(c[i], a)
  BY <1>2
<1> HIDE DEF d
<1>4. \A i \in 1 .. z : Hears(d[i - 1], o[i]) /\ d[i] = Told(d[i - 1], o[i])
  <2> SUFFICES ASSUME NEW i \in 1 .. z
               PROVE  Hears(d[i - 1], o[i]) /\ d[i] = Told(d[i - 1], o[i])
    OBVIOUS
  <2>1. i \in 1 .. Len(o) /\ i - 1 \in 0 .. z /\ i \in 0 .. z
    BY LenProperties DEF Path
  <2>2. o[i] \in OutMessage
    BY <2>1, ElementOfSeq
  <2>3. Hears(c[i - 1], o[i]) /\ c[i] = Told(c[i - 1], o[i])
    BY DEF Path
  <2>4. c[i - 1] \in ClientRecord
    BY <1>1, <2>1
  <2>5. Told(WithAsk(c[i - 1], a), o[i]) = WithAsk(Told(c[i - 1], o[i]), a)
        /\ Hears(WithAsk(c[i - 1], a), o[i])
    BY <2>2, <2>3, <2>4, ToldWithAsk
  <2> QED BY <1>3, <2>1, <2>3, <2>5
<1>5. \A i \in 0 .. z : \A j \in i .. z : d[i].state = "working" => d[j].state = "working"
  <2> SUFFICES ASSUME NEW i \in 0 .. z, NEW j \in i .. z, d[i].state = "working"
               PROVE  d[j].state = "working"
    OBVIOUS
  <2>1. j \in 0 .. z /\ d[i].state = c[i].state /\ d[j].state = c[j].state
    BY <1>2, <1>3
  <2> QED BY <2>1 DEF Path
<1>6. Path(o, z, d)
  BY <1>3, <1>4, <1>5 DEF Path
<1>7. d[0] = WithAsk(c[0], a) /\ d[z] = WithAsk(c[z], a)
  BY <1>3
<1> QED BY <1>3, <1>6, <1>7

-----------------------------------------------------------------------------
(* Before anything is under way.                                           *)
LEMMA ShortPath ==
  ASSUME NEW d \in ClientRecord, NEW o \in Seq(OutMessage)
  PROVE  \E c \in [0 .. 0 -> ClientRecord] : Path(o, 0, c) /\ c[0] = d
<1> DEFINE c == [i \in 0 .. 0 |-> d]
<1>1. c \in [0 .. 0 -> ClientRecord] /\ c[0] = d
  OBVIOUS
<1>2. 0 \in 0 .. Len(o)
  BY LenProperties
<1> HIDE DEF c
<1>3. Path(o, 0, c)
  BY <1>1, <1>2 DEF Path
<1> QED BY <1>1, <1>3

LEMMA InitView == Init => ViewInv
<1> SUFFICES ASSUME Init PROVE ViewInv
  OBVIOUS
<1>1. /\ client = [state |-> "new", side |-> Absent, open |-> 0, known |-> 0,
                   limit |-> Absent, asks |-> <<>>]
      /\ order = Absent /\ inbox = <<>> /\ outbox = <<>>
  BY DEF Init
<1>2. client \in ClientRecord
  BY <1>1, ShortSequences DEF ClientRecord
<1>3. outbox \in Seq(OutMessage) /\ Len(outbox) = 0
  BY <1>1, ShortSequences
<1>4. PICK c \in [0 .. 0 -> ClientRecord] : Path(outbox, 0, c) /\ c[0] = client
  BY <1>2, <1>3, ShortPath
<1>5. Ends(order, inbox, outbox, 0, c[0])
  BY <1>1, <1>3, <1>4 DEF Ends, Waits, Agrees
<1>6. Leads(client, order, inbox, outbox)
  BY <1>4, <1>5 DEF Leads
<1> QED BY <1>1, <1>6 DEF ViewInv

(* While the order is there, or nothing was answered yet, the client will  *)
(* know all.                                                               *)
LEMMA Informed ==
  ASSUME IInv, ViewInv, order # Absent \/ (client.state # "over" /\ outbox = <<>>)
  PROVE  /\ client.state # "over"
         /\ \E c \in [0 .. Len(outbox) -> ClientRecord] :
              /\ Path(outbox, Len(outbox), c) /\ c[0] = client
              /\ c[Len(outbox)] \in ClientRecord
              /\ Waits(inbox, c[Len(outbox)]) /\ Agrees(order, c[Len(outbox)])
<1>1. client.state # "over"
  BY DEF ViewInv, Ended
<1>2. Leads(client, order, inbox, outbox)
  BY <1>1 DEF ViewInv
<1>3. PICK z \in Nat : \E c \in [0 .. z -> ClientRecord] :
        Path(outbox, z, c) /\ c[0] = client /\ Ends(order, inbox, outbox, z, c[z])
  BY <1>2 DEF Leads
<1>4. PICK c \in [0 .. z -> ClientRecord] :
        Path(outbox, z, c) /\ c[0] = client /\ Ends(order, inbox, outbox, z, c[z])
  BY <1>3
<1>5. Len(outbox) \in Nat /\ z \in 0 .. Len(outbox) /\ (outbox = <<>> => Len(outbox) = 0)
  BY <1>4, LenProperties DEF IInv, QueuesInv, Path
<1>6. z = Len(outbox) /\ Waits(inbox, c[z]) /\ Agrees(order, c[z])
  BY <1>4, <1>5 DEF Ends
<1>7. c[z] \in ClientRecord
  BY <1>4
<1> QED BY <1>1, <1>4, <1>6, <1>7

(* An answer or a report goes out that the client can be told.             *)
LEMMA Continues ==
  ASSUME IInv, NEW r \in OutMessage, outbox' = Append(outbox, r),
         client' = client, client.state # "over",
         NEW c, Path(outbox, Len(outbox), c), c[0] = client,
         Hears(c[Len(outbox)], r), Told(c[Len(outbox)], r) \in ClientRecord,
         c[Len(outbox)].state = "working" => Told(c[Len(outbox)], r).state = "working",
         Waits(inbox', Told(c[Len(outbox)], r)), Agrees(order', Told(c[Len(outbox)], r))
  PROVE  ViewInv'
<1>1. outbox \in Seq(OutMessage) /\ Len(outbox) \in Nat /\ Len(outbox') = Len(outbox) + 1
  BY AppendElements, LenProperties DEF IInv, QueuesInv
<1>2. PICK d \in [0 .. Len(outbox) + 1 -> ClientRecord] :
        /\ Path(outbox', Len(outbox) + 1, d)
        /\ d[0] = c[0] /\ d[Len(outbox) + 1] = Told(c[Len(outbox)], r)
  BY <1>1, PathExtends
<1>3. Ends(order', inbox', outbox', Len(outbox) + 1, d[Len(outbox) + 1])
  BY <1>1, <1>2 DEF Ends
<1>4. Len(outbox) + 1 \in Nat /\ d[0] = client'
  BY <1>1, <1>2
<1>5. Leads(client', order', inbox', outbox')
  BY <1>2, <1>3, <1>4 DEF Leads
<1> QED BY <1>5 DEF ViewInv

(* The first of the requests that wait is the first that has no answer.    *)
LEMMA FirstWaits ==
  ASSUME NEW box \in Seq(InMessage), box # <<>>, NEW d \in ClientRecord, Waits(box, d)
  PROVE  /\ d.asks # <<>> /\ d.state # "over"
         /\ Head(d.asks) \in AskRecord /\ Matches(Head(box), Head(d.asks))
         /\ Head(box).kind = "new" => d.side = Head(box).body.side
         /\ \A e \in ClientRecord :
              /\ e.asks = Tail(d.asks) /\ e.side = d.side
              /\ e.state = d.state \/ e.state \in {"working", "over"}
              /\ d.state = "working" => e.state = "working"
              => Waits(Tail(box), e)
<1>1. d.asks \in Seq(AskRecord) /\ Len(d.asks) = Len(box)
  BY DEF ClientRecord, Waits
<1>2. /\ Head(box) = box[1] /\ Len(box) \in Nat \ {0} /\ Tail(box) \in Seq(InMessage)
      /\ Len(Tail(box)) = Len(box) - 1
      /\ \A i \in 1 .. Len(box) - 1 : Tail(box)[i] = box[i + 1]
  BY TailElements
<1>3. d.asks # <<>>
  BY <1>1, <1>2, EmptySeq
<1>4. /\ Head(d.asks) = d.asks[1] /\ Head(d.asks) \in AskRecord
      /\ Tail(d.asks) \in Seq(AskRecord) /\ Len(Tail(d.asks)) = Len(box) - 1
      /\ \A i \in 1 .. Len(box) - 1 : Tail(d.asks)[i] = d.asks[i + 1]
  BY <1>1, <1>3, TailElements
<1>5. Matches(Head(box), Head(d.asks)) /\ (Head(box).kind = "new" => d.side = Head(box).body.side)
  <2>1. 1 \in 1 .. Len(box)
    BY <1>2
  <2> QED BY <1>2, <1>4, <2>1 DEF Waits
<1>6. ASSUME NEW e \in ClientRecord, e.asks = Tail(d.asks), e.side = d.side,
             e.state = d.state \/ e.state \in {"working", "over"},
             d.state = "working" => e.state = "working"
      PROVE  Waits(Tail(box), e)
  <2>1. Len(e.asks) = Len(Tail(box))
    BY <1>2, <1>4, <1>6
  <2>2. ASSUME NEW j \in 1 .. Len(Tail(box))
        PROVE  /\ Matches(Tail(box)[j], e.asks[j])
               /\ Tail(box)[j].kind = "new" => e.side = Tail(box)[j].body.side
    <3>1. j \in 1 .. Len(box) - 1 /\ j + 1 \in 1 .. Len(box)
      BY <1>2
    <3>2. Tail(box)[j] = box[j + 1] /\ e.asks[j] = d.asks[j + 1]
      BY <1>2, <1>4, <1>6, <3>1
    <3> QED BY <1>6, <3>1, <3>2 DEF Waits
  <2>3. ASSUME e.state # "working" PROVE Len(Tail(box)) <= 1 /\ Tail(box) = <<>>
    <3>1. Len(box) <= 1
      BY <1>6, <2>3 DEF Waits
    <3>2. Len(Tail(box)) = 0
      BY <1>2, <3>1
    <3>3. Tail(box) = <<>>
      BY <1>2, <3>2, EmptySeq
    <3> QED BY <3>2, <3>3
  <2> QED BY <2>1, <2>2, <2>3 DEF Waits
<1>7. d.state # "over"
  BY DEF Waits
<1> QED BY <1>3, <1>4, <1>5, <1>6, <1>7

(* A request is answered: confirmed, and the order is as it asked for; or  *)
(* rejected.                                                               *)
LEMMA ConfirmView ==
  ASSUME IInv, ViewInv, inbox # <<>>, inbox' = Tail(inbox), client' = client,
         NEW r \in OutMessage, outbox' = Append(outbox, r), Confirms(r),
         order # Absent \/ (client.state # "over" /\ outbox = <<>>),
         Head(inbox).body.qty \in Nat, Head(inbox).body.price \in Nat \cup {Absent},
         Head(inbox).kind \in {"new", "replace"},
         \A d, e \in ClientRecord :
           /\ Waits(inbox, d) /\ Agrees(order, d) /\ (outbox = <<>> => d = client)
           /\ e.side = d.side /\ e.known = d.known
           /\ e.limit = Head(d.asks).limit /\ e.state = "working"
           /\ e.open = Head(d.asks).qty - 2 * (d.known - Head(d.asks).known)
           => Agrees(order', e)
  PROVE  ViewInv'
<1> DEFINE n == Len(outbox)
<1>1. client.state # "over" /\ inbox \in Seq(InMessage)
  BY Informed DEF IInv, QueuesInv
<1>2. PICK c \in [0 .. n -> ClientRecord] :
        /\ Path(outbox, n, c) /\ c[0] = client /\ c[n] \in ClientRecord
        /\ Waits(inbox, c[n]) /\ Agrees(order, c[n])
  BY Informed
<1> DEFINE d == c[n]
           e == Told(c[n], r)
<1>3. d \in ClientRecord /\ Waits(inbox, d) /\ Agrees(order, d) /\ (outbox = <<>> => d = client)
  BY <1>2
<1>4. r.kind # "CancelConfirm" /\ r.kind # "Fill" /\ Answering(r)
  BY DEF Confirms, Answering
<1> HIDE DEF d
<1>5. Hears(d, r)
  BY <1>1, <1>3, <1>4, FirstWaits DEF Hears
<1>6. Head(d.asks).qty \in Nat /\ Head(d.asks).limit \in Nat \cup {Absent}
  BY <1>1, <1>3, FirstWaits DEF Matches
<1>7. e = Told(d, r)
  BY DEF d
<1> HIDE DEF e
<1>8. /\ e \in ClientRecord /\ e.side = d.side /\ e.known = d.known /\ e.asks = Tail(d.asks)
      /\ e.limit = Head(d.asks).limit /\ e.state = "working"
      /\ e.open = Head(d.asks).qty - 2 * (d.known - Head(d.asks).known)
  BY <1>3, <1>4, <1>5, <1>6, <1>7, ToldClient DEF Hears
<1>9. Waits(inbox', e)
  BY <1>1, <1>3, <1>8, FirstWaits
<1>10. Agrees(order', e)
  BY <1>3, <1>8
<1> QED BY <1>1, <1>2, <1>5, <1>7, <1>8, <1>9, <1>10, Continues DEF d, e

LEMMA RejectView ==
  ASSUME IInv, ViewInv, inbox # <<>>, inbox' = Tail(inbox), client' = client, order' = order,
         NEW r \in OutMessage, outbox' = Append(outbox, r),
         r.kind \in {"Reject", "NewReject", "ReplaceReject", "CancelReject"}
  PROVE  ViewInv'
<1> DEFINE n == Len(outbox)
<1>1. /\ inbox \in Seq(InMessage) /\ outbox \in Seq(OutMessage) /\ n \in Nat
      /\ Len(outbox') = n + 1 /\ outbox'[n + 1] = r
      /\ \A i \in 1 .. n : outbox'[i] = outbox[i]
  BY AppendElements, LenProperties DEF IInv, QueuesInv
<1>2. r.kind # "CancelConfirm" /\ r.kind # "Fill" /\ Answering(r) /\ ~Confirms(r)
  BY DEF Confirms, Answering
<1>3. CASE client.state = "over"
  BY <1>1, <1>2, <1>3 DEF ViewInv, Ended
<1>4. CASE client.state # "over"
  <2>1. PICK z \in Nat : \E c \in [0 .. z -> ClientRecord] :
          Path(outbox, z, c) /\ c[0] = client /\ Ends(order, inbox, outbox, z, c[z])
    BY <1>4 DEF ViewInv, Leads
  <2>2. PICK c \in [0 .. z -> ClientRecord] :
          Path(outbox, z, c) /\ c[0] = client /\ Ends(order, inbox, outbox, z, c[z])
    BY <2>1
  <2> DEFINE d == c[z]
             e == Told(d, r)
  <2>3. d \in ClientRecord
    BY <2>2
  <2>4. CASE z = n /\ Waits(inbox, d) /\ Agrees(order, d)
    <3> HIDE DEF d
    <3>1. Hears(d, r) /\ d.asks # <<>>
      BY <1>1, <1>2, <2>3, <2>4, FirstWaits DEF Hears
    <3>2. /\ e \in ClientRecord /\ e.side = d.side /\ e.known = d.known
          /\ e.asks = Tail(d.asks) /\ e.limit = d.limit /\ e.open = d.open
          /\ e.state = IF d.state = "waiting" THEN "over" ELSE d.state
      BY <1>2, <2>3, <3>1, ToldClient DEF Hears
    <3> HIDE DEF e
    <3>3. Waits(inbox', e)
      BY <1>1, <2>3, <2>4, <3>2, FirstWaits
    <3>4. Agrees(order', e)
      BY <2>4, <3>2 DEF Agrees
    <3>5. d.state = "working" => e.state = "working"
      BY <3>2
    <3> QED BY <1>4, <2>2, <2>4, <3>1, <3>2, <3>3, <3>4, <3>5, Continues DEF d, e
  <2>5. CASE /\ z < n /\ order = Absent /\ d.state # "over" /\ outbox[z + 1].kind = "CancelConfirm"
             /\ \A i \in z + 1 .. n : outbox[i].kind # "Fill"
    <3>1. Path(outbox', z, c)
      BY <1>1, <2>2, PathKept
    <3>2. Ends(order', inbox', outbox', z, c[z])
      <4>1. z < Len(outbox') /\ z + 1 \in 1 .. n
        BY <1>1, <2>5
      <4>2. \A i \in z + 1 .. n + 1 : outbox'[i].kind # "Fill"
        <5> SUFFICES ASSUME NEW i \in z + 1 .. n + 1 PROVE outbox'[i].kind # "Fill"
          OBVIOUS
        <5>1. i = n + 1 \/ (i \in 1 .. n /\ i \in z + 1 .. n)
          BY <1>1
        <5>2. i \in 1 .. n => outbox'[i] = outbox[i]
          BY <1>1
        <5> QED BY <1>1, <1>2, <2>5, <5>1, <5>2
      <4> QED BY <1>1, <2>5, <4>1, <4>2 DEF Ends
    <3>3. Leads(client', order', inbox', outbox')
      BY <2>2, <3>1, <3>2 DEF Leads
    <3> QED BY <1>4, <3>3 DEF ViewInv
  <2> QED BY <2>2, <2>4, <2>5 DEF Ends
<1> QED BY <1>3, <1>4

(* The order is gone.                                                      *)
LEMMA CancelView ==
  ASSUME IInv, ViewInv, order # Absent, order' = Absent, client' = client,
         NEW r \in OutMessage, outbox' = Append(outbox, r), r.kind = "CancelConfirm"
  PROVE  ViewInv'
<1> DEFINE n == Len(outbox)
<1>1. /\ outbox \in Seq(OutMessage) /\ n \in Nat
      /\ Len(outbox') = n + 1 /\ outbox'[n + 1] = r
  BY AppendElements, LenProperties DEF IInv, QueuesInv
<1>2. PICK c \in [0 .. n -> ClientRecord] :
        /\ Path(outbox, n, c) /\ c[0] = client /\ c[n] \in ClientRecord
        /\ Waits(inbox, c[n]) /\ Agrees(order, c[n])
  BY Informed
<1>3. Path(outbox', n, c)
  BY <1>1, <1>2, PathKept
<1>4. Ends(order', inbox', outbox', n, c[n])
  BY <1>1, <1>2 DEF Ends, Agrees
<1>5. Leads(client', order', inbox', outbox')
  BY <1>1, <1>2, <1>3, <1>4 DEF Leads
<1> QED BY <1>5, Informed DEF ViewInv

(* The order goes on, and a report says so.                                *)
LEMMA ReportView ==
  ASSUME IInv, ViewInv, order # Absent, client' = client, inbox' = inbox,
         NEW r \in OutMessage, outbox' = Append(outbox, r), r.kind \in {"Fill", "Restated"},
         \A d, e \in ClientRecord :
           Agrees(order, d) =>
             /\ r.kind = "Fill" /\ d.limit # Absent => Fair(d.side, d.limit, r.price)
             /\ /\ e.side = d.side /\ e.limit = d.limit /\ e.state = d.state
                /\ e.known = IF r.kind = "Fill" THEN r.cum ELSE d.known
                /\ e.open = IF r.kind = "Fill" THEN d.open - 2 * (r.cum - d.known) ELSE d.open
                => Agrees(order', e)
  PROVE  ViewInv'
<1> DEFINE n == Len(outbox)
<1>1. client.state # "over"
  BY Informed
<1>2. PICK c \in [0 .. n -> ClientRecord] :
        /\ Path(outbox, n, c) /\ c[0] = client /\ c[n] \in ClientRecord
        /\ Waits(inbox, c[n]) /\ Agrees(order, c[n])
  BY Informed
<1> DEFINE d == c[n]
           e == Told(c[n], r)
<1>3. d \in ClientRecord /\ Waits(inbox, d) /\ Agrees(order, d)
  BY <1>2
<1>4. r.kind # "CancelConfirm" /\ ~Answering(r) /\ ~Confirms(r)
  BY DEF Confirms, Answering
<1>5. e = Told(d, r)
  OBVIOUS
<1> HIDE DEF d, e
<1>6. Hears(d, r)
  BY <1>3, <1>4 DEF Hears, Agrees
<1>7. /\ e \in ClientRecord /\ e.side = d.side /\ e.asks = d.asks /\ e.limit = d.limit
      /\ e.state = d.state
      /\ e.known = IF r.kind = "Fill" THEN r.cum ELSE d.known
      /\ e.open = IF r.kind = "Fill" THEN d.open - 2 * (r.cum - d.known) ELSE d.open
  BY <1>3, <1>4, <1>5, <1>6, ToldClient DEF Hears
<1>8. Waits(inbox', e)
  BY <1>3, <1>7 DEF Waits
<1>9. Agrees(order', e)
  BY <1>3, <1>7
<1> QED BY <1>1, <1>2, <1>5, <1>6, <1>7, <1>8, <1>9, Continues DEF d, e

-----------------------------------------------------------------------------
LEMMA AskType ==
  ASSUME IInv, NEW m \in AllMessages
  PROVE  /\ Ask(m) \in AskRecord /\ Ask(m).qty = m.qty /\ Ask(m).known = client.known
         /\ Ask(m).limit = IF NeedsPrice(m) THEN m.price ELSE Absent
BY DEF IInv, QueuesInv, Ask, AskRecord

LEMMA SendNewView == IInv /\ ViewInv /\ SendNew => ViewInv'
<1> SUFFICES ASSUME IInv, ViewInv, SendNew PROVE ViewInv'
  OBVIOUS
<1>1. PICK m \in NewMessages :
        /\ inbox' = Append(inbox, [kind |-> "new", body |-> m, cum |-> Absent])
        /\ client' = [client EXCEPT !.state = "waiting", !.side = m.side, !.asks = <<Ask(m)>>]
  BY DEF SendNew
<1>2. /\ client.state = "new" /\ inbox = <<>> /\ outbox = <<>> /\ order = Absent
      /\ client.known = 0 /\ order' = order /\ outbox' = outbox
  BY DEF SendNew, IInv, FreshInv, Fresh
<1>3. PICK c \in [0 .. Len(outbox) -> ClientRecord] :
        /\ Path(outbox, Len(outbox), c) /\ c[0] = client
        /\ Waits(inbox, c[Len(outbox)]) /\ Agrees(order, c[Len(outbox)])
  BY <1>2, Informed
<1>4. outbox \in Seq(OutMessage) /\ Len(outbox) = 0
  BY <1>2, ShortSequences
<1>5. client \in ClientRecord /\ client.open = 0
  BY <1>2, <1>3, <1>4 DEF Agrees
<1>6. /\ Ask(m) \in AskRecord /\ Ask(m).qty = m.qty /\ Ask(m).known = 0
      /\ Ask(m).limit = IF NeedsPrice(m) THEN m.price ELSE Absent
  BY <1>2, AskType DEF AllMessages
<1> DEFINE a == Ask(m)
           n == [kind |-> "new", body |-> m, cum |-> Absent]
<1>7. <<a>> \in Seq(AskRecord) /\ Len(<<a>>) = 1 /\ <<a>>[1] = a
  BY <1>6, ShortSequences
<1>8. n \in InMessage /\ n.kind = "new" /\ n.body = m /\ n.cum = Absent
  BY DEF InMessage
<1>9. inbox' = Append(inbox, n) /\ client' = [client EXCEPT !.state = "waiting", !.side = m.side, !.asks = <<a>>]
  BY <1>1
<1> DEFINE t == <<a>>
<1> HIDE DEF n, t
<1>10. Len(inbox') = 1 /\ inbox'[1] = n
  BY <1>2, <1>8, <1>9, AppendElements, ShortSequences
<1>11. /\ client' \in ClientRecord /\ client'.state = "waiting" /\ client'.side = m.side
       /\ client'.asks = t /\ client'.open = 0
  <2>1. client' = [client EXCEPT !.state = "waiting", !.side = m.side, !.asks = t] /\ t \in Seq(AskRecord)
    BY <1>7, <1>9 DEF t
  <2>2. m.side \in {x.side : x \in NewMessages}
    OBVIOUS
  <2> QED BY <1>5, <2>1, <2>2 DEF ClientRecord
<1>12. Len(t) = 1 /\ t[1] = a
  BY <1>7 DEF t
<1>13. Matches(n, a)
  BY <1>6, <1>8 DEF Matches
<1> HIDE DEF a
<1>14. Waits(inbox', client')
  BY <1>8, <1>10, <1>11, <1>12, <1>13 DEF Waits
<1>15. PICK d \in [0 .. 0 -> ClientRecord] : Path(outbox, 0, d) /\ d[0] = client'
  BY <1>4, <1>11, ShortPath
<1>16. Ends(order', inbox', outbox', 0, d[0])
  BY <1>2, <1>4, <1>11, <1>14, <1>15 DEF Ends, Agrees
<1>17. Leads(client', order', inbox', outbox')
  BY <1>2, <1>15, <1>16 DEF Leads
<1> QED BY <1>11, <1>17 DEF ViewInv

(* The client asks for a change.                                           *)
LEMMA ChangeView ==
  ASSUME IInv, ViewInv, CanAsk, NEW m \in InMessage, m.body \in AllMessages, m.kind # "new",
         m.cum # Absent => m.cum = 2 * client.known,
         inbox' = Append(inbox, m), client' = [client EXCEPT !.asks = Append(@, Ask(m.body))],
         order' = order, outbox' = outbox
  PROVE  ViewInv'
<1> DEFINE a == Ask(m.body)
<1>1. /\ a \in AskRecord /\ Matches(m, a)
  BY AskType DEF Matches
<1>2. client' = WithAsk(client, a) /\ client.state = "working"
  BY DEF WithAsk, CanAsk
<1> HIDE DEF a
<1>3. PICK z \in Nat : \E c \in [0 .. z -> ClientRecord] :
        Path(outbox, z, c) /\ c[0] = client /\ Ends(order, inbox, outbox, z, c[z])
  BY <1>2 DEF ViewInv, Leads
<1>4. PICK c \in [0 .. z -> ClientRecord] :
        Path(outbox, z, c) /\ c[0] = client /\ Ends(order, inbox, outbox, z, c[z])
  BY <1>3
<1>5. outbox \in Seq(OutMessage) /\ inbox \in Seq(InMessage)
  BY DEF IInv, QueuesInv
<1>6. PICK d \in [0 .. z -> ClientRecord] :
        Path(outbox, z, d) /\ d[0] = WithAsk(c[0], a) /\ d[z] = WithAsk(c[z], a)
  BY <1>1, <1>4, <1>5, PathAsks
<1> DEFINE e == c[z]
           f == d[z]
<1>7. e \in ClientRecord /\ e.state = "working"
  <2>1. 0 \in 0 .. z /\ z \in 0 .. z
    OBVIOUS
  <2> QED BY <1>2, <1>4, <2>1 DEF Path
<1>8. /\ f.asks = Append(e.asks, a) /\ f.state = "working" /\ f.side = e.side
      /\ f.open = e.open /\ f.known = e.known /\ f.limit = e.limit
  BY <1>1, <1>6, <1>7, WithAskFields
<1>9. Ends(order, inbox, outbox, z, e)
  BY <1>4
<1> HIDE DEF e, f
<1>10. Agrees(order, e) => Agrees(order', f)
  BY <1>7, <1>8 DEF Agrees
<1>11. Waits(inbox, e) => Waits(inbox', f)
  <2> SUFFICES ASSUME Waits(inbox, e) PROVE Waits(inbox', f)
    OBVIOUS
  <2>1. e.asks \in Seq(AskRecord)
    BY <1>7 DEF ClientRecord
  <2>2. /\ Len(inbox) \in Nat /\ Len(inbox') = Len(inbox) + 1 /\ inbox'[Len(inbox) + 1] = m
        /\ \A i \in 1 .. Len(inbox) : inbox'[i] = inbox[i]
    BY <1>5, AppendElements, LenProperties
  <2>3. /\ Len(e.asks) = Len(inbox) /\ Len(f.asks) = Len(inbox) + 1
        /\ f.asks[Len(inbox) + 1] = a
        /\ \A i \in 1 .. Len(inbox) : f.asks[i] = e.asks[i]
    BY <1>1, <1>8, <2>1, AppendElements DEF Waits
  <2>4. ASSUME NEW j \in 1 .. Len(inbox')
        PROVE  Matches(inbox'[j], f.asks[j]) /\ (inbox'[j].kind = "new" => f.side = inbox'[j].body.side)
    <3>1. CASE j = Len(inbox) + 1
      BY <1>1, <2>2, <2>3, <3>1
    <3>2. CASE j \in 1 .. Len(inbox)
      BY <1>8, <2>2, <2>3, <3>2 DEF Waits
    <3> QED BY <2>2, <3>1, <3>2
  <2> QED BY <1>8, <2>2, <2>3, <2>4 DEF Waits
<1>12. Ends(order', inbox', outbox', z, f)
  BY <1>8, <1>9, <1>10, <1>11 DEF Ends
<1>13. d[0] = client'
  BY <1>2, <1>4, <1>6
<1>14. Leads(client', order', inbox', outbox')
  BY <1>6, <1>12, <1>13 DEF Leads, f
<1>15. client'.state # "over"
  <2>1. client \in ClientRecord
    BY <1>4
  <2> QED BY <1>1, <1>2, <2>1, WithAskFields
<1> QED BY <1>14, <1>15 DEF ViewInv

LEMMA ChangesView == IInv /\ ViewInv /\ (SendReplace \/ SendCancel) => ViewInv'
<1> SUFFICES ASSUME IInv, ViewInv, SendReplace \/ SendCancel PROVE ViewInv'
  OBVIOUS
<1>1. CASE SendReplace
  <2>1. PICK m \in ReplaceMessages, cum \in {2 * client.known, Absent} :
          /\ inbox' = Append(inbox, [kind |-> "replace", body |-> m, cum |-> cum])
          /\ client' = [client EXCEPT !.asks = Append(@, Ask(m))]
    BY <1>1 DEF SendReplace
  <2> DEFINE n == [kind |-> "replace", body |-> m, cum |-> cum]
  <2>2. n \in InMessage /\ n.kind = "replace" /\ n.body = m
        /\ (n.cum # Absent => n.cum = 2 * client.known)
    BY DEF InMessage, IInv, QueuesInv
  <2>3. m \in AllMessages
    BY DEF AllMessages
  <2> HIDE DEF n
  <2> QED BY <1>1, <2>1, <2>2, <2>3, ChangeView DEF SendReplace, n
<1>2. CASE SendCancel
  <2>1. PICK m \in CancelMessages :
          /\ inbox' = Append(inbox, [kind |-> "cancel", body |-> m, cum |-> Absent])
          /\ client' = [client EXCEPT !.asks = Append(@, Ask(m))]
    BY <1>2 DEF SendCancel
  <2> DEFINE n == [kind |-> "cancel", body |-> m, cum |-> Absent]
  <2>2. n \in InMessage /\ n.kind = "cancel" /\ n.body = m /\ n.cum = Absent
    BY DEF InMessage
  <2>3. m \in AllMessages
    BY DEF AllMessages
  <2> HIDE DEF n
  <2> QED BY <1>2, <2>1, <2>2, <2>3, ChangeView DEF SendCancel, n
<1> QED BY <1>1, <1>2

LEMMA ReceiveView == IInv /\ ViewInv /\ Receive => ViewInv'
<1> SUFFICES ASSUME IInv, ViewInv, Receive PROVE ViewInv'
  OBVIOUS
<1> DEFINE n == Len(outbox)
<1>1. /\ outbox \in Seq(OutMessage) /\ outbox # <<>> /\ outbox' = Tail(outbox)
      /\ n \in Nat \ {0} /\ Head(outbox) = outbox[1]
      /\ Len(outbox') = n - 1 /\ \A i \in 1 .. n - 1 : outbox'[i] = outbox[i + 1]
      /\ order' = order /\ inbox' = inbox
  BY TailElements DEF Receive, IInv, QueuesInv
<1>2. CASE client.state = "over"
  <2>1. client' = client
    BY <1>2 DEF Receive
  <2> QED BY <1>1, <1>2, <2>1 DEF ViewInv, Ended
<1>3. CASE client.state # "over"
  <2>1. PICK z \in Nat : \E c \in [0 .. z -> ClientRecord] :
          Path(outbox, z, c) /\ c[0] = client /\ Ends(order, inbox, outbox, z, c[z])
    BY <1>3 DEF ViewInv, Leads
  <2>2. PICK c \in [0 .. z -> ClientRecord] :
          Path(outbox, z, c) /\ c[0] = client /\ Ends(order, inbox, outbox, z, c[z])
    BY <2>1
  <2>3. client' = Told(client, outbox[1])
    BY <1>1, <1>3 DEF Receive
  <2>4. CASE z = 0
    <3>1. /\ order = Absent /\ outbox[1].kind = "CancelConfirm"
          /\ \A i \in 1 .. n : outbox[i].kind # "Fill"
      BY <1>1, <2>2, <2>4 DEF Ends
    <3>2. client' = [client EXCEPT !.state = "over", !.open = 0, !.asks = <<>>]
      BY <2>3, <3>1 DEF Told
    <3>3. client'.state = "over" /\ client'.open = 0
      <4>1. client \in ClientRecord
        BY <2>2, <2>4
      <4> QED BY <3>2, <4>1 DEF ClientRecord
    <3>4. \A i \in 1 .. Len(outbox') : outbox'[i].kind # "Fill"
      BY <1>1, <3>1
    <3> QED BY <1>1, <3>1, <3>3, <3>4 DEF ViewInv, Ended
  <2>5. CASE z # 0
    <3>1. z \in 1 .. n /\ Hears(client, outbox[1]) /\ client' = c[1]
      BY <1>1, <2>2, <2>3, <2>5 DEF Path
    <3>2. CASE c[1].state = "over"
      <4>1. z = 1
        <5> SUFFICES ASSUME z # 1 PROVE FALSE
          OBVIOUS
        <5>1. 2 \in 1 .. z
          BY <3>1
        <5>2. Hears(c[2 - 1], outbox[2])
          BY <2>2, <5>1 DEF Path
        <5> QED BY <3>2, <5>2 DEF Hears
      <4>2. n = 1 /\ Agrees(order, c[1])
        BY <2>2, <3>2, <4>1 DEF Ends
      <4>3. order = Absent /\ c[1].open = 0
        BY <3>2, <4>2 DEF Agrees
      <4> QED BY <1>1, <3>1, <3>2, <4>2, <4>3 DEF ViewInv, Ended
    <3>3. CASE c[1].state # "over"
      <4>1. PICK d \in [0 .. z - 1 -> ClientRecord] :
              Path(outbox', z - 1, d) /\ d[0] = c[1] /\ d[z - 1] = c[z]
        BY <1>1, <2>2, <2>5, PathShifts
      <4>2. Ends(order', inbox', outbox', z - 1, d[z - 1])
        <5> DEFINE e == c[z]
        <5>1. d[z - 1] = e /\ Ends(order, inbox, outbox, z, e)
          BY <2>2, <4>1
        <5> HIDE DEF e
        <5>2. CASE z = n /\ Waits(inbox, e) /\ Agrees(order, e)
          BY <1>1, <5>1, <5>2 DEF Ends
        <5>3. CASE /\ z < n /\ order = Absent /\ e.state # "over"
                   /\ outbox[z + 1].kind = "CancelConfirm"
                   /\ \A i \in z + 1 .. n : outbox[i].kind # "Fill"
          <6>1. z \in 1 .. n - 1 /\ z - 1 < Len(outbox') /\ (z - 1) + 1 = z
            BY <1>1, <2>5, <5>3
          <6>2. outbox'[z].kind = "CancelConfirm"
            BY <1>1, <5>3, <6>1
          <6>3. \A i \in z .. n - 1 : outbox'[i].kind # "Fill"
            <7> SUFFICES ASSUME NEW i \in z .. n - 1 PROVE outbox'[i].kind # "Fill"
              OBVIOUS
            <7>1. i \in 1 .. n - 1 /\ i + 1 \in z + 1 .. n
              BY <1>1, <6>1
            <7> QED BY <1>1, <5>3, <7>1
          <6> QED BY <1>1, <5>1, <5>3, <6>1, <6>2, <6>3 DEF Ends
        <5> QED BY <5>1, <5>2, <5>3 DEF Ends
      <4>3. z - 1 \in Nat /\ d[0] = client'
        BY <2>5, <3>1, <4>1
      <4>4. Leads(client', order', inbox', outbox')
        BY <4>1, <4>2, <4>3 DEF Leads
      <4> QED BY <3>1, <3>3, <4>4 DEF ViewInv
    <3> QED BY <3>2, <3>3
  <2> QED BY <2>4, <2>5
<1> QED BY <1>2, <1>3

-----------------------------------------------------------------------------
LEMMA RefusedView == IInv /\ ViewInv /\ RejectMessage => ViewInv'
BY AnswerType, RejectView DEF RejectMessage, AnswerMessage

LEMMA HandleNewView == IInv /\ ViewInv /\ HandleNew => ViewInv'
<1> SUFFICES ASSUME IInv, ViewInv, HandleNew PROVE ViewInv'
  OBVIOUS
<1> DEFINE m == Head(inbox).body
<1>1. /\ inbox # <<>> /\ inbox' = Tail(inbox) /\ Head(inbox).kind = "new" /\ Decodable(m)
      /\ client' = client /\ inbox \in Seq(InMessage)
  BY DEF HandleNew, Takes, IInv, QueuesInv
<1>2. m \in NewMessages /\ Fresh
  BY <1>1, Handles DEF InMessage, Fresh
<1>3. order = Absent /\ outbox = <<>> /\ client.known = 0 /\ client.state # "over"
  BY <1>2 DEF IInv, FreshInv
<1>4. m.qty \in Nat /\ m.price \in Nat \cup {Absent}
  BY <1>2, MessagesAssumption
<1>5. CASE Answer("NewReject", 0) /\ UNCHANGED <<order, floor>>
  BY <1>1, <1>5, AnswerType, RejectView DEF AnswerMessage
<1>6. CASE order' = Decoded(m) /\ floor' = m.maxFloor /\ Answer("NewConfirm", 0)
  <2> DEFINE r == AnswerMessage("NewConfirm", 0)
  <2>1. r \in OutMessage /\ Confirms(r) /\ outbox' = Append(outbox, r)
    BY <1>6, AnswerType DEF AnswerMessage, Confirms
  <2>2. /\ order' \in OrderRecord /\ order'.qty = Whole(m.qty) /\ order'.filled = 0
        /\ order'.side = m.side /\ order'.type = m.type
        /\ NeedsPrice(m) => order'.price = Whole(m.price)
    BY <1>1, <1>2, <1>6, DecodedType
  <2>3. ASSUME NEW d \in ClientRecord, NEW e \in ClientRecord, Waits(inbox, d), d = client,
               e.side = d.side, e.known = d.known, e.limit = Head(d.asks).limit,
               e.state = "working",
               e.open = Head(d.asks).qty - 2 * (d.known - Head(d.asks).known)
        PROVE  Agrees(order', e)
    <3>1. /\ Head(d.asks).qty = m.qty /\ Head(d.asks).known = 0
          /\ Head(d.asks).limit = IF NeedsPrice(m) THEN m.price ELSE Absent
          /\ d.side = m.side
      BY <1>1, <2>3, FirstWaits DEF Matches
    <3>2. e.open = m.qty /\ e.known = 0
      BY <1>3, <1>4, <2>3, <3>1
    <3>3. order' # Absent /\ Whole(m.qty) + 0 = Whole(m.qty)
      BY <1>4, <2>2, AbsentAssumption, WholeOfNat
    <3>4. e.limit # Absent => order'.type \in {"LIMIT", "STOP_LIMIT"} /\ order'.price = Whole(e.limit)
      BY <2>2, <2>3, <3>1 DEF NeedsPrice
    <3> QED BY <2>2, <2>3, <3>1, <3>2, <3>3, <3>4 DEF Agrees
  <2> HIDE DEF r
  <2> QED BY <1>1, <1>3, <1>4, <2>1, <2>3, ConfirmView
<1> QED BY <1>5, <1>6 DEF HandleNew

LEMMA HandleReplaceView == IInv /\ ViewInv /\ HandleReplace => ViewInv'
<1> SUFFICES ASSUME IInv, ViewInv, HandleReplace PROVE ViewInv'
  OBVIOUS
<1> DEFINE q == Head(inbox)
           o == addOrderQty(Decoded(q.body), q.cum)
<1>1. /\ inbox # <<>> /\ inbox' = Tail(inbox) /\ q.kind = "replace"
      /\ Decodable(q.body) /\ q.cum # Absent /\ client' = client /\ inbox \in Seq(InMessage)
  BY DEF HandleReplace, Takes, IInv, QueuesInv
<1>2. q.body \in ReplaceMessages /\ q.cum \in Nat
  BY <1>1, Handles DEF InMessage
<1>3. q.body.qty \in Nat /\ q.body.price \in Nat \cup {Absent}
  BY <1>2, MessagesAssumption
<1>4. CASE Answer("ReplaceReject", 0) /\ UNCHANGED <<order, floor>>
  BY <1>1, <1>4, AnswerType, RejectView DEF AnswerMessage
<1>5. CASE /\ FoundBy(q.body) /\ order' = ReplacedOrder(order, o)
           /\ Answer("ReplaceConfirm", order.filled)
  <2> DEFINE r == AnswerMessage("ReplaceConfirm", order.filled)
  <2>1. order # Absent /\ order \in OrderRecord /\ order.filled \in Nat
    BY <1>5 DEF FoundBy, Rests, IInv, TypeOK, KnownInv
  <2>2. r \in OutMessage /\ Confirms(r) /\ outbox' = Append(outbox, r)
    BY <1>5, <2>1, AnswerType DEF AnswerMessage, Confirms
  <2>3. /\ order' \in OrderRecord /\ order'.filled = order.filled
        /\ order'.qty = Whole(q.body.qty) + Whole(q.cum)
        /\ order'.side = order.side /\ order'.type = q.body.type
        /\ NeedsPrice(q.body) => order'.price = Whole(q.body.price)
    BY <1>1, <1>2, <1>5, <2>1, ReplaceFields
  <2>4. ASSUME NEW d \in ClientRecord, NEW e \in ClientRecord,
               Waits(inbox, d), Agrees(order, d),
               e.side = d.side, e.known = d.known, e.limit = Head(d.asks).limit,
               e.state = "working",
               e.open = Head(d.asks).qty - 2 * (d.known - Head(d.asks).known)
        PROVE  Agrees(order', e)
    <3> DEFINE a == Head(d.asks)
    <3>1. a \in AskRecord /\ Matches(q, a)
      BY <1>1, <2>4, FirstWaits
    <3>2. /\ a.qty = q.body.qty /\ a.known \in Nat /\ q.cum = 2 * a.known
          /\ a.limit = IF NeedsPrice(q.body) THEN q.body.price ELSE Absent
      BY <1>1, <3>1 DEF Matches, AskRecord
    <3>3. d.side = order.side /\ d.known = order.filled
      BY <2>1, <2>4 DEF Agrees
    <3>4. Whole(q.cum) = a.known
      BY <3>2, WholeOfNat
    <3>5. Whole(e.open) + e.known = order'.qty
      <4> DEFINE k == a.known
                 x == q.body.qty
                 y == e.open
      <4>1. y = x - 2 * (order.filled - k) /\ k \in Nat /\ x \in Nat
        BY <1>3, <2>4, <3>2, <3>3
      <4>2. e.known = order.filled /\ order'.qty = Whole(x) + k
        BY <2>3, <2>4, <3>3, <3>4
      <4> HIDE DEF k, x, y
      <4>3. PICK w \in Int : w = order.filled - k
        BY <2>1, <4>1
      <4>4. y = x - 2 * w
        BY <4>1, <4>3
      <4>5. Whole(y) = Whole(x) - w /\ Whole(x) \in Int
        BY <4>1, <4>3, <4>4, WholeShifts
      <4>6. Whole(y) + order.filled = Whole(x) + k
        BY <2>1, <4>1, <4>3, <4>5
      <4> QED BY <4>2, <4>6 DEF y
    <3>6. order' # Absent
      BY <2>3, AbsentAssumption
    <3>7. e.limit # Absent => order'.type \in {"LIMIT", "STOP_LIMIT"} /\ order'.price = Whole(e.limit)
      BY <2>3, <2>4, <3>2 DEF NeedsPrice
    <3> QED BY <2>3, <2>4, <3>3, <3>5, <3>6, <3>7 DEF Agrees
  <2> HIDE DEF r
  <2> QED BY <1>1, <1>3, <2>1, <2>2, <2>4, ConfirmView
<1> QED BY <1>4, <1>5 DEF HandleReplace

LEMMA HandleCancelView == IInv /\ ViewInv /\ HandleCancel => ViewInv'
<1> SUFFICES ASSUME IInv, ViewInv, HandleCancel PROVE ViewInv'
  OBVIOUS
<1>1. inbox # <<>> /\ inbox' = Tail(inbox) /\ client' = client
  BY DEF HandleCancel, Takes
<1>2. CASE order' = order /\ Answer("CancelReject", 0)
  BY <1>1, <1>2, AnswerType, RejectView DEF AnswerMessage
<1>3. CASE CanceledBy(Head(inbox).body) /\ order' = Absent /\ Answer("CancelConfirm", 0)
  BY <1>1, <1>3, AnswerType, CancelView DEF AnswerMessage, CanceledBy, FoundBy, Rests
<1> QED BY <1>2, <1>3 DEF HandleCancel

(* What the book does to an order keeps its side, and a limit as it is.    *)
LEMMA BookKeeps ==
  ASSUME NEW o \in OrderRecord
  PROVE  /\ LET r == TriggerOrder(o) IN
              /\ r.side = o.side /\ r.price = o.price /\ r.filled = o.filled /\ r.qty = o.qty
              /\ o.type = "STOP_LIMIT" => r.type = "LIMIT"
         /\ \A p \in Nat : LET r == MarketToLimit(o, p) IN
              r.side = o.side /\ r.filled = o.filled /\ r.qty = o.qty
         /\ \A q \in Nat : LET r == FillOrder(o, q) IN
              /\ r \in OrderRecord
              /\ r.side = o.side /\ r.price = o.price /\ r.type = o.type
              /\ r.filled = o.filled + q /\ r.qty = o.qty
<1>1. ASSUME NEW q \in Nat
      PROVE  LET r == FillOrder(o, q) IN
              /\ r \in OrderRecord
              /\ r.side = o.side /\ r.price = o.price /\ r.type = o.type
              /\ r.filled = o.filled + q /\ r.qty = o.qty
  <2> DEFINE n == [o EXCEPT !.filled = @ + q]
  <2>1. /\ n \in OrderRecord /\ n.filled = o.filled + q /\ n.qty = o.qty
        /\ n.side = o.side /\ n.price = o.price /\ n.type = o.type
    BY DEF OrderRecord
  <2>2. FillOrder(o, q) = WithPending(n)
    BY DEF FillOrder
  <2> HIDE DEF n
  <2> QED BY <2>1, <2>2, WithPendingKeeps, OrderOperatorTypes
<1>2. LET r == TriggerOrder(o) IN
        /\ r.side = o.side /\ r.price = o.price /\ r.filled = o.filled /\ r.qty = o.qty
        /\ o.type = "STOP_LIMIT" => r.type = "LIMIT"
  BY DEF TriggerOrder, OrderRecord
<1>3. \A p \in Nat : LET r == MarketToLimit(o, p) IN
        r.side = o.side /\ r.filled = o.filled /\ r.qty = o.qty
  BY DEF MarketToLimit, OrderRecord
<1> QED BY <1>1, <1>2, <1>3

LEMMA RestatedView == IInv /\ ViewInv /\ (Trigger \/ Restate) => ViewInv'
<1> SUFFICES ASSUME IInv, ViewInv, Trigger \/ Restate PROVE ViewInv'
  OBVIOUS
<1>1. /\ order # Absent /\ order \in OrderRecord /\ order.filled \in Nat
      /\ client' = client /\ inbox' = inbox /\ Answer("Restated", order.filled)
  BY DEF Trigger, Restate, Rests, IInv, TypeOK, KnownInv
<1> DEFINE r == AnswerMessage("Restated", order.filled)
<1>2. r \in OutMessage /\ r.kind = "Restated" /\ outbox' = Append(outbox, r)
  BY <1>1, AnswerType DEF AnswerMessage
<1>3. /\ order'.side = order.side /\ order'.filled = order.filled /\ order'.qty = order.qty
      /\ order.type \in {"LIMIT", "STOP_LIMIT"} =>
           order'.type = "LIMIT" /\ order'.price = order.price
      /\ order' \in OrderRecord
  <2>1. CASE Trigger
    <3>1. IsStop(order.type) /\ order' = TriggerOrder(order)
      BY <2>1 DEF Trigger
    <3>2. order.type \in {"LIMIT", "STOP_LIMIT"} => order.type = "STOP_LIMIT"
      BY <3>1 DEF IsStop
    <3> QED BY <1>1, <3>1, <3>2, BookKeeps, OrderOperatorTypes
  <2>2. CASE Restate
    <3>1. order.type = "MARKET"
      BY <2>2 DEF Restate
    <3>2. PICK p \in Nat : order' = MarketToLimit(order, p)
      BY <2>2, BoundsAssumption DEF Restate
    <3>3. MarketToLimit(order, p) \in OrderRecord
      BY <1>1, OrderOperatorTypes
    <3> QED BY <1>1, <3>1, <3>2, <3>3, BookKeeps
  <2> QED BY <2>1, <2>2
<1>4. order' # Absent
  BY <1>3, AbsentAssumption
<1>5. ASSUME NEW d \in ClientRecord, NEW e \in ClientRecord, Agrees(order, d),
             e.side = d.side, e.limit = d.limit, e.state = d.state,
             e.known = d.known, e.open = d.open
      PROVE  Agrees(order', e)
  BY <1>1, <1>3, <1>4, <1>5 DEF Agrees
<1>6. r.kind # "Fill"
  BY <1>2
<1> HIDE DEF r
<1> QED BY <1>1, <1>2, <1>5, <1>6, ReportView

LEMMA FillView == IInv /\ ViewInv /\ Fill => ViewInv'
<1> SUFFICES ASSUME IInv, ViewInv, Fill PROVE ViewInv'
  OBVIOUS
<1>1. /\ order # Absent /\ order \in OrderRecord /\ order.filled \in Nat
      /\ ~IsStop(order.type) /\ client' = client /\ inbox' = inbox
  BY DEF Fill, Rests, IInv, TypeOK, KnownInv
<1>2. PICK q \in 1 .. order.pending, p \in Prices :
        /\ Within(order, p) /\ order' = FillOrder(order, q)
        /\ Report("Fill", order.filled + q, p)
  BY DEF Fill
<1>3. q \in Nat /\ p \in Nat
  BY <1>1, BoundsAssumption DEF OrderRecord
<1>4. PICK f \in Nat : f = order.filled + q
  BY <1>1, <1>3
<1> DEFINE r == [kind |-> "Fill", cum |-> f, price |-> p]
<1>5. /\ r \in OutMessage /\ r.kind = "Fill" /\ r.cum = f /\ r.price = p
      /\ outbox' = Append(outbox, r)
  BY <1>2, <1>3, <1>4 DEF Report, OutMessage
<1>6. /\ order' \in OrderRecord /\ order'.side = order.side /\ order'.price = order.price
      /\ order'.type = order.type
      /\ order'.filled = order.filled + q /\ order'.qty = order.qty
  BY <1>1, <1>2, <1>3, BookKeeps
<1>7. order' # Absent
  BY <1>6, AbsentAssumption
<1>8. ASSUME NEW d \in ClientRecord, Agrees(order, d), d.limit # Absent
      PROVE  Fair(d.side, d.limit, p)
  <2>1. order.type = "LIMIT" /\ order.price = Whole(d.limit) /\ d.side = order.side
    BY <1>1, <1>8 DEF Agrees, IsStop
  <2>2. d.limit \in Nat
    BY <1>8 DEF ClientRecord
  <2>3. IF order.side = "BUY" THEN p <= Whole(d.limit) ELSE p >= Whole(d.limit)
    BY <1>2, <2>1 DEF Within
  <2> DEFINE l == d.limit
  <2>4. 2 * Whole(l) <= l /\ l < 2 * (Whole(l) + 1) /\ Whole(l) \in Nat /\ l \in Nat
    BY <2>2 DEF Whole
  <2> HIDE DEF l
  <2>5. IF order.side = "BUY" THEN 2 * p <= l ELSE 2 * (p + 1) > l
    BY <1>3, <2>3, <2>4 DEF l
  <2> QED BY <2>1, <2>5 DEF Fair, l
<1>9. ASSUME NEW d \in ClientRecord, NEW e \in ClientRecord, Agrees(order, d),
             e.side = d.side, e.limit = d.limit, e.state = d.state,
             e.known = f, e.open = d.open - 2 * (f - d.known)
      PROVE  Agrees(order', e)
  <2>1. d.known = order.filled /\ Whole(d.open) + d.known = order.qty
    BY <1>1, <1>9 DEF Agrees
  <2> DEFINE y == e.open
             x == d.open
  <2>2. x \in Int /\ d.known \in Nat
    BY DEF ClientRecord
  <2>3. Whole(y) = Whole(x) - q /\ Whole(x) \in Int
    <3>1. PICK w \in Int : w = f - d.known
      BY <2>2
    <3>2. y = x - 2 * w
      BY <1>9, <3>1
    <3>3. w = q
      BY <1>1, <1>3, <1>4, <2>1, <3>1
    <3> HIDE DEF x, y
    <3> QED BY <2>2, <3>2, <3>3, WholeShifts
  <2> HIDE DEF x, y
  <2>4. Whole(x) + order.filled = order.qty
    BY <2>1 DEF x
  <2>5. Whole(y) + (order.filled + q) = order.qty
    BY <1>1, <1>3, <2>3, <2>4
  <2> QED BY <1>1, <1>6, <1>7, <1>4, <1>9, <2>5 DEF Agrees, y
<1> HIDE DEF r
<1>10. \A d, e \in ClientRecord :
        Agrees(order, d) =>
          /\ r.kind = "Fill" /\ d.limit # Absent => Fair(d.side, d.limit, r.price)
          /\ /\ e.side = d.side /\ e.limit = d.limit /\ e.state = d.state
             /\ e.known = IF r.kind = "Fill" THEN r.cum ELSE d.known
             /\ e.open = IF r.kind = "Fill" THEN d.open - 2 * (r.cum - d.known) ELSE d.open
             => Agrees(order', e)
  <2> SUFFICES ASSUME NEW d \in ClientRecord, NEW e \in ClientRecord, Agrees(order, d)
               PROVE  /\ d.limit # Absent => Fair(d.side, d.limit, r.price)
                      /\ /\ e.side = d.side /\ e.limit = d.limit /\ e.state = d.state
                         /\ e.known = r.cum /\ e.open = d.open - 2 * (r.cum - d.known)
                         => Agrees(order', e)
    BY <1>5
  <2>1. d.limit # Absent => Fair(d.side, d.limit, r.price)
    BY <1>5, <1>8
  <2>2. ASSUME e.side = d.side, e.limit = d.limit, e.state = d.state,
               e.known = r.cum, e.open = d.open - 2 * (r.cum - d.known)
        PROVE  Agrees(order', e)
    <3>1. e.known = f /\ e.open = d.open - 2 * (f - d.known)
      BY <1>5, <2>2
    <3> QED BY <1>9, <2>2, <3>1
  <2> QED BY <2>1, <2>2
<1> QED BY <1>1, <1>5, <1>10, ReportView

LEMMA CancelByBookView == IInv /\ ViewInv /\ CancelByBook => ViewInv'
BY AnswerType, CancelView DEF CancelByBook, Rests, AnswerMessage

LEMMA NextView == IInv /\ ViewInv /\ [Next]_vars => ViewInv'
<1> SUFFICES ASSUME IInv, ViewInv, [Next]_vars PROVE ViewInv'
  OBVIOUS
<1>1. CASE UNCHANGED vars
  BY <1>1 DEF ViewInv, vars
<1> QED BY <1>1, SendNewView, ChangesView, ReceiveView, RefusedView, HandleNewView,
           HandleReplaceView, HandleCancelView, RestatedView, FillView, CancelByBookView
        DEF Next

LEMMA InductiveView == Spec => [](IInv /\ ViewInv)
BY InitInv, InitView, NextInv, NextView, PTL DEF Spec

(* However fills, replace requests, rejects and the client's CumQty cross  *)
(* on the way: when nothing is under way, the order of the book is open    *)
(* for the whole part of what the client counts on.                        *)
THEOREM OpenWanted == Spec => []OpenAsWanted
<1>1. IInv /\ ViewInv => OpenAsWanted
  <2> SUFFICES ASSUME IInv, ViewInv, inbox = <<>>, outbox = <<>>
               PROVE  Whole(client.open) = IF order = Absent THEN 0 ELSE ActualPending(order)
    BY DEF OpenAsWanted
  <2>1. Whole(0) = 0
    BY DEF Whole
  <2>2. CASE client.state = "over"
    BY <2>1, <2>2 DEF ViewInv, Ended
  <2>3. CASE client.state # "over"
    <3>1. Len(outbox) = 0
      OBVIOUS
    <3>2. client \in ClientRecord /\ Agrees(order, client)
      BY <2>3, <3>1, Informed
    <3>3. CASE order = Absent
      BY <2>1, <3>2, <3>3 DEF Agrees
    <3>4. CASE order # Absent
      <4>1. order.filled \in Nat /\ order.qty \in Int
        BY <3>4 DEF IInv, TypeOK, KnownInv, OrderRecord
      <4>2. Whole(client.open) + order.filled = order.qty /\ client.open \in Int
        BY <3>2, <3>4 DEF Agrees, ClientRecord
      <4>3. Whole(client.open) \in Int
        BY <4>2 DEF Whole
      <4> QED BY <3>4, <4>1, <4>2, <4>3 DEF ActualPending
    <3> QED BY <3>3, <3>4
  <2> QED BY <2>2, <2>3
<1> QED BY <1>1, InductiveView, PTL

(* No report of a trade reaches a client at a price worse, by a unit or    *)
(* more, than the limit it was told is in force at that moment.            *)
THEOREM LimitsKept == Spec => FillsRespectLimit
<1> DEFINE r == Head(outbox)
           Respects == outbox # <<>> /\ outbox' = Tail(outbox) /\ r.kind = "Fill"
                         /\ client.limit # Absent =>
                       IF client.side = "BUY" THEN 2 * r.price <= client.limit
                                              ELSE 2 * (r.price + 1) > client.limit
<1>1. IInv /\ ViewInv => Respects
  <2> SUFFICES ASSUME IInv, ViewInv, outbox # <<>>, r.kind = "Fill", client.limit # Absent
               PROVE  Fair(client.side, client.limit, r.price)
    BY DEF Fair
  <2>1. Len(outbox) \in Nat \ {0} /\ r = outbox[1]
    BY TailElements DEF IInv, QueuesInv
  <2>2. outbox[1].kind = "Fill"
    BY <2>1
  <2>3. client.state # "over"
    BY <2>1, <2>2 DEF ViewInv, Ended
  <2>4. PICK z \in Nat : \E c \in [0 .. z -> ClientRecord] :
          Path(outbox, z, c) /\ c[0] = client /\ Ends(order, inbox, outbox, z, c[z])
    BY <2>3 DEF ViewInv, Leads
  <2>5. PICK c \in [0 .. z -> ClientRecord] :
          Path(outbox, z, c) /\ c[0] = client /\ Ends(order, inbox, outbox, z, c[z])
    BY <2>4
  <2>6. z # 0
    BY <2>1, <2>2, <2>5 DEF Ends
  <2>7. 1 \in 1 .. z
    BY <2>6
  <2>8. Hears(c[1 - 1], outbox[1])
    BY <2>5, <2>7 DEF Path
  <2> QED BY <2>1, <2>2, <2>5, <2>8 DEF Hears
<1> QED BY <1>1, InductiveView, PTL DEF FillsRespectLimit
=============================================================================
