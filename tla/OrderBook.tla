----------------------------- MODULE OrderBook -----------------------------
(***************************************************************************)
(* One OrderBook of esm/orderBook.cpp, worked on by the FIX session        *)
(* threads (insert, replace, cancel) and the console thread (stop, start). *)
(*                                                                         *)
(* insertBuy, insertSell and checkTriggeredOrders call each other, so each *)
(* thread has a call stack of frames; a frame's pc names the statement it  *)
(* executes next.  A step is one pass over a list or one statement group   *)
(* between two calls; list operations are atomic.                          *)
(***************************************************************************)
EXTENDS Order, Sequences, SequencesExt

CONSTANTS
  Ids,            \* order ids that UniqueOrderId can hand out
  Sessions,       \* threads that deliver FIX requests
  Consoles,       \* threads that execute console commands
  Free,           \* the owner of an unlocked mutex
  None,           \* no order
  NewOrders,      \* orders a NewOrderSingle can carry
  ReplaceOrders,  \* orders an OrderCancelReplaceRequest can carry
  CancelOrders    \* orders an OrderCancelRequest can carry

Threads == Sessions \cup Consoles

ASSUME OrdersAssumption ==
  /\ NewOrders \cup ReplaceOrders \cup CancelOrders \subseteq OrderRecord
  /\ \A o \in NewOrders : o.filled = 0 /\ o = WithPending(o)

ASSUME NamesAssumption == Free \notin Threads /\ None \notin Ids

ASSUME IdsAssumption == IsFiniteSet(Ids)

VARIABLES
  order,     \* the Order object of each id, the blank one until it is used
  book,      \* the four lists of entries, best first
  ltp,       \* last traded price, 0 before the first trade
  volume,    \* total traded quantity
  active,    \* _isActive
  changed,   \* _hasChanged
  mutex,     \* owner of _mutexOnMatch
  stack,     \* call stack of each thread, <<>> between requests
  answers,   \* confirms and rejects sent for a thread's latest request
  status     \* what the last execution report of an order told the client

vars == <<order, book, ltp, volume, active, changed, mutex, stack, answers, status>>

-----------------------------------------------------------------------------
Lists  == {"buy", "sell", "stopBuy", "stopSell"}
Status == {"NONE", "WORKING", "FILLED", "CANCELED", "REJECTED"}
Answer == {"NewConfirm", "NewReject", "ReplaceConfirm", "ReplaceReject",
           "CancelConfirm", "CancelReject"}

Entry == [key : Int, id : Ids]

(* Of a frame, list is the side it works for (the list it works on, for a  *)
(* move, a trigger check and a cancelAll); opp and qty are the locals of   *)
(* the matching loop's body.                                               *)
FrameRecord ==
       [pc : {"stop", "lock", "match", "rest", "ioc", "changed"}, id : Ids,
        list : {"buy", "sell"}, opp : {None}, qty : {0}]
  \cup [pc : {"fill"}, id : Ids, list : {"buy", "sell"}, opp : Ids, qty : Int]
  \cup [pc : {"moved"}, id : Ids, list : Lists, opp : {None}, qty : {0}]
  \cup [pc : {"trigger"}, id : {None}, list : {"stopBuy", "stopSell"}, opp : {None}, qty : {0}]
  \cup [pc : {"cancelAll"}, id : {None}, list : Lists, opp : {None}, qty : {0}]

Frame(pc, id, list) == [pc |-> pc, id |-> id, list |-> list, opp |-> None, qty |-> 0]

ListOf(side) == IF side = "BUY" THEN "buy" ELSE "sell"
Opposite(l)  == IF l = "buy" THEN "sell" ELSE "buy"
StopList(l)  == IF l = "buy" THEN "stopBuy" ELSE "stopSell"
RestList(sl) == IF sl = "stopBuy" THEN "buy" ELSE "sell"

(* In a list with Compare greater (less), an entry with key k1 stays ahead *)
(* of a later insertion with key k2 when k1 >= k2 (k1 <= k2).              *)
Ahead(l, k1, k2) == IF l \in {"buy", "stopSell"} THEN k1 >= k2 ELSE k1 <= k2

Holds(l, id) == \E p \in DOMAIN book[l] : book[l][p].id = id

(* Mutant: an order goes ahead of those with an equal price.               *)
InsertBeforeEqual(l, key, id) ==
  \E p \in 1 .. Len(book[l]) + 1 :
    /\ \A j \in DOMAIN book[l] : ~Ahead(l, key, book[l][j].key) <=> j < p
    /\ book' = [book EXCEPT ![l] = InsertAt(@, p, [key |-> key, id |-> id])]

(* std::multimap::insert puts an entry after those with an equal key.      *)
InsertInto(l, key, id) ==
  \E p \in 1 .. Len(book[l]) + 1 :
    /\ \A j \in DOMAIN book[l] : Ahead(l, book[l][j].key, key) <=> j < p
    /\ book' = [book EXCEPT ![l] = InsertAt(@, p, [key |-> key, id |-> id])]

(* Mutant: the entry goes from the index of ids but not from the list.     *)
EraseFromIndex(l, id) == Holds(l, id) /\ book' = book

EraseFrom(l, id) ==
  \E p \in DOMAIN book[l] :
    /\ book[l][p].id = id
    /\ book' = [book EXCEPT ![l] = RemoveAt(@, p)]

First(l) == Head(book[l]).id

-----------------------------------------------------------------------------
Idle(t)      == stack[t] = <<>>
Top(t)       == stack[t][Len(stack[t])]
At(t, pc)    == ~Idle(t) /\ Top(t).pc = pc
Begin(t, s)  == stack' = [stack EXCEPT ![t] = s]
Call(t, f)   == stack' = [stack EXCEPT ![t] = Append(@, f)]
Return(t)    == stack' = [stack EXCEPT ![t] = Front(@)]
Goto(t, f)   == stack' = [stack EXCEPT ![t] = Append(Front(@), f)]
Report(id, s) == status' = [status EXCEPT ![id] = s]
Reply(t, a)   == answers' = [answers EXCEPT ![t] = <<a>>]

(* The frame of insertBuy, which starts by locking, or of insertSell.      *)
Insertion(id, l) == Frame(IF l = "buy" THEN "lock" ELSE "match", id, l)

(* Mutant: an order is placed without an attempt to match it.              *)
PlacementUnmatched(id, l, type) == Frame(IF IsStop(type) THEN "stop" ELSE "rest", id, l)

(* The frame of insertStopLossBuy/Sell or insertBuy/Sell, by order type.   *)
Placement(id, l, type) == IF IsStop(type) THEN Frame("stop", id, l) ELSE Insertion(id, l)

Blank == MakeOrder("BUY", "LIMIT", "DAY", 0, 0, 0, 0)

Init ==
  /\ order = [id \in Ids |-> Blank]
  /\ book = [l \in Lists |-> <<>>]
  /\ ltp = 0 /\ volume = 0
  /\ active = TRUE /\ changed = FALSE
  /\ mutex = Free
  /\ stack = [t \in Threads |-> <<>>]
  /\ answers = [t \in Threads |-> <<>>]
  /\ status = [id \in Ids |-> "NONE"]

-----------------------------------------------------------------------------
(* insert().  The last statement of a request, in the bottom frame, sets   *)
(* _hasChanged; without it (a closed book) the request is over at once.    *)
Insert(t, id, o) ==
  /\ Idle(t) /\ active /\ status[id] = "NONE"
  /\ order' = [order EXCEPT ![id] = o]
  /\ Reply(t, "NewConfirm") /\ Report(id, "WORKING")
  /\ Begin(t, <<Frame("changed", id, ListOf(o.side)), Placement(id, ListOf(o.side), o.type)>>)
  /\ UNCHANGED <<book, ltp, volume, active, changed, mutex>>

InsertWhenClosed(t, id, o) ==
  /\ Idle(t) /\ ~active /\ status[id] = "NONE"
  /\ order' = [order EXCEPT ![id] = o]
  /\ Reply(t, "NewReject") /\ Report(id, "REJECTED")
  /\ UNCHANGED <<book, ltp, volume, active, changed, mutex, stack>>

(* replace(): the request's side selects the lists; an order that does not *)
(* rest in the first one is looked up among the stop orders.               *)
Issued(id) == status[id] # "NONE"

Found(id, l) == IF Holds(l, id) THEN l ELSE StopList(l)

(* What a replace executes when the order is in its final place.           *)
AfterReplace(id, o, l) == Frame(IF o.tif = "IOC" THEN "ioc" ELSE "changed", id, l)

CanReplaceIn(l, id, o) == Holds(l, id) /\ CanReplace(order[id], o)

ReplaceKept(t, id, o) ==
  LET l == ListOf(o.side) IN
  /\ Idle(t) /\ active /\ Issued(id)
  /\ CanReplaceIn(Found(id, l), id, o) /\ ~LosesPriority(order[id], o)
  /\ order' = [order EXCEPT ![id] = ReplacedOrder(@, o)]
  /\ Reply(t, "ReplaceConfirm")
  /\ Begin(t, <<AfterReplace(id, o, l)>>)
  /\ UNCHANGED <<book, ltp, volume, active, changed, mutex, status>>

(* OrderHasChanged is thrown: the order has its new fields and still waits *)
(* to be erased from its old place.                                        *)
ReplaceMoved(t, id, o) ==
  LET l == ListOf(o.side) IN
  /\ Idle(t) /\ active /\ Issued(id)
  /\ CanReplaceIn(Found(id, l), id, o) /\ LosesPriority(order[id], o)
  /\ order' = [order EXCEPT ![id] = ReplacedOrder(@, o)]
  /\ Begin(t, <<AfterReplace(id, o, l), Frame("moved", id, Found(id, l))>>)
  /\ UNCHANGED <<book, ltp, volume, active, changed, mutex, status, answers>>

(* RejectReplace, or OrderIdNotFound in both lists.                        *)
ReplaceRejected(t, id, o) ==
  LET l == ListOf(o.side) IN
  /\ Idle(t) /\ active /\ Issued(id)
  /\ ~CanReplaceIn(Found(id, l), id, o)
  /\ Reply(t, "ReplaceReject")
  /\ Begin(t, <<AfterReplace(id, o, l)>>)
  /\ UNCHANGED <<order, book, ltp, volume, active, changed, mutex, status>>

ReplaceWhenClosed(t, id, o) ==
  /\ Idle(t) /\ ~active /\ Issued(id)
  /\ Reply(t, "NewReject") /\ Report(id, "REJECTED")
  /\ UNCHANGED <<order, book, ltp, volume, active, changed, mutex, stack>>

(* Mutant: stop orders are looked for among the others.                    *)
SideList(o) == ListOf(o.side)

(* cancel() looks into one list only, chosen by the request's own side and *)
(* type.                                                                   *)
CancelList(o) == IF IsStop(o.type) THEN StopList(ListOf(o.side)) ELSE ListOf(o.side)

Cancel(t, id, o) ==
  /\ Idle(t) /\ Issued(id)
  /\ EraseFrom(CancelList(o), id)
  /\ Reply(t, "CancelConfirm") /\ Report(id, "CANCELED")
  /\ changed' = TRUE
  /\ UNCHANGED <<order, ltp, volume, active, mutex, stack>>

CancelRejected(t, id, o) ==
  /\ Idle(t) /\ Issued(id)
  /\ ~Holds(CancelList(o), id)
  /\ Reply(t, "CancelReject")
  /\ changed' = TRUE
  /\ UNCHANGED <<order, book, ltp, volume, active, mutex, stack, status>>

-----------------------------------------------------------------------------
(* Mutant: a stop order goes back where it came from.                      *)
SameSide(l) == l

(* The catch ( OrderHasChanged ) handlers: erase, confirm, place again.    *)
RestSide(l) == IF l \in {"buy", "stopBuy"} THEN "buy" ELSE "sell"

Move(t) ==
  LET f == Top(t) IN
  /\ At(t, "moved")
  /\ EraseFrom(f.list, f.id)
  /\ Reply(t, "ReplaceConfirm")
  /\ Goto(t, Placement(f.id, RestSide(f.list), order[f.id].type))
  /\ UNCHANGED <<order, ltp, volume, active, changed, mutex, status>>

(* Mutant: the order is placed again although it was not found.            *)
MoveAnyway(t) ==
  /\ At(t, "moved")
  /\ ~Holds(Top(t).list, Top(t).id)
  /\ Reply(t, "ReplaceConfirm")
  /\ Goto(t, Placement(Top(t).id, RestSide(Top(t).list), order[Top(t).id].type))
  /\ UNCHANGED <<order, book, ltp, volume, active, changed, mutex, status>>

(* Another thread took the order off the list: OrderIdNotFound.            *)
MoveRejected(t) ==
  /\ At(t, "moved")
  /\ ~Holds(Top(t).list, Top(t).id)
  /\ Reply(t, "ReplaceReject") /\ Return(t)
  /\ UNCHANGED <<order, book, ltp, volume, active, changed, mutex, status>>

(* insertStopLossBuy(), insertStopLossSell() and the loop conditions of    *)
(* checkTriggeredOrders() compare the last price with the stop price.      *)
Triggered(l, stop) == IF l \in {"buy", "stopBuy"} THEN ltp >= stop ELSE ltp <= stop

StopFires(t) ==
  LET f == Top(t) IN
  /\ At(t, "stop") /\ Triggered(f.list, order[f.id].stop)
  /\ order' = [order EXCEPT ![f.id] = TriggerOrder(@)]
  /\ Goto(t, Insertion(f.id, f.list))
  /\ UNCHANGED <<book, ltp, volume, active, changed, mutex, status, answers>>

StopRests(t) ==
  LET f == Top(t) IN
  /\ At(t, "stop") /\ ~Triggered(f.list, order[f.id].stop)
  /\ InsertInto(StopList(f.list), order[f.id].stop, f.id)
  /\ Return(t)
  /\ UNCHANGED <<order, ltp, volume, active, changed, mutex, status, answers>>

-----------------------------------------------------------------------------
(* Mutant: no one waits for the mutex.                                     *)
LockAlways(t) ==
  /\ At(t, "lock") /\ mutex' = t
  /\ Goto(t, [Top(t) EXCEPT !.pc = "match"])
  /\ UNCHANGED <<order, book, ltp, volume, active, changed, status, answers>>

(* insertBuy() locks _mutexOnMatch for its matching loop; insertSell()     *)
(* takes no lock.  The mutex is not recursive.                             *)
Lock(t) ==
  /\ At(t, "lock") /\ mutex = Free
  /\ mutex' = t
  /\ Goto(t, [Top(t) EXCEPT !.pc = "match"])
  /\ UNCHANGED <<order, book, ltp, volume, active, changed, status, answers>>

(* Mutant: the mutex is never released.                                    *)
KeepLocked(l) == mutex' = mutex

Unlock(l) == mutex' = IF l = "buy" THEN Free ELSE mutex

(* Mutant: equal prices do not trade.                                      *)
CrossesStrictly(l, price, resting) == IF l = "buy" THEN price > resting ELSE price < resting

(* Mutant: any two prices trade.                                           *)
CanTradeAtAnyPrice(id, l) == order[id].pending > 0 /\ book[Opposite(l)] # <<>>

(* The loop condition; ListIsEmpty ends the loop as well.                  *)
Crosses(l, price, resting) == IF l = "buy" THEN price >= resting ELSE price <= resting

CanTrade(id, l) ==
  /\ order[id].pending > 0
  /\ book[Opposite(l)] # <<>>
  /\ \/ order[id].type = "MARKET"
     \/ Crosses(l, order[id].price, order[First(Opposite(l))].price)

(* Mutant: the comparison is the wrong way round.                          *)
Larger(m, n) == IF m > n THEN m ELSE n

Smaller(m, n) == IF m < n THEN m ELSE n

Match(t) ==
  LET f == Top(t)  opp == First(Opposite(f.list)) IN
  /\ At(t, "match") /\ CanTrade(f.id, f.list)
  /\ Goto(t, [f EXCEPT !.pc = "fill", !.opp = opp,
                 !.qty = Smaller(order[f.id].pending, order[opp].pending)])
  /\ UNCHANGED <<order, book, ltp, volume, active, changed, mutex, status, answers>>

MatchEnds(t) ==
  LET f == Top(t) IN
  /\ At(t, "match") /\ ~CanTrade(f.id, f.list)
  /\ Goto(t, [f EXCEPT !.pc = "rest"])
  /\ Unlock(f.list)
  /\ UNCHANGED <<order, book, ltp, volume, active, changed, status, answers>>

(* The loop's body.  OrderList::fill() fills whichever order is the first  *)
(* of the list by now; the confirms and the market data use the local one. *)
(* Mutant: an iceberg order is filled when its visible part is.            *)
FillStatusOfVisible(o) == IF o.filled >= o.disclosed THEN "FILLED" ELSE "WORKING"

FillStatus(o) == IF o.pending = 0 THEN "FILLED" ELSE "WORKING"

(* Mutant: the loop fills the order it looked at, wherever that is by now. *)
FillLookedAt(t) ==
  LET f == Top(t)
      filled == [order EXCEPT ![f.opp] = FillOrder(@, f.qty), ![f.id] = FillOrder(@, f.qty)]
  IN
  /\ At(t, "fill") /\ book[Opposite(f.list)] # <<>>
  /\ order' = filled
  /\ book' = [book EXCEPT ![Opposite(f.list)] =
                SelectSeq(@, LAMBDA e : e.id # f.opp \/ filled[f.opp].pending # 0)]
  /\ status' = [status EXCEPT ![f.opp] = FillStatus(filled[f.opp]),
                             ![f.id] = FillStatus(filled[f.id])]
  /\ ltp' = order[f.opp].price /\ volume' = volume + f.qty
  /\ stack' = [stack EXCEPT ![t] = Front(@) \o <<Frame("match", f.id, f.list),
                                                 Frame("trigger", None, "stopBuy")>>]
  /\ UNCHANGED <<active, changed, mutex, answers>>

Fill(t) ==
  LET f == Top(t)
      other == Opposite(f.list)
      hit == First(other)
      filled == [order EXCEPT ![hit] = FillOrder(@, f.qty), ![f.id] = FillOrder(@, f.qty)]
  IN
  /\ At(t, "fill") /\ book[other] # <<>>
  /\ order' = filled
  /\ book' = IF filled[hit].pending = 0 THEN [book EXCEPT ![other] = Tail(@)] ELSE book
  /\ status' = [status EXCEPT ![f.opp] = FillStatus(filled[f.opp]),
                             ![f.id] = FillStatus(filled[f.id])]
  /\ ltp' = order[f.opp].price /\ volume' = volume + f.qty
  /\ stack' = [stack EXCEPT ![t] = Front(@) \o <<Frame("match", f.id, f.list),
                                                 Frame("trigger", None, "stopBuy")>>]
  /\ UNCHANGED <<active, changed, mutex, answers>>

(* Mutant: the incoming order is filled before the list's first one.       *)
FillEmptiedHalf(t) ==
  LET f == Top(t) IN
  /\ At(t, "fill") /\ book[Opposite(f.list)] = <<>>
  /\ order' = [order EXCEPT ![f.id] = FillOrder(@, f.qty)]
  /\ Goto(t, Frame("rest", f.id, f.list))
  /\ Unlock(f.list)
  /\ UNCHANGED <<book, ltp, volume, active, changed, status, answers>>

(* Another thread emptied the list: first() throws ListIsEmpty.            *)
FillEmptied(t) ==
  LET f == Top(t) IN
  /\ At(t, "fill") /\ book[Opposite(f.list)] = <<>>
  /\ Goto(t, Frame("rest", f.id, f.list))
  /\ Unlock(f.list)
  /\ UNCHANGED <<order, book, ltp, volume, active, changed, status, answers>>

(* What is left of the order when the loop is over.                        *)
RestDone(t) ==
  /\ At(t, "rest") /\ order[Top(t).id].pending <= 0
  /\ Return(t)
  /\ UNCHANGED <<order, book, ltp, volume, active, changed, mutex, status, answers>>

(* Mutant: the time in force is not looked at.                             *)
CannotRestUnpriced(o) == o.type = "MARKET" /\ ltp <= 0

CannotRest(o) == o.tif = "IOC" \/ (o.type = "MARKET" /\ ltp <= 0)

RestCanceled(t) ==
  LET o == order[Top(t).id] IN
  /\ At(t, "rest") /\ o.pending > 0 /\ CannotRest(o)
  /\ Report(Top(t).id, "CANCELED") /\ Return(t)
  /\ UNCHANGED <<order, book, ltp, volume, active, changed, mutex, answers>>

Rest(t) ==
  LET f == Top(t)
      o == order[f.id]
      placed == IF o.type = "MARKET" THEN MarketToLimit(o, ltp) ELSE o
  IN
  /\ At(t, "rest") /\ o.pending > 0 /\ ~CannotRest(o)
  /\ order' = [order EXCEPT ![f.id] = placed]
  /\ InsertInto(f.list, placed.price, f.id)
  /\ Return(t)
  /\ UNCHANGED <<ltp, volume, active, changed, mutex, status, answers>>

-----------------------------------------------------------------------------
(* Mutant: the loop over the stop sells is missing.                        *)
FirstTriggeredBuy(sl) == sl = "stopBuy" /\ book[sl] # <<>> /\ Triggered(sl, order[First(sl)].stop)

(* checkTriggeredOrders(): first the stop buys, then the stop sells.       *)
FirstTriggered(sl) == book[sl] # <<>> /\ Triggered(sl, order[First(sl)].stop)

(* Mutants: the triggered order is not placed; it is not taken off.        *)
TriggerFirstLost(t) ==
  LET sl == Top(t).list IN
  /\ At(t, "trigger") /\ FirstTriggered(sl)
  /\ book' = [book EXCEPT ![sl] = Tail(@)]
  /\ order' = [order EXCEPT ![First(sl)] = TriggerOrder(@)]
  /\ UNCHANGED <<ltp, volume, active, changed, mutex, stack, status, answers>>

TriggerFirstKept(t) ==
  LET sl == Top(t).list IN
  /\ At(t, "trigger") /\ FirstTriggered(sl)
  /\ order' = [order EXCEPT ![First(sl)] = TriggerOrder(@)]
  /\ Call(t, Insertion(First(sl), RestList(sl)))
  /\ UNCHANGED <<book, ltp, volume, active, changed, mutex, status, answers>>

TriggerFirst(t) ==
  LET sl == Top(t).list  id == First(sl) IN
  /\ At(t, "trigger") /\ FirstTriggered(sl)
  /\ book' = [book EXCEPT ![sl] = Tail(@)]
  /\ order' = [order EXCEPT ![id] = TriggerOrder(@)]
  /\ Call(t, Insertion(id, RestList(sl)))
  /\ UNCHANGED <<ltp, volume, active, changed, mutex, status, answers>>

TriggerSells(t) ==
  /\ At(t, "trigger") /\ Top(t).list = "stopBuy" /\ ~FirstTriggered("stopBuy")
  /\ Goto(t, Frame("trigger", None, "stopSell"))
  /\ UNCHANGED <<order, book, ltp, volume, active, changed, mutex, status, answers>>

TriggerEnds(t) ==
  /\ At(t, "trigger") /\ Top(t).list = "stopSell" /\ ~FirstTriggered("stopSell")
  /\ Return(t)
  /\ UNCHANGED <<order, book, ltp, volume, active, changed, mutex, status, answers>>

-----------------------------------------------------------------------------
(* The end of replaceBuy() and replaceSell() for an IOC request.  cancel() *)
(* throws OrderIdNotFound when the order does not rest; replace() turns    *)
(* that into a second answer.                                              *)
IocCancels(t) ==
  LET f == Top(t) IN
  /\ At(t, "ioc")
  /\ EraseFrom(f.list, f.id)
  /\ Report(f.id, "CANCELED")
  /\ Goto(t, Frame("changed", f.id, f.list))
  /\ UNCHANGED <<order, ltp, volume, active, changed, mutex, answers>>

IocNotFound(t) ==
  LET f == Top(t) IN
  /\ At(t, "ioc") /\ ~Holds(f.list, f.id)
  /\ answers' = [answers EXCEPT ![t] = Append(@, "ReplaceReject")]
  /\ Goto(t, Frame("changed", f.id, f.list))
  /\ UNCHANGED <<order, book, ltp, volume, active, changed, mutex, status>>

RequestEnds(t) ==
  /\ At(t, "changed")
  /\ changed' = TRUE /\ Return(t)
  /\ UNCHANGED <<order, book, ltp, volume, active, mutex, status, answers>>

-----------------------------------------------------------------------------
(* stop() closes the book and then cancels list after list; start().       *)
Stop(t) ==
  /\ Idle(t)
  /\ active' = FALSE
  /\ Begin(t, <<Frame("cancelAll", None, "buy")>>)
  /\ UNCHANGED <<order, book, ltp, volume, changed, mutex, status, answers>>

CancelFirst(t) ==
  LET l == Top(t).list IN
  /\ At(t, "cancelAll") /\ book[l] # <<>>
  /\ Report(First(l), "CANCELED")
  /\ book' = [book EXCEPT ![l] = Tail(@)]
  /\ changed' = TRUE
  /\ UNCHANGED <<order, ltp, volume, active, mutex, stack, answers>>

(* Mutant: the sell list is forgotten.                                     *)
ListAfterBuy == [buy |-> "stopBuy", sell |-> "stopBuy", stopBuy |-> "stopSell"]

ListAfter == [buy |-> "sell", sell |-> "stopBuy", stopBuy |-> "stopSell"]

CancelNext(t) ==
  LET l == Top(t).list IN
  /\ At(t, "cancelAll") /\ l # "stopSell" /\ book[l] = <<>>
  /\ Goto(t, Frame("cancelAll", None, ListAfter[l]))
  /\ UNCHANGED <<order, book, ltp, volume, active, changed, mutex, status, answers>>

StopEnds(t) ==
  /\ At(t, "cancelAll") /\ Top(t).list = "stopSell" /\ book["stopSell"] = <<>>
  /\ changed' = TRUE /\ Return(t)
  /\ UNCHANGED <<order, book, ltp, volume, active, mutex, status, answers>>

Start(t) ==
  /\ Idle(t) /\ active' = TRUE
  /\ UNCHANGED <<order, book, ltp, volume, changed, mutex, stack, status, answers>>

-----------------------------------------------------------------------------
Request(t) ==
  \E id \in Ids :
    \/ \E o \in NewOrders : Insert(t, id, o) \/ InsertWhenClosed(t, id, o)
    \/ \E o \in ReplaceOrders :
         \/ ReplaceKept(t, id, o) \/ ReplaceMoved(t, id, o)
         \/ ReplaceRejected(t, id, o) \/ ReplaceWhenClosed(t, id, o)
    \/ \E o \in CancelOrders : Cancel(t, id, o) \/ CancelRejected(t, id, o)

Command(t) == Stop(t) \/ Start(t)

(* A thread's next step inside the book.                                   *)
Continue(t) ==
  \/ Move(t) \/ MoveRejected(t) \/ StopFires(t) \/ StopRests(t)
  \/ Lock(t) \/ Match(t) \/ MatchEnds(t) \/ Fill(t) \/ FillEmptied(t)
  \/ RestDone(t) \/ RestCanceled(t) \/ Rest(t)
  \/ TriggerFirst(t) \/ TriggerSells(t) \/ TriggerEnds(t)
  \/ IocCancels(t) \/ IocNotFound(t) \/ RequestEnds(t)
  \/ CancelFirst(t) \/ CancelNext(t) \/ StopEnds(t)

Next ==
  \/ \E t \in Sessions : Request(t)
  \/ \E t \in Consoles : Command(t)
  \/ \E t \in Threads : Continue(t)

Spec == Init /\ [][Next]_vars

(* The operating system keeps running every thread that can run; requests  *)
(* and commands need never come.                                           *)
FairSpec == Spec /\ \A t \in Threads : WF_vars(Continue(t))

-----------------------------------------------------------------------------
(* Every variable has its type; a frame on a call stack names orders where *)
(* its statement uses them, and a list of the kind the statement works on. *)
TypeOK ==
  /\ order \in [Ids -> OrderRecord]
  /\ book \in [Lists -> Seq(Entry)]
  /\ ltp \in Int /\ volume \in Int
  /\ active \in BOOLEAN /\ changed \in BOOLEAN
  /\ mutex \in Threads \cup {Free}
  /\ stack \in [Threads -> Seq(FrameRecord)]
  /\ answers \in [Threads -> Seq(Answer)]
  /\ status \in [Ids -> Status]

Quiet == \A t \in Threads : Idle(t)

Resting(l) == {book[l][p].id : p \in DOMAIN book[l]}

(* At most one thread is inside the matching loop of insertBuy, and it is  *)
(* the owner of _mutexOnMatch (a frame below a nested call still counts).  *)
BuyLoop(f) == f.list = "buy" /\ f.pc \in {"match", "fill"}

InBuyLoop(t) == \E d \in DOMAIN stack[t] : BuyLoop(stack[t][d])

OneBuyLoop == \A t \in Threads : InBuyLoop(t) => mutex = t

(* The book never rests crossed, not even while an insertion or a chain of *)
(* triggered stop orders is under way: every resting buy is priced below   *)
(* every resting sell.                                                     *)
NotCrossed ==
  \A b \in DOMAIN book["buy"], s \in DOMAIN book["sell"] :
    book["buy"][b].key < book["sell"][s].key

(* Entries stay in price order, and the key an order was entered under is  *)
(* its current price (stop price) although replace() and trigger() change  *)
(* orders in place; only an order on its way to a new place differs.       *)
OnTheMove(id) == \E t \in Threads : At(t, "moved") /\ Top(t).id = id

EntryIsCurrent(l, e) ==
  IF l \in {"buy", "sell"}
    THEN order[e.id].type = "LIMIT" /\ e.key = order[e.id].price
    ELSE IsStop(order[e.id].type) /\ e.key = order[e.id].stop

BookIsCurrent ==
  \A l \in Lists :
    /\ \A p, q \in DOMAIN book[l] : p < q => Ahead(l, book[l][p].key, book[l][q].key)
    /\ \A p \in DOMAIN book[l] : EntryIsCurrent(l, book[l][p]) \/ OnTheMove(book[l][p].id)

(* An order rests in one place at a time, and not while a call that will   *)
(* place it is still on some thread's stack.                               *)
Places(id) ==
  {x \in UNION {{l} \X DOMAIN book[l] : l \in Lists} : book[x[1]][x[2]].id = id}

BeingPlaced(id) ==
  \E t \in Threads : \E d \in DOMAIN stack[t] :
    stack[t][d].id = id /\ stack[t][d].pc \in {"stop", "lock", "match", "fill", "rest"}

OneHome ==
  \A id \in Ids : \A x, y \in Places(id) : x = y /\ ~BeingPlaced(id)

(* No order is filled beyond its quantity, and what a resting order shows  *)
(* is positive and what setPendingQty() computes from its other fields.    *)
NothingOverfilled ==
  /\ \A id \in Ids : order[id].filled <= order[id].qty
  /\ \A l \in Lists : \A id \in Resting(l) :
       order[id].pending > 0 /\ order[id] = WithPending(order[id])

(* Every trade fills one buy and one sell by the same quantity, and the    *)
(* traded volume of the market data is the sum of either side's fills.     *)
Bought == {id \in Ids : order[id].side = "BUY"}

FilledBy(ids) == FoldSet(LAMBDA id, sum : order[id].filled + sum, 0, ids)

TradesBalance == FilledBy(Bought) = volume /\ FilledBy(Ids \ Bought) = volume

(* Between requests, the orders whose last report told the client that     *)
(* they work are those that rest in the book: none is lost, none rests     *)
(* that the client believes gone.                                          *)
WorkingOrdersRest ==
  Quiet => \A id \in Ids : status[id] = "WORKING" <=> \E l \in Lists : id \in Resting(l)

(* Between requests no resting stop order is one that the last traded      *)
(* price should already have triggered.                                    *)
StopsAreArmed ==
  Quiet => \A l \in {"stopBuy", "stopSell"} : \A id \in Resting(l) : ~Triggered(l, order[id].stop)

(* Between requests no immediate-or-cancel order rests where it can trade. *)
IocNeverRests ==
  Quiet => \A id \in Resting("buy") \cup Resting("sell") : order[id].tif # "IOC"

(* Between requests a stopped book holds no orders.                        *)
ClosedBookIsEmpty == Quiet /\ ~active => \A l \in Lists : book[l] = <<>>

(* A limit order, resting or incoming, never trades at a price worse than  *)
(* its limit.                                                              *)
LimitRespected ==
  [][\A id \in Ids :
       order'[id].filled > order[id].filled /\ order[id].type = "LIMIT" =>
         Crosses(ListOf(order[id].side), order[id].price, ltp')]_vars

(* A fill goes to the order at the head of its list, whoever else changed  *)
(* the list since the matching loop looked at it.                          *)
HeadIsFilled ==
  [][\A l \in Lists : \A id \in Resting(l) :
       order'[id].filled # order[id].filled => id = First(l)]_vars

(* Once the client has been told that an order is filled, canceled or      *)
(* rejected, no later report says that it works, and it never trades.      *)
Over(id) == status[id] \in {"FILLED", "CANCELED", "REJECTED"}

OverIsOver ==
  [][\A id \in Ids : Over(id) => Over(id)' /\ order'[id].filled = order[id].filled]_vars

(* A cancel that names an order's side and its present kind (a trigger and *)
(* a replace change it) is refused only when the order rests nowhere.      *)
RefusedMeansGone ==
  [][\A t \in Sessions, id \in Ids, o \in CancelOrders :
       /\ CancelRejected(t, id, o)
       /\ ListOf(o.side) = ListOf(order[id].side) /\ IsStop(o.type) = IsStop(order[id].type)
       => \A l \in Lists : ~Holds(l, id)]_vars

(* Whatever a thread was asked to do, it comes to an end or to wait for    *)
(* the mutex, without holding it: none is blocked.  The mutex is not fair, *)
(* so a waiting thread may be overtaken for ever.                          *)
EveryCallEnds ==
  \A t \in Threads : []<>(mutex # t /\ (Idle(t) \/ At(t, "lock")))

-----------------------------------------------------------------------------
(* What the comments of the code promise and the code does not keep.       *)

(* orderBook.h:128-130: insertBuy matches an order or inserts it into the  *)
(* book, so an order handed to it is placed at some time.                  *)
InsertionsEnd == \A id \in Ids : BeingPlaced(id) ~> ~BeingPlaced(id)

(* exceptions.h:92-93: OrderIdNotFound is for orders that do not exist or  *)
(* were filled or cancelled; the one thrown after a confirmed IOC replace  *)
(* must be for an order that rests nowhere.                                *)
NotFoundMeansGone ==
  [][\A t \in Sessions, id \in Ids :
       At(t, "ioc") /\ Top(t).id = id /\ IocNotFound(t) =>
         \A l \in Lists : ~Holds(l, id)]_vars
=============================================================================
