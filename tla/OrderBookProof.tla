--------------------------- MODULE OrderBookProof ---------------------------
(***************************************************************************)
(* Theorems about OrderBook, for every set of orders, threads and          *)
(* requests.                                                               *)
(***************************************************************************)
EXTENDS OrderBook, DataLemmas

-----------------------------------------------------------------------------
(* Frames, and what the stack operators keep of the stacks' type.          *)
LEMMA FrameTypes ==
  ASSUME NEW id \in Ids, NEW l \in {"buy", "sell"}, NEW type
  PROVE  /\ \A pc \in {"stop", "lock", "match", "rest", "ioc", "changed"} :
              Frame(pc, id, l) \in FrameRecord
         /\ Insertion(id, l) \in FrameRecord
         /\ Placement(id, l, type) \in FrameRecord
BY DEF FrameRecord, Frame, Insertion, Placement

LEMMA ListFrameTypes ==
  /\ \A l \in Lists : Frame("cancelAll", None, l) \in FrameRecord
  /\ \A l \in {"stopBuy", "stopSell"} : Frame("trigger", None, l) \in FrameRecord
  /\ \A id \in Ids, l \in Lists : Frame("moved", id, l) \in FrameRecord
BY DEF FrameRecord, Frame

LEMMA TopType ==
  ASSUME TypeOK, NEW t \in Threads, ~Idle(t)
  PROVE  /\ stack[t] \in Seq(FrameRecord) /\ stack[t] # <<>>
         /\ Top(t) \in FrameRecord
         /\ Len(stack[t]) \in Nat \ {0} /\ DOMAIN stack[t] = 1 .. Len(stack[t])
<1>1. stack[t] \in Seq(FrameRecord) /\ stack[t] # <<>>
  BY DEF TypeOK, Idle
<1> QED BY <1>1, FrontElements DEF Top

LEMMA GotoType ==
  ASSUME TypeOK, NEW t \in Threads, ~Idle(t), NEW f \in FrameRecord, Goto(t, f)
  PROVE  stack' \in [Threads -> Seq(FrameRecord)]
<1>1. Append(Front(stack[t]), f) \in Seq(FrameRecord)
  BY TopType, ReplaceLastElements
<1> QED BY <1>1 DEF TypeOK, Goto

LEMMA ReturnType ==
  ASSUME TypeOK, NEW t \in Threads, ~Idle(t), Return(t)
  PROVE  stack' \in [Threads -> Seq(FrameRecord)]
<1>1. Front(stack[t]) \in Seq(FrameRecord)
  BY TopType, FrontElements
<1> QED BY <1>1 DEF TypeOK, Return

LEMMA CallType ==
  ASSUME TypeOK, NEW t \in Threads, NEW f \in FrameRecord, Call(t, f)
  PROVE  stack' \in [Threads -> Seq(FrameRecord)]
<1>1. Append(stack[t], f) \in Seq(FrameRecord)
  BY AppendElements DEF TypeOK
<1> QED BY <1>1 DEF TypeOK, Call

(* What list operations keep of the lists' type.                           *)
LEMMA InsertIntoType ==
  ASSUME TypeOK, NEW l \in Lists, NEW key \in Int, NEW id \in Ids, InsertInto(l, key, id)
  PROVE  book' \in [Lists -> Seq(Entry)]
<1>1. [key |-> key, id |-> id] \in Entry /\ book[l] \in Seq(Entry)
  BY DEF Entry, TypeOK
<1>2. PICK p \in 1 .. Len(book[l]) + 1 :
        book' = [book EXCEPT ![l] = InsertAt(@, p, [key |-> key, id |-> id])]
  BY DEF InsertInto
<1>3. InsertAt(book[l], p, [key |-> key, id |-> id]) \in Seq(Entry)
  BY <1>1, InsertAtElements
<1> QED BY <1>2, <1>3 DEF TypeOK

LEMMA EraseFromType ==
  ASSUME TypeOK, NEW l \in Lists, NEW id, EraseFrom(l, id)
  PROVE  book' \in [Lists -> Seq(Entry)]
<1>1. book[l] \in Seq(Entry) /\ DOMAIN book[l] = 1 .. Len(book[l])
  BY LenProperties DEF TypeOK
<1>2. PICK p \in 1 .. Len(book[l]) : book' = [book EXCEPT ![l] = RemoveAt(@, p)]
  BY <1>1 DEF EraseFrom
<1>3. RemoveAt(book[l], p) \in Seq(Entry)
  BY <1>1, RemoveAtElements
<1> QED BY <1>2, <1>3 DEF TypeOK

LEMMA FirstType ==
  ASSUME TypeOK, NEW l \in Lists, book[l] # <<>>
  PROVE  /\ First(l) \in Ids /\ Head(book[l]) \in Entry
         /\ Tail(book[l]) \in Seq(Entry)
         /\ [book EXCEPT ![l] = Tail(@)] \in [Lists -> Seq(Entry)]
<1>1. book[l] \in Seq(Entry)
  BY DEF TypeOK
<1>2. Head(book[l]) \in Entry /\ Tail(book[l]) \in Seq(Entry)
  BY <1>1, TailElements
<1> QED BY <1>2 DEF TypeOK, First, Entry

-----------------------------------------------------------------------------
(* The type invariant is inductive: one lemma for the requests, one for    *)
(* the steps inside the book.                                              *)
LEMMA ListTypes ==
  ASSUME NEW l
  PROVE  /\ \A side : ListOf(side) \in {"buy", "sell"}
         /\ Opposite(l) \in {"buy", "sell"} /\ StopList(l) \in {"stopBuy", "stopSell"}
         /\ RestList(l) \in {"buy", "sell"} /\ RestSide(l) \in {"buy", "sell"}
         /\ {"buy", "sell"} \subseteq Lists /\ {"stopBuy", "stopSell"} \subseteq Lists
BY DEF ListOf, Opposite, StopList, RestList, RestSide, Lists

LEMMA RequestTypes ==
  ASSUME TypeOK, NEW t \in Sessions, Request(t)
  PROVE  TypeOK'
<1> USE DEF TypeOK
<1>0. t \in Threads /\ NewOrders \subseteq OrderRecord /\ ReplaceOrders \subseteq OrderRecord
      /\ CancelOrders \subseteq OrderRecord
  BY OrdersAssumption DEF Threads
<1>r. ASSUME NEW a \in Answer, Reply(t, a) PROVE answers' \in [Threads -> Seq(Answer)]
  BY <1>r, ShortSequences DEF Reply
<1>b. ASSUME NEW f \in FrameRecord, NEW g \in FrameRecord
      PROVE  /\ Begin(t, <<f>>) => stack' \in [Threads -> Seq(FrameRecord)]
             /\ Begin(t, <<f, g>>) => stack' \in [Threads -> Seq(FrameRecord)]
  <2>1. <<f>> \in Seq(FrameRecord) /\ <<f, g>> \in Seq(FrameRecord)
    BY ShortSequences, Zenon
  <2> QED BY <2>1 DEF Begin
<1>s. ASSUME NEW id \in Ids, NEW s \in Status, Report(id, s) PROVE status' \in [Ids -> Status]
  BY <1>s DEF Report
<1>f. ASSUME NEW id \in Ids, NEW o
      PROVE  /\ Frame("changed", id, ListOf(o.side)) \in FrameRecord
             /\ Placement(id, ListOf(o.side), o.type) \in FrameRecord
             /\ AfterReplace(id, o, ListOf(o.side)) \in FrameRecord
             /\ Frame("moved", id, Found(id, ListOf(o.side))) \in FrameRecord
  BY FrameTypes, ListFrameTypes, ListTypes DEF AfterReplace, Found
<1>1. ASSUME NEW id \in Ids, NEW o \in NewOrders, Insert(t, id, o) PROVE TypeOK'
  BY <1>0, <1>1, <1>r, <1>b, <1>s, <1>f DEF Insert, Answer, Status
<1>2. ASSUME NEW id \in Ids, NEW o \in NewOrders, InsertWhenClosed(t, id, o) PROVE TypeOK'
  BY <1>0, <1>2, <1>r, <1>s DEF InsertWhenClosed, Answer, Status
<1>3. ASSUME NEW id \in Ids, NEW o \in ReplaceOrders, ReplaceKept(t, id, o) PROVE TypeOK'
  <2>1. ReplacedOrder(order[id], o) \in OrderRecord
    BY <1>0, OrderOperatorTypes
  <2> QED BY <1>0, <1>3, <1>r, <1>b, <1>f, <2>1 DEF ReplaceKept, Answer
<1>4. ASSUME NEW id \in Ids, NEW o \in ReplaceOrders, ReplaceMoved(t, id, o) PROVE TypeOK'
  <2>1. ReplacedOrder(order[id], o) \in OrderRecord
    BY <1>0, OrderOperatorTypes
  <2> QED BY <1>0, <1>4, <1>b, <1>f, <2>1 DEF ReplaceMoved
<1>5. ASSUME NEW id \in Ids, NEW o \in ReplaceOrders, ReplaceRejected(t, id, o) PROVE TypeOK'
  BY <1>0, <1>5, <1>r, <1>b, <1>f DEF ReplaceRejected, Answer
<1>6. ASSUME NEW id \in Ids, NEW o \in ReplaceOrders, ReplaceWhenClosed(t, id, o) PROVE TypeOK'
  BY <1>0, <1>6, <1>r, <1>s DEF ReplaceWhenClosed, Answer, Status
<1>7. ASSUME NEW id \in Ids, NEW o \in CancelOrders, Cancel(t, id, o) PROVE TypeOK'
  <2>1. CancelList(o) \in Lists
    BY ListTypes DEF CancelList
  <2>2. book' \in [Lists -> Seq(Entry)]
    BY <1>7, <2>1, EraseFromType DEF Cancel
  <2> QED BY <1>0, <1>7, <1>r, <1>s, <2>2 DEF Cancel, Answer, Status
<1>8. ASSUME NEW id \in Ids, NEW o \in CancelOrders, CancelRejected(t, id, o) PROVE TypeOK'
  BY <1>0, <1>8, <1>r DEF CancelRejected, Answer
<1> QED BY <1>1, <1>2, <1>3, <1>4, <1>5, <1>6, <1>7, <1>8 DEF Request

LEMMA ContinueTypes ==
  ASSUME TypeOK, NEW t \in Threads, Continue(t)
  PROVE  TypeOK'
<1> DEFINE f == Top(t)
<1>r. ASSUME NEW a \in Answer, Reply(t, a) PROVE answers' \in [Threads -> Seq(Answer)]
  BY <1>r, ShortSequences DEF Reply, TypeOK
<1>s. ASSUME NEW id \in Ids, NEW s \in Status, Report(id, s) PROVE status' \in [Ids -> Status]
  BY <1>s DEF Report, TypeOK
<1>0. ~Idle(t) => f \in FrameRecord
  BY TopType
<1>p. ASSUME NEW pc \in {"stop", "lock", "match", "rest", "ioc", "changed"}, At(t, pc)
      PROVE  ~Idle(t) /\ f.id \in Ids /\ f.list \in {"buy", "sell"} /\ f.list \in Lists
             /\ f \in [pc : {pc}, id : Ids, list : {"buy", "sell"}, opp : {None}, qty : {0}]
  BY <1>p, <1>0 DEF At, FrameRecord, Lists
<1>q. At(t, "fill") => /\ ~Idle(t) /\ f.id \in Ids /\ f.list \in {"buy", "sell"}
                       /\ f.opp \in Ids /\ f.qty \in Int
  BY <1>0 DEF At, FrameRecord
<1>m. At(t, "moved") => ~Idle(t) /\ f.id \in Ids /\ f.list \in Lists
  BY <1>0 DEF At, FrameRecord
<1>t. At(t, "trigger") => ~Idle(t) /\ f.list \in {"stopBuy", "stopSell"} /\ f.list \in Lists
  BY <1>0 DEF At, FrameRecord, Lists
<1>c. At(t, "cancelAll") => ~Idle(t) /\ f.list \in Lists
  BY <1>0 DEF At, FrameRecord
<1>u. ASSUME NEW l, Unlock(l) PROVE mutex' \in Threads \cup {Free}
  BY <1>u DEF Unlock, TypeOK
<1> HIDE DEF f
<1>1. CASE Move(t)
  <2>1. book' \in [Lists -> Seq(Entry)]
    BY <1>1, <1>m, EraseFromType DEF Move, f
  <2>2. Placement(f.id, RestSide(f.list), order[f.id].type) \in FrameRecord
    BY <1>1, <1>m, FrameTypes, ListTypes DEF Move
  <2>3. stack' \in [Threads -> Seq(FrameRecord)]
    BY <1>1, <1>m, <2>2, GotoType DEF Move, f
  <2> QED BY <1>1, <1>r, <2>1, <2>3 DEF Move, TypeOK, Answer
<1>2. CASE MoveRejected(t)
  <2>1. stack' \in [Threads -> Seq(FrameRecord)]
    BY <1>2, <1>m, ReturnType DEF MoveRejected
  <2> QED BY <1>2, <1>r, <2>1 DEF MoveRejected, TypeOK, Answer
<1>3. CASE StopFires(t)
  <2>1. stack' \in [Threads -> Seq(FrameRecord)]
    BY <1>3, <1>p, FrameTypes, GotoType DEF StopFires, f
  <2>2. TriggerOrder(order[f.id]) \in OrderRecord
    BY <1>3, <1>p, OrderOperatorTypes DEF StopFires, TypeOK
  <2> QED BY <1>3, <2>1, <2>2 DEF StopFires, TypeOK, f
<1>4. CASE StopRests(t)
  <2>1. stack' \in [Threads -> Seq(FrameRecord)]
    BY <1>4, <1>p, ReturnType DEF StopRests
  <2>2. f.id \in Ids /\ order[f.id].stop \in Int /\ StopList(f.list) \in Lists
    BY <1>4, <1>p, ListTypes DEF StopRests, TypeOK, OrderRecord
  <2>3. book' \in [Lists -> Seq(Entry)]
    BY <1>4, <2>2, InsertIntoType DEF StopRests, f
  <2> QED BY <1>4, <2>1, <2>3 DEF StopRests, TypeOK
<1>5. CASE Lock(t)
  <2>1. [f EXCEPT !.pc = "match"] \in FrameRecord
    BY <1>5, <1>p DEF Lock, FrameRecord
  <2>2. stack' \in [Threads -> Seq(FrameRecord)]
    BY <1>5, <1>p, <2>1, GotoType DEF Lock, f
  <2> QED BY <1>5, <2>2 DEF Lock, TypeOK
<1>6. CASE Match(t)
  <2> DEFINE opp == First(Opposite(f.list))
             qty == Smaller(order[f.id].pending, order[opp].pending)
  <2>1. opp \in Ids
    BY <1>6, <1>p, FirstType, ListTypes DEF Match, CanTrade, f
  <2>2. qty \in Int
    BY <1>6, <1>p, <2>1 DEF Match, Smaller, TypeOK, OrderRecord
  <2> HIDE DEF opp, qty
  <2>3. [f EXCEPT !.pc = "fill", !.opp = opp, !.qty = qty] \in FrameRecord
    BY <1>6, <1>p, <2>1, <2>2 DEF Match, FrameRecord
  <2>4. stack' \in [Threads -> Seq(FrameRecord)]
    BY <1>6, <1>p, <2>3, GotoType DEF Match, f, opp, qty
  <2> QED BY <1>6, <2>4 DEF Match, TypeOK
<1>7. CASE MatchEnds(t)
  <2>1. [f EXCEPT !.pc = "rest"] \in FrameRecord
    BY <1>7, <1>p DEF MatchEnds, FrameRecord
  <2>2. stack' \in [Threads -> Seq(FrameRecord)]
    BY <1>7, <1>p, <2>1, GotoType DEF MatchEnds, f
  <2> QED BY <1>7, <1>u, <2>2 DEF MatchEnds, TypeOK
<1>8. CASE Fill(t)
  <2> DEFINE other == Opposite(f.list)
             hit == First(other)
             hitOrder == FillOrder(order[hit], f.qty)
             filled == [order EXCEPT ![hit] = FillOrder(@, f.qty), ![f.id] = FillOrder(@, f.qty)]
  <2>1. other \in Lists /\ f.id \in Ids /\ f.opp \in Ids /\ f.qty \in Int /\ f.list \in {"buy", "sell"}
        /\ ~Idle(t)
    BY <1>8, <1>q, ListTypes DEF Fill
  <2>2. hit \in Ids /\ [book EXCEPT ![other] = Tail(@)] \in [Lists -> Seq(Entry)]
    BY <1>8, <2>1, FirstType DEF Fill, f
  <2> HIDE DEF hit
  <2>3. filled \in [Ids -> OrderRecord]
    <3>1. [order EXCEPT ![hit] = FillOrder(@, f.qty)] \in [Ids -> OrderRecord]
      BY <2>1, <2>2, OrderOperatorTypes DEF TypeOK
    <3> QED BY <2>1, <3>1, OrderOperatorTypes
  <2>4. /\ order' = filled
        /\ book' = IF filled[hit].pending = 0 THEN [book EXCEPT ![other] = Tail(@)] ELSE book
        /\ status' = [status EXCEPT ![f.opp] = FillStatus(filled[f.opp]),
                                   ![f.id] = FillStatus(filled[f.id])]
    BY <1>8 DEF Fill, f, hit
  <2> HIDE DEF filled
  <2>5. \A o : FillStatus(o) \in Status
    BY DEF FillStatus, Status
  <2>6. status' \in [Ids -> Status]
    BY <2>4, <2>5 DEF TypeOK
  <2>7. stack' \in [Threads -> Seq(FrameRecord)]
    <3>1. Frame("match", f.id, f.list) \in FrameRecord /\ Frame("trigger", None, "stopBuy") \in FrameRecord
      BY <2>1, FrameTypes, ListFrameTypes
    <3>2. Front(stack[t]) \o <<Frame("match", f.id, f.list), Frame("trigger", None, "stopBuy")>>
            \in Seq(FrameRecord)
      BY <2>1, <3>1, TopType, ReplaceLastByTwoElements
    <3> QED BY <1>8, <3>2 DEF Fill, TypeOK, f
  <2>8. ltp' \in Int /\ volume' \in Int
    <3>1. ltp' = order[f.opp].price /\ volume' = volume + f.qty
      BY <1>8 DEF Fill, f
    <3>2. order[f.opp].price \in Int
      BY <2>1 DEF TypeOK, OrderRecord
    <3> QED BY <2>1, <3>1, <3>2 DEF TypeOK
  <2>9. book' \in [Lists -> Seq(Entry)]
    BY <2>2, <2>4 DEF TypeOK
  <2> QED BY <1>8, <2>3, <2>4, <2>6, <2>7, <2>8, <2>9 DEF Fill, TypeOK
<1>9. CASE FillEmptied(t)
  <2>1. stack' \in [Threads -> Seq(FrameRecord)]
    BY <1>9, <1>q, FrameTypes, GotoType DEF FillEmptied, f
  <2> QED BY <1>9, <1>u, <2>1 DEF FillEmptied, TypeOK
<1>10. CASE RestDone(t)
  BY <1>10, <1>p, ReturnType DEF RestDone, TypeOK
<1>11. CASE RestCanceled(t)
  BY <1>11, <1>p, <1>s, ReturnType DEF RestCanceled, TypeOK, Status, f
<1>12. CASE Rest(t)
  <2> DEFINE o == order[f.id]
             placed == IF o.type = "MARKET" THEN MarketToLimit(o, ltp) ELSE o
  <2>1. f.id \in Ids /\ f.list \in Lists /\ ~Idle(t)
    BY <1>12, <1>p DEF Rest
  <2>2. placed \in OrderRecord /\ placed.price \in Int
    BY <2>1, OrderOperatorTypes DEF TypeOK, OrderRecord
  <2>3. order' = [order EXCEPT ![f.id] = placed] /\ InsertInto(f.list, placed.price, f.id)
    BY <1>12 DEF Rest, f
  <2> HIDE DEF placed
  <2>4. book' \in [Lists -> Seq(Entry)]
    BY <2>1, <2>2, <2>3, InsertIntoType
  <2>5. stack' \in [Threads -> Seq(FrameRecord)]
    BY <1>12, <2>1, ReturnType DEF Rest
  <2> QED BY <1>12, <2>2, <2>3, <2>4, <2>5 DEF Rest, TypeOK
<1>13. CASE TriggerFirst(t)
  <2>1. First(f.list) \in Ids /\ [book EXCEPT ![f.list] = Tail(@)] \in [Lists -> Seq(Entry)]
    BY <1>13, <1>t, FirstType DEF TriggerFirst, FirstTriggered, f
  <2>2. TriggerOrder(order[First(f.list)]) \in OrderRecord
    BY <2>1, OrderOperatorTypes DEF TypeOK
  <2>3. Insertion(First(f.list), RestList(f.list)) \in FrameRecord
    BY <2>1, FrameTypes, ListTypes
  <2>4. stack' \in [Threads -> Seq(FrameRecord)]
    BY <1>13, <2>3, CallType DEF TriggerFirst, f
  <2> QED BY <1>13, <2>1, <2>2, <2>4 DEF TriggerFirst, TypeOK, f
<1>14. CASE TriggerSells(t)
  BY <1>14, <1>t, ListFrameTypes, GotoType DEF TriggerSells, TypeOK
<1>15. CASE TriggerEnds(t)
  BY <1>15, <1>t, ReturnType DEF TriggerEnds, TypeOK
<1>16. CASE IocCancels(t)
  <2>1. book' \in [Lists -> Seq(Entry)]
    BY <1>16, <1>p, EraseFromType DEF IocCancels, f
  <2>2. stack' \in [Threads -> Seq(FrameRecord)]
    BY <1>16, <1>p, FrameTypes, GotoType DEF IocCancels, f
  <2>3. status' \in [Ids -> Status]
    BY <1>16, <1>p, <1>s DEF IocCancels, Status, f
  <2> QED BY <1>16, <2>1, <2>2, <2>3 DEF IocCancels, TypeOK
<1>17. CASE IocNotFound(t)
  <2>1. stack' \in [Threads -> Seq(FrameRecord)]
    BY <1>17, <1>p, FrameTypes, GotoType DEF IocNotFound, f
  <2>2. answers' \in [Threads -> Seq(Answer)]
    BY <1>17, AppendElements DEF IocNotFound, TypeOK, Answer
  <2> QED BY <1>17, <2>1, <2>2 DEF IocNotFound, TypeOK
<1>18. CASE RequestEnds(t)
  BY <1>18, <1>p, ReturnType DEF RequestEnds, TypeOK
<1>19. CASE CancelFirst(t)
  <2>1. First(f.list) \in Ids /\ [book EXCEPT ![f.list] = Tail(@)] \in [Lists -> Seq(Entry)]
    BY <1>19, <1>c, FirstType DEF CancelFirst, f
  <2>2. status' \in [Ids -> Status]
    BY <1>19, <1>s, <2>1 DEF CancelFirst, Status, f
  <2> QED BY <1>19, <2>1, <2>2 DEF CancelFirst, TypeOK, f
<1>20. CASE CancelNext(t)
  <2>1. ListAfter[f.list] \in Lists
    BY <1>20, <1>c DEF CancelNext, ListAfter, Lists, f
  <2> QED BY <1>20, <1>c, <2>1, ListFrameTypes, GotoType DEF CancelNext, TypeOK, f
<1>21. CASE StopEnds(t)
  BY <1>21, <1>c, ReturnType DEF StopEnds, TypeOK
<1> QED BY <1>1, <1>2, <1>3, <1>4, <1>5, <1>6, <1>7, <1>8, <1>9, <1>10, <1>11, <1>12, <1>13, <1>14,
          <1>15, <1>16, <1>17, <1>18, <1>19, <1>20, <1>21 DEF Continue

LEMMA InitTypes == Init => TypeOK
<1>1. Blank \in OrderRecord
  BY DEF Blank, MakeOrder, WithPending, ActualPending, OrderRecord, Side, OrderType, TimeInForce
<1>2. <<>> \in Seq(Entry) /\ <<>> \in Seq(FrameRecord) /\ <<>> \in Seq(Answer)
  BY ShortSequences, Zenon
<1>3. ASSUME Init PROVE TypeOK
  <2>1. book \in [Lists -> Seq(Entry)] /\ stack \in [Threads -> Seq(FrameRecord)]
        /\ answers \in [Threads -> Seq(Answer)]
    BY <1>2, <1>3 DEF Init
  <2>2. order \in [Ids -> OrderRecord] /\ status \in [Ids -> Status]
    BY <1>1, <1>3 DEF Init, Status
  <2>3. ltp \in Int /\ volume \in Int /\ mutex \in Threads \cup {Free}
    BY <1>3 DEF Init
  <2>4. active \in BOOLEAN /\ changed \in BOOLEAN
    BY <1>3, Zenon DEF Init
  <2> QED BY <2>1, <2>2, <2>3, <2>4, Zenon DEF TypeOK
<1> QED BY <1>3

LEMMA NextTypes == TypeOK /\ [Next]_vars => TypeOK'
<1> SUFFICES ASSUME TypeOK, [Next]_vars PROVE TypeOK'
  OBVIOUS
<1>1. ASSUME NEW t \in Sessions, Request(t) PROVE TypeOK'
  BY <1>1, RequestTypes
<1>2. ASSUME NEW t \in Consoles, Command(t) PROVE TypeOK'
  <2>1. Frame("cancelAll", None, "buy") \in FrameRecord /\ t \in Threads
    BY ListFrameTypes DEF Lists, Threads
  <2>2. CASE Stop(t)
    BY <2>1, <2>2, ShortSequences DEF Stop, Begin, TypeOK
  <2>3. CASE Start(t)
    BY <2>3 DEF Start, TypeOK
  <2> QED BY <1>2, <2>2, <2>3 DEF Command
<1>3. ASSUME NEW t \in Threads, Continue(t) PROVE TypeOK'
  BY <1>3, ContinueTypes
<1>4. CASE UNCHANGED vars
  BY <1>4 DEF vars, TypeOK
<1> QED BY <1>1, <1>2, <1>3, <1>4 DEF Next

(* Every reachable state has the types of TypeOK: a frame that matches,    *)
(* places or cancels an order always names one, of the right list.         *)
THEOREM TypeCorrect == Spec => []TypeOK
BY InitTypes, NextTypes, PTL DEF Spec

-----------------------------------------------------------------------------
(* Mutual exclusion.  A thread unlocks the mutex when the topmost frame    *)
(* leaves the loop, so the invariant must know that no other frame of its  *)
(* stack is in a loop as well.                                             *)
LoopInv ==
  \A t \in Threads : \A d \in DOMAIN stack[t] :
    BuyLoop(stack[t][d]) =>
      /\ mutex = t
      /\ \A e \in DOMAIN stack[t] : BuyLoop(stack[t][e]) => e = d

(* The step of thread t starts no buy loop.                                *)
NoNewLoop(t) ==
  /\ \A u \in Threads \ {t} : stack'[u] = stack[u]
  /\ \A d \in DOMAIN stack'[t] :
       BuyLoop(stack'[t][d]) => d \in DOMAIN stack[t] /\ BuyLoop(stack[t][d])

LEMMA NoNewLoopKeeps ==
  ASSUME LoopInv, NEW t \in Threads, NoNewLoop(t), mutex' = mutex
  PROVE  LoopInv'
<1>1. ASSUME NEW u \in Threads, NEW d \in DOMAIN stack'[u], BuyLoop(stack'[u][d])
      PROVE  d \in DOMAIN stack[u] /\ BuyLoop(stack[u][d])
  BY <1>1 DEF NoNewLoop
<1> QED BY <1>1 DEF LoopInv

LEMMA GotoLoops ==
  ASSUME TypeOK, NEW t \in Threads, ~Idle(t), NEW f \in FrameRecord, Goto(t, f),
         BuyLoop(f) => BuyLoop(Top(t))
  PROVE  NoNewLoop(t)
<1>1. /\ Append(Front(stack[t]), f) \in Seq(FrameRecord)
      /\ Len(Append(Front(stack[t]), f)) = Len(stack[t])
      /\ \A i \in 1 .. Len(stack[t]) - 1 : Append(Front(stack[t]), f)[i] = stack[t][i]
      /\ Append(Front(stack[t]), f)[Len(stack[t])] = f
  BY TopType, ReplaceLastElements
<1>2. stack'[t] = Append(Front(stack[t]), f) /\ \A u \in Threads \ {t} : stack'[u] = stack[u]
  BY DEF Goto, TypeOK
<1>3. DOMAIN stack'[t] = 1 .. Len(stack[t])
  BY <1>1, <1>2, LenProperties
<1>4. Len(stack[t]) \in Nat \ {0} /\ DOMAIN stack[t] = 1 .. Len(stack[t])
  BY TopType
<1> QED BY <1>1, <1>2, <1>3, <1>4 DEF NoNewLoop, Top

LEMMA ReturnLoops ==
  ASSUME TypeOK, NEW t \in Threads, ~Idle(t), Return(t)
  PROVE  NoNewLoop(t)
<1>1. /\ Front(stack[t]) \in Seq(FrameRecord) /\ Len(Front(stack[t])) = Len(stack[t]) - 1
      /\ \A i \in 1 .. Len(stack[t]) - 1 : Front(stack[t])[i] = stack[t][i]
  BY TopType, FrontElements
<1>2. stack'[t] = Front(stack[t]) /\ \A u \in Threads \ {t} : stack'[u] = stack[u]
  BY DEF Return, TypeOK
<1>3. DOMAIN stack'[t] = 1 .. Len(stack[t]) - 1
  BY <1>1, <1>2, LenProperties
<1>4. Len(stack[t]) \in Nat \ {0} /\ DOMAIN stack[t] = 1 .. Len(stack[t])
  BY TopType
<1> QED BY <1>1, <1>2, <1>3, <1>4 DEF NoNewLoop

LEMMA CallLoops ==
  ASSUME TypeOK, NEW t \in Threads, NEW f \in FrameRecord, Call(t, f), ~BuyLoop(f)
  PROVE  NoNewLoop(t)
<1>1. stack[t] \in Seq(FrameRecord) /\ Len(stack[t]) \in Nat /\ DOMAIN stack[t] = 1 .. Len(stack[t])
  BY LenProperties DEF TypeOK
<1>2. /\ Append(stack[t], f) \in Seq(FrameRecord) /\ Len(Append(stack[t], f)) = Len(stack[t]) + 1
      /\ \A i \in 1 .. Len(stack[t]) : Append(stack[t], f)[i] = stack[t][i]
      /\ Append(stack[t], f)[Len(stack[t]) + 1] = f
  BY <1>1, AppendElements
<1>3. stack'[t] = Append(stack[t], f) /\ \A u \in Threads \ {t} : stack'[u] = stack[u]
  BY DEF Call, TypeOK
<1>4. DOMAIN stack'[t] = 1 .. Len(stack[t]) + 1
  BY <1>2, <1>3, LenProperties
<1> QED BY <1>1, <1>2, <1>3, <1>4 DEF NoNewLoop

LEMMA BeginLoops ==
  ASSUME TypeOK, NEW t \in Threads, NEW f \in FrameRecord, ~BuyLoop(f),
         \/ Begin(t, <<f>>)
         \/ \E g \in FrameRecord : ~BuyLoop(g) /\ Begin(t, <<f, g>>)
  PROVE  NoNewLoop(t)
<1>1. CASE Begin(t, <<f>>)
  <2>1. stack'[t] = <<f>> /\ \A u \in Threads \ {t} : stack'[u] = stack[u]
    BY <1>1 DEF Begin, TypeOK
  <2> QED BY <2>1 DEF NoNewLoop
<1>2. ASSUME NEW g \in FrameRecord, ~BuyLoop(g), Begin(t, <<f, g>>)
      PROVE  NoNewLoop(t)
  <2>1. stack'[t] = <<f, g>> /\ \A u \in Threads \ {t} : stack'[u] = stack[u]
    BY <1>2 DEF Begin, TypeOK
  <2> QED BY <1>2, <2>1 DEF NoNewLoop
<1> QED BY <1>1, <1>2

(* A thread that leaves the loop with its topmost frame unlocks; nobody    *)
(* else was in a loop.                                                     *)
LEMMA LeavingUnlocks ==
  ASSUME TypeOK, LoopInv, NEW t \in Threads, ~Idle(t), BuyLoop(Top(t)),
         NEW f \in FrameRecord, ~BuyLoop(f), Goto(t, f)
  PROVE  LoopInv'
<1>1. NoNewLoop(t)
  BY GotoLoops
<1>2. Len(stack[t]) \in DOMAIN stack[t] /\ BuyLoop(stack[t][Len(stack[t])])
  BY TopType DEF Top
<1>3. \A u \in Threads \ {t} : \A d \in DOMAIN stack[u] : ~BuyLoop(stack[u][d])
  BY <1>2 DEF LoopInv
<1>4. \A d \in DOMAIN stack[t] : BuyLoop(stack[t][d]) => d = Len(stack[t])
  BY <1>2 DEF LoopInv
<1>5. stack'[t][Len(stack[t])] = f
  <2>1. stack'[t] = Append(Front(stack[t]), f)
    BY DEF Goto, TypeOK
  <2> QED BY <2>1, TopType, ReplaceLastElements
<1>6. \A d \in DOMAIN stack'[t] : ~BuyLoop(stack'[t][d])
  BY <1>1, <1>4, <1>5 DEF NoNewLoop
<1>7. \A u \in Threads : \A d \in DOMAIN stack'[u] : ~BuyLoop(stack'[u][d])
  BY <1>1, <1>3, <1>6 DEF NoNewLoop
<1> QED BY <1>7 DEF LoopInv

LEMMA FramesOutsideLoops ==
  ASSUME NEW id, NEW l \in Lists, NEW type
  PROVE  /\ \A pc : pc \notin {"match", "fill"} => ~BuyLoop(Frame(pc, id, l))
         /\ ~BuyLoop(Insertion(id, l)) /\ ~BuyLoop(Placement(id, l, type))
BY DEF BuyLoop, Frame, Insertion, Placement, Lists

LEMMA RequestLoops ==
  ASSUME TypeOK, LoopInv, NEW t \in Sessions, Request(t)
  PROVE  LoopInv'
<1>0. t \in Threads /\ TypeOK'
  BY RequestTypes DEF Threads
<1>f. ASSUME NEW id \in Ids, NEW o
      PROVE  LET l == ListOf(o.side) IN
             /\ {Frame("changed", id, l), Placement(id, l, o.type), AfterReplace(id, o, l),
                 Frame("moved", id, Found(id, l))} \subseteq FrameRecord
             /\ ~BuyLoop(Frame("changed", id, l)) /\ ~BuyLoop(Placement(id, l, o.type))
             /\ ~BuyLoop(AfterReplace(id, o, l)) /\ ~BuyLoop(Frame("moved", id, Found(id, l)))
  BY FrameTypes, ListFrameTypes, ListTypes, FramesOutsideLoops DEF AfterReplace, Found
<1>1. CASE \E id \in Ids : \E o \in NewOrders : Insert(t, id, o)
  <2>1. NoNewLoop(t) /\ mutex' = mutex
    BY <1>0, <1>1, <1>f, BeginLoops DEF Insert
  <2> QED BY <1>0, <2>1, NoNewLoopKeeps
<1>2. CASE \E id \in Ids : \E o \in ReplaceOrders :
             ReplaceKept(t, id, o) \/ ReplaceMoved(t, id, o) \/ ReplaceRejected(t, id, o)
  <2>1. NoNewLoop(t) /\ mutex' = mutex
    BY <1>0, <1>2, <1>f, BeginLoops DEF ReplaceKept, ReplaceMoved, ReplaceRejected
  <2> QED BY <1>0, <2>1, NoNewLoopKeeps
<1>3. CASE stack' = stack /\ mutex' = mutex
  BY <1>3 DEF LoopInv
<1>4. \/ \E id \in Ids : \E o \in NewOrders : Insert(t, id, o)
      \/ \E id \in Ids : \E o \in ReplaceOrders :
           ReplaceKept(t, id, o) \/ ReplaceMoved(t, id, o) \/ ReplaceRejected(t, id, o)
      \/ stack' = stack /\ mutex' = mutex
  BY DEF Request, InsertWhenClosed, ReplaceWhenClosed, Cancel, CancelRejected
<1> QED BY <1>1, <1>2, <1>3, <1>4

(* lock() is the only step that starts a loop, and it needs the mutex.     *)
LEMMA LockLoops ==
  ASSUME TypeOK, LoopInv, NEW t \in Threads, Lock(t)
  PROVE  LoopInv'
<1> DEFINE f == [Top(t) EXCEPT !.pc = "match"]
<1>1. ~Idle(t) /\ mutex = Free /\ mutex' = t /\ Goto(t, f) /\ Top(t).pc = "lock"
  BY DEF Lock, At
<1>2. f \in FrameRecord
  BY <1>1, TopType DEF FrameRecord
<1> HIDE DEF f
<1>3. \A u \in Threads : \A d \in DOMAIN stack[u] : ~BuyLoop(stack[u][d])
  BY <1>1, NamesAssumption DEF LoopInv
<1>4. stack'[t] = Append(Front(stack[t]), f) /\ \A u \in Threads \ {t} : stack'[u] = stack[u]
  BY <1>1 DEF Goto, TypeOK
<1>5. /\ stack'[t] \in Seq(FrameRecord) /\ Len(stack'[t]) = Len(stack[t])
      /\ \A i \in 1 .. Len(stack[t]) - 1 : stack'[t][i] = stack[t][i]
  BY <1>1, <1>2, <1>4, TopType, ReplaceLastElements
<1>6. /\ Len(stack[t]) \in Nat \ {0} /\ DOMAIN stack[t] = 1 .. Len(stack[t])
      /\ DOMAIN stack'[t] = 1 .. Len(stack[t])
  BY <1>1, <1>5, TopType, LenProperties
<1>7. \A d \in DOMAIN stack'[t] : BuyLoop(stack'[t][d]) => d = Len(stack[t])
  BY <1>3, <1>5, <1>6
<1> QED BY <1>1, <1>3, <1>4, <1>7 DEF LoopInv

LEMMA ContinueLoops ==
  ASSUME TypeOK, LoopInv, NEW t \in Threads, Continue(t)
  PROVE  LoopInv'
<1> DEFINE f == Top(t)
<1>0. ~Idle(t) /\ f \in FrameRecord
  <2>1. ~Idle(t)
    BY DEF Continue, Move, MoveRejected, StopFires, StopRests, Lock, Match, MatchEnds, Fill,
           FillEmptied, RestDone, RestCanceled, Rest, TriggerFirst, TriggerSells, TriggerEnds,
           IocCancels, IocNotFound, RequestEnds, CancelFirst, CancelNext, StopEnds, At
  <2> QED BY <2>1, TopType
<1>p. ASSUME NEW pc, At(t, pc)
      PROVE  /\ f.pc = pc /\ f.list \in Lists
             /\ pc \in {"stop", "lock", "match", "rest", "ioc", "changed", "fill"} =>
                  f.id \in Ids /\ f.list \in {"buy", "sell"}
             /\ pc = "moved" => f.id \in Ids
             /\ pc = "match" => f \in [pc : {"match"}, id : Ids, list : {"buy", "sell"},
                                       opp : {None}, qty : {0}]
  BY <1>p, <1>0 DEF At, FrameRecord, Lists
<1> HIDE DEF f
<1>g. ASSUME NEW g \in FrameRecord, Goto(t, g), BuyLoop(g) => BuyLoop(f), mutex' = mutex
      PROVE  LoopInv'
  BY <1>0, <1>g, GotoLoops, NoNewLoopKeeps DEF f
<1>r. ASSUME Return(t), mutex' = mutex PROVE LoopInv'
  BY <1>0, <1>r, ReturnLoops, NoNewLoopKeeps
<1>l. ASSUME NEW g \in FrameRecord, ~BuyLoop(g), Goto(t, g), Unlock(f.list), f.pc \in {"match", "fill"},
             f.list \in {"buy", "sell"}
      PROVE  LoopInv'
  <2>1. CASE f.list = "buy"
    BY <1>0, <1>l, <2>1, LeavingUnlocks DEF f, BuyLoop
  <2>2. CASE f.list = "sell"
    <3>1. mutex' = mutex
      BY <1>l, <2>2 DEF Unlock
    <3> QED BY <1>l, <1>g, <3>1
  <2> QED BY <1>l, <2>1, <2>2
<1>1. CASE Move(t)
  <2>1. Placement(f.id, RestSide(f.list), order[f.id].type) \in FrameRecord
        /\ ~BuyLoop(Placement(f.id, RestSide(f.list), order[f.id].type))
    BY <1>1, <1>p, FrameTypes, ListTypes, FramesOutsideLoops DEF Move
  <2> QED BY <1>1, <1>g, <2>1 DEF Move, f
<1>2. CASE StopFires(t)
  <2>1. Insertion(f.id, f.list) \in FrameRecord /\ ~BuyLoop(Insertion(f.id, f.list))
    BY <1>2, <1>p, FrameTypes, FramesOutsideLoops DEF StopFires
  <2> QED BY <1>2, <1>g, <2>1 DEF StopFires, f
<1>3. CASE Lock(t)
  BY <1>3, LockLoops
<1>4. CASE Match(t)
  <2> DEFINE opp == First(Opposite(f.list))
             g == [f EXCEPT !.pc = "fill", !.opp = opp,
                     !.qty = Smaller(order[f.id].pending, order[opp].pending)]
  <2>1. NoNewLoop(t) /\ mutex' = mutex
    <3>1. f \in [pc : {"match"}, id : Ids, list : {"buy", "sell"}, opp : {None}, qty : {0}]
      BY <1>4, <1>p DEF Match
    <3>2. opp \in Ids
      BY <1>4, <3>1, FirstType, ListTypes DEF Match, CanTrade, f
    <3>3. Smaller(order[f.id].pending, order[opp].pending) \in Int
      BY <3>1, <3>2 DEF Smaller, TypeOK, OrderRecord
    <3> HIDE DEF opp
    <3>4. g \in FrameRecord /\ (BuyLoop(g) => BuyLoop(f))
      BY <3>1, <3>2, <3>3 DEF FrameRecord, BuyLoop
    <3>5. Goto(t, g) /\ mutex' = mutex
      BY <1>4 DEF Match, f, opp
    <3> QED BY <1>0, <3>4, <3>5, GotoLoops DEF f
  <2> QED BY <2>1, NoNewLoopKeeps
<1>5. CASE MatchEnds(t)
  <2>1. [f EXCEPT !.pc = "rest"] \in FrameRecord /\ ~BuyLoop([f EXCEPT !.pc = "rest"])
    BY <1>5, <1>p DEF MatchEnds, FrameRecord, BuyLoop
  <2> QED BY <1>5, <1>p, <1>l, <2>1 DEF MatchEnds, f
<1>6. CASE FillEmptied(t)
  <2>1. Frame("rest", f.id, f.list) \in FrameRecord /\ ~BuyLoop(Frame("rest", f.id, f.list))
    BY <1>6, <1>p, FrameTypes, FramesOutsideLoops DEF FillEmptied
  <2> QED BY <1>6, <1>p, <1>l, <2>1 DEF FillEmptied, f
<1>7. CASE Fill(t)
  <2> DEFINE m == Frame("match", f.id, f.list)
             c == Frame("trigger", None, "stopBuy")
  <2>1. m \in FrameRecord /\ c \in FrameRecord /\ ~BuyLoop(c) /\ (BuyLoop(m) => BuyLoop(f))
    BY <1>7, <1>p, FrameTypes, ListFrameTypes DEF Fill, BuyLoop, Frame
  <2>2. stack'[t] = Front(stack[t]) \o <<m, c>> /\ \A u \in Threads \ {t} : stack'[u] = stack[u]
    BY <1>7 DEF Fill, TypeOK, f
  <2> HIDE DEF m, c
  <2>3. /\ stack'[t] \in Seq(FrameRecord) /\ Len(stack'[t]) = Len(stack[t]) + 1
        /\ \A i \in 1 .. Len(stack[t]) - 1 : stack'[t][i] = stack[t][i]
        /\ stack'[t][Len(stack[t])] = m /\ stack'[t][Len(stack[t]) + 1] = c
    <3>1. stack[t] \in Seq(FrameRecord) /\ stack[t] # <<>>
      BY <1>0, TopType
    <3>2. /\ Front(stack[t]) \o <<m, c>> \in Seq(FrameRecord)
          /\ Len(Front(stack[t]) \o <<m, c>>) = Len(stack[t]) + 1
          /\ \A i \in 1 .. Len(stack[t]) - 1 : (Front(stack[t]) \o <<m, c>>)[i] = stack[t][i]
          /\ (Front(stack[t]) \o <<m, c>>)[Len(stack[t])] = m
          /\ (Front(stack[t]) \o <<m, c>>)[Len(stack[t]) + 1] = c
      <4>1. \A s \in Seq(FrameRecord) : s # <<>> =>
              /\ Front(s) \o <<m, c>> \in Seq(FrameRecord)
              /\ Len(Front(s) \o <<m, c>>) = Len(s) + 1
              /\ \A i \in 1 .. Len(s) - 1 : (Front(s) \o <<m, c>>)[i] = s[i]
              /\ (Front(s) \o <<m, c>>)[Len(s)] = m
              /\ (Front(s) \o <<m, c>>)[Len(s) + 1] = c
        BY <2>1, ReplaceLastByTwoElements
      <4> QED BY <3>1, <4>1, Zenon
    <3> QED BY <2>2, <3>2
  <2>4. /\ Len(stack[t]) \in Nat \ {0} /\ DOMAIN stack[t] = 1 .. Len(stack[t])
        /\ DOMAIN stack'[t] = 1 .. Len(stack[t]) + 1
    BY <1>0, <2>3, TopType, LenProperties
  <2>5. NoNewLoop(t)
    <3>1. f = stack[t][Len(stack[t])]
      BY DEF f, Top
    <3>2. ASSUME NEW d \in DOMAIN stack'[t], BuyLoop(stack'[t][d])
          PROVE  d \in DOMAIN stack[t] /\ BuyLoop(stack[t][d])
      <4>1. d \in 1 .. Len(stack[t]) - 1 \/ d = Len(stack[t]) \/ d = Len(stack[t]) + 1
        BY <2>4
      <4>2. d # Len(stack[t]) + 1
        BY <2>1, <2>3, <3>2
      <4>3. CASE d = Len(stack[t])
        BY <2>1, <2>3, <2>4, <3>1, <3>2, <4>3
      <4>4. CASE d \in 1 .. Len(stack[t]) - 1
        BY <2>3, <2>4, <3>2, <4>4
      <4> QED BY <4>1, <4>2, <4>3, <4>4
    <3> QED BY <2>2, <3>2 DEF NoNewLoop
  <2>6. mutex' = mutex
    BY <1>7 DEF Fill
  <2> QED BY <2>5, <2>6, NoNewLoopKeeps
<1>8. CASE MoveRejected(t) \/ StopRests(t) \/ RestDone(t) \/ RestCanceled(t) \/ Rest(t)
           \/ TriggerEnds(t) \/ RequestEnds(t) \/ StopEnds(t)
  BY <1>8, <1>r DEF MoveRejected, StopRests, RestDone, RestCanceled, Rest, TriggerEnds, RequestEnds, StopEnds
<1>9. CASE TriggerFirst(t)
  <2> DEFINE g == Insertion(First(f.list), RestList(f.list))
  <2>1. First(f.list) \in Ids
    BY <1>9, <1>p, FirstType DEF TriggerFirst, FirstTriggered, f
  <2>2. g \in FrameRecord /\ ~BuyLoop(g)
    BY <2>1, FrameTypes, ListTypes, FramesOutsideLoops
  <2>3. Call(t, g) /\ mutex' = mutex
    BY <1>9 DEF TriggerFirst, f
  <2> HIDE DEF g
  <2> QED BY <2>2, <2>3, CallLoops, NoNewLoopKeeps
<1>10. CASE TriggerSells(t)
  <2>1. Frame("trigger", None, "stopSell") \in FrameRecord /\ ~BuyLoop(Frame("trigger", None, "stopSell"))
    BY ListFrameTypes, FramesOutsideLoops DEF Lists
  <2> QED BY <1>10, <1>g, <2>1 DEF TriggerSells
<1>11. CASE IocCancels(t) \/ IocNotFound(t)
  <2>1. Frame("changed", f.id, f.list) \in FrameRecord /\ ~BuyLoop(Frame("changed", f.id, f.list))
    BY <1>11, <1>p, FrameTypes, FramesOutsideLoops DEF IocCancels, IocNotFound
  <2> QED BY <1>11, <1>g, <2>1 DEF IocCancels, IocNotFound, f
<1>12. CASE CancelFirst(t)
  BY <1>12 DEF CancelFirst, LoopInv
<1>13. CASE CancelNext(t)
  <2>1. ListAfter[f.list] \in Lists
    BY <1>13, <1>p DEF CancelNext, ListAfter, Lists, f
  <2>2. Frame("cancelAll", None, ListAfter[f.list]) \in FrameRecord
        /\ ~BuyLoop(Frame("cancelAll", None, ListAfter[f.list]))
    BY <2>1, ListFrameTypes, FramesOutsideLoops
  <2> QED BY <1>13, <1>g, <2>2 DEF CancelNext, f
<1> QED BY <1>1, <1>2, <1>3, <1>4, <1>5, <1>6, <1>7, <1>8, <1>9, <1>10, <1>11, <1>12, <1>13 DEF Continue

LEMMA NextLoops == TypeOK /\ LoopInv /\ [Next]_vars => LoopInv'
<1> SUFFICES ASSUME TypeOK, LoopInv, [Next]_vars PROVE LoopInv'
  OBVIOUS
<1>1. ASSUME NEW t \in Sessions, Request(t) PROVE LoopInv'
  BY <1>1, RequestLoops
<1>2. ASSUME NEW t \in Consoles, Command(t) PROVE LoopInv'
  <2>1. CASE Stop(t)
    <3> DEFINE g == Frame("cancelAll", None, "buy")
    <3>1. g \in FrameRecord /\ ~BuyLoop(g) /\ t \in Threads
      BY ListFrameTypes, FramesOutsideLoops DEF Lists, Threads
    <3>2. Begin(t, <<g>>) /\ mutex' = mutex
      BY <2>1 DEF Stop
    <3> HIDE DEF g
    <3> QED BY <3>1, <3>2, BeginLoops, NoNewLoopKeeps
  <2>2. CASE Start(t)
    BY <2>2 DEF Start, LoopInv
  <2> QED BY <1>2, <2>1, <2>2 DEF Command
<1>3. ASSUME NEW t \in Threads, Continue(t) PROVE LoopInv'
  BY <1>3, ContinueLoops
<1>4. CASE UNCHANGED vars
  BY <1>4 DEF vars, LoopInv
<1> QED BY <1>1, <1>2, <1>3, <1>4 DEF Next

(* For any number of sessions and consoles, at most one thread is inside   *)
(* the matching loop of insertBuy, nested calls included: the owner of     *)
(* _mutexOnMatch.  insertSell has no part in it.                           *)
THEOREM MutualExclusion == Spec => []OneBuyLoop
<1>1. Init => LoopInv
  BY DEF Init, LoopInv
<1>2. LoopInv => OneBuyLoop
  BY DEF LoopInv, OneBuyLoop, InBuyLoop
<1> QED BY <1>1, <1>2, InitTypes, NextTypes, NextLoops, PTL DEF Spec

-----------------------------------------------------------------------------
(* Where orders are, for any number of threads: an order rests in at most  *)
(* one place, under the key it has, an immediate-or-cancel order only      *)
(* while someone is about to cancel it, and only the head of a list is     *)
(* filled, in trades that balance.                                         *)

(* The frames of a call that will place an order.                          *)
Placing(f) == f.pc \in {"stop", "lock", "match", "fill", "rest"}

(* No list has an order twice, and no other list has it.                   *)
Distinct ==
  \A l, m \in Lists : \A p \in DOMAIN book[l], q \in DOMAIN book[m] :
    book[l][p].id = book[m][q].id => l = m /\ p = q

(* One call places an order, and while it does the order rests nowhere.    *)
Apart ==
  \A t \in Threads : \A d \in DOMAIN stack[t] :
    Placing(stack[t][d]) =>
      /\ \A l \in Lists : ~Holds(l, stack[t][d].id)
      /\ \A u \in Threads : \A e \in DOMAIN stack[u] :
           Placing(stack[u][e]) /\ stack[u][e].id = stack[t][d].id => u = t /\ e = d

(* An id that was not handed out names nothing.                            *)
FreshIds ==
  \A id \in Ids : status[id] = "NONE" =>
    /\ \A l \in Lists : ~Holds(l, id)
    /\ \A t \in Threads : \A d \in DOMAIN stack[t] :
         Placing(stack[t][d]) => stack[t][d].id # id

HomeInv == Distinct /\ Apart /\ FreshIds

(* Each list is in the order of its keys.                                  *)
Sorted ==
  \A l \in Lists : \A p, q \in DOMAIN book[l] :
    p < q => Ahead(l, book[l][p].key, book[l][q].key)

(* The order is on its way from this list to another place.                *)
Moving(l, id) == \E t \in Threads : At(t, "moved") /\ Top(t).id = id /\ Top(t).list = l

(* An entry has its order's key, and is in a list of its order's side.     *)
EntriesInv ==
  \A l \in Lists : \A p \in DOMAIN book[l] :
    /\ EntryIsCurrent(l, book[l][p]) \/ Moving(l, book[l][p].id)
    /\ ListOf(order[book[l][p].id].side) = RestSide(l)

(* A call has an order of its side, and of its kind.                       *)
FramesInv ==
  \A t \in Threads : \A d \in DOMAIN stack[t] :
    Placing(stack[t][d]) =>
      /\ ListOf(order[stack[t][d].id].side) = stack[t][d].list
      /\ stack[t][d].pc = "stop" <=> IsStop(order[stack[t][d].id].type)

CurrentInv == Sorted /\ EntriesInv /\ FramesInv

(* Some thread will cancel the order when its replace is over.             *)
ToBeCanceled(l, id) ==
  \E t \in Threads : \E d \in DOMAIN stack[t] :
    stack[t][d].pc = "ioc" /\ stack[t][d].id = id /\ stack[t][d].list = l

IocInv ==
  \A l \in {"buy", "sell"} : \A p \in DOMAIN book[l] :
    order[book[l][p].id].tif = "IOC" => ToBeCanceled(l, book[l][p].id)

PlacesInv == HomeInv /\ CurrentInv /\ IocInv

-----------------------------------------------------------------------------
(* What the stack operators do to each frame.                              *)
LEMMA StackTypes ==
  ASSUME TypeOK, NEW t \in Threads
  PROVE  /\ stack[t] \in Seq(FrameRecord) /\ Len(stack[t]) \in Nat
         /\ DOMAIN stack[t] = 1 .. Len(stack[t])
         /\ \A d \in DOMAIN stack[t] : stack[t][d] \in FrameRecord
         /\ Idle(t) => DOMAIN stack[t] = {}
<1>1. stack[t] \in Seq(FrameRecord) /\ Len(stack[t]) \in Nat /\ DOMAIN stack[t] = 1 .. Len(stack[t])
  BY LenProperties DEF TypeOK
<1>2. \A d \in DOMAIN stack[t] : stack[t][d] \in FrameRecord
  BY <1>1, ElementOfSeq
<1>3. Idle(t) => DOMAIN stack[t] = {}
  BY DEF Idle
<1> QED BY <1>1, <1>2, <1>3

Others(t) == \A u \in Threads \ {t} : stack'[u] = stack[u]

LEMMA GotoFrames ==
  ASSUME TypeOK, NEW t \in Threads, ~Idle(t), NEW f \in FrameRecord, Goto(t, f)
  PROVE  /\ Others(t) /\ Len(stack[t]) \in Nat \ {0}
         /\ DOMAIN stack[t] = 1 .. Len(stack[t]) /\ DOMAIN stack'[t] = 1 .. Len(stack[t])
         /\ \A d \in 1 .. Len(stack[t]) - 1 : stack'[t][d] = stack[t][d]
         /\ stack'[t][Len(stack[t])] = f
<1>1. /\ Append(Front(stack[t]), f) \in Seq(FrameRecord)
      /\ Len(Append(Front(stack[t]), f)) = Len(stack[t])
      /\ \A d \in 1 .. Len(stack[t]) - 1 : Append(Front(stack[t]), f)[d] = stack[t][d]
      /\ Append(Front(stack[t]), f)[Len(stack[t])] = f
  BY TopType, ReplaceLastElements
<1>2. stack'[t] = Append(Front(stack[t]), f) /\ Others(t)
  BY DEF Goto, TypeOK, Others
<1> QED BY <1>1, <1>2, TopType, LenProperties

LEMMA ReturnFrames ==
  ASSUME TypeOK, NEW t \in Threads, ~Idle(t), Return(t)
  PROVE  /\ Others(t) /\ Len(stack[t]) \in Nat \ {0}
         /\ DOMAIN stack[t] = 1 .. Len(stack[t]) /\ DOMAIN stack'[t] = 1 .. Len(stack[t]) - 1
         /\ \A d \in 1 .. Len(stack[t]) - 1 : stack'[t][d] = stack[t][d]
<1>1. /\ Front(stack[t]) \in Seq(FrameRecord) /\ Len(Front(stack[t])) = Len(stack[t]) - 1
      /\ \A d \in 1 .. Len(stack[t]) - 1 : Front(stack[t])[d] = stack[t][d]
  BY TopType, FrontElements
<1>2. stack'[t] = Front(stack[t]) /\ Others(t)
  BY DEF Return, TypeOK, Others
<1> QED BY <1>1, <1>2, TopType, LenProperties

LEMMA CallFrames ==
  ASSUME TypeOK, NEW t \in Threads, NEW f \in FrameRecord, Call(t, f)
  PROVE  /\ Others(t) /\ Len(stack[t]) \in Nat
         /\ DOMAIN stack[t] = 1 .. Len(stack[t]) /\ DOMAIN stack'[t] = 1 .. Len(stack[t]) + 1
         /\ \A d \in 1 .. Len(stack[t]) : stack'[t][d] = stack[t][d]
         /\ stack'[t][Len(stack[t]) + 1] = f
<1>1. stack[t] \in Seq(FrameRecord) /\ Len(stack[t]) \in Nat /\ DOMAIN stack[t] = 1 .. Len(stack[t])
  BY StackTypes
<1>2. /\ Append(stack[t], f) \in Seq(FrameRecord) /\ Len(Append(stack[t], f)) = Len(stack[t]) + 1
      /\ \A d \in 1 .. Len(stack[t]) : Append(stack[t], f)[d] = stack[t][d]
      /\ Append(stack[t], f)[Len(stack[t]) + 1] = f
  BY <1>1, AppendElements
<1>3. stack'[t] = Append(stack[t], f) /\ Others(t)
  BY DEF Call, TypeOK, Others
<1> QED BY <1>1, <1>2, <1>3, LenProperties

LEMMA BeginFrames ==
  ASSUME TypeOK, NEW t \in Threads, Idle(t), NEW f \in FrameRecord, NEW g \in FrameRecord
  PROVE  /\ DOMAIN stack[t] = {}
         /\ Begin(t, <<f>>) => Others(t) /\ DOMAIN stack'[t] = {1} /\ stack'[t][1] = f
         /\ Begin(t, <<f, g>>) => /\ Others(t) /\ DOMAIN stack'[t] = {1, 2}
                                  /\ stack'[t][1] = f /\ stack'[t][2] = g
<1>1. Begin(t, <<f>>) => Others(t) /\ stack'[t] = <<f>>
  BY DEF Begin, TypeOK, Others
<1>2. Begin(t, <<f, g>>) => Others(t) /\ stack'[t] = <<f, g>>
  BY DEF Begin, TypeOK, Others
<1>3. DOMAIN <<f>> = {1} /\ <<f>>[1] = f
  OBVIOUS
<1>4. DOMAIN <<f, g>> = {1, 2} /\ <<f, g>>[1] = f /\ <<f, g>>[2] = g
  OBVIOUS
<1> QED BY <1>1, <1>2, <1>3, <1>4, StackTypes

LEMMA FillFrames ==
  ASSUME TypeOK, NEW t \in Threads, ~Idle(t)
  PROVE  \A f, g \in FrameRecord :
           stack' = [stack EXCEPT ![t] = Front(@) \o <<f, g>>] =>
             /\ Others(t) /\ Len(stack[t]) \in Nat \ {0}
             /\ DOMAIN stack[t] = 1 .. Len(stack[t]) /\ DOMAIN stack'[t] = 1 .. Len(stack[t]) + 1
             /\ \A d \in 1 .. Len(stack[t]) - 1 : stack'[t][d] = stack[t][d]
             /\ stack'[t][Len(stack[t])] = f /\ stack'[t][Len(stack[t]) + 1] = g
<1> SUFFICES ASSUME NEW f \in FrameRecord, NEW g \in FrameRecord,
                    stack' = [stack EXCEPT ![t] = Front(@) \o <<f, g>>]
             PROVE  /\ Others(t) /\ Len(stack[t]) \in Nat \ {0}
                    /\ DOMAIN stack[t] = 1 .. Len(stack[t])
                    /\ DOMAIN stack'[t] = 1 .. Len(stack[t]) + 1
                    /\ \A d \in 1 .. Len(stack[t]) - 1 : stack'[t][d] = stack[t][d]
                    /\ stack'[t][Len(stack[t])] = f /\ stack'[t][Len(stack[t]) + 1] = g
  OBVIOUS
<1>1. stack'[t] = Front(stack[t]) \o <<f, g>> /\ Others(t)
  BY DEF TypeOK, Others
<1>2. /\ stack'[t] \in Seq(FrameRecord) /\ Len(stack'[t]) = Len(stack[t]) + 1
      /\ \A i \in 1 .. Len(stack[t]) - 1 : stack'[t][i] = stack[t][i]
      /\ stack'[t][Len(stack[t])] = f /\ stack'[t][Len(stack[t]) + 1] = g
  <2>1. stack[t] \in Seq(FrameRecord) /\ stack[t] # <<>>
    BY TopType
  <2>2. \A s \in Seq(FrameRecord) : s # <<>> =>
          /\ Front(s) \o <<f, g>> \in Seq(FrameRecord)
          /\ Len(Front(s) \o <<f, g>>) = Len(s) + 1
          /\ \A i \in 1 .. Len(s) - 1 : (Front(s) \o <<f, g>>)[i] = s[i]
          /\ (Front(s) \o <<f, g>>)[Len(s)] = f
          /\ (Front(s) \o <<f, g>>)[Len(s) + 1] = g
    BY ReplaceLastByTwoElements
  <2>3. /\ Front(stack[t]) \o <<f, g>> \in Seq(FrameRecord)
        /\ Len(Front(stack[t]) \o <<f, g>>) = Len(stack[t]) + 1
        /\ \A i \in 1 .. Len(stack[t]) - 1 : (Front(stack[t]) \o <<f, g>>)[i] = stack[t][i]
        /\ (Front(stack[t]) \o <<f, g>>)[Len(stack[t])] = f
        /\ (Front(stack[t]) \o <<f, g>>)[Len(stack[t]) + 1] = g
    BY <2>1, <2>2, Zenon
  <2> QED BY <1>1, <2>3
<1> QED BY <1>1, <1>2, TopType, LenProperties

-----------------------------------------------------------------------------
(* What the list operators do to each entry.                               *)
WillHold(l, id) == \E p \in DOMAIN book'[l] : book'[l][p].id = id

(* Where an entry of list m comes from when the one at index p of list l   *)
(* went; an index beyond the list's end drops nothing.                     *)
Origin(l, p, m, i) == IF m = l /\ i >= p THEN i + 1 ELSE i

Dropped(l, p) ==
  \A m \in Lists : \A i \in DOMAIN book'[m] :
    LET j == Origin(l, p, m, i) IN j \in DOMAIN book[m] /\ book'[m][i] = book[m][j]

Fewer == \E l \in Lists : \E p \in Nat : Dropped(l, p)

Inserted(l, p, e) ==
  /\ \A m \in Lists \ {l} : book'[m] = book[m]
  /\ p \in DOMAIN book'[l] /\ book'[l][p] = e
  /\ \A i \in DOMAIN book'[l] : i # p =>
       LET j == IF i < p THEN i ELSE i - 1 IN j \in DOMAIN book[l] /\ book'[l][i] = book[l][j]
  /\ \A j \in DOMAIN book[l] : Ahead(l, book[l][j].key, e.key) <=> j < p

LEMMA BookTypes ==
  ASSUME TypeOK, NEW l \in Lists
  PROVE  /\ book[l] \in Seq(Entry) /\ Len(book[l]) \in Nat
         /\ DOMAIN book[l] = 1 .. Len(book[l])
         /\ \A p \in DOMAIN book[l] : book[l][p] \in Entry
<1>1. book[l] \in Seq(Entry) /\ Len(book[l]) \in Nat /\ DOMAIN book[l] = 1 .. Len(book[l])
  BY LenProperties DEF TypeOK
<1> QED BY <1>1, ElementOfSeq

LEMMA EraseDrops ==
  ASSUME TypeOK, NEW l \in Lists, NEW id, EraseFrom(l, id)
  PROVE  \E p \in DOMAIN book[l] : p \in Nat /\ book[l][p].id = id /\ Dropped(l, p)
<1>1. PICK p \in DOMAIN book[l] :
        book[l][p].id = id /\ book' = [book EXCEPT ![l] = RemoveAt(@, p)]
  BY DEF EraseFrom
<1>2. /\ RemoveAt(book[l], p) \in Seq(Entry)
      /\ Len(RemoveAt(book[l], p)) = Len(book[l]) - 1
      /\ \A i \in 1 .. Len(book[l]) - 1 :
           RemoveAt(book[l], p)[i] = IF i < p THEN book[l][i] ELSE book[l][i + 1]
  BY BookTypes, RemoveAtElements
<1>3. book'[l] = RemoveAt(book[l], p) /\ \A m \in Lists \ {l} : book'[m] = book[m]
  BY <1>1 DEF TypeOK
<1>4. DOMAIN book'[l] = 1 .. Len(book[l]) - 1
  BY <1>2, <1>3, LenProperties
<1>5. p \in 1 .. Len(book[l]) /\ Len(book[l]) \in Nat
  BY BookTypes
<1>6. ASSUME NEW i \in DOMAIN book'[l]
      PROVE  Origin(l, p, l, i) \in DOMAIN book[l] /\ book'[l][i] = book[l][Origin(l, p, l, i)]
  BY <1>2, <1>3, <1>4, <1>5, BookTypes DEF Origin
<1>7. ASSUME NEW m \in Lists \ {l}, NEW i \in DOMAIN book'[m]
      PROVE  Origin(l, p, m, i) \in DOMAIN book[m] /\ book'[m][i] = book[m][Origin(l, p, m, i)]
  BY <1>3 DEF Origin
<1> QED BY <1>1, <1>5, <1>6, <1>7 DEF Dropped

LEMMA TailDrops ==
  ASSUME TypeOK, NEW l \in Lists, book[l] # <<>>, book' = [book EXCEPT ![l] = Tail(@)]
  PROVE  1 \in DOMAIN book[l] /\ book[l][1].id = First(l) /\ Dropped(l, 1)
<1>1. /\ Tail(book[l]) \in Seq(Entry) /\ Len(Tail(book[l])) = Len(book[l]) - 1
      /\ \A i \in 1 .. Len(book[l]) - 1 : Tail(book[l])[i] = book[l][i + 1]
      /\ Head(book[l]) = book[l][1] /\ Len(book[l]) \in Nat \ {0}
  BY BookTypes, TailElements
<1>2. book'[l] = Tail(book[l]) /\ \A m \in Lists \ {l} : book'[m] = book[m]
  BY DEF TypeOK
<1>3. DOMAIN book'[l] = 1 .. Len(book[l]) - 1
  BY <1>1, <1>2, LenProperties
<1>4. ASSUME NEW i \in DOMAIN book'[l]
      PROVE  Origin(l, 1, l, i) \in DOMAIN book[l] /\ book'[l][i] = book[l][Origin(l, 1, l, i)]
  BY <1>1, <1>2, <1>3, BookTypes DEF Origin
<1>5. ASSUME NEW m \in Lists \ {l}, NEW i \in DOMAIN book'[m]
      PROVE  Origin(l, 1, m, i) \in DOMAIN book[m] /\ book'[m][i] = book[m][Origin(l, 1, m, i)]
  BY <1>2 DEF Origin
<1> QED BY <1>1, <1>4, <1>5, BookTypes DEF Dropped, First

LEMMA SameBook ==
  ASSUME TypeOK, book' = book
  PROVE  Fewer
<1>1. "buy" \in Lists /\ Len(book["buy"]) + 1 \in Nat /\ DOMAIN book["buy"] = 1 .. Len(book["buy"])
  BY BookTypes DEF Lists
<1>2. Dropped("buy", Len(book["buy"]) + 1)
  BY <1>1, BookTypes DEF Dropped, Origin
<1> QED BY <1>1, <1>2 DEF Fewer

LEMMA InsertInserts ==
  ASSUME TypeOK, NEW l \in Lists, NEW key \in Int, NEW id \in Ids, InsertInto(l, key, id)
  PROVE  \E p \in Nat : Inserted(l, p, [key |-> key, id |-> id])
<1> DEFINE e == [key |-> key, id |-> id]
<1>1. PICK p \in 1 .. Len(book[l]) + 1 :
        /\ \A j \in DOMAIN book[l] : Ahead(l, book[l][j].key, key) <=> j < p
        /\ book' = [book EXCEPT ![l] = InsertAt(@, p, e)]
  BY DEF InsertInto
<1>2. e \in Entry /\ e.key = key
  BY DEF Entry
<1> HIDE DEF e
<1>3. /\ InsertAt(book[l], p, e) \in Seq(Entry)
      /\ Len(InsertAt(book[l], p, e)) = Len(book[l]) + 1
      /\ \A i \in 1 .. Len(book[l]) + 1 :
           InsertAt(book[l], p, e)[i] =
             IF i < p THEN book[l][i] ELSE IF i = p THEN e ELSE book[l][i - 1]
  BY <1>2, BookTypes, InsertAtElements
<1>4. book'[l] = InsertAt(book[l], p, e) /\ \A m \in Lists \ {l} : book'[m] = book[m]
  BY <1>1 DEF TypeOK
<1>5. DOMAIN book'[l] = 1 .. Len(book[l]) + 1 /\ Len(book[l]) \in Nat /\ DOMAIN book[l] = 1 .. Len(book[l])
  BY <1>3, <1>4, BookTypes, LenProperties
<1>6. p \in DOMAIN book'[l] /\ book'[l][p] = e /\ p \in Nat
  BY <1>3, <1>4, <1>5
<1>7. ASSUME NEW i \in DOMAIN book'[l], i # p
      PROVE  LET j == IF i < p THEN i ELSE i - 1 IN j \in DOMAIN book[l] /\ book'[l][i] = book[l][j]
  BY <1>3, <1>4, <1>5, <1>7
<1> QED BY <1>1, <1>2, <1>4, <1>6, <1>7 DEF Inserted, e

-----------------------------------------------------------------------------
(* The kinds of steps of thread t.  It takes up no order that its calls    *)
(* did not have; they stay calls of insertStopLoss or of insert; and a     *)
(* cancel that waits for a replace still waits, or finds nothing.          *)
SameJob(f, g) == Placing(g) /\ g.id = f.id /\ g.list = f.list

KeepsCalls(t) ==
  \A d \in DOMAIN stack'[t] :
    Placing(stack'[t][d]) => d \in DOMAIN stack[t] /\ SameJob(stack'[t][d], stack[t][d])

KeepsKinds(t) ==
  \A d \in DOMAIN stack'[t] :
    Placing(stack'[t][d]) => (stack'[t][d].pc = "stop" <=> stack[t][d].pc = "stop")

KeepsIoc(t) ==
  \A d \in DOMAIN stack[t] :
    stack[t][d].pc = "ioc" =>
      \/ d \in DOMAIN stack'[t] /\ stack'[t][d] = stack[t][d]
      \/ ~WillHold(stack[t][d].list, stack[t][d].id)

KeepsFrames(t) == Others(t) /\ KeepsCalls(t) /\ KeepsKinds(t) /\ KeepsIoc(t)

(* What no step but a replace, a trigger and Rest changes of any order.    *)
SameTerms(id) ==
  /\ order'[id].type = order[id].type /\ order'[id].price = order[id].price
  /\ order'[id].stop = order[id].stop

KeepsOrders ==
  \A id \in Ids : /\ SameTerms(id) /\ order'[id].side = order[id].side
                  /\ order'[id].tif = order[id].tif

KeepsIssued == \A id \in Ids : status'[id] = "NONE" => status[id] = "NONE"

(* Only the call that moves an order ends the time it is on the move.      *)
KeepsMoving(t) == At(t, "moved") => ~WillHold(Top(t).list, Top(t).id)

LEMMA FewerHold ==
  ASSUME TypeOK, Fewer, NEW l \in Lists
  PROVE  /\ \A p \in DOMAIN book'[l] : \E j \in DOMAIN book[l] : book'[l][p] = book[l][j]
         /\ \A id : WillHold(l, id) => Holds(l, id)
BY DEF Fewer, Dropped, WillHold, Holds

(* An order that is erased from the place it had has none.                 *)
LEMMA Erased ==
  ASSUME TypeOK, TypeOK', Distinct, NEW l \in Lists, NEW p \in DOMAIN book[l], p \in Nat, Dropped(l, p),
         NEW m \in Lists
  PROVE  ~WillHold(m, book[l][p].id)
<1> SUFFICES ASSUME NEW i \in DOMAIN book'[m], book'[m][i].id = book[l][p].id PROVE FALSE
  BY DEF WillHold
<1>1. /\ Origin(l, p, m, i) \in DOMAIN book[m]
      /\ book'[m][i] = book[m][Origin(l, p, m, i)]
  BY DEF Dropped
<1>2. m = l /\ Origin(l, p, m, i) = p
  BY <1>1 DEF Distinct
<1>3. i \in Nat
  <2>1. book'[m] \in Seq(Entry)
    BY DEF TypeOK
  <2> QED BY <2>1, LenProperties
<1> QED BY <1>2, <1>3 DEF Origin

LEMMA DistinctStays ==
  ASSUME TypeOK, TypeOK', Distinct, Fewer
  PROVE  Distinct'
<1>1. PICK l \in Lists, p \in Nat : Dropped(l, p)
  BY DEF Fewer
<1>2. ASSUME NEW m \in Lists, NEW k \in Lists, NEW i \in DOMAIN book'[m], NEW j \in DOMAIN book'[k],
             book'[m][i].id = book'[k][j].id
      PROVE  m = k /\ i = j
  <2>1. /\ Origin(l, p, m, i) \in DOMAIN book[m] /\ book'[m][i] = book[m][Origin(l, p, m, i)]
        /\ Origin(l, p, k, j) \in DOMAIN book[k] /\ book'[k][j] = book[k][Origin(l, p, k, j)]
    BY <1>1 DEF Dropped
  <2>2. m = k /\ Origin(l, p, m, i) = Origin(l, p, k, j)
    BY <1>2, <2>1 DEF Distinct
  <2>3. i \in Nat /\ j \in Nat
    <3>1. book'[m] \in Seq(Entry) /\ book'[k] \in Seq(Entry)
      BY DEF TypeOK
    <3> QED BY <3>1, LenProperties
  <2> QED BY <2>2, <2>3 DEF Origin
<1> QED BY <1>2 DEF Distinct

LEMMA HomeStays ==
  ASSUME TypeOK, TypeOK', HomeInv, NEW t \in Threads, Others(t), KeepsCalls(t), Fewer, KeepsIssued
  PROVE  HomeInv'
<1>1. Distinct'
  BY DistinctStays DEF HomeInv
<1>2. ASSUME NEW u \in Threads, NEW d \in DOMAIN stack'[u], Placing(stack'[u][d])
      PROVE  d \in DOMAIN stack[u] /\ Placing(stack[u][d]) /\ stack'[u][d].id = stack[u][d].id
  BY <1>2 DEF Others, KeepsCalls, SameJob
<1>3. \A l \in Lists : \A id : WillHold(l, id) => Holds(l, id)
  BY FewerHold
<1>4. Apart'
  <2> SUFFICES ASSUME NEW u \in Threads, NEW d \in DOMAIN stack'[u], Placing(stack'[u][d])
               PROVE  /\ \A l \in Lists : ~WillHold(l, stack'[u][d].id)
                      /\ \A v \in Threads : \A e \in DOMAIN stack'[v] :
                           Placing(stack'[v][e]) /\ stack'[v][e].id = stack'[u][d].id => v = u /\ e = d
    BY DEF Apart, Holds, WillHold, Placing
  <2> QED BY <1>2, <1>3 DEF HomeInv, Apart
<1>5. FreshIds'
  <2> SUFFICES ASSUME NEW id \in Ids, status'[id] = "NONE"
               PROVE  /\ \A l \in Lists : ~WillHold(l, id)
                      /\ \A u \in Threads : \A d \in DOMAIN stack'[u] :
                           Placing(stack'[u][d]) => stack'[u][d].id # id
    BY DEF FreshIds, Holds, WillHold, Placing
  <2> QED BY <1>2, <1>3 DEF HomeInv, FreshIds, KeepsIssued
<1> QED BY <1>1, <1>4, <1>5 DEF HomeInv

(* Thread t takes up an order that rests nowhere and that no call has.     *)
LEMMA HomePlaced ==
  ASSUME TypeOK, TypeOK', HomeInv, NEW t \in Threads, Others(t), NEW n \in DOMAIN stack'[t],
         \A d \in DOMAIN stack'[t] \ {n} :
           Placing(stack'[t][d]) => d \in DOMAIN stack[t] /\ SameJob(stack'[t][d], stack[t][d]),
         Fewer, KeepsIssued, status'[stack'[t][n].id] # "NONE",
         \A l \in Lists : ~WillHold(l, stack'[t][n].id),
         \A u \in Threads : \A d \in DOMAIN stack[u] :
           Placing(stack[u][d]) => stack[u][d].id # stack'[t][n].id
  PROVE  HomeInv'
<1>1. Distinct'
  BY DistinctStays DEF HomeInv
<1>2. ASSUME NEW u \in Threads, NEW d \in DOMAIN stack'[u], Placing(stack'[u][d]), u # t \/ d # n
      PROVE  d \in DOMAIN stack[u] /\ Placing(stack[u][d]) /\ stack'[u][d].id = stack[u][d].id
  <2>1. CASE u # t
    BY <1>2, <2>1 DEF Others
  <2>2. CASE u = t
    BY <1>2, <2>2 DEF SameJob
  <2> QED BY <2>1, <2>2
<1>3. \A l \in Lists : \A id : WillHold(l, id) => Holds(l, id)
  BY FewerHold
<1>4. Apart'
  <2> SUFFICES ASSUME NEW u \in Threads, NEW d \in DOMAIN stack'[u], Placing(stack'[u][d])
               PROVE  /\ \A l \in Lists : ~WillHold(l, stack'[u][d].id)
                      /\ \A v \in Threads : \A e \in DOMAIN stack'[v] :
                           Placing(stack'[v][e]) /\ stack'[v][e].id = stack'[u][d].id => v = u /\ e = d
    BY DEF Apart, Holds, WillHold, Placing
  <2>1. CASE u = t /\ d = n
    BY <1>2, <2>1
  <2>2. CASE ~(u = t /\ d = n)
    <3>1. d \in DOMAIN stack[u] /\ Placing(stack[u][d]) /\ stack'[u][d].id = stack[u][d].id
      BY <1>2, <2>2
    <3>2. stack'[u][d].id # stack'[t][n].id
      BY <3>1
    <3>3. \A l \in Lists : ~WillHold(l, stack'[u][d].id)
      BY <1>3, <3>1 DEF HomeInv, Apart
    <3>4. ASSUME NEW v \in Threads, NEW e \in DOMAIN stack'[v],
                 Placing(stack'[v][e]), stack'[v][e].id = stack'[u][d].id
          PROVE  v = u /\ e = d
      <4>1. e \in DOMAIN stack[v] /\ Placing(stack[v][e]) /\ stack'[v][e].id = stack[v][e].id
        BY <1>2, <3>2, <3>4
      <4> QED BY <3>1, <3>4, <4>1 DEF HomeInv, Apart
    <3> QED BY <3>3, <3>4
  <2> QED BY <2>1, <2>2
<1>5. FreshIds'
  <2> SUFFICES ASSUME NEW id \in Ids, status'[id] = "NONE"
               PROVE  /\ \A l \in Lists : ~WillHold(l, id)
                      /\ \A u \in Threads : \A d \in DOMAIN stack'[u] :
                           Placing(stack'[u][d]) => stack'[u][d].id # id
    BY DEF FreshIds, Holds, WillHold, Placing
  <2> QED BY <1>2, <1>3 DEF HomeInv, FreshIds, KeepsIssued
<1> QED BY <1>1, <1>4, <1>5 DEF HomeInv

(* Thread t returns from the call that placed the order it has now listed. *)
LEMMA HomeRested ==
  ASSUME TypeOK, TypeOK', HomeInv, NEW t \in Threads, ~Idle(t), Return(t), Placing(Top(t)),
         NEW l \in Lists, NEW p \in Nat, NEW e \in Entry, e.id = Top(t).id, Inserted(l, p, e),
         KeepsIssued
  PROVE  HomeInv'
<1> DEFINE n == Len(stack[t])
<1>1. /\ Others(t) /\ n \in Nat \ {0} /\ DOMAIN stack[t] = 1 .. n /\ DOMAIN stack'[t] = 1 .. n - 1
      /\ \A d \in 1 .. n - 1 : stack'[t][d] = stack[t][d]
  BY ReturnFrames
<1>2. n \in DOMAIN stack[t] /\ stack[t][n] = Top(t)
  BY <1>1 DEF Top
<1>3. \A m \in Lists : ~Holds(m, e.id)
  BY <1>2 DEF HomeInv, Apart
<1>4. e.id \in Ids /\ status[e.id] # "NONE"
  BY <1>2 DEF HomeInv, FreshIds, Entry
<1>5. ASSUME NEW u \in Threads, NEW d \in DOMAIN stack'[u], Placing(stack'[u][d])
      PROVE  /\ d \in DOMAIN stack[u] /\ Placing(stack[u][d]) /\ stack'[u][d] = stack[u][d]
             /\ stack'[u][d].id # e.id
  <2>1. d \in DOMAIN stack[u] /\ stack'[u][d] = stack[u][d] /\ (u # t \/ d # n)
    <3>1. CASE u = t
      <4>1. d \in 1 .. n - 1
        BY <1>1, <1>5, <3>1
      <4> QED BY <1>1, <3>1, <4>1
    <3>2. CASE u # t
      BY <1>1, <3>2 DEF Others
    <3> QED BY <3>1, <3>2
  <2> QED BY <1>2, <1>5, <2>1 DEF HomeInv, Apart
<1>6. ASSUME NEW m \in Lists, NEW i \in DOMAIN book'[m], m # l \/ i # p
      PROVE  LET j == IF m = l /\ i > p THEN i - 1 ELSE i IN
             j \in DOMAIN book[m] /\ book'[m][i] = book[m][j]
  <2>1. i \in Nat
    <3>1. book'[m] \in Seq(Entry)
      BY DEF TypeOK
    <3> QED BY <3>1, LenProperties
  <2>2. CASE m # l
    BY <2>2 DEF Inserted
  <2>3. CASE m = l
    <3>1. LET j == IF i < p THEN i ELSE i - 1 IN j \in DOMAIN book[l] /\ book'[l][i] = book[l][j]
      BY <1>6, <2>3 DEF Inserted
    <3> QED BY <1>6, <2>1, <2>3, <3>1
  <2> QED BY <2>2, <2>3
<1>7. p \in DOMAIN book'[l] /\ book'[l][p] = e
  BY DEF Inserted
<1>8. \A m \in Lists : \A id : WillHold(m, id) => id = e.id \/ Holds(m, id)
  BY <1>6, <1>7 DEF WillHold, Holds
<1> HIDE DEF n
<1>9. Distinct'
  <2> SUFFICES ASSUME NEW m \in Lists, NEW k \in Lists, NEW i \in DOMAIN book'[m], NEW j \in DOMAIN book'[k],
                      book'[m][i].id = book'[k][j].id
               PROVE  m = k /\ i = j
    BY DEF Distinct
  <2>1. i \in Nat /\ j \in Nat
    <3>1. book'[m] \in Seq(Entry) /\ book'[k] \in Seq(Entry)
      BY DEF TypeOK
    <3> QED BY <3>1, LenProperties
  <2>2. CASE (m # l \/ i # p) /\ (k # l \/ j # p)
    <3>1. m = k /\ (IF m = l /\ i > p THEN i - 1 ELSE i) = (IF k = l /\ j > p THEN j - 1 ELSE j)
      BY <1>6, <2>2 DEF Distinct, HomeInv
    <3> QED BY <2>1, <2>2, <3>1
  <2>3. CASE m = l /\ i = p /\ (k # l \/ j # p)
    <3>1. Holds(k, book'[k][j].id)
      BY <1>6, <2>3 DEF Holds
    <3> QED BY <1>3, <1>7, <2>3, <3>1
  <2>4. CASE k = l /\ j = p /\ (m # l \/ i # p)
    <3>1. Holds(m, book'[m][i].id)
      BY <1>6, <2>4 DEF Holds
    <3> QED BY <1>3, <1>7, <2>4, <3>1
  <2> QED BY <2>2, <2>3, <2>4
<1>10. Apart'
  <2> SUFFICES ASSUME NEW u \in Threads, NEW d \in DOMAIN stack'[u], Placing(stack'[u][d])
               PROVE  /\ \A m \in Lists : ~WillHold(m, stack'[u][d].id)
                      /\ \A v \in Threads : \A k \in DOMAIN stack'[v] :
                           Placing(stack'[v][k]) /\ stack'[v][k].id = stack'[u][d].id => v = u /\ k = d
    BY DEF Apart, Holds, WillHold, Placing
  <2> QED BY <1>5, <1>8 DEF HomeInv, Apart
<1>11. FreshIds'
  <2> SUFFICES ASSUME NEW id \in Ids, status'[id] = "NONE"
               PROVE  /\ \A m \in Lists : ~WillHold(m, id)
                      /\ \A u \in Threads : \A d \in DOMAIN stack'[u] :
                           Placing(stack'[u][d]) => stack'[u][d].id # id
    BY DEF FreshIds, Holds, WillHold, Placing
  <2> QED BY <1>4, <1>5, <1>8 DEF HomeInv, FreshIds, KeepsIssued
<1> QED BY <1>9, <1>10, <1>11 DEF HomeInv

-----------------------------------------------------------------------------
LEMMA SortedStays ==
  ASSUME TypeOK, TypeOK', Sorted, Fewer
  PROVE  Sorted'
<1>1. PICK l \in Lists, p \in Nat : Dropped(l, p)
  BY DEF Fewer
<1>2. ASSUME NEW m \in Lists, NEW i \in DOMAIN book'[m], NEW j \in DOMAIN book'[m], i < j
      PROVE  Ahead(m, book'[m][i].key, book'[m][j].key)
  <2>1. /\ Origin(l, p, m, i) \in DOMAIN book[m] /\ book'[m][i] = book[m][Origin(l, p, m, i)]
        /\ Origin(l, p, m, j) \in DOMAIN book[m] /\ book'[m][j] = book[m][Origin(l, p, m, j)]
    BY <1>1 DEF Dropped
  <2>2. i \in Nat /\ j \in Nat
    <3>1. book'[m] \in Seq(Entry)
      BY DEF TypeOK
    <3> QED BY <3>1, LenProperties
  <2>3. Origin(l, p, m, i) < Origin(l, p, m, j)
    BY <1>2, <2>2 DEF Origin
  <2> QED BY <2>1, <2>3 DEF Sorted
<1> QED BY <1>2 DEF Sorted

LEMMA SortedInserted ==
  ASSUME TypeOK, TypeOK', Sorted, NEW l \in Lists, NEW p \in Nat, NEW e \in Entry, Inserted(l, p, e)
  PROVE  Sorted'
<1>1. ASSUME NEW m \in Lists, NEW i \in DOMAIN book'[m], NEW j \in DOMAIN book'[m], i < j
      PROVE  Ahead(m, book'[m][i].key, book'[m][j].key)
  <2>1. CASE m # l
    BY <1>1, <2>1 DEF Sorted, Inserted
  <2>2. CASE m = l
    <3>1. i \in Nat /\ j \in Nat
      <4>1. book'[m] \in Seq(Entry)
        BY DEF TypeOK
      <4> QED BY <4>1, LenProperties
    <3>2. /\ \A k \in DOMAIN book'[l] : k # p =>
               LET o == IF k < p THEN k ELSE k - 1 IN
               o \in DOMAIN book[l] /\ book'[l][k] = book[l][o]
          /\ book'[l][p] = e
          /\ \A k \in DOMAIN book[l] : Ahead(l, book[l][k].key, e.key) <=> k < p
      BY DEF Inserted
    <3>3. \A k \in DOMAIN book[l] : book[l][k].key \in Int
      BY BookTypes DEF Entry
    <3>4. e.key \in Int
      BY DEF Entry
    <3>5. CASE i = p
      <4>1. j - 1 \in DOMAIN book[l] /\ book'[l][j] = book[l][j - 1] /\ ~(j - 1 < p)
        BY <1>1, <2>2, <3>1, <3>2, <3>5
      <4>2. ~Ahead(l, book[l][j - 1].key, e.key)
        BY <3>2, <4>1
      <4> QED BY <2>2, <3>2, <3>3, <3>4, <3>5, <4>1, <4>2 DEF Ahead
    <3>6. CASE j = p
      <4>1. i \in DOMAIN book[l] /\ book'[l][i] = book[l][i] /\ i < p
        BY <1>1, <2>2, <3>1, <3>2, <3>6
      <4> QED BY <2>2, <3>2, <3>6, <4>1
    <3>7. CASE i # p /\ j # p
      <4> DEFINE oi == IF i < p THEN i ELSE i - 1
                 oj == IF j < p THEN j ELSE j - 1
      <4>1. oi \in DOMAIN book[l] /\ book'[l][i] = book[l][oi]
            /\ oj \in DOMAIN book[l] /\ book'[l][j] = book[l][oj]
        BY <2>2, <3>2, <3>7
      <4>2. oi < oj
        BY <1>1, <3>1, <3>7
      <4> QED BY <2>2, <4>1, <4>2 DEF Sorted
    <3> QED BY <3>5, <3>6, <3>7
  <2> QED BY <2>1, <2>2
<1> QED BY <1>1 DEF Sorted

(* EntryIsCurrent, Moving and ToBeCanceled in the next state, of things    *)
(* that are named in this one.                                             *)
WillBeCurrent(l, e) ==
  IF l \in {"buy", "sell"}
    THEN order'[e.id].type = "LIMIT" /\ e.key = order'[e.id].price
    ELSE IsStop(order'[e.id].type) /\ e.key = order'[e.id].stop

WillMove(l, id) ==
  \E t \in Threads : /\ stack'[t] # <<>> /\ stack'[t][Len(stack'[t])].pc = "moved"
                     /\ stack'[t][Len(stack'[t])].id = id
                     /\ stack'[t][Len(stack'[t])].list = l

WillBeCanceled(l, id) ==
  \E t \in Threads : \E d \in DOMAIN stack'[t] :
    stack'[t][d].pc = "ioc" /\ stack'[t][d].id = id /\ stack'[t][d].list = l

(* The entry of an order whose terms change is that of one on the move.    *)
LEMMA EntriesStay ==
  ASSUME TypeOK, TypeOK', EntriesInv, NEW t \in Threads, Others(t), KeepsMoving(t),
         \A l \in Lists : \A p \in DOMAIN book'[l] :
           \/ \E j \in DOMAIN book[l] : book'[l][p] = book[l][j]
           \/ /\ WillBeCurrent(l, book'[l][p])
              /\ ListOf(order'[book'[l][p].id].side) = RestSide(l),
         \A l \in Lists : \A id \in Ids : WillHold(l, id) /\ Holds(l, id) =>
           order'[id].side = order[id].side /\ (SameTerms(id) \/ WillMove(l, id))
  PROVE  EntriesInv'
<1> SUFFICES ASSUME NEW l \in Lists, NEW p \in DOMAIN book'[l]
             PROVE  /\ WillBeCurrent(l, book'[l][p]) \/ WillMove(l, book'[l][p].id)
                    /\ ListOf(order'[book'[l][p].id].side) = RestSide(l)
  BY DEF EntriesInv, EntryIsCurrent, Moving, WillBeCurrent, WillMove, At, Top, Idle, ListOf, RestSide, IsStop
<1>1. CASE \E j \in DOMAIN book[l] : book'[l][p] = book[l][j]
  <2>1. PICK j \in DOMAIN book[l] : book'[l][p] = book[l][j]
    BY <1>1
  <2>2. PICK e \in Entry : e = book[l][j]
    BY BookTypes
  <2>3. e.id \in Ids /\ WillHold(l, e.id) /\ Holds(l, e.id) /\ e = book'[l][p]
    BY <2>1, <2>2 DEF WillHold, Holds, Entry
  <2>4. /\ EntryIsCurrent(l, e) \/ Moving(l, e.id)
        /\ ListOf(order[e.id].side) = RestSide(l)
    BY <2>2 DEF EntriesInv
  <2>5. CASE WillMove(l, e.id)
    BY <2>3, <2>4, <2>5
  <2>6. CASE ~WillMove(l, e.id)
    <3>1. SameTerms(e.id)
      BY <2>3, <2>6
    <3>2. ASSUME Moving(l, e.id) PROVE FALSE
      <4>1. PICK u \in Threads : At(u, "moved") /\ Top(u).id = e.id /\ Top(u).list = l
        BY <3>2 DEF Moving
      <4>2. u # t
        BY <2>3, <4>1 DEF KeepsMoving
      <4>3. stack'[u] = stack[u]
        BY <4>2 DEF Others
      <4> QED BY <2>6, <4>1, <4>3 DEF WillMove, At, Top, Idle
    <3>3. WillBeCurrent(l, e)
      BY <2>4, <3>1, <3>2 DEF EntryIsCurrent, WillBeCurrent, SameTerms
    <3> QED BY <2>3, <2>4, <3>3
  <2> QED BY <2>5, <2>6
<1>2. CASE WillBeCurrent(l, book'[l][p]) /\ ListOf(order'[book'[l][p].id].side) = RestSide(l)
  BY <1>2
<1> QED BY <1>1, <1>2

WillBeGood(f) ==
  /\ ListOf(order'[f.id].side) = f.list
  /\ f.pc = "stop" <=> IsStop(order'[f.id].type)

(* Thread t changes no order that a call of another thread places.         *)
LEMMA FramesStay ==
  ASSUME TypeOK, FramesInv, NEW t \in Threads, Others(t),
         \A u \in Threads \ {t} : \A d \in DOMAIN stack[u] : Placing(stack[u][d]) =>
           /\ order'[stack[u][d].id].type = order[stack[u][d].id].type
           /\ order'[stack[u][d].id].side = order[stack[u][d].id].side,
         \A d \in DOMAIN stack'[t] : Placing(stack'[t][d]) => WillBeGood(stack'[t][d])
  PROVE  FramesInv'
<1> SUFFICES ASSUME NEW u \in Threads, NEW d \in DOMAIN stack'[u], Placing(stack'[u][d])
             PROVE  WillBeGood(stack'[u][d])
  BY DEF FramesInv, WillBeGood, Placing
<1>1. CASE u = t
  BY <1>1
<1>2. CASE u # t
  <2>1. stack'[u] = stack[u]
    BY <1>2 DEF Others
  <2> QED BY <1>2, <2>1 DEF FramesInv, WillBeGood
<1> QED BY <1>1, <1>2

(* Old calls are good when their orders keep their side and type.          *)
LEMMA OldCalls ==
  ASSUME FramesInv, NEW t \in Threads, NEW d \in DOMAIN stack[t], NEW f,
         SameJob(f, stack[t][d]), f.pc = "stop" <=> stack[t][d].pc = "stop",
         order'[f.id].type = order[f.id].type, order'[f.id].side = order[f.id].side
  PROVE  WillBeGood(f)
BY DEF FramesInv, SameJob, WillBeGood

LEMMA IocStays ==
  ASSUME TypeOK, TypeOK', IocInv, NEW t \in Threads, Others(t), KeepsIoc(t),
         \A l \in {"buy", "sell"} : \A p \in DOMAIN book'[l] :
           \/ \E j \in DOMAIN book[l] : book'[l][p] = book[l][j]
           \/ order'[book'[l][p].id].tif # "IOC",
         \A l \in {"buy", "sell"} : \A id \in Ids : WillHold(l, id) /\ order'[id].tif = "IOC" =>
           order[id].tif = "IOC" \/ WillBeCanceled(l, id)
  PROVE  IocInv'
<1> SUFFICES ASSUME NEW l \in {"buy", "sell"}, NEW p \in DOMAIN book'[l],
                    order'[book'[l][p].id].tif = "IOC"
             PROVE  WillBeCanceled(l, book'[l][p].id)
  BY DEF IocInv, ToBeCanceled, WillBeCanceled
<1>1. PICK j \in DOMAIN book[l] : book'[l][p] = book[l][j]
  OBVIOUS
<1>2. l \in Lists /\ book[l][j].id \in Ids
  BY BookTypes DEF Entry, Lists
<1>3. PICK id \in Ids : id = book[l][j].id
  BY <1>2
<1>4. id = book'[l][p].id /\ WillHold(l, id)
  BY <1>1, <1>3 DEF WillHold
<1>5. order[id].tif = "IOC" => ToBeCanceled(l, id)
  BY <1>3 DEF IocInv
<1>6. CASE ToBeCanceled(l, id)
  <2>1. PICK u \in Threads : \E d \in DOMAIN stack[u] :
          stack[u][d].pc = "ioc" /\ stack[u][d].id = id /\ stack[u][d].list = l
    BY <1>6 DEF ToBeCanceled
  <2>2. PICK d \in DOMAIN stack[u] :
          stack[u][d].pc = "ioc" /\ stack[u][d].id = id /\ stack[u][d].list = l
    BY <2>1
  <2>3. d \in DOMAIN stack'[u] /\ stack'[u][d] = stack[u][d]
    BY <1>4, <2>2 DEF Others, KeepsIoc
  <2> QED BY <1>4, <2>2, <2>3 DEF WillBeCanceled
<1> QED BY <1>4, <1>5, <1>6

(* A step that keeps the calls, the orders' terms and all but at most one  *)
(* entry keeps the invariant.                                              *)
LEMMA PlacesStay ==
  ASSUME TypeOK, TypeOK', PlacesInv, NEW t \in Threads,
         KeepsFrames(t), KeepsOrders, KeepsIssued, KeepsMoving(t), Fewer
  PROVE  PlacesInv'
<1>1. HomeInv'
  BY HomeStays DEF PlacesInv, KeepsFrames
<1>2. Sorted'
  BY SortedStays DEF PlacesInv, CurrentInv
<1>3. \A l \in Lists : \A p \in DOMAIN book'[l] : \E j \in DOMAIN book[l] : book'[l][p] = book[l][j]
  BY FewerHold
<1>4. EntriesInv'
  BY <1>3, EntriesStay DEF PlacesInv, CurrentInv, KeepsFrames, KeepsOrders
<1>5. FramesInv'
  <2>1. ASSUME NEW u \in Threads, NEW d \in DOMAIN stack[u], Placing(stack[u][d])
        PROVE  /\ order'[stack[u][d].id].type = order[stack[u][d].id].type
               /\ order'[stack[u][d].id].side = order[stack[u][d].id].side
    <3>1. stack[u][d].id \in Ids
      BY <2>1, StackTypes DEF FrameRecord, Placing
    <3> QED BY <3>1 DEF KeepsOrders, SameTerms
  <2>2. ASSUME NEW d \in DOMAIN stack'[t], Placing(stack'[t][d])
        PROVE  WillBeGood(stack'[t][d])
    <3>1. d \in DOMAIN stack[t] /\ SameJob(stack'[t][d], stack[t][d])
          /\ (stack'[t][d].pc = "stop" <=> stack[t][d].pc = "stop")
      BY <2>2 DEF KeepsFrames, KeepsCalls, KeepsKinds
    <3>2. /\ order'[stack[t][d].id].type = order[stack[t][d].id].type
          /\ order'[stack[t][d].id].side = order[stack[t][d].id].side
      BY <2>1, <3>1 DEF SameJob
    <3> QED BY <3>1, <3>2, OldCalls DEF PlacesInv, CurrentInv, SameJob
  <2> QED BY <2>1, <2>2, FramesStay DEF PlacesInv, CurrentInv, KeepsFrames
<1>6. IocInv'
  <2>1. {"buy", "sell"} \subseteq Lists
    BY DEF Lists
  <2> QED BY <1>3, <2>1, IocStays DEF PlacesInv, KeepsFrames, KeepsOrders
<1> QED BY <1>1, <1>2, <1>4, <1>5, <1>6 DEF PlacesInv, CurrentInv

-----------------------------------------------------------------------------
(* Which uses of the stack operators keep the calls.                       *)
LEMMA GotoKeeps ==
  ASSUME TypeOK, NEW t \in Threads, ~Idle(t), NEW f \in FrameRecord, Goto(t, f),
         Placing(f) => SameJob(f, Top(t)) /\ (f.pc = "stop" <=> Top(t).pc = "stop"),
         Top(t).pc = "ioc" => ~WillHold(Top(t).list, Top(t).id)
  PROVE  KeepsFrames(t)
<1> DEFINE n == Len(stack[t])
<1>1. /\ Others(t) /\ n \in Nat \ {0} /\ DOMAIN stack[t] = 1 .. n /\ DOMAIN stack'[t] = 1 .. n
      /\ \A d \in 1 .. n - 1 : stack'[t][d] = stack[t][d]
      /\ stack'[t][n] = f
  BY GotoFrames
<1>2. stack[t][n] = Top(t)
  BY DEF Top
<1> HIDE DEF n
<1>3. \A d \in 1 .. n : d = n \/ d \in 1 .. n - 1
  BY <1>1
<1>4. KeepsCalls(t) /\ KeepsKinds(t)
  BY <1>1, <1>2, <1>3 DEF KeepsCalls, KeepsKinds, SameJob
<1>5. KeepsIoc(t)
  BY <1>1, <1>2, <1>3 DEF KeepsIoc
<1> QED BY <1>1, <1>4, <1>5 DEF KeepsFrames

LEMMA ReturnKeeps ==
  ASSUME TypeOK, NEW t \in Threads, ~Idle(t), Return(t), Top(t).pc # "ioc"
  PROVE  KeepsFrames(t)
<1> DEFINE n == Len(stack[t])
<1>1. /\ Others(t) /\ n \in Nat \ {0} /\ DOMAIN stack[t] = 1 .. n /\ DOMAIN stack'[t] = 1 .. n - 1
      /\ \A d \in 1 .. n - 1 : stack'[t][d] = stack[t][d]
  BY ReturnFrames
<1>2. stack[t][n] = Top(t)
  BY DEF Top
<1> HIDE DEF n
<1>3. \A d \in 1 .. n : d = n \/ d \in 1 .. n - 1
  BY <1>1
<1>4. \A d \in 1 .. n - 1 : d \in 1 .. n
  BY <1>1
<1>5. KeepsCalls(t) /\ KeepsKinds(t)
  BY <1>1, <1>4 DEF KeepsCalls, KeepsKinds, SameJob
<1>6. KeepsIoc(t)
  BY <1>1, <1>2, <1>3 DEF KeepsIoc
<1> QED BY <1>1, <1>5, <1>6 DEF KeepsFrames

LEMMA BeginKeeps ==
  ASSUME TypeOK, NEW t \in Threads, Idle(t), NEW f \in FrameRecord, ~Placing(f), Begin(t, <<f>>)
  PROVE  KeepsFrames(t)
<1>1. Others(t) /\ DOMAIN stack[t] = {} /\ DOMAIN stack'[t] = {1} /\ stack'[t][1] = f
  BY BeginFrames
<1> QED BY <1>1 DEF KeepsFrames, KeepsCalls, KeepsKinds, KeepsIoc

LEMMA SameStackKeeps ==
  ASSUME NEW t \in Threads, stack' = stack
  PROVE  KeepsFrames(t)
BY DEF KeepsFrames, Others, KeepsCalls, KeepsKinds, KeepsIoc, SameJob

(* A filled order keeps its terms, and the loop the order it places.       *)
LEMMA FillTerms ==
  ASSUME NEW o \in OrderRecord, NEW q \in Int
  PROVE  \A f \in {"side", "type", "tif", "price", "stop", "qty", "disclosed"} :
           FillOrder(o, q)[f] = o[f]
BY DEF FillOrder, WithPending, OrderRecord

LEMMA FillOrders ==
  ASSUME TypeOK, HomeInv, NEW t \in Threads, Fill(t)
  PROVE  LET f == Top(t)  hit == First(Opposite(f.list)) IN
         /\ hit \in Ids /\ f.id \in Ids /\ hit # f.id /\ f.qty \in Int
         /\ \A id \in Ids :
              order'[id] = IF id \in {hit, f.id} THEN FillOrder(order[id], f.qty) ELSE order[id]
         /\ KeepsOrders
<1> DEFINE f == Top(t)
           hit == First(Opposite(f.list))
<1>1. /\ f.id \in Ids /\ f.list \in {"buy", "sell"} /\ f.qty \in Int
      /\ Opposite(f.list) \in Lists /\ book[Opposite(f.list)] # <<>>
  BY TopType, ListTypes DEF Fill, At, FrameRecord
<1>2. hit \in Ids
  BY <1>1, FirstType
<1>3. hit # f.id
  <2>1. Len(stack[t]) \in DOMAIN stack[t] /\ Placing(stack[t][Len(stack[t])])
    <3>1. ~Idle(t) /\ Top(t).pc = "fill"
      BY DEF Fill, At
    <3> QED BY <3>1, TopType DEF Placing, Top
  <2>2. ~Holds(Opposite(f.list), f.id)
    BY <1>1, <2>1 DEF HomeInv, Apart, Top
  <2>3. 1 \in DOMAIN book[Opposite(f.list)] /\ book[Opposite(f.list)][1].id = hit
    BY <1>1, BookTypes, TailElements DEF First
  <2> QED BY <2>2, <2>3 DEF Holds
<1>4. order' = [order EXCEPT ![hit] = FillOrder(@, f.qty), ![f.id] = FillOrder(@, f.qty)]
  BY DEF Fill
<1> HIDE DEF hit, f
<1>5. ASSUME NEW id \in Ids
      PROVE  order'[id] = IF id \in {hit, f.id} THEN FillOrder(order[id], f.qty) ELSE order[id]
  BY <1>1, <1>2, <1>3, <1>4 DEF TypeOK
<1>6. ASSUME NEW id \in Ids
      PROVE  /\ SameTerms(id) /\ order'[id].side = order[id].side
             /\ order'[id].tif = order[id].tif
  <2>1. \A x \in {"side", "type", "tif", "price", "stop"} : FillOrder(order[id], f.qty)[x] = order[id][x]
    BY <1>1, FillTerms DEF TypeOK
  <2> QED BY <1>5, <2>1 DEF SameTerms
<1> QED BY <1>1, <1>2, <1>3, <1>5, <1>6 DEF KeepsOrders, f, hit

LEMMA FillKeeps ==
  ASSUME TypeOK, NEW t \in Threads, Fill(t)
  PROVE  KeepsFrames(t)
<1> DEFINE n == Len(stack[t])
           f == Top(t)
<1>1. ~Idle(t) /\ f.pc = "fill" /\ f.id \in Ids /\ f.list \in {"buy", "sell"}
  BY TopType DEF Fill, At, FrameRecord
<1>2. PICK m \in FrameRecord : m = Frame("match", f.id, f.list)
  BY <1>1, FrameTypes
<1>c. PICK c \in FrameRecord : c = Frame("trigger", None, "stopBuy")
  BY ListFrameTypes
<1>3. stack' = [stack EXCEPT ![t] = Front(@) \o <<m, c>>]
  BY <1>2, <1>c DEF Fill
<1>4. m.pc = "match" /\ m.id = f.id /\ m.list = f.list /\ ~Placing(c) /\ c.pc # "ioc"
  BY <1>2, <1>c DEF Frame, Placing
<1>5. stack[t][n] = f
  BY DEF Top
<1> HIDE DEF f
<1>6. /\ Others(t) /\ n \in Nat \ {0} /\ DOMAIN stack[t] = 1 .. n /\ DOMAIN stack'[t] = 1 .. n + 1
      /\ \A d \in 1 .. n - 1 : stack'[t][d] = stack[t][d]
      /\ stack'[t][n] = m /\ stack'[t][n + 1] = c
  <2>1. \A a, b \in FrameRecord : stack' = [stack EXCEPT ![t] = Front(@) \o <<a, b>>] =>
          /\ Others(t) /\ Len(stack[t]) \in Nat \ {0}
          /\ DOMAIN stack[t] = 1 .. Len(stack[t]) /\ DOMAIN stack'[t] = 1 .. Len(stack[t]) + 1
          /\ \A d \in 1 .. Len(stack[t]) - 1 : stack'[t][d] = stack[t][d]
          /\ stack'[t][Len(stack[t])] = a /\ stack'[t][Len(stack[t]) + 1] = b
    BY <1>1, FillFrames, Zenon
  <2> QED BY <1>2, <1>c, <1>3, <2>1, Zenon
<1> HIDE DEF n
<1>7. /\ \A d \in 1 .. n + 1 : d = n + 1 \/ d = n \/ d \in 1 .. n - 1
      /\ \A d \in 1 .. n : d = n \/ d \in 1 .. n - 1
      /\ \A d \in 1 .. n : d \in 1 .. n + 1
      /\ \A d \in 1 .. n - 1 : d \in 1 .. n
      /\ n \in 1 .. n
  BY <1>6
<1>8. Placing(f) /\ SameJob(m, f)
  BY <1>1, <1>4 DEF SameJob, Placing
<1>9. KeepsCalls(t) /\ KeepsKinds(t)
  BY <1>1, <1>4, <1>5, <1>6, <1>7, <1>8 DEF KeepsCalls, KeepsKinds, SameJob
<1>10. KeepsIoc(t)
  BY <1>1, <1>5, <1>6, <1>7 DEF KeepsIoc
<1> QED BY <1>6, <1>9, <1>10 DEF KeepsFrames

-----------------------------------------------------------------------------
(* The steps inside the book.                                              *)
LEMMA AtType ==
  ASSUME TypeOK, NEW t \in Threads, NEW pc, At(t, pc)
  PROVE  /\ ~Idle(t) /\ Top(t) \in FrameRecord /\ Top(t).pc = pc /\ Top(t).list \in Lists
         /\ Len(stack[t]) \in DOMAIN stack[t] /\ stack[t][Len(stack[t])] = Top(t)
         /\ pc \in {"stop", "lock", "match", "rest", "ioc", "changed", "fill"} =>
              Top(t).id \in Ids /\ Top(t).list \in {"buy", "sell"}
         /\ pc = "match" => Top(t) \in [pc : {"match"}, id : Ids, list : {"buy", "sell"},
                                        opp : {None}, qty : {0}]
         /\ pc = "fill" => Top(t).opp \in Ids /\ Top(t).qty \in Int
         /\ pc = "moved" => Top(t).id \in Ids
         /\ pc = "trigger" => Top(t).list \in {"stopBuy", "stopSell"}
<1>1. ~Idle(t) /\ Top(t) \in FrameRecord /\ Top(t).pc = pc
  BY TopType DEF At
<1>2. Len(stack[t]) \in DOMAIN stack[t] /\ stack[t][Len(stack[t])] = Top(t)
  BY <1>1, TopType DEF Top
<1> QED BY <1>1, <1>2 DEF FrameRecord, Lists

LEMMA SameOrders ==
  ASSUME order' = order
  PROVE  KeepsOrders
BY DEF KeepsOrders, SameTerms

LEMMA ReportKeeps ==
  ASSUME TypeOK, NEW id, NEW s, s # "NONE", Report(id, s)
  PROVE  KeepsIssued
BY DEF TypeOK, Report, KeepsIssued

LEMMA DroppedFewer ==
  ASSUME NEW l \in Lists, NEW p \in Nat, Dropped(l, p)
  PROVE  Fewer
BY DEF Fewer

(* A step at a statement other than the erasure of a moved order.          *)
LEMMA NotMoved ==
  ASSUME NEW t, NEW pc, At(t, pc), pc # "moved"
  PROVE  KeepsMoving(t)
BY DEF KeepsMoving, At

(* Steps that change no order, and book and status not at all.             *)
LEMMA QuietSteps ==
  ASSUME TypeOK, TypeOK', PlacesInv, NEW t \in Threads,
         \/ MoveRejected(t) \/ Lock(t) \/ Match(t) \/ MatchEnds(t) \/ FillEmptied(t)
         \/ RestDone(t) \/ TriggerSells(t) \/ TriggerEnds(t) \/ IocNotFound(t)
         \/ RequestEnds(t) \/ CancelNext(t) \/ StopEnds(t)
  PROVE  PlacesInv'
<1> DEFINE f == Top(t)
<1>1. book' = book /\ order' = order /\ status' = status
  BY DEF MoveRejected, Lock, Match, MatchEnds, FillEmptied, RestDone, TriggerSells, TriggerEnds,
         IocNotFound, RequestEnds, CancelNext, StopEnds
<1>2. Fewer /\ KeepsOrders /\ KeepsIssued
  BY <1>1, SameBook, SameOrders DEF KeepsIssued
<1>3. KeepsMoving(t)
  <2>1. CASE MoveRejected(t)
    BY <1>1, <2>1 DEF MoveRejected, KeepsMoving, WillHold, Holds
  <2>2. CASE ~MoveRejected(t)
    BY <2>2 DEF KeepsMoving, At, Lock, Match, MatchEnds, FillEmptied, RestDone, TriggerSells,
         TriggerEnds, IocNotFound, RequestEnds, CancelNext, StopEnds
  <2> QED BY <2>1, <2>2
<1>4. KeepsFrames(t)
  <2>1. CASE MoveRejected(t) \/ RestDone(t) \/ TriggerEnds(t) \/ RequestEnds(t) \/ StopEnds(t)
    <3>1. ~Idle(t) /\ Return(t) /\ f.pc # "ioc"
      BY <2>1 DEF MoveRejected, RestDone, TriggerEnds, RequestEnds, StopEnds, At
    <3> QED BY <3>1, ReturnKeeps
  <2>2. CASE Lock(t)
    <3>1. [f EXCEPT !.pc = "match"] \in FrameRecord /\ ~Idle(t) /\ f.pc = "lock"
          /\ SameJob([f EXCEPT !.pc = "match"], f) /\ [f EXCEPT !.pc = "match"].pc = "match"
      BY <2>2, TopType DEF Lock, At, FrameRecord, SameJob, Placing
    <3> QED BY <2>2, <3>1, GotoKeeps DEF Lock
  <2>3. CASE Match(t)
    <3> DEFINE opp == First(Opposite(f.list))
               qty == Smaller(order[f.id].pending, order[opp].pending)
               g == [f EXCEPT !.pc = "fill", !.opp = opp, !.qty = qty]
    <3>1. f \in [pc : {"match"}, id : Ids, list : {"buy", "sell"}, opp : {None}, qty : {0}]
          /\ ~Idle(t) /\ f.pc = "match"
      BY <2>3, AtType DEF Match
    <3>2. opp \in Ids
      BY <2>3, <3>1, FirstType, ListTypes DEF Match, CanTrade
    <3>3. qty \in Int
      BY <3>1, <3>2 DEF Smaller, TypeOK, OrderRecord
    <3>4. Goto(t, g)
      BY <2>3 DEF Match
    <3> HIDE DEF opp, qty, f
    <3>5. g \in FrameRecord /\ g.pc = "fill" /\ g.id = f.id /\ g.list = f.list
      BY <3>1, <3>2, <3>3 DEF FrameRecord
    <3> HIDE DEF g
    <3>6. SameJob(g, f)
      BY <3>1, <3>5 DEF SameJob, Placing
    <3> QED BY <3>1, <3>4, <3>5, <3>6, GotoKeeps DEF f
  <2>4. CASE MatchEnds(t)
    <3>1. [f EXCEPT !.pc = "rest"] \in FrameRecord /\ ~Idle(t) /\ f.pc = "match"
          /\ SameJob([f EXCEPT !.pc = "rest"], f) /\ [f EXCEPT !.pc = "rest"].pc = "rest"
      BY <2>4, AtType DEF MatchEnds, FrameRecord, SameJob, Placing
    <3> QED BY <2>4, <3>1, GotoKeeps DEF MatchEnds
  <2>5. CASE FillEmptied(t)
    <3>1. Frame("rest", f.id, f.list) \in FrameRecord /\ ~Idle(t) /\ f.pc = "fill"
          /\ SameJob(Frame("rest", f.id, f.list), f) /\ Frame("rest", f.id, f.list).pc = "rest"
      BY <2>5, AtType, FrameTypes DEF FillEmptied, SameJob, Placing, Frame
    <3> QED BY <2>5, <3>1, GotoKeeps DEF FillEmptied
  <2>6. CASE TriggerSells(t)
    <3>1. Frame("trigger", None, "stopSell") \in FrameRecord /\ ~Idle(t) /\ f.pc = "trigger"
          /\ ~Placing(Frame("trigger", None, "stopSell"))
      BY <2>6, AtType, ListFrameTypes DEF TriggerSells, Placing, Frame
    <3> QED BY <2>6, <3>1, GotoKeeps DEF TriggerSells
  <2>7. CASE IocNotFound(t)
    <3>1. Frame("changed", f.id, f.list) \in FrameRecord /\ ~Idle(t)
          /\ ~Placing(Frame("changed", f.id, f.list)) /\ ~WillHold(f.list, f.id)
      BY <1>1, <2>7, AtType, FrameTypes DEF IocNotFound, Placing, Frame, WillHold, Holds
    <3> QED BY <2>7, <3>1, GotoKeeps DEF IocNotFound
  <2>8. CASE CancelNext(t)
    <3>1. ListAfter[f.list] \in Lists /\ ~Idle(t) /\ f.pc = "cancelAll"
      BY <2>8, AtType DEF CancelNext, ListAfter, Lists
    <3>2. Frame("cancelAll", None, ListAfter[f.list]) \in FrameRecord
          /\ ~Placing(Frame("cancelAll", None, ListAfter[f.list]))
      BY <3>1, ListFrameTypes DEF Placing, Frame
    <3> QED BY <2>8, <3>1, <3>2, GotoKeeps DEF CancelNext
  <2> QED BY <2>1, <2>2, <2>3, <2>4, <2>5, <2>6, <2>7, <2>8
<1> QED BY <1>2, <1>3, <1>4, PlacesStay

(* Steps that end an order's life, or a part of it.                        *)
LEMMA EndingSteps ==
  ASSUME TypeOK, TypeOK', PlacesInv, NEW t \in Threads,
         Fill(t) \/ RestCanceled(t) \/ IocCancels(t) \/ CancelFirst(t)
  PROVE  PlacesInv'
<1> DEFINE f == Top(t)
<1>1. CASE Fill(t)
  <2>1. KeepsFrames(t) /\ KeepsOrders
    BY <1>1, FillKeeps, FillOrders DEF PlacesInv
  <2>2. KeepsMoving(t)
    BY <1>1, NotMoved DEF Fill
  <2>3. Fewer
    <3>1. Opposite(f.list) \in Lists /\ book[Opposite(f.list)] # <<>>
      BY <1>1, ListTypes DEF Fill
    <3>2. book' = book \/ book' = [book EXCEPT ![Opposite(f.list)] = Tail(@)]
      BY <1>1 DEF Fill
    <3>3. CASE book' = book
      BY <3>3, SameBook
    <3>4. CASE book' = [book EXCEPT ![Opposite(f.list)] = Tail(@)]
      BY <3>1, <3>4, TailDrops, DroppedFewer
    <3> QED BY <3>2, <3>3, <3>4
  <2>4. KeepsIssued
    <3> DEFINE filled == order'
    <3>1. \A o : FillStatus(o) # "NONE"
      BY DEF FillStatus
    <3>2. \E a, b : status' = [status EXCEPT ![f.opp] = FillStatus(a), ![f.id] = FillStatus(b)]
      BY <1>1 DEF Fill
    <3>3. PICK a, b : status' = [status EXCEPT ![f.opp] = FillStatus(a), ![f.id] = FillStatus(b)]
      BY <3>2
    <3> QED BY <3>1, <3>3 DEF KeepsIssued, TypeOK
  <2> QED BY <2>1, <2>2, <2>3, <2>4, PlacesStay
<1>2. CASE RestCanceled(t)
  <2>1. KeepsFrames(t)
    BY <1>2, AtType, ReturnKeeps DEF RestCanceled
  <2>2. KeepsMoving(t) /\ KeepsIssued /\ Fewer /\ KeepsOrders
    BY <1>2, NotMoved, ReportKeeps, SameBook, SameOrders DEF RestCanceled
  <2> QED BY <2>1, <2>2, PlacesStay
<1>3. CASE IocCancels(t)
  <2>1. At(t, "ioc") /\ EraseFrom(f.list, f.id) /\ Report(f.id, "CANCELED") /\ order' = order
        /\ Goto(t, Frame("changed", f.id, f.list))
    BY <1>3 DEF IocCancels
  <2>2. ~Idle(t) /\ f.id \in Ids /\ f.list \in {"buy", "sell"} /\ f.list \in Lists
    BY <2>1, AtType
  <2> HIDE DEF f
  <2>3. PICK p \in DOMAIN book[f.list] : p \in Nat /\ book[f.list][p].id = f.id /\ Dropped(f.list, p)
    BY <2>1, <2>2, EraseDrops
  <2>4. ~WillHold(f.list, f.id)
    BY <2>2, <2>3, Erased DEF PlacesInv, HomeInv
  <2>5. Frame("changed", f.id, f.list) \in FrameRecord /\ ~Placing(Frame("changed", f.id, f.list))
    BY <2>2, FrameTypes DEF Placing, Frame
  <2>6. KeepsFrames(t)
    BY <2>1, <2>2, <2>4, <2>5, GotoKeeps DEF f
  <2>7. KeepsMoving(t) /\ KeepsIssued /\ Fewer /\ KeepsOrders
    BY <2>1, <2>2, <2>3, NotMoved, ReportKeeps, DroppedFewer, SameOrders
  <2> QED BY <2>6, <2>7, PlacesStay
<1>4. CASE CancelFirst(t)
  <2>1. At(t, "cancelAll") /\ Report(First(f.list), "CANCELED") /\ order' = order /\ stack' = stack
        /\ book[f.list] # <<>> /\ book' = [book EXCEPT ![f.list] = Tail(@)]
    BY <1>4 DEF CancelFirst
  <2>2. f.list \in Lists
    BY <2>1, AtType
  <2>3. KeepsMoving(t) /\ KeepsIssued /\ Fewer /\ KeepsOrders /\ KeepsFrames(t)
    BY <2>1, <2>2, NotMoved, ReportKeeps, TailDrops, DroppedFewer, SameOrders, SameStackKeeps
  <2> QED BY <2>3, PlacesStay
<1> QED BY <1>1, <1>2, <1>3, <1>4

LEMMA TriggerTerms ==
  ASSUME NEW o \in OrderRecord
  PROVE  /\ \A x \in {"side", "tif", "price", "stop", "qty", "filled", "disclosed", "pending"} :
              TriggerOrder(o)[x] = o[x]
         /\ TriggerOrder(o).type \in {"LIMIT", "MARKET"}
         /\ TriggerOrder(o).type = "LIMIT" <=> o.type = "STOP_LIMIT"
BY DEF TriggerOrder, OrderRecord

LEMMA InsertionFields ==
  ASSUME NEW id, NEW l
  PROVE  /\ Insertion(id, l).id = id /\ Insertion(id, l).list = l
         /\ Insertion(id, l).pc \in {"lock", "match"} /\ Placing(Insertion(id, l))
BY DEF Insertion, Frame, Placing

LEMMA PlacementFields ==
  ASSUME NEW id, NEW l, NEW type
  PROVE  /\ Placement(id, l, type).id = id /\ Placement(id, l, type).list = l
         /\ Placement(id, l, type).pc \in {"stop", "lock", "match"}
         /\ Placement(id, l, type).pc = "stop" <=> IsStop(type)
         /\ Placing(Placement(id, l, type))
BY InsertionFields DEF Placement, Frame, Placing

(* A stop order that fires at once goes to insertBuy or insertSell.        *)
LEMMA StopFiresPlaces ==
  ASSUME TypeOK, TypeOK', PlacesInv, NEW t \in Threads, StopFires(t)
  PROVE  PlacesInv'
<1> DEFINE n == Len(stack[t])
<1>1. PICK f \in FrameRecord : f = Top(t)
  BY AtType DEF StopFires
<1>2. /\ ~Idle(t) /\ f.pc = "stop" /\ f.id \in Ids /\ f.list \in {"buy", "sell"} /\ Placing(f)
      /\ n \in DOMAIN stack[t] /\ stack[t][n] = f
  BY <1>1, AtType DEF StopFires, Placing
<1>3. /\ order' = [order EXCEPT ![f.id] = TriggerOrder(@)]
      /\ Goto(t, Insertion(f.id, f.list)) /\ book' = book /\ status' = status
  BY <1>1 DEF StopFires
<1>g. PICK g \in FrameRecord : g = Insertion(f.id, f.list)
  BY <1>2, FrameTypes
<1>4. g.id = f.id /\ g.list = f.list /\ g.pc \in {"lock", "match"} /\ Placing(g) /\ Goto(t, g)
  BY <1>3, <1>g, InsertionFields
<1>5. /\ Others(t) /\ n \in Nat \ {0} /\ DOMAIN stack[t] = 1 .. n /\ DOMAIN stack'[t] = 1 .. n
      /\ \A d \in 1 .. n - 1 : stack'[t][d] = stack[t][d]
      /\ stack'[t][n] = g
  BY <1>2, <1>4, GotoFrames
<1> HIDE DEF n
<1>6. \A d \in DOMAIN stack'[t] : d \in DOMAIN stack[t] /\ (d = n \/ stack'[t][d] = stack[t][d])
  BY <1>5
<1>7. KeepsCalls(t) /\ KeepsIoc(t)
  <2>1. KeepsCalls(t)
    BY <1>2, <1>4, <1>5, <1>6 DEF KeepsCalls, SameJob
  <2>2. \A d \in DOMAIN stack[t] : d \in DOMAIN stack'[t]
    BY <1>5
  <2>3. KeepsIoc(t)
    BY <1>2, <1>6, <2>2 DEF KeepsIoc
  <2> QED BY <2>1, <2>3
<1>8. Fewer /\ KeepsIssued /\ KeepsMoving(t)
  BY <1>3, SameBook, NotMoved DEF KeepsIssued, StopFires
<1>9. HomeInv'
  BY <1>5, <1>7, <1>8, HomeStays DEF PlacesInv
<1>10. /\ \A id \in Ids \ {f.id} : order'[id] = order[id]
       /\ order'[f.id] = TriggerOrder(order[f.id]) /\ order[f.id] \in OrderRecord
  BY <1>2, <1>3 DEF TypeOK
<1>11. \A id \in Ids : order'[id].side = order[id].side /\ order'[id].tif = order[id].tif
  BY <1>10, TriggerTerms
<1>12. \A l \in Lists : ~WillHold(l, f.id)
  BY <1>2, <1>3 DEF PlacesInv, HomeInv, Apart, WillHold, Holds
<1>13. \A l \in Lists : \A p \in DOMAIN book'[l] : \E j \in DOMAIN book[l] : book'[l][p] = book[l][j]
  BY <1>3
<1>14. Sorted' /\ EntriesInv'
  <2>1. \A l \in Lists : \A id \in Ids : WillHold(l, id) => SameTerms(id)
    BY <1>10, <1>12 DEF SameTerms
  <2>2. EntriesInv'
    BY <1>5, <1>8, <1>11, <1>13, <2>1, EntriesStay DEF PlacesInv, CurrentInv
  <2> QED BY <1>8, <2>2, SortedStays DEF PlacesInv, CurrentInv
<1>15. FramesInv'
  <2>1. ASSUME NEW u \in Threads, NEW d \in DOMAIN stack[u], Placing(stack[u][d]), u # t \/ d # n
        PROVE  /\ order'[stack[u][d].id].type = order[stack[u][d].id].type
               /\ order'[stack[u][d].id].side = order[stack[u][d].id].side
    <3>1. stack[u][d].id # f.id
      BY <1>2, <2>1 DEF PlacesInv, HomeInv, Apart
    <3>2. stack[u][d].id \in Ids
      BY <2>1, StackTypes DEF FrameRecord, Placing
    <3> QED BY <1>10, <3>1, <3>2
  <2>2. ASSUME NEW d \in DOMAIN stack'[t], Placing(stack'[t][d])
        PROVE  WillBeGood(stack'[t][d])
    <3>1. CASE d = n
      <4>1. order'[f.id].type \in {"LIMIT", "MARKET"} /\ ListOf(order'[f.id].side) = f.list
        BY <1>2, <1>10, <1>11, TriggerTerms DEF PlacesInv, CurrentInv, FramesInv
      <4> QED BY <1>4, <1>5, <3>1, <4>1 DEF WillBeGood, IsStop
    <3>2. CASE d # n
      <4>1. d \in DOMAIN stack[t] /\ stack'[t][d] = stack[t][d] /\ Placing(stack[t][d])
        BY <1>6, <2>2, <3>2
      <4>2. /\ order'[stack[t][d].id].type = order[stack[t][d].id].type
            /\ order'[stack[t][d].id].side = order[stack[t][d].id].side
        BY <2>1, <3>2, <4>1
      <4> QED BY <4>1, <4>2 DEF WillBeGood, PlacesInv, CurrentInv, FramesInv
    <3> QED BY <3>1, <3>2
  <2> QED BY <1>5, <2>1, <2>2, FramesStay DEF PlacesInv, CurrentInv
<1>16. IocInv'
  BY ListTypes, <1>5, <1>7, <1>11, <1>13, IocStays DEF PlacesInv
<1> QED BY <1>9, <1>14, <1>15, <1>16 DEF PlacesInv, CurrentInv

(* A call that has put its order into list l returns.                      *)
LEMMA RestedPlaces ==
  ASSUME TypeOK, TypeOK', PlacesInv, NEW t \in Threads, ~Idle(t), Return(t), Placing(Top(t)),
         NEW l \in Lists, NEW key \in Int, InsertInto(l, key, Top(t).id), KeepsIssued,
         \A id \in Ids \ {Top(t).id} : order'[id] = order[id],
         \A id \in Ids : order'[id].side = order[id].side /\ order'[id].tif = order[id].tif,
         WillBeCurrent(l, [key |-> key, id |-> Top(t).id]), RestSide(l) = Top(t).list,
         l \in {"buy", "sell"} => order[Top(t).id].tif # "IOC"
  PROVE  PlacesInv'
<1> DEFINE n == Len(stack[t])
<1>1. PICK f \in FrameRecord : f = Top(t)
  BY TopType
<1>2. /\ f.id \in Ids /\ Placing(f) /\ f.pc # "moved" /\ f.pc # "ioc"
      /\ n \in DOMAIN stack[t] /\ stack[t][n] = f
  BY <1>1, TopType DEF FrameRecord, Placing, Top
<1>3. PICK e \in Entry : e = [key |-> key, id |-> f.id]
  BY <1>2 DEF Entry
<1>4. PICK p \in Nat : Inserted(l, p, e)
  BY <1>1, <1>2, <1>3, InsertInserts
<1>5. e.id = f.id
  BY <1>3
<1>6. HomeInv'
  BY <1>1, <1>4, <1>5, HomeRested DEF PlacesInv
<1>7. KeepsFrames(t) /\ Others(t)
  BY <1>1, <1>2, ReturnKeeps DEF KeepsFrames
<1>8. Sorted'
  BY <1>4, SortedInserted DEF PlacesInv, CurrentInv
<1>9. \A m \in Lists : ~Holds(m, f.id)
  BY <1>2 DEF PlacesInv, HomeInv, Apart
<1>10. ASSUME NEW m \in Lists, NEW q \in DOMAIN book'[m]
       PROVE  \/ \E j \in DOMAIN book[m] : book'[m][q] = book[m][j]
              \/ m = l /\ book'[m][q] = e
  <2>1. CASE m # l
    BY <1>4, <2>1 DEF Inserted
  <2>2. CASE m = l /\ q = p
    BY <1>4, <2>2 DEF Inserted
  <2>3. CASE m = l /\ q # p
    BY <1>4, <2>3 DEF Inserted
  <2> QED BY <2>1, <2>2, <2>3
<1>11. WillBeCurrent(l, e) /\ ListOf(order'[e.id].side) = RestSide(l)
  <2>1. ListOf(order[f.id].side) = f.list
    BY <1>2 DEF PlacesInv, CurrentInv, FramesInv
  <2> QED BY <1>1, <1>2, <1>3, <1>5, <2>1
<1>12. EntriesInv'
  <2>1. \A m \in Lists : \A id \in Ids : WillHold(m, id) /\ Holds(m, id) =>
          order'[id].side = order[id].side /\ SameTerms(id)
    BY <1>1, <1>9 DEF SameTerms
  <2>2. \A m \in Lists : \A q \in DOMAIN book'[m] :
          \/ \E j \in DOMAIN book[m] : book'[m][q] = book[m][j]
          \/ /\ WillBeCurrent(m, book'[m][q])
             /\ ListOf(order'[book'[m][q].id].side) = RestSide(m)
    BY <1>10, <1>11
  <2>3. KeepsMoving(t)
    BY <1>1, <1>2 DEF KeepsMoving, At
  <2> QED BY <1>7, <2>1, <2>2, <2>3, EntriesStay DEF PlacesInv, CurrentInv
<1>13. FramesInv'
  <2>1. ASSUME NEW u \in Threads, NEW d \in DOMAIN stack[u], Placing(stack[u][d]), u # t \/ d # n
        PROVE  order'[stack[u][d].id] = order[stack[u][d].id]
    <3>1. stack[u][d].id # f.id
      BY <1>2, <2>1 DEF PlacesInv, HomeInv, Apart
    <3>2. stack[u][d].id \in Ids
      BY <2>1, StackTypes DEF FrameRecord, Placing
    <3> QED BY <1>1, <3>1, <3>2
  <2>2. ASSUME NEW d \in DOMAIN stack'[t], Placing(stack'[t][d])
        PROVE  WillBeGood(stack'[t][d])
    <3>1. d \in DOMAIN stack[t] /\ d # n /\ stack'[t][d] = stack[t][d]
      BY ReturnFrames
    <3>2. order'[stack[t][d].id] = order[stack[t][d].id]
      BY <2>1, <2>2, <3>1
    <3> QED BY <2>2, <3>1, <3>2 DEF WillBeGood, PlacesInv, CurrentInv, FramesInv
  <2> QED BY <1>7, <2>1, <2>2, FramesStay DEF PlacesInv, CurrentInv
<1>14. IocInv'
  <2>1. \A m \in {"buy", "sell"} : \A q \in DOMAIN book'[m] :
          \/ \E j \in DOMAIN book[m] : book'[m][q] = book[m][j]
          \/ order'[book'[m][q].id].tif # "IOC"
    BY <1>1, <1>2, <1>5, <1>10, ListTypes
  <2> QED BY <1>7, <2>1, IocStays DEF PlacesInv, KeepsFrames
<1> QED BY <1>6, <1>8, <1>12, <1>13, <1>14 DEF PlacesInv, CurrentInv

LEMMA RestingSteps ==
  ASSUME TypeOK, TypeOK', PlacesInv, NEW t \in Threads, StopRests(t) \/ Rest(t)
  PROVE  PlacesInv'
<1> DEFINE f == Top(t)
<1>1. CASE StopRests(t)
  <2>1. /\ ~Idle(t) /\ f.id \in Ids /\ f.list \in {"buy", "sell"} /\ f.pc = "stop" /\ Placing(f)
        /\ Len(stack[t]) \in DOMAIN stack[t] /\ stack[t][Len(stack[t])] = f
    BY <1>1, AtType DEF StopRests, Placing
  <2>2. /\ InsertInto(StopList(f.list), order[f.id].stop, f.id) /\ Return(t)
        /\ order' = order /\ status' = status
    BY <1>1 DEF StopRests
  <2>3. IsStop(order[f.id].type) /\ order[f.id].stop \in Int
    BY <2>1 DEF PlacesInv, CurrentInv, FramesInv, TypeOK, OrderRecord
  <2>4. /\ StopList(f.list) \in Lists /\ RestSide(StopList(f.list)) = f.list
        /\ StopList(f.list) \notin {"buy", "sell"}
    BY <2>1 DEF StopList, RestSide, Lists
  <2>5. WillBeCurrent(StopList(f.list), [key |-> order[f.id].stop, id |-> f.id])
    BY <2>2, <2>3, <2>4 DEF WillBeCurrent
  <2> QED BY <2>1, <2>2, <2>3, <2>4, <2>5, RestedPlaces DEF KeepsIssued
<1>2. CASE Rest(t)
  <2> DEFINE o == order[f.id]
             placed == IF o.type = "MARKET" THEN MarketToLimit(o, ltp) ELSE o
  <2>1. /\ ~Idle(t) /\ f.id \in Ids /\ f.list \in {"buy", "sell"} /\ f.pc = "rest" /\ Placing(f)
        /\ Len(stack[t]) \in DOMAIN stack[t] /\ stack[t][Len(stack[t])] = f
    BY <1>2, AtType DEF Rest, Placing
  <2>2. /\ order' = [order EXCEPT ![f.id] = placed] /\ InsertInto(f.list, placed.price, f.id)
        /\ Return(t) /\ status' = status /\ o.tif # "IOC"
    BY <1>2 DEF Rest, CannotRest
  <2>3. ~IsStop(o.type) /\ o \in OrderRecord
    BY <2>1 DEF PlacesInv, CurrentInv, FramesInv, TypeOK
  <2>4. /\ placed.type = "LIMIT" /\ placed.side = o.side /\ placed.tif = o.tif
        /\ placed.price \in Int
    BY <2>3 DEF MarketToLimit, TypeOK, OrderRecord, IsStop, OrderType
  <2> HIDE DEF placed
  <2>5. f.list \in Lists /\ RestSide(f.list) = f.list
    BY <2>1 DEF RestSide, Lists
  <2>6. order'[f.id] = placed /\ \A id \in Ids \ {f.id} : order'[id] = order[id]
    BY <2>1, <2>2 DEF TypeOK
  <2>7. WillBeCurrent(f.list, [key |-> placed.price, id |-> f.id])
    BY <2>1, <2>4, <2>6 DEF WillBeCurrent
  <2>8. \A id \in Ids : order'[id].side = order[id].side /\ order'[id].tif = order[id].tif
    BY <2>4, <2>6
  <2> HIDE DEF f
  <2> QED BY <2>1, <2>2, <2>4, <2>5, <2>6, <2>7, <2>8, RestedPlaces DEF KeepsIssued, f
<1> QED BY <1>1, <1>2

(* A call with frame g at depth n takes up an order that rests nowhere and *)
(* that no other call has.                                                 *)
LEMMA PlacedPlaces ==
  ASSUME TypeOK, TypeOK', PlacesInv, NEW t \in Threads, Others(t),
         NEW n \in DOMAIN stack'[t], NEW g \in FrameRecord, stack'[t][n] = g, g.id \in Ids, WillBeGood(g),
         \A d \in DOMAIN stack'[t] \ {n} :
           Placing(stack'[t][d]) => d \in DOMAIN stack[t] /\ stack'[t][d] = stack[t][d],
         Fewer, KeepsIssued, KeepsMoving(t), KeepsIoc(t),
         status'[g.id] # "NONE",
         \A l \in Lists : ~WillHold(l, g.id),
         \A u \in Threads : \A d \in DOMAIN stack[u] : Placing(stack[u][d]) => stack[u][d].id # g.id,
         \A id \in Ids \ {g.id} : order'[id] = order[id]
  PROVE  PlacesInv'
<1>1. HomeInv'
  BY HomePlaced DEF PlacesInv, SameJob
<1>2. Sorted'
  BY SortedStays DEF PlacesInv, CurrentInv
<1>3. \A l \in Lists : \A p \in DOMAIN book'[l] : \E j \in DOMAIN book[l] : book'[l][p] = book[l][j]
  BY FewerHold
<1>4. EntriesInv'
  <2>1. \A l \in Lists : \A id \in Ids : WillHold(l, id) /\ Holds(l, id) =>
          order'[id].side = order[id].side /\ SameTerms(id)
    BY DEF SameTerms
  <2> QED BY <1>3, <2>1, EntriesStay DEF PlacesInv, CurrentInv
<1>5. FramesInv'
  <2>1. ASSUME NEW u \in Threads, NEW d \in DOMAIN stack[u], Placing(stack[u][d])
        PROVE  order'[stack[u][d].id] = order[stack[u][d].id]
    <3>1. stack[u][d].id \in Ids
      BY <2>1, StackTypes DEF FrameRecord, Placing
    <3> QED BY <2>1, <3>1
  <2>2. ASSUME NEW d \in DOMAIN stack'[t], Placing(stack'[t][d])
        PROVE  WillBeGood(stack'[t][d])
    <3>1. CASE d = n
      BY <3>1
    <3>2. CASE d # n
      <4>1. d \in DOMAIN stack[t] /\ stack'[t][d] = stack[t][d]
        BY <2>2, <3>2
      <4>2. order'[stack[t][d].id] = order[stack[t][d].id]
        BY <2>1, <2>2, <4>1
      <4> QED BY <2>2, <4>1, <4>2 DEF WillBeGood, PlacesInv, CurrentInv, FramesInv
    <3> QED BY <3>1, <3>2
  <2> QED BY <2>1, <2>2, FramesStay DEF PlacesInv, CurrentInv
<1>6. IocInv'
  <2>1. \A l \in {"buy", "sell"} : \A id \in Ids : WillHold(l, id) => order'[id] = order[id]
    BY ListTypes
  <2> QED BY <1>3, <2>1, ListTypes, IocStays DEF PlacesInv
<1> QED BY <1>1, <1>2, <1>4, <1>5, <1>6 DEF PlacesInv, CurrentInv

(* A moved order is taken from its list and handed to a new call.          *)
LEMMA MovePlaces ==
  ASSUME TypeOK, TypeOK', PlacesInv, NEW t \in Threads, Move(t)
  PROVE  PlacesInv'
<1> DEFINE n == Len(stack[t])
<1>1. PICK f \in FrameRecord : f = Top(t)
  BY AtType DEF Move
<1>2. /\ ~Idle(t) /\ f.pc = "moved" /\ f.id \in Ids /\ f.list \in Lists /\ ~Placing(f)
      /\ n \in DOMAIN stack[t] /\ stack[t][n] = f
  BY <1>1, AtType DEF Move, Placing
<1>3. /\ EraseFrom(f.list, f.id) /\ Goto(t, Placement(f.id, RestSide(f.list), order[f.id].type))
      /\ order' = order /\ status' = status
  BY <1>1 DEF Move
<1>g. PICK g \in FrameRecord : g = Placement(f.id, RestSide(f.list), order[f.id].type)
  BY <1>2, FrameTypes, ListTypes
<1>4. /\ g.id = f.id /\ g.list = RestSide(f.list) /\ (g.pc = "stop" <=> IsStop(order[f.id].type))
      /\ Goto(t, g)
  BY <1>3, <1>g, PlacementFields
<1>5. /\ Others(t) /\ n \in Nat \ {0} /\ DOMAIN stack[t] = 1 .. n /\ DOMAIN stack'[t] = 1 .. n
      /\ \A d \in 1 .. n - 1 : stack'[t][d] = stack[t][d]
      /\ stack'[t][n] = g
  BY <1>2, <1>4, GotoFrames
<1> HIDE DEF n
<1>6. \A d \in 1 .. n : d = n \/ d \in 1 .. n - 1
  BY <1>5
<1>7. PICK p \in DOMAIN book[f.list] :
        p \in Nat /\ book[f.list][p].id = f.id /\ Dropped(f.list, p)
  BY <1>2, <1>3, EraseDrops
<1>8. \A l \in Lists : ~WillHold(l, f.id)
  BY <1>2, <1>7, Erased DEF PlacesInv, HomeInv
<1>9. Holds(f.list, f.id)
  BY <1>7 DEF Holds
<1>10. /\ status[f.id] # "NONE"
       /\ \A u \in Threads : \A d \in DOMAIN stack[u] : Placing(stack[u][d]) => stack[u][d].id # f.id
  BY <1>2, <1>9 DEF PlacesInv, HomeInv, FreshIds, Apart
<1>11. WillBeGood(g)
  BY <1>2, <1>3, <1>4, <1>7 DEF WillBeGood, PlacesInv, CurrentInv, EntriesInv
<1>12. KeepsIoc(t) /\ KeepsMoving(t) /\ KeepsIssued /\ Fewer
  <2>1. KeepsIoc(t)
    BY <1>2, <1>5, <1>6 DEF KeepsIoc
  <2> QED BY <1>1, <1>2, <1>3, <1>7, <1>8, <2>1, DroppedFewer DEF KeepsMoving, KeepsIssued
<1> QED BY <1>2, <1>3, <1>4, <1>5, <1>6, <1>8, <1>10, <1>11, <1>12, PlacedPlaces

(* A triggered order is taken from the stop list and handed to a call.     *)
LEMMA TriggerPlaces ==
  ASSUME TypeOK, TypeOK', PlacesInv, NEW t \in Threads, TriggerFirst(t)
  PROVE  PlacesInv'
<1> DEFINE n == Len(stack[t])
<1>1. PICK sl \in {"stopBuy", "stopSell"} : sl = Top(t).list
  BY AtType DEF TriggerFirst
<1>2. ~Idle(t) /\ Top(t).pc = "trigger" /\ sl \in Lists /\ book[sl] # <<>>
  BY <1>1, AtType, ListTypes DEF TriggerFirst, FirstTriggered
<1>3. PICK id \in Ids : id = First(sl)
  BY <1>2, FirstType
<1>4. /\ book' = [book EXCEPT ![sl] = Tail(@)] /\ order' = [order EXCEPT ![id] = TriggerOrder(@)]
      /\ Call(t, Insertion(id, RestList(sl))) /\ status' = status
  BY <1>1, <1>3 DEF TriggerFirst
<1>g. PICK g \in FrameRecord : g = Insertion(id, RestList(sl))
  BY FrameTypes, ListTypes
<1>5. g.id = id /\ g.list = RestList(sl) /\ g.pc \in {"lock", "match"} /\ Call(t, g)
  BY <1>4, <1>g, InsertionFields
<1>6. /\ Others(t) /\ n \in Nat
      /\ DOMAIN stack[t] = 1 .. n /\ DOMAIN stack'[t] = 1 .. n + 1
      /\ \A d \in 1 .. n : stack'[t][d] = stack[t][d]
      /\ stack'[t][n + 1] = g
  BY <1>5, CallFrames
<1> HIDE DEF n
<1>7. /\ n + 1 \in DOMAIN stack'[t]
      /\ \A d \in DOMAIN stack'[t] \ {n + 1} : d \in DOMAIN stack[t] /\ stack'[t][d] = stack[t][d]
      /\ \A d \in DOMAIN stack[t] : d \in DOMAIN stack'[t] /\ stack'[t][d] = stack[t][d]
  BY <1>6
<1>8. 1 \in DOMAIN book[sl] /\ book[sl][1].id = id /\ Dropped(sl, 1)
  BY <1>2, <1>3, <1>4, TailDrops
<1>9. \A l \in Lists : ~WillHold(l, id)
  BY <1>2, <1>8, Erased DEF PlacesInv, HomeInv
<1>10. Holds(sl, id)
  BY <1>8 DEF Holds
<1>11. /\ status[id] # "NONE"
       /\ \A u \in Threads : \A d \in DOMAIN stack[u] : Placing(stack[u][d]) => stack[u][d].id # id
  BY <1>2, <1>10 DEF PlacesInv, HomeInv, FreshIds, Apart
<1>12. /\ order'[id] = TriggerOrder(order[id]) /\ order[id] \in OrderRecord
       /\ \A i \in Ids \ {id} : order'[i] = order[i]
  BY <1>4 DEF TypeOK
<1>13. WillBeGood(g)
  <2>1. ListOf(order[id].side) = RestSide(sl)
    BY <1>2, <1>8 DEF PlacesInv, CurrentInv, EntriesInv
  <2>2. RestSide(sl) = RestList(sl)
    BY <1>1 DEF RestSide, RestList
  <2> QED BY <1>5, <1>12, <2>1, <2>2, TriggerTerms DEF WillBeGood, IsStop
<1>14. KeepsIoc(t) /\ KeepsMoving(t) /\ KeepsIssued /\ Fewer
  <2>1. KeepsIoc(t)
    BY <1>7 DEF KeepsIoc
  <2>2. KeepsMoving(t)
    BY <1>2 DEF KeepsMoving, At
  <2>3. KeepsIssued
    BY <1>4 DEF KeepsIssued
  <2> QED BY <1>2, <1>8, <2>1, <2>2, <2>3, DroppedFewer
<1> QED BY <1>4, <1>5, <1>6, <1>7, <1>9, <1>11, <1>12, <1>13, <1>14, PlacedPlaces

LEMMA ContinuePlaces ==
  ASSUME TypeOK, PlacesInv, NEW t \in Threads, Continue(t)
  PROVE  PlacesInv'
<1>1. TypeOK'
  BY ContinueTypes
<1> QED BY <1>1, QuietSteps, EndingSteps, StopFiresPlaces, RestingSteps, MovePlaces, TriggerPlaces
        DEF Continue

-----------------------------------------------------------------------------
(* The requests and the commands.                                          *)
LEMMA IdleKeepsMoving ==
  ASSUME NEW t, Idle(t)
  PROVE  KeepsMoving(t)
BY DEF KeepsMoving, At

LEMMA NewFrames ==
  ASSUME NEW id \in Ids, NEW o
  PROVE  LET l == ListOf(o.side)  a == AfterReplace(id, o, l)  c == Frame("changed", id, l)
             m == Frame("moved", id, Found(id, l))
         IN  /\ {a, c, m, Placement(id, l, o.type)} \subseteq FrameRecord
             /\ a.pc \in {"ioc", "changed"} /\ a.id = id /\ a.list = l
             /\ a.pc = "ioc" <=> o.tif = "IOC"
             /\ c.pc = "changed" /\ m.pc = "moved" /\ m.id = id /\ m.list = Found(id, l)
BY FrameTypes, ListFrameTypes, ListTypes DEF AfterReplace, Frame, Found

LEMMA InsertPlaces ==
  ASSUME TypeOK, TypeOK', PlacesInv, NEW t \in Threads, NEW id \in Ids, NEW o \in NewOrders,
         Insert(t, id, o)
  PROVE  PlacesInv'
<1> DEFINE l == ListOf(o.side)
<1>1. PICK c \in FrameRecord : c = Frame("changed", id, l)
  BY NewFrames
<1>2. PICK g \in FrameRecord : g = Placement(id, l, o.type)
  BY NewFrames
<1>3. /\ Idle(t) /\ status[id] = "NONE" /\ order' = [order EXCEPT ![id] = o] /\ book' = book
      /\ status' = [status EXCEPT ![id] = "WORKING"]
  BY DEF Insert, Report
<1>4. Begin(t, <<c, g>>)
  BY <1>1, <1>2 DEF Insert
<1>5. /\ DOMAIN stack[t] = {} /\ Others(t) /\ DOMAIN stack'[t] = {1, 2}
      /\ stack'[t][1] = c /\ stack'[t][2] = g
  BY <1>3, <1>4, BeginFrames
<1>6. ~Placing(c)
  BY <1>1 DEF Frame, Placing
<1>7. g.id = id /\ g.list = l /\ (g.pc = "stop" <=> IsStop(o.type))
  BY <1>2, PlacementFields
<1>8. \A i \in Ids \ {id} : order'[i] = order[i]
  BY <1>3 DEF TypeOK
<1>9. WillBeGood(g)
  BY <1>3, <1>7 DEF WillBeGood, TypeOK
<1>10. /\ \A m \in Lists : ~WillHold(m, id)
       /\ \A u \in Threads : \A d \in DOMAIN stack[u] : Placing(stack[u][d]) => stack[u][d].id # id
  BY <1>3 DEF PlacesInv, HomeInv, FreshIds, WillHold, Holds
<1>11. KeepsIoc(t) /\ KeepsMoving(t) /\ KeepsIssued /\ Fewer /\ status'[id] # "NONE"
  BY <1>3, <1>5, IdleKeepsMoving, SameBook DEF KeepsIoc, KeepsIssued, TypeOK
<1> QED BY <1>5, <1>6, <1>7, <1>8, <1>9, <1>10, <1>11, PlacedPlaces

LEMMA ReplacedTerms ==
  ASSUME NEW old \in OrderRecord, NEW new \in OrderRecord
  PROVE  /\ ReplacedOrder(old, new).side = old.side
         /\ ReplacedOrder(old, new).tif = new.tif
         /\ ReplacedOrder(old, new).filled = old.filled
         /\ ~LosesPriority(old, new) =>
              \A f \in {"type", "price", "stop"} : ReplacedOrder(old, new)[f] = old[f]
<1> DEFINE r == [old EXCEPT !.qty = new.qty, !.disclosed = new.disclosed,
                   !.tif = new.tif, !.type = new.type, !.stop = new.stop,
                   !.price = IF new.type \in {"MARKET", "STOP"} THEN @ ELSE new.price]
<1>1. /\ r \in OrderRecord /\ r.side = old.side /\ r.tif = new.tif /\ r.filled = old.filled
      /\ r.type = new.type /\ r.stop = new.stop
      /\ r.price = IF new.type \in {"MARKET", "STOP"} THEN old.price ELSE new.price
  BY DEF OrderRecord
<1>2. ReplacedOrder(old, new) = WithPending(r)
  BY DEF ReplacedOrder
<1> HIDE DEF r
<1>3. \A f \in {"side", "tif", "filled", "type", "price", "stop"} : WithPending(r)[f] = r[f]
  BY <1>1 DEF WithPending, OrderRecord
<1> QED BY <1>1, <1>2, <1>3 DEF LosesPriority

(* A replaced order stays where it is under the terms it had, or is on the *)
(* move; when it became immediate-or-cancel, the last frame cancels it.    *)
LEMMA ReplacePlaces ==
  ASSUME TypeOK, TypeOK', PlacesInv, NEW t \in Threads, NEW id \in Ids, NEW o \in ReplaceOrders,
         ReplaceKept(t, id, o) \/ ReplaceMoved(t, id, o)
  PROVE  PlacesInv'
<1> DEFINE l == ListOf(o.side)
<1>1. PICK k \in Lists : k = Found(id, l)
  BY ListTypes DEF Found
<1>2. PICK a \in FrameRecord : a = AfterReplace(id, o, l)
  BY NewFrames
<1>3. PICK m \in FrameRecord : m = Frame("moved", id, Found(id, l))
  BY NewFrames
<1>4. /\ a.id = id /\ a.list = l /\ a.pc \in {"ioc", "changed"} /\ (a.pc = "ioc" <=> o.tif = "IOC")
      /\ m.id = id /\ m.list = k /\ m.pc = "moved"
  BY <1>1, <1>2, <1>3 DEF AfterReplace, Frame
<1>5. /\ Idle(t) /\ Holds(k, id) /\ order' = [order EXCEPT ![id] = ReplacedOrder(@, o)]
      /\ book' = book /\ status' = status
  BY <1>1 DEF ReplaceKept, ReplaceMoved, CanReplaceIn
<1>6. (Begin(t, <<a>>) /\ ~LosesPriority(order[id], o)) \/ Begin(t, <<a, m>>)
  BY <1>2, <1>3 DEF ReplaceKept, ReplaceMoved
<1>7. /\ DOMAIN stack[t] = {} /\ Others(t) /\ 1 \in DOMAIN stack'[t] /\ stack'[t][1] = a
      /\ \A d \in DOMAIN stack'[t] : ~Placing(stack'[t][d])
  BY <1>4, <1>5, <1>6, BeginFrames DEF Placing
<1>8. KeepsCalls(t) /\ KeepsIoc(t) /\ Fewer /\ KeepsIssued /\ KeepsMoving(t)
  BY <1>5, <1>7, SameBook, IdleKeepsMoving DEF KeepsCalls, KeepsIoc, KeepsIssued
<1>9. HomeInv' /\ Sorted'
  BY <1>7, <1>8, HomeStays, SortedStays DEF PlacesInv, CurrentInv
<1>10. /\ order[id] \in OrderRecord /\ o \in OrderRecord
       /\ order'[id] = ReplacedOrder(order[id], o)
       /\ \A i \in Ids \ {id} : order'[i] = order[i]
  BY <1>5, OrdersAssumption DEF TypeOK
<1>11. \A j \in Lists : WillHold(j, id) => j = k
  BY <1>5 DEF PlacesInv, HomeInv, Distinct, WillHold, Holds
<1>12. \A j \in Lists : \A p \in DOMAIN book'[j] : \E q \in DOMAIN book[j] : book'[j][p] = book[j][q]
  BY <1>5
<1>13. SameTerms(id) \/ WillMove(k, id)
  <2>1. CASE ~LosesPriority(order[id], o)
    BY <1>10, <2>1, ReplacedTerms DEF SameTerms
  <2>2. CASE Begin(t, <<a, m>>)
    <3>1. stack'[t] = <<a, m>>
      BY <2>2 DEF Begin, TypeOK
    <3>2. stack'[t] # <<>> /\ stack'[t][Len(stack'[t])] = m
      BY <3>1
    <3> QED BY <1>4, <3>2 DEF WillMove
  <2> QED BY <1>6, <2>1, <2>2
<1>14. EntriesInv'
  <2>1. \A j \in Lists : \A i \in Ids : WillHold(j, i) /\ Holds(j, i) =>
          order'[i].side = order[i].side /\ (SameTerms(i) \/ WillMove(j, i))
    <3> SUFFICES ASSUME NEW j \in Lists, NEW i \in Ids, WillHold(j, i)
                 PROVE  order'[i].side = order[i].side /\ (SameTerms(i) \/ WillMove(j, i))
      OBVIOUS
    <3>1. CASE i = id
      BY <1>10, <1>11, <1>13, <3>1, ReplacedTerms
    <3>2. CASE i # id
      BY <1>10, <3>2 DEF SameTerms
    <3> QED BY <3>1, <3>2
  <2> QED BY <1>7, <1>8, <1>12, <2>1, EntriesStay DEF PlacesInv, CurrentInv
<1>15. FramesInv'
  <2>1. ASSUME NEW u \in Threads, NEW d \in DOMAIN stack[u], Placing(stack[u][d])
        PROVE  order'[stack[u][d].id] = order[stack[u][d].id]
    <3>1. stack[u][d].id # id
      BY <1>5, <2>1 DEF PlacesInv, HomeInv, Apart
    <3>2. stack[u][d].id \in Ids
      BY <2>1, StackTypes DEF FrameRecord, Placing
    <3> QED BY <1>10, <3>1, <3>2
  <2> QED BY <1>7, <2>1, FramesStay DEF PlacesInv, CurrentInv
<1>16. IocInv'
  <2>1. ASSUME NEW j \in {"buy", "sell"}, NEW i \in Ids, WillHold(j, i), order'[i].tif = "IOC"
        PROVE  order[i].tif = "IOC" \/ WillBeCanceled(j, i)
    <3>1. CASE i # id
      BY <1>10, <2>1, <3>1
    <3>2. CASE i = id
      <4>1. o.tif = "IOC" /\ j = k
        BY <1>10, <1>11, <2>1, <3>2, ListTypes, ReplacedTerms
      <4>2. k = l
        BY <1>1, <4>1 DEF Found, StopList
      <4> QED BY <1>4, <1>7, <3>2, <4>1, <4>2 DEF WillBeCanceled
    <3> QED BY <3>1, <3>2
  <2> QED BY <1>7, <1>8, <1>12, <2>1, ListTypes, IocStays DEF PlacesInv
<1> QED BY <1>9, <1>14, <1>15, <1>16 DEF PlacesInv, CurrentInv

LEMMA RequestPlaces ==
  ASSUME TypeOK, PlacesInv, NEW t \in Sessions, Request(t)
  PROVE  PlacesInv'
<1>0. t \in Threads /\ TypeOK'
  BY RequestTypes DEF Threads
<1>1. ASSUME NEW id \in Ids, NEW o \in NewOrders, Insert(t, id, o) PROVE PlacesInv'
  BY <1>0, <1>1, InsertPlaces
<1>2. ASSUME NEW id \in Ids, NEW o \in NewOrders, InsertWhenClosed(t, id, o) PROVE PlacesInv'
  <2>1. /\ Idle(t) /\ status[id] = "NONE" /\ order' = [order EXCEPT ![id] = o] /\ book' = book
        /\ status' = [status EXCEPT ![id] = "REJECTED"] /\ stack' = stack
    BY <1>2 DEF InsertWhenClosed, Report
  <2>2. /\ \A m \in Lists : ~WillHold(m, id)
        /\ \A u \in Threads : \A d \in DOMAIN stack[u] : Placing(stack[u][d]) => stack[u][d].id # id
    BY <2>1 DEF PlacesInv, HomeInv, FreshIds, WillHold, Holds
  <2>3. \A i \in Ids \ {id} : order'[i] = order[i]
    BY <2>1 DEF TypeOK
  <2>4. KeepsFrames(t) /\ KeepsMoving(t) /\ Fewer /\ KeepsIssued
    BY <1>0, <2>1, SameStackKeeps, IdleKeepsMoving, SameBook DEF KeepsIssued, TypeOK
  <2>5. HomeInv' /\ Sorted'
    BY <1>0, <2>4, HomeStays, SortedStays DEF PlacesInv, CurrentInv, KeepsFrames
  <2>6. \A l \in Lists : \A p \in DOMAIN book'[l] : \E j \in DOMAIN book[l] : book'[l][p] = book[l][j]
    BY <2>1
  <2>7. EntriesInv'
    <3>1. \A l \in Lists : \A i \in Ids : WillHold(l, i) /\ Holds(l, i) =>
            order'[i].side = order[i].side /\ SameTerms(i)
      BY <2>2, <2>3 DEF SameTerms
    <3> QED BY <1>0, <2>4, <2>6, <3>1, EntriesStay DEF PlacesInv, CurrentInv, KeepsFrames
  <2>8. FramesInv'
    <3>1. ASSUME NEW u \in Threads, NEW d \in DOMAIN stack[u], Placing(stack[u][d])
          PROVE  order'[stack[u][d].id] = order[stack[u][d].id]
      <4>1. stack[u][d].id \in Ids
        BY <3>1, StackTypes DEF FrameRecord, Placing
      <4> QED BY <2>2, <2>3, <3>1, <4>1
    <3>2. ASSUME NEW d \in DOMAIN stack'[t], Placing(stack'[t][d])
          PROVE  WillBeGood(stack'[t][d])
      BY <1>0, <2>1, <3>1, <3>2 DEF WillBeGood, PlacesInv, CurrentInv, FramesInv
    <3> QED BY <1>0, <2>4, <3>1, <3>2, FramesStay DEF PlacesInv, CurrentInv, KeepsFrames
  <2>9. IocInv'
    BY <1>0, <2>2, <2>3, <2>4, <2>6, ListTypes, IocStays DEF PlacesInv, KeepsFrames
  <2> QED BY <2>5, <2>7, <2>8, <2>9 DEF PlacesInv, CurrentInv
<1>3. ASSUME NEW id \in Ids, NEW o \in ReplaceOrders, ReplaceKept(t, id, o) \/ ReplaceMoved(t, id, o)
      PROVE  PlacesInv'
  BY <1>0, <1>3, ReplacePlaces
<1>4. ASSUME NEW id \in Ids, NEW o \in ReplaceOrders, ReplaceRejected(t, id, o) PROVE PlacesInv'
  <2>1. PICK a \in FrameRecord : a = AfterReplace(id, o, ListOf(o.side)) /\ a.pc \in {"ioc", "changed"}
    BY NewFrames
  <2>2. Idle(t) /\ Begin(t, <<a>>) /\ order' = order /\ book' = book /\ status' = status
    BY <1>4, <2>1 DEF ReplaceRejected
  <2>3. KeepsFrames(t)
    BY <1>0, <2>1, <2>2, BeginKeeps DEF Placing
  <2> QED BY <1>0, <2>2, <2>3, SameBook, SameOrders, IdleKeepsMoving, PlacesStay DEF KeepsIssued
<1>5. ASSUME NEW id \in Ids, NEW o, ReplaceWhenClosed(t, id, o) PROVE PlacesInv'
  <2>1. /\ Idle(t) /\ order' = order /\ book' = book /\ stack' = stack /\ Report(id, "REJECTED")
    BY <1>5 DEF ReplaceWhenClosed
  <2>2. KeepsFrames(t) /\ KeepsMoving(t) /\ Fewer /\ KeepsIssued /\ KeepsOrders
    BY <1>0, <2>1, SameStackKeeps, IdleKeepsMoving, SameBook, SameOrders, ReportKeeps
  <2> QED BY <1>0, <2>2, PlacesStay
<1>6. ASSUME NEW id \in Ids, NEW o, Cancel(t, id, o) PROVE PlacesInv'
  <2>1. /\ Idle(t) /\ order' = order /\ stack' = stack /\ Report(id, "CANCELED")
        /\ EraseFrom(CancelList(o), id)
    BY <1>6 DEF Cancel
  <2>2. CancelList(o) \in Lists
    BY ListTypes DEF CancelList
  <2>3. KeepsFrames(t) /\ KeepsMoving(t) /\ Fewer /\ KeepsIssued /\ KeepsOrders
    BY <1>0, <2>1, <2>2, SameStackKeeps, IdleKeepsMoving, EraseDrops, DroppedFewer, SameOrders, ReportKeeps
  <2> QED BY <1>0, <2>3, PlacesStay
<1>7. ASSUME NEW id \in Ids, NEW o, CancelRejected(t, id, o) PROVE PlacesInv'
  <2>1. Idle(t) /\ order' = order /\ stack' = stack /\ book' = book /\ status' = status
    BY <1>7 DEF CancelRejected
  <2>2. KeepsFrames(t) /\ KeepsMoving(t) /\ Fewer /\ KeepsIssued /\ KeepsOrders
    BY <1>0, <2>1, SameStackKeeps, IdleKeepsMoving, SameBook, SameOrders DEF KeepsIssued
  <2> QED BY <1>0, <2>2, PlacesStay
<1> QED BY <1>1, <1>2, <1>3, <1>4, <1>5, <1>6, <1>7 DEF Request

LEMMA CommandPlaces ==
  ASSUME TypeOK, TypeOK', PlacesInv, NEW t \in Threads, Command(t)
  PROVE  PlacesInv'
<1>1. CASE Stop(t)
  <2>1. PICK c \in FrameRecord : c = Frame("cancelAll", None, "buy") /\ ~Placing(c)
    BY ListFrameTypes DEF Lists, Frame, Placing
  <2>2. Idle(t) /\ Begin(t, <<c>>) /\ order' = order /\ book' = book /\ status' = status
    BY <1>1, <2>1 DEF Stop
  <2>3. KeepsFrames(t)
    BY <2>1, <2>2, BeginKeeps
  <2> QED BY <2>2, <2>3, SameBook, SameOrders, IdleKeepsMoving, PlacesStay DEF KeepsIssued
<1>2. CASE Start(t)
  <2>1. Idle(t) /\ order' = order /\ stack' = stack /\ book' = book /\ status' = status
    BY <1>2 DEF Start
  <2> QED BY <2>1, SameStackKeeps, IdleKeepsMoving, SameBook, SameOrders, PlacesStay DEF KeepsIssued
<1> QED BY <1>1, <1>2 DEF Command

LEMMA NextPlaces == TypeOK /\ PlacesInv /\ [Next]_vars => PlacesInv'
<1> SUFFICES ASSUME TypeOK, PlacesInv, [Next]_vars PROVE PlacesInv'
  OBVIOUS
<1>1. ASSUME NEW t \in Sessions, Request(t) PROVE PlacesInv'
  BY <1>1, RequestPlaces
<1>2. ASSUME NEW t \in Consoles, Command(t) PROVE PlacesInv'
  <2>1. TypeOK'
    BY <1>2, NextTypes DEF Next
  <2> QED BY <1>2, <2>1, CommandPlaces DEF Threads
<1>3. ASSUME NEW t \in Threads, Continue(t) PROVE PlacesInv'
  BY <1>3, ContinuePlaces
<1>4. CASE UNCHANGED vars
  BY <1>4 DEF vars, PlacesInv, HomeInv, Distinct, Apart, FreshIds, CurrentInv, Sorted, EntriesInv, FramesInv,
       IocInv, Holds, EntryIsCurrent, Moving, ToBeCanceled, At, Top, Idle
<1> QED BY <1>1, <1>2, <1>3, <1>4 DEF Next

LEMMA InitPlaces == Init => PlacesInv
<1> SUFFICES ASSUME Init PROVE PlacesInv
  OBVIOUS
<1>1. /\ \A l \in Lists : DOMAIN book[l] = {}
      /\ \A t \in Threads : DOMAIN stack[t] = {}
  BY DEF Init
<1>2. HomeInv
  BY <1>1 DEF HomeInv, Distinct, Apart, FreshIds, Holds
<1>3. CurrentInv
  BY <1>1 DEF CurrentInv, Sorted, EntriesInv, FramesInv
<1>4. IocInv
  BY <1>1, ListTypes DEF IocInv
<1> QED BY <1>2, <1>3, <1>4 DEF PlacesInv

LEMMA PlacesCorrect == Spec => [](TypeOK /\ PlacesInv)
BY InitTypes, NextTypes, InitPlaces, NextPlaces, PTL DEF Spec

-----------------------------------------------------------------------------
(* For any number of threads: an order rests in at most one place, and not *)
(* while a call that will place it is on some thread's stack.              *)
THEOREM PlacedOnce == Spec => []OneHome
<1>1. TypeOK /\ PlacesInv => OneHome
  <2> SUFFICES ASSUME TypeOK, PlacesInv, NEW id \in Ids, NEW x \in Places(id), NEW y \in Places(id)
               PROVE  x = y /\ ~BeingPlaced(id)
    BY DEF OneHome
  <2>1. PICK l \in Lists, m \in Lists : x \in {l} \X DOMAIN book[l] /\ y \in {m} \X DOMAIN book[m]
    BY DEF Places
  <2>2. /\ x = <<l, x[2]>> /\ x[1] = l /\ x[2] \in DOMAIN book[l] /\ book[l][x[2]].id = id
        /\ y = <<m, y[2]>> /\ y[1] = m /\ y[2] \in DOMAIN book[m] /\ book[m][y[2]].id = id
    BY <2>1 DEF Places
  <2>3. x = y
    BY <2>2 DEF PlacesInv, HomeInv, Distinct
  <2>4. Holds(l, id)
    BY <2>2 DEF Holds
  <2>5. ~BeingPlaced(id)
    BY <2>4 DEF BeingPlaced, PlacesInv, HomeInv, Apart, Placing
  <2> QED BY <2>3, <2>5
<1> QED BY <1>1, PlacesCorrect, PTL

(* For any number of threads: each list is sorted, and the key an order    *)
(* was entered under is its present price or stop price, although replace  *)
(* and trigger change orders in place, unless the order is on the move.    *)
THEOREM KeysAreCurrent == Spec => []BookIsCurrent
<1>1. PlacesInv => BookIsCurrent
  BY DEF PlacesInv, CurrentInv, Sorted, EntriesInv, Moving, BookIsCurrent, OnTheMove
<1> QED BY <1>1, PlacesCorrect, PTL

(* For any number of threads: when all are idle, no immediate-or-cancel    *)
(* order rests in the buy or the sell list, replaced orders included.      *)
THEOREM IocOrdersGo == Spec => []IocNeverRests
<1>1. TypeOK /\ PlacesInv => IocNeverRests
  <2> SUFFICES ASSUME TypeOK, PlacesInv, Quiet,
                      NEW l \in {"buy", "sell"}, NEW p \in DOMAIN book[l], order[book[l][p].id].tif = "IOC"
               PROVE  FALSE
    BY DEF IocNeverRests, Resting
  <2>1. PICK t \in Threads : DOMAIN stack[t] # {}
    BY DEF PlacesInv, IocInv, ToBeCanceled
  <2> QED BY <2>1, StackTypes DEF Quiet
<1> QED BY <1>1, PlacesCorrect, PTL

-----------------------------------------------------------------------------
(* The orders whose filled quantity a step changes.                        *)
Refilled(id) == order'[id].filled # order[id].filled

LEMMA RequestFills ==
  ASSUME TypeOK, PlacesInv, NEW t \in Sessions, Request(t), NEW id \in Ids, Refilled(id), NEW l \in Lists
  PROVE  ~Holds(l, id)
<1>1. CASE \E i \in Ids, o \in NewOrders : Insert(t, i, o) \/ InsertWhenClosed(t, i, o)
  <2>1. PICK i \in Ids, o \in NewOrders : status[i] = "NONE" /\ order' = [order EXCEPT ![i] = o]
    BY <1>1 DEF Insert, InsertWhenClosed
  <2>2. id = i
    BY <2>1 DEF TypeOK, Refilled
  <2> QED BY <2>1, <2>2 DEF PlacesInv, HomeInv, FreshIds
<1>2. CASE \E i \in Ids, o \in ReplaceOrders : ReplaceKept(t, i, o) \/ ReplaceMoved(t, i, o)
  <2>1. PICK i \in Ids, o \in ReplaceOrders : order' = [order EXCEPT ![i] = ReplacedOrder(@, o)]
    BY <1>2 DEF ReplaceKept, ReplaceMoved
  <2>2. id = i /\ order'[id] = ReplacedOrder(order[id], o)
    BY <2>1 DEF TypeOK, Refilled
  <2>3. order[id] \in OrderRecord /\ o \in OrderRecord
    BY OrdersAssumption DEF TypeOK
  <2> QED BY <2>2, <2>3, ReplacedTerms DEF Refilled
<1>3. CASE order' = order
  BY <1>3 DEF Refilled
<1>4. \/ \E i \in Ids, o \in NewOrders : Insert(t, i, o) \/ InsertWhenClosed(t, i, o)
      \/ \E i \in Ids, o \in ReplaceOrders : ReplaceKept(t, i, o) \/ ReplaceMoved(t, i, o)
      \/ order' = order
  BY DEF Request, ReplaceRejected, ReplaceWhenClosed, Cancel, CancelRejected
<1> QED BY <1>1, <1>2, <1>3, <1>4

LEMMA ContinueFills ==
  ASSUME TypeOK, PlacesInv, NEW t \in Threads, Continue(t), NEW id \in Ids, Refilled(id)
  PROVE  /\ Fill(t)
         /\ id \in {First(Opposite(Top(t).list)), Top(t).id}
<1>1. CASE Fill(t)
  <2>1. \A i \in Ids : i \notin {First(Opposite(Top(t).list)), Top(t).id} => order'[i] = order[i]
    BY <1>1, FillOrders DEF PlacesInv
  <2> QED BY <1>1, <2>1 DEF Refilled
<1>2. CASE StopFires(t) \/ TriggerFirst(t)
  <2>1. PICK i : order' = [order EXCEPT ![i] = TriggerOrder(@)]
    BY <1>2 DEF StopFires, TriggerFirst
  <2>2. order'[id] = order[id] \/ order'[id] = TriggerOrder(order[id])
    BY <2>1 DEF TypeOK
  <2>3. TriggerOrder(order[id]).filled = order[id].filled
    BY TriggerTerms DEF TypeOK
  <2> QED BY <2>2, <2>3 DEF Refilled
<1>3. CASE Rest(t)
  <2> DEFINE i == Top(t).id
             placed == IF order[i].type = "MARKET" THEN MarketToLimit(order[i], ltp) ELSE order[i]
  <2>1. i \in Ids /\ order' = [order EXCEPT ![i] = placed]
    BY <1>3, AtType DEF Rest
  <2>2. placed.filled = order[i].filled
    BY <2>1 DEF MarketToLimit, TypeOK, OrderRecord
  <2> HIDE DEF placed, i
  <2> QED BY <2>1, <2>2 DEF TypeOK, Refilled
<1>4. CASE order' = order
  BY <1>4 DEF Refilled
<1>5. Fill(t) \/ StopFires(t) \/ TriggerFirst(t) \/ Rest(t) \/ order' = order
  BY DEF Continue, Move, MoveRejected, StopRests, Lock, Match, MatchEnds, FillEmptied, RestDone,
         RestCanceled, TriggerSells, TriggerEnds, IocCancels, IocNotFound, RequestEnds, CancelFirst,
         CancelNext, StopEnds
<1> QED BY <1>1, <1>2, <1>3, <1>4, <1>5

(* For any number of threads: of the resting orders, a step fills only the *)
(* first of its list, whatever other threads did to the list since the     *)
(* matching loop looked at it.                                             *)
THEOREM OnlyHeadsAreFilled == Spec => HeadIsFilled
<1>1. ASSUME TypeOK, PlacesInv, [Next]_vars,
             NEW l \in Lists, NEW id \in Resting(l), order'[id].filled # order[id].filled
      PROVE  id = First(l)
  <2>1. PICK p \in DOMAIN book[l] : id = book[l][p].id
    BY DEF Resting
  <2>2. id \in Ids /\ Holds(l, id) /\ Refilled(id)
    BY <1>1, <2>1, BookTypes DEF Entry, Holds, Refilled
  <2>3. ~\E t \in Sessions : Request(t)
    BY <1>1, <2>2, RequestFills
  <2>4. order' # order
    BY <1>1
  <2>5. PICK t \in Threads : Continue(t)
    BY <1>1, <2>3, <2>4 DEF Next, Command, Stop, Start, vars
  <2> DEFINE other == Opposite(Top(t).list)
  <2>6. Fill(t) /\ id \in {First(other), Top(t).id}
    BY <1>1, <2>2, <2>5, ContinueFills
  <2>7. Top(t).id # id
    <3>1. Len(stack[t]) \in DOMAIN stack[t] /\ stack[t][Len(stack[t])] = Top(t) /\ Placing(Top(t))
      BY <1>1, <2>6, AtType DEF Fill, Placing
    <3> QED BY <1>1, <2>2, <3>1 DEF PlacesInv, HomeInv, Apart
  <2>8. other \in Lists /\ book[other] # <<>>
    BY <2>6, ListTypes DEF Fill
  <2>9. 1 \in DOMAIN book[other] /\ book[other][1].id = First(other)
    BY <1>1, <2>8, BookTypes, TailElements DEF First
  <2> QED BY <1>1, <2>1, <2>6, <2>7, <2>8, <2>9 DEF PlacesInv, HomeInv, Distinct
<1>2. TypeOK /\ PlacesInv /\ [Next]_vars =>
        \A l \in Lists : \A id \in Resting(l) :
          order'[id].filled # order[id].filled => id = First(l)
  BY <1>1
<1> QED BY <1>2, PlacesCorrect, PTL DEF Spec, HeadIsFilled

-----------------------------------------------------------------------------
(* An order that was not handed out has not been filled.                   *)
FreshUnfilled == \A id \in Ids : status[id] = "NONE" => order[id].filled = 0

(* An id that a request fills is one it hands out.                         *)
LEMMA RequestRefills ==
  ASSUME TypeOK, NEW t \in Sessions, Request(t), NEW id \in Ids, Refilled(id)
  PROVE  status[id] = "NONE" /\ status'[id] # "NONE" /\ order'[id].filled = 0
<1>1. CASE \E i \in Ids, o \in NewOrders : Insert(t, i, o) \/ InsertWhenClosed(t, i, o)
  <2>1. PICK i \in Ids, o \in NewOrders :
          /\ status[i] = "NONE" /\ order' = [order EXCEPT ![i] = o]
          /\ Report(i, "WORKING") \/ Report(i, "REJECTED")
    BY <1>1 DEF Insert, InsertWhenClosed
  <2>2. id = i /\ order'[id] = o
    BY <2>1 DEF TypeOK, Refilled
  <2> QED BY <2>1, <2>2, OrdersAssumption DEF Report, TypeOK
<1>2. CASE \E i \in Ids, o \in ReplaceOrders : ReplaceKept(t, i, o) \/ ReplaceMoved(t, i, o)
  <2>1. PICK i \in Ids, o \in ReplaceOrders : order' = [order EXCEPT ![i] = ReplacedOrder(@, o)]
    BY <1>2 DEF ReplaceKept, ReplaceMoved
  <2>2. id = i /\ order'[id] = ReplacedOrder(order[id], o)
    BY <2>1 DEF TypeOK, Refilled
  <2>3. order[id] \in OrderRecord /\ o \in OrderRecord
    BY OrdersAssumption DEF TypeOK
  <2> QED BY <2>2, <2>3, ReplacedTerms DEF Refilled
<1>3. CASE order' = order
  BY <1>3 DEF Refilled
<1> QED BY <1>1, <1>2, <1>3 DEF Request, ReplaceRejected, ReplaceWhenClosed, Cancel, CancelRejected

LEMMA RequestIssues ==
  ASSUME TypeOK, NEW t \in Sessions, Request(t)
  PROVE  KeepsIssued
<1>1. CASE status' = status
  BY <1>1 DEF KeepsIssued
<1>2. CASE \E id \in Ids : \E s \in {"WORKING", "REJECTED", "CANCELED"} : Report(id, s)
  BY <1>2, ReportKeeps
<1> QED BY <1>1, <1>2 DEF Request, Insert, InsertWhenClosed, ReplaceKept, ReplaceMoved, ReplaceRejected,
          ReplaceWhenClosed, Cancel, CancelRejected

LEMMA ContinueIssues ==
  ASSUME TypeOK, NEW t \in Threads, Continue(t)
  PROVE  KeepsIssued
<1>1. CASE status' = status
  BY <1>1 DEF KeepsIssued
<1>2. CASE RestCanceled(t) \/ IocCancels(t) \/ CancelFirst(t)
  <2>1. PICK id : Report(id, "CANCELED")
    BY <1>2 DEF RestCanceled, IocCancels, CancelFirst
  <2> QED BY <2>1, ReportKeeps
<1>3. CASE Fill(t)
  <2>1. PICK a, b, o, p : status' = [status EXCEPT ![a] = FillStatus(o), ![b] = FillStatus(p)]
    BY <1>3 DEF Fill
  <2>2. FillStatus(o) # "NONE" /\ FillStatus(p) # "NONE"
    BY DEF FillStatus
  <2> QED BY <2>1, <2>2 DEF KeepsIssued, TypeOK
<1> QED BY <1>1, <1>2, <1>3 DEF Continue, Move, MoveRejected, StopFires, StopRests, Lock, Match, MatchEnds,
          FillEmptied, RestDone, Rest, TriggerFirst, TriggerSells, TriggerEnds, IocNotFound, RequestEnds,
          CancelNext, StopEnds

LEMMA FilledIssued ==
  ASSUME TypeOK, PlacesInv, NEW t \in Threads, Continue(t), NEW id \in Ids, Refilled(id)
  PROVE  status[id] # "NONE"
<1>1. Fill(t) /\ id \in {First(Opposite(Top(t).list)), Top(t).id}
  BY ContinueFills
<1>2. CASE id = Top(t).id
  <2>1. Len(stack[t]) \in DOMAIN stack[t] /\ stack[t][Len(stack[t])].id = id /\ Placing(stack[t][Len(stack[t])])
    BY <1>1, <1>2, AtType DEF Fill, Placing
  <2> QED BY <2>1 DEF PlacesInv, HomeInv, FreshIds
<1>3. CASE id = First(Opposite(Top(t).list))
  <2>1. Opposite(Top(t).list) \in Lists /\ book[Opposite(Top(t).list)] # <<>>
    BY <1>1, ListTypes DEF Fill
  <2>2. Holds(Opposite(Top(t).list), id)
    BY <1>3, <2>1, BookTypes, TailElements DEF Holds, First
  <2> QED BY <2>1, <2>2 DEF PlacesInv, HomeInv, FreshIds
<1> QED BY <1>1, <1>2, <1>3

LEMMA FreshStays ==
  ASSUME FreshUnfilled, KeepsIssued, \A id \in Ids : Refilled(id) => status'[id] # "NONE"
  PROVE  FreshUnfilled'
BY DEF FreshUnfilled, KeepsIssued, Refilled

LEMMA NextFresh ==
  ASSUME TypeOK, PlacesInv, FreshUnfilled, [Next]_vars
  PROVE  FreshUnfilled'
<1>1. ASSUME NEW t \in Sessions, Request(t) PROVE FreshUnfilled'
  BY <1>1, RequestRefills, RequestIssues, FreshStays
<1>2. ASSUME NEW t \in Threads, Continue(t) PROVE FreshUnfilled'
  <2>1. KeepsIssued
    BY <1>2, ContinueIssues
  <2>2. \A id \in Ids : Refilled(id) => status'[id] # "NONE"
    BY <1>2, <2>1, FilledIssued DEF KeepsIssued
  <2> QED BY <2>1, <2>2, FreshStays
<1>3. CASE order' = order /\ status' = status
  BY <1>3 DEF FreshUnfilled
<1> QED BY <1>1, <1>2, <1>3 DEF Next, Command, Stop, Start, vars

LEMMA InitFresh == Init => FreshUnfilled
BY DEF Init, FreshUnfilled, Blank, MakeOrder, WithPending, ActualPending

(* A trade fills a buy and a sell by one quantity and adds it once to the  *)
(* volume; no step but a trade fills anything, and an order that changes   *)
(* sides has no fills.                                                     *)
Trades(b, s, q) ==
  /\ volume' = volume + q
  /\ \A id \in Ids : order'[id].filled = order[id].filled + (IF id \in {b, s} THEN q ELSE 0)

NothingTrades == volume' = volume /\ \A id \in Ids : order'[id].filled = order[id].filled

FilledKeepSides ==
  \A id \in Ids :
    order'[id].side # order[id].side => order[id].filled = 0 /\ order'[id].filled = 0

BalancedStep ==
  /\ FilledKeepSides
  /\ NothingTrades \/ \E b \in Bought, s \in Ids \ Bought, q \in Int : Trades(b, s, q)

LEMMA RequestBalances ==
  ASSUME TypeOK, FreshUnfilled, NEW t \in Sessions, Request(t)
  PROVE  BalancedStep
<1>1. \A id \in Ids : order'[id].filled = order[id].filled
  BY RequestRefills DEF FreshUnfilled, Refilled
<1>2. volume' = volume
  BY DEF Request, Insert, InsertWhenClosed, ReplaceKept, ReplaceMoved, ReplaceRejected,
         ReplaceWhenClosed, Cancel, CancelRejected
<1>3. FilledKeepSides
  <2>1. CASE order' = order
    BY <2>1 DEF FilledKeepSides
  <2>2. CASE \E i \in Ids, o \in NewOrders : Insert(t, i, o) \/ InsertWhenClosed(t, i, o)
    <3>1. PICK i \in Ids, o \in NewOrders : status[i] = "NONE" /\ order' = [order EXCEPT ![i] = o]
      BY <2>2 DEF Insert, InsertWhenClosed
    <3> QED BY <1>1, <3>1 DEF FilledKeepSides, FreshUnfilled, TypeOK
  <2>3. CASE \E i \in Ids, o \in ReplaceOrders : ReplaceKept(t, i, o) \/ ReplaceMoved(t, i, o)
    <3>1. PICK i \in Ids, o \in ReplaceOrders : order' = [order EXCEPT ![i] = ReplacedOrder(@, o)]
      BY <2>3 DEF ReplaceKept, ReplaceMoved
    <3>2. order[i] \in OrderRecord /\ o \in OrderRecord
      BY OrdersAssumption DEF TypeOK
    <3>3. ReplacedOrder(order[i], o).side = order[i].side
      BY <3>2, ReplacedTerms
    <3> QED BY <3>1, <3>3 DEF FilledKeepSides, TypeOK
  <2> QED BY <2>1, <2>2, <2>3 DEF Request, ReplaceRejected, ReplaceWhenClosed, Cancel, CancelRejected
<1> QED BY <1>1, <1>2, <1>3 DEF BalancedStep, NothingTrades

LEMMA FillBalances ==
  ASSUME TypeOK, PlacesInv, NEW t \in Threads, Fill(t)
  PROVE  BalancedStep
<1> DEFINE f == Top(t)
           other == Opposite(f.list)
           hit == First(other)
<1>1. /\ hit \in Ids /\ f.id \in Ids /\ hit # f.id /\ f.qty \in Int
      /\ \A id \in Ids :
           order'[id] = IF id \in {hit, f.id} THEN FillOrder(order[id], f.qty) ELSE order[id]
      /\ KeepsOrders
  BY FillOrders DEF PlacesInv
<1>2. /\ f.list \in {"buy", "sell"} /\ other \in Lists /\ book[other] # <<>>
      /\ Len(stack[t]) \in DOMAIN stack[t] /\ stack[t][Len(stack[t])] = f /\ Placing(f)
  BY AtType, ListTypes DEF Fill, Placing
<1>3. ListOf(order[f.id].side) = f.list
  BY <1>2 DEF PlacesInv, CurrentInv, FramesInv
<1>4. ListOf(order[hit].side) = other
  <2>1. 1 \in DOMAIN book[other] /\ book[other][1].id = hit
    BY <1>2, BookTypes, TailElements DEF First
  <2>2. ListOf(order[hit].side) = RestSide(other)
    BY <1>2, <2>1 DEF PlacesInv, CurrentInv, EntriesInv
  <2>3. RestSide(other) = other
    BY DEF RestSide, Opposite
  <2> QED BY <2>2, <2>3
<1>5. hit \in Bought <=> f.id \notin Bought
  BY <1>1, <1>2, <1>3, <1>4 DEF Bought, ListOf, Opposite
<1>6. volume' = volume + f.qty
  BY DEF Fill
<1> HIDE DEF f, hit
<1>7. \A id \in Ids : order'[id].filled = order[id].filled + (IF id \in {hit, f.id} THEN f.qty ELSE 0)
  <2> SUFFICES ASSUME NEW id \in Ids
               PROVE  order'[id].filled = order[id].filled + (IF id \in {hit, f.id} THEN f.qty ELSE 0)
    OBVIOUS
  <2>1. order[id] \in OrderRecord /\ order[id].filled \in Int
    BY DEF TypeOK, OrderRecord
  <2>2. FillOrder(order[id], f.qty).filled = order[id].filled + f.qty
    BY <1>1, <2>1 DEF FillOrder, WithPending, OrderRecord
  <2> QED BY <1>1, <2>1, <2>2
<1>8. Trades(hit, f.id, f.qty) /\ Trades(f.id, hit, f.qty)
  BY <1>6, <1>7 DEF Trades
<1>9. \E b \in Bought, s \in Ids \ Bought, q \in Int : Trades(b, s, q)
  BY <1>1, <1>5, <1>8
<1> QED BY <1>1, <1>9 DEF BalancedStep, FilledKeepSides, KeepsOrders

LEMMA ContinueBalances ==
  ASSUME TypeOK, PlacesInv, NEW t \in Threads, Continue(t)
  PROVE  BalancedStep
<1>1. CASE Fill(t)
  BY <1>1, FillBalances
<1>2. CASE ~Fill(t)
  <2>1. \A id \in Ids : order'[id].filled = order[id].filled
    BY <1>2, ContinueFills DEF Refilled
  <2>2. volume' = volume
    BY <1>2 DEF Continue, Move, MoveRejected, StopFires, StopRests, Lock, Match, MatchEnds,
                FillEmptied, RestDone, RestCanceled, Rest, TriggerFirst, TriggerSells, TriggerEnds,
                IocCancels, IocNotFound, RequestEnds, CancelFirst, CancelNext, StopEnds
  <2>3. \A id \in Ids : order'[id].side = order[id].side
    <3>1. CASE order' = order
      BY <3>1
    <3>2. CASE StopFires(t) \/ TriggerFirst(t)
      <4>1. PICK i : order' = [order EXCEPT ![i] = TriggerOrder(@)]
        BY <3>2 DEF StopFires, TriggerFirst
      <4>2. \A id \in Ids : TriggerOrder(order[id]).side = order[id].side
        BY TriggerTerms DEF TypeOK
      <4> QED BY <4>1, <4>2 DEF TypeOK
    <3>3. CASE Rest(t)
      <4> DEFINE i == Top(t).id
                 placed == IF order[i].type = "MARKET" THEN MarketToLimit(order[i], ltp) ELSE order[i]
      <4>1. i \in Ids /\ order' = [order EXCEPT ![i] = placed]
        BY <3>3, AtType DEF Rest
      <4>2. placed.side = order[i].side
        BY <4>1 DEF MarketToLimit, TypeOK, OrderRecord
      <4> HIDE DEF placed, i
      <4> QED BY <4>1, <4>2 DEF TypeOK
    <3> QED BY <1>2, <3>1, <3>2, <3>3 DEF Continue, Move, MoveRejected, StopRests, Lock, Match, MatchEnds,
              FillEmptied, RestDone, RestCanceled, TriggerSells, TriggerEnds, IocCancels, IocNotFound,
              RequestEnds, CancelFirst, CancelNext, StopEnds
  <2> QED BY <2>1, <2>2, <2>3 DEF BalancedStep, NothingTrades, FilledKeepSides
<1> QED BY <1>1, <1>2

(* For any number of threads: the volume and the fills of either side grow *)
(* by the same quantities, at the same steps.                              *)
THEOREM EveryTradeBalances == Spec => [][BalancedStep]_vars
<1>1. ASSUME TypeOK, PlacesInv, FreshUnfilled, [Next]_vars
      PROVE  BalancedStep \/ UNCHANGED vars
  <2>1. CASE \E t \in Consoles : Command(t)
    <3>1. order' = order /\ volume' = volume
      BY <2>1 DEF Command, Stop, Start
    <3> QED BY <3>1 DEF BalancedStep, NothingTrades, FilledKeepSides
  <2> QED BY <1>1, <2>1, RequestBalances, ContinueBalances DEF Next
<1>2. TypeOK /\ PlacesInv /\ FreshUnfilled /\ [Next]_vars => TypeOK' /\ PlacesInv' /\ FreshUnfilled'
  BY NextTypes, NextPlaces, NextFresh
<1>3. Init => TypeOK /\ PlacesInv /\ FreshUnfilled
  BY InitTypes, InitPlaces, InitFresh
<1>4. TypeOK /\ PlacesInv /\ FreshUnfilled /\ [Next]_vars => [BalancedStep]_vars
  BY <1>1
<1> QED BY <1>2, <1>3, <1>4, PTL DEF Spec

-----------------------------------------------------------------------------
(* The sums of these steps.                                                *)
Fills == [id \in Ids |-> order[id].filled]

LEMMA FilledTotal ==
  ASSUME NEW S \in SUBSET Ids
  PROVE  FilledBy(S) = Total(Fills, S)
<1> DEFINE Folds(it) ==
             it = [s \in SUBSET S |->
                     IF s = {} THEN 0
                     ELSE LET x == CHOOSE x \in s : TRUE
                          IN  order[x].filled + it[s \ {x}]]
           i == CHOOSE it : Folds(it)
           j == CHOOSE it : Counts(it, Fills, S)
<1>1. IsFiniteSet(S)
  BY IdsAssumption, FS_Subset
<1>2. FilledBy(S) = i[S]
  BY DEF FilledBy, FoldSet, MapThenFoldSet
<1>3. ASSUME NEW it PROVE Folds(it) <=> Counts(it, Fills, S)
  <2>1. \A s \in SUBSET S : s # {} => Fills[Pick(s)] = order[Pick(s)].filled
    BY Picked DEF Fills
  <2>2. \A s \in SUBSET S :
          (IF s = {} THEN 0
           ELSE LET x == CHOOSE x \in s : TRUE IN order[x].filled + it[s \ {x}])
          = IF s = {} THEN 0 ELSE Fills[Pick(s)] + it[s \ {Pick(s)}]
    BY <2>1 DEF Pick
  <2> QED BY <2>2 DEF Counts
<1>4. Counts(j, Fills, S)
  BY <1>1, CountsExist
<1> HIDE DEF Folds, j
<1>5. Counts(i, Fills, S)
  BY <1>3, <1>4
<1> HIDE DEF i
<1>6. i[S] = j[S]
  BY <1>1, <1>4, <1>5, CountsAgree
<1> QED BY <1>2, <1>6 DEF j, Total

LEMMA FilledTotals == \A S \in SUBSET Ids : FilledBy(S) = Total(Fills, S)
BY FilledTotal

(* What a step does to the fills of one side, whose members may change.    *)
LEMMA SideGrows ==
  ASSUME NEW g, NEW h, NEW A \in SUBSET Ids, NEW B \in SUBSET Ids,
         \A id \in Ids : g[id] \in Int /\ h[id] \in Int,
         \A id \in (A \ B) \cup (B \ A) : h[id] = 0,
         NEW y \in A, NEW q \in Int,
         h[y] = g[y] + q, \A id \in A \ {y} : h[id] = g[id]
  PROVE  Total(h, B) = Total(g, A) + q
<1>1. IsFiniteSet(A) /\ IsFiniteSet(B)
  BY IdsAssumption, FS_Subset
<1>2. Total(h, B) = Total(h, A)
  BY <1>1, TotalOfEither
<1>3. Total(h, A) = Total(g, A) + q
  BY <1>1, TotalGrows
<1> QED BY <1>2, <1>3

LEMMA SideKeeps ==
  ASSUME NEW g, NEW h, NEW A \in SUBSET Ids, NEW B \in SUBSET Ids,
         \A id \in Ids : h[id] \in Int,
         \A id \in (A \ B) \cup (B \ A) : h[id] = 0,
         \A id \in A : h[id] = g[id]
  PROVE  Total(h, B) = Total(g, A)
<1>1. IsFiniteSet(A) /\ IsFiniteSet(B)
  BY IdsAssumption, FS_Subset
<1>2. Total(h, B) = Total(h, A)
  BY <1>1, TotalOfEither
<1>3. Total(h, A) = Total(g, A)
  BY <1>1, TotalSame
<1> QED BY <1>2, <1>3

LEMMA StepBalances ==
  ASSUME TypeOK, TypeOK', TradesBalance, BalancedStep
  PROVE  TradesBalance'
<1>1. PICK g, h : g = Fills /\ h = Fills'
  OBVIOUS
<1>2. PICK A, B : A = Bought /\ B = Bought'
  OBVIOUS
<1>3. PICK C, D : C = Ids \ A /\ D = Ids \ B
  OBVIOUS
<1>4. A \in SUBSET Ids /\ B \in SUBSET Ids /\ C \in SUBSET Ids /\ D \in SUBSET Ids
  BY <1>2, <1>3 DEF Bought
<1>5. \A id \in Ids : /\ g[id] = order[id].filled /\ h[id] = order'[id].filled
                      /\ g[id] \in Int /\ h[id] \in Int
  BY <1>1 DEF Fills, TypeOK, OrderRecord
<1>6. Total(g, A) = volume /\ Total(g, C) = volume
  BY <1>1, <1>2, <1>3, <1>4, FilledTotal DEF TradesBalance
<1>7. \A id \in (A \ B) \cup (B \ A) : h[id] = 0
  BY <1>2, <1>4, <1>5 DEF Bought, BalancedStep, FilledKeepSides
<1>8. \A id \in (C \ D) \cup (D \ C) : h[id] = 0
  BY <1>3, <1>4, <1>7
<1>9. Total(h, B) = volume' /\ Total(h, D) = volume'
  <2>1. CASE NothingTrades
    <3>1. volume' = volume /\ \A id \in Ids : h[id] = g[id]
      BY <1>5, <2>1 DEF NothingTrades
    <3>2. Total(h, B) = Total(g, A)
      BY <1>4, <1>5, <1>7, <3>1, SideKeeps
    <3>3. Total(h, D) = Total(g, C)
      BY <1>4, <1>5, <1>8, <3>1, SideKeeps
    <3> QED BY <1>6, <3>1, <3>2, <3>3
  <2>2. CASE ~NothingTrades
    <3>1. PICK b \in Bought, s \in Ids \ Bought, q \in Int : Trades(b, s, q)
      BY <2>2 DEF BalancedStep
    <3>2. b \in A /\ b \in Ids /\ s \in C /\ s \in Ids /\ b \notin C /\ s \notin A
      BY <1>2, <1>3, <1>4, <3>1
    <3>3. h[b] = g[b] + q /\ \A id \in A \ {b} : h[id] = g[id]
      BY <1>4, <1>5, <3>1, <3>2 DEF Trades
    <3>4. h[s] = g[s] + q /\ \A id \in C \ {s} : h[id] = g[id]
      BY <1>3, <1>4, <1>5, <3>1, <3>2 DEF Trades
    <3>5. Total(h, B) = Total(g, A) + q
      BY <1>4, <1>5, <1>7, <3>2, <3>3, SideGrows
    <3>6. Total(h, D) = Total(g, C) + q
      BY <1>4, <1>5, <1>8, <3>2, <3>4, SideGrows
    <3> QED BY <1>6, <3>1, <3>5, <3>6 DEF Trades
  <2> QED BY <2>1, <2>2
<1>10. FilledBy(Bought)' = Total(h, B) /\ FilledBy(Ids \ Bought)' = Total(h, D)
  <2>1. (\A S \in SUBSET Ids : FilledBy(S) = Total(Fills, S))'
    BY FilledTotals, PTL
  <2> QED BY <1>1, <1>2, <1>3, <1>4, <2>1
<1> QED BY <1>9, <1>10 DEF TradesBalance

LEMMA InitBalances == Init => TradesBalance
<1> SUFFICES ASSUME Init PROVE TradesBalance
  OBVIOUS
<1>1. \A id \in Ids : Fills[id] = 0
  BY DEF Init, Fills, Blank, MakeOrder, WithPending, ActualPending
<1>2. ASSUME NEW S \in SUBSET Ids PROVE FilledBy(S) = 0
  <2>1. IsFiniteSet(S)
    BY IdsAssumption, FS_Subset
  <2>2. Total(Fills, S) = Total(Fills, {})
    BY <1>1, <2>1, TotalPart
  <2> QED BY <2>2, TotalEmpty, FilledTotals
<1> QED BY <1>2 DEF TradesBalance, Bought, Init

(* For any number of threads: whatever trades happen in whatever order,    *)
(* the bought and the sold quantities both are the volume reported.        *)
THEOREM TradesAlwaysBalance == Spec => []TradesBalance
<1>1. TypeOK /\ TypeOK' /\ TradesBalance /\ [BalancedStep]_vars => TradesBalance'
  <2>1. ASSUME UNCHANGED vars PROVE BalancedStep
    BY <2>1 DEF BalancedStep, NothingTrades, FilledKeepSides, vars
  <2> QED BY <2>1, StepBalances
<1> QED BY <1>1, InitBalances, TypeCorrect, EveryTradeBalances, PTL DEF Spec
=============================================================================
