--------------------------- MODULE OneThreadProof ---------------------------
(***************************************************************************)
(* What the book guarantees when one thread executes all requests and      *)
(* commands, one after the other, for every set of orders and requests.    *)
(***************************************************************************)
EXTENDS OrderBookProof

-----------------------------------------------------------------------------
(* The frames that a request or command starts with, and those that wait   *)
(* for a call to return.                                                   *)
Bottoms == {"changed", "ioc", "cancelAll"}
Waiting == {"changed", "ioc", "match", "trigger"}

(* The shape of a call stack, for any number of threads.                   *)
Shape ==
  \A t \in Threads : \A d \in DOMAIN stack[t] :
    /\ d = 1 <=> stack[t][d].pc \in Bottoms
    /\ d # Len(stack[t]) => stack[t][d].pc \in Waiting

WillShape(t) ==
  \A d \in DOMAIN stack'[t] :
    /\ d = 1 <=> stack'[t][d].pc \in Bottoms
    /\ d # Len(stack'[t]) => stack'[t][d].pc \in Waiting

NextTop(t) == stack'[t][Len(stack'[t])]

LEMMA ShapeOfOne ==
  ASSUME Shape, NEW t \in Threads, Others(t), WillShape(t)
  PROVE  Shape'
<1> SUFFICES ASSUME NEW u \in Threads PROVE WillShape(u)
  BY DEF Shape, WillShape, Bottoms, Waiting
<1>1. CASE u = t
  BY <1>1
<1>2. CASE u # t
  <2>1. stack'[u] = stack[u]
    BY <1>2 DEF Others
  <2> QED BY <2>1 DEF Shape, WillShape
<1> QED BY <1>1, <1>2

LEMMA StackLength ==
  ASSUME TypeOK', NEW t \in Threads, NEW n \in Nat, DOMAIN stack'[t] = 1 .. n
  PROVE  Len(stack'[t]) = n
<1>1. stack'[t] \in Seq(FrameRecord)
  BY DEF TypeOK
<1>2. Len(stack'[t]) \in Nat /\ DOMAIN stack'[t] = 1 .. Len(stack'[t])
  BY <1>1, LenProperties
<1> QED BY <1>2

LEMMA GotoShape ==
  ASSUME TypeOK, TypeOK', Shape, NEW t \in Threads, ~Idle(t), NEW f \in FrameRecord, Goto(t, f),
         f.pc \in Bottoms <=> Top(t).pc \in Bottoms
  PROVE  Shape' /\ stack'[t] # <<>> /\ NextTop(t) = f
<1> DEFINE n == Len(stack[t])
<1>1. /\ Others(t) /\ n \in Nat \ {0} /\ DOMAIN stack[t] = 1 .. n /\ DOMAIN stack'[t] = 1 .. n
      /\ \A d \in 1 .. n - 1 : stack'[t][d] = stack[t][d]
      /\ stack'[t][n] = f
  BY GotoFrames
<1>2. stack[t][n] = Top(t)
  BY DEF Top
<1> HIDE DEF n
<1>3. Len(stack'[t]) = n
  BY <1>1, StackLength
<1>4. \A d \in 1 .. n : d = n \/ (d # n /\ d \in 1 .. n - 1)
  BY <1>1
<1>5. WillShape(t)
  <2> SUFFICES ASSUME NEW d \in 1 .. n
               PROVE  /\ d = 1 <=> stack'[t][d].pc \in Bottoms
                      /\ d # n => stack'[t][d].pc \in Waiting
    BY <1>1, <1>3 DEF WillShape
  <2>1. CASE d = n
    BY <1>1, <1>2, <2>1 DEF Shape
  <2>2. CASE d # n
    <3>1. stack'[t][d] = stack[t][d] /\ d # Len(stack[t])
      BY <1>1, <1>4, <2>2 DEF n
    <3> QED BY <1>1, <3>1 DEF Shape
  <2> QED BY <2>1, <2>2
<1>6. n \in DOMAIN stack'[t]
  BY <1>1
<1> QED BY <1>1, <1>3, <1>5, <1>6, ShapeOfOne DEF NextTop

LEMMA ReturnShape ==
  ASSUME TypeOK, TypeOK', Shape, NEW t \in Threads, ~Idle(t), Return(t)
  PROVE  /\ Shape'
         /\ stack'[t] # <<>> => NextTop(t).pc \in Waiting
         /\ Top(t).pc \in Bottoms => stack'[t] = <<>>
<1> DEFINE n == Len(stack[t])
<1>1. /\ Others(t) /\ n \in Nat \ {0} /\ DOMAIN stack[t] = 1 .. n /\ DOMAIN stack'[t] = 1 .. n - 1
      /\ \A d \in 1 .. n - 1 : stack'[t][d] = stack[t][d]
  BY ReturnFrames
<1>2. stack[t][n] = Top(t)
  BY DEF Top
<1>3. \A d \in 1 .. n - 1 : /\ d = 1 <=> stack[t][d].pc \in Bottoms
                            /\ stack[t][d].pc \in Waiting
  BY <1>1 DEF Shape
<1>4. Top(t).pc \in Bottoms => n = 1
  <2>1. n \in DOMAIN stack[t]
    BY <1>1
  <2> HIDE DEF n
  <2> QED BY <1>2, <2>1 DEF Shape
<1> HIDE DEF n
<1>5. Len(stack'[t]) = n - 1
  BY <1>1, StackLength
<1>6. WillShape(t)
  BY <1>1, <1>3 DEF WillShape
<1>7. ASSUME stack'[t] # <<>> PROVE NextTop(t).pc \in Waiting
  <2>1. stack'[t] \in Seq(FrameRecord)
    BY DEF TypeOK
  <2>2. n - 1 \in 1 .. n - 1
    BY <1>1, <1>5, <1>7, <2>1, EmptySeq
  <2> QED BY <1>1, <1>3, <1>5, <2>2 DEF NextTop
<1>8. ASSUME n = 1 PROVE stack'[t] = <<>>
  <2>1. stack'[t] \in Seq(FrameRecord) /\ Len(stack'[t]) = 0
    BY <1>5, <1>8 DEF TypeOK
  <2> QED BY <2>1, EmptySeq
<1> QED BY <1>1, <1>4, <1>6, <1>7, <1>8, ShapeOfOne

LEMMA CallShape ==
  ASSUME TypeOK, TypeOK', Shape, NEW t \in Threads, ~Idle(t), NEW f \in FrameRecord, Call(t, f),
         f.pc \notin Bottoms, Top(t).pc \in Waiting
  PROVE  Shape' /\ stack'[t] # <<>> /\ NextTop(t) = f
<1> DEFINE n == Len(stack[t])
<1>1. /\ Others(t) /\ n \in Nat \ {0} /\ DOMAIN stack[t] = 1 .. n /\ DOMAIN stack'[t] = 1 .. n + 1
      /\ \A d \in 1 .. n : stack'[t][d] = stack[t][d]
      /\ stack'[t][n + 1] = f
  BY CallFrames, TopType
<1>2. stack[t][n] = Top(t)
  BY DEF Top
<1>3. \A d \in 1 .. n : /\ d = 1 <=> stack[t][d].pc \in Bottoms
                        /\ stack[t][d].pc \in Waiting
  BY <1>1, <1>2 DEF Shape
<1> HIDE DEF n
<1>4. Len(stack'[t]) = n + 1
  BY <1>1, StackLength
<1>5. \A d \in 1 .. n + 1 : d = n + 1 \/ d \in 1 .. n
  BY <1>1
<1>6. WillShape(t)
  <2> SUFFICES ASSUME NEW d \in 1 .. n + 1
               PROVE  /\ d = 1 <=> stack'[t][d].pc \in Bottoms
                      /\ d # n + 1 => stack'[t][d].pc \in Waiting
    BY <1>1, <1>4 DEF WillShape
  <2>1. CASE d = n + 1
    BY <1>1, <2>1
  <2>2. CASE d \in 1 .. n
    BY <1>1, <1>3, <2>2
  <2> QED BY <1>5, <2>1, <2>2
<1>7. n + 1 \in DOMAIN stack'[t]
  BY <1>1
<1> QED BY <1>1, <1>4, <1>6, <1>7, ShapeOfOne DEF NextTop

LEMMA BeginShape ==
  ASSUME TypeOK, TypeOK', Shape, NEW t \in Threads, Idle(t), NEW f \in FrameRecord, f.pc \in Bottoms
  PROVE  /\ Begin(t, <<f>>) => Shape' /\ stack'[t] # <<>> /\ NextTop(t) = f
         /\ \A g \in FrameRecord :
              Begin(t, <<f, g>>) /\ f.pc \in Waiting /\ g.pc \notin Bottoms =>
                Shape' /\ stack'[t] # <<>> /\ NextTop(t) = g
<1>1. ASSUME Begin(t, <<f>>) PROVE Shape' /\ stack'[t] # <<>> /\ NextTop(t) = f
  <2>1. stack'[t] = <<f>> /\ Others(t)
    BY <1>1 DEF Begin, TypeOK, Others
  <2>2. WillShape(t)
    BY <2>1 DEF WillShape
  <2> QED BY <2>1, <2>2, ShapeOfOne DEF NextTop
<1>2. ASSUME NEW g \in FrameRecord, Begin(t, <<f, g>>), f.pc \in Waiting, g.pc \notin Bottoms
      PROVE  Shape' /\ stack'[t] # <<>> /\ NextTop(t) = g
  <2>1. stack'[t] = <<f, g>> /\ Others(t)
    BY <1>2 DEF Begin, TypeOK, Others
  <2>2. WillShape(t)
    BY <1>2, <2>1 DEF WillShape
  <2> QED BY <2>1, <2>2, ShapeOfOne DEF NextTop
<1> QED BY <1>1, <1>2

LEMMA FillShape ==
  ASSUME TypeOK, TypeOK', Shape, NEW t \in Threads, Fill(t)
  PROVE  /\ Shape' /\ stack'[t] # <<>>
         /\ NextTop(t) = Frame("trigger", None, "stopBuy")
<1> DEFINE n == Len(stack[t])
           f == Top(t)
<1>1. ~Idle(t) /\ f.pc = "fill" /\ f.id \in Ids /\ f.list \in {"buy", "sell"} /\ stack[t][n] = f
  BY AtType DEF Fill
<1>2. PICK m \in FrameRecord : m = Frame("match", f.id, f.list)
  BY <1>1, FrameTypes
<1>3. PICK c \in FrameRecord : c = Frame("trigger", None, "stopBuy")
  BY ListFrameTypes
<1>4. stack' = [stack EXCEPT ![t] = Front(@) \o <<m, c>>]
  BY <1>2, <1>3 DEF Fill
<1>5. m.pc = "match" /\ c.pc = "trigger"
  BY <1>2, <1>3 DEF Frame
<1> HIDE DEF f
<1>6. /\ Others(t) /\ Len(stack[t]) \in Nat \ {0}
      /\ DOMAIN stack[t] = 1 .. Len(stack[t]) /\ DOMAIN stack'[t] = 1 .. Len(stack[t]) + 1
      /\ \A d \in 1 .. Len(stack[t]) - 1 : stack'[t][d] = stack[t][d]
      /\ stack'[t][Len(stack[t])] = m /\ stack'[t][Len(stack[t]) + 1] = c
  <2>1. \A a, b \in FrameRecord : stack' = [stack EXCEPT ![t] = Front(@) \o <<a, b>>] =>
          /\ Others(t) /\ Len(stack[t]) \in Nat \ {0}
          /\ DOMAIN stack[t] = 1 .. Len(stack[t]) /\ DOMAIN stack'[t] = 1 .. Len(stack[t]) + 1
          /\ \A d \in 1 .. Len(stack[t]) - 1 : stack'[t][d] = stack[t][d]
          /\ stack'[t][Len(stack[t])] = a /\ stack'[t][Len(stack[t]) + 1] = b
    BY <1>1, FillFrames, Zenon
  <2> QED BY <1>2, <1>3, <1>4, <2>1, Zenon
<1>7. \A d \in 1 .. n : /\ d = 1 <=> stack[t][d].pc \in Bottoms
                        /\ d # n => stack[t][d].pc \in Waiting
  BY <1>6 DEF Shape
<1>8. n # 1
  BY <1>1, <1>6, <1>7 DEF Bottoms
<1> HIDE DEF n
<1>9. n \in Nat \ {0} /\ DOMAIN stack'[t] = 1 .. n + 1 /\ stack'[t][n] = m /\ stack'[t][n + 1] = c
      /\ \A d \in 1 .. n - 1 : stack'[t][d] = stack[t][d]
  BY <1>6 DEF n
<1>10. Len(stack'[t]) = n + 1
  BY <1>9, StackLength
<1>11. \A d \in 1 .. n + 1 : d = n + 1 \/ d = n \/ (d \in 1 .. n - 1 /\ d \in 1 .. n /\ d # n)
  BY <1>9
<1>12. WillShape(t)
  <2> SUFFICES ASSUME NEW d \in 1 .. n + 1
               PROVE  /\ d = 1 <=> stack'[t][d].pc \in Bottoms
                      /\ d # n + 1 => stack'[t][d].pc \in Waiting
    BY <1>9, <1>10 DEF WillShape
  <2>1. CASE d = n + 1
    BY <1>5, <1>9, <2>1 DEF Bottoms
  <2>2. CASE d = n
    BY <1>5, <1>8, <1>9, <2>2 DEF Bottoms, Waiting
  <2>3. CASE d \in 1 .. n - 1 /\ d \in 1 .. n /\ d # n
    BY <1>7, <1>9, <2>3
  <2> QED BY <1>11, <2>1, <2>2, <2>3
<1>13. n + 1 \in DOMAIN stack'[t]
  BY <1>9
<1> QED BY <1>3, <1>6, <1>9, <1>10, <1>12, <1>13, ShapeOfOne DEF NextTop

LEMMA SameShape ==
  ASSUME Shape, stack' = stack
  PROVE  Shape'
BY DEF Shape

(* Which steps lead to the statements fill, rest and cancelAll.            *)
NextTops(t) ==
  stack'[t] # <<>> =>
    /\ NextTop(t).pc = "fill" => Match(t)
    /\ NextTop(t).pc = "rest" => MatchEnds(t) \/ FillEmptied(t)
    /\ NextTop(t).pc = "cancelAll" => CancelFirst(t) \/ CancelNext(t) \/ Stop(t)

LEMMA ContinueShape ==
  ASSUME TypeOK, TypeOK', Shape, NEW t \in Threads, Continue(t)
  PROVE  Shape' /\ NextTops(t)
<1> DEFINE f == Top(t)
<1> USE DEF Bottoms, Waiting
<1>g. ASSUME ~Idle(t), NEW g \in FrameRecord, Goto(t, g), g.pc \in Bottoms <=> f.pc \in Bottoms,
             g.pc \notin {"fill", "rest", "cancelAll"}
      PROVE  Shape' /\ NextTops(t)
  BY <1>g, GotoShape DEF NextTops
<1>r. ASSUME ~Idle(t), Return(t)
      PROVE  Shape' /\ NextTops(t)
  BY <1>r, ReturnShape DEF NextTops
<1>1. CASE Move(t) \/ StopFires(t)
  <2>1. PICK g \in FrameRecord : Goto(t, g) /\ g.pc \in {"stop", "lock", "match"}
    <3>1. CASE Move(t)
      <4>1. At(t, "moved") /\ f.id \in Ids /\ RestSide(f.list) \in {"buy", "sell"}
        BY <3>1, AtType, ListTypes DEF Move
      <4>2. PICK g \in FrameRecord : g = Placement(f.id, RestSide(f.list), order[f.id].type)
        BY <4>1, FrameTypes
      <4> QED BY <3>1, <4>2, PlacementFields DEF Move
    <3>2. CASE StopFires(t)
      <4>1. At(t, "stop") /\ f.id \in Ids /\ f.list \in {"buy", "sell"}
        BY <3>2, AtType DEF StopFires
      <4>2. PICK g \in FrameRecord : g = Insertion(f.id, f.list)
        BY <4>1, FrameTypes
      <4> QED BY <3>2, <4>2, InsertionFields DEF StopFires
    <3> QED BY <1>1, <3>1, <3>2
  <2>2. ~Idle(t) /\ f.pc \notin Bottoms
    BY <1>1 DEF Move, StopFires, At
  <2> QED BY <1>g, <2>1, <2>2
<1>2. CASE Lock(t)
  <2>1. At(t, "lock") /\ f.id \in Ids /\ f.list \in {"buy", "sell"} /\ f \in FrameRecord /\ f.pc = "lock"
    BY <1>2, AtType DEF Lock
  <2>2. f \in [pc : {"lock"}, id : Ids, list : {"buy", "sell"}, opp : {None}, qty : {0}]
    BY <2>1 DEF FrameRecord
  <2>3. PICK g \in FrameRecord : g = [f EXCEPT !.pc = "match"] /\ g.pc = "match"
    <3>1. [f EXCEPT !.pc = "match"] \in FrameRecord /\ [f EXCEPT !.pc = "match"].pc = "match"
      BY <2>2 DEF FrameRecord
    <3> QED BY <3>1
  <2>4. ~Idle(t) /\ Goto(t, g)
    BY <1>2, <2>3 DEF Lock, At
  <2> QED BY <1>g, <2>1, <2>3, <2>4
<1>3. CASE Match(t)
  <2> DEFINE opp == First(Opposite(f.list))
             qty == Smaller(order[f.id].pending, order[opp].pending)
  <2>1. /\ At(t, "match") /\ f.id \in Ids /\ f.pc = "match" /\ ~Idle(t)
        /\ f \in [pc : {"match"}, id : Ids, list : {"buy", "sell"}, opp : {None}, qty : {0}]
    BY <1>3, AtType DEF Match
  <2>2. opp \in Ids /\ order[f.id].pending \in Int
    BY <1>3, <2>1, FirstType, ListTypes DEF Match, CanTrade, TypeOK, OrderRecord
  <2>3. order[opp].pending \in Int
    BY <2>2 DEF TypeOK, OrderRecord
  <2>4. qty \in Int
    BY <2>2, <2>3 DEF Smaller
  <2> HIDE DEF opp, qty
  <2>5. PICK g \in FrameRecord : g = [f EXCEPT !.pc = "fill", !.opp = opp, !.qty = qty] /\ g.pc = "fill"
    <3>1. [f EXCEPT !.pc = "fill", !.opp = opp, !.qty = qty] \in FrameRecord
      BY <2>1, <2>2, <2>4 DEF FrameRecord
    <3>2. [f EXCEPT !.pc = "fill", !.opp = opp, !.qty = qty].pc = "fill"
      BY <2>1
    <3> QED BY <3>1, <3>2
  <2>6. Goto(t, g)
    BY <1>3, <2>5 DEF Match, opp, qty
  <2> QED BY <1>3, <2>1, <2>5, <2>6, GotoShape DEF NextTops
<1>4. CASE MatchEnds(t)
  <2>1. /\ f \in [pc : {"match"}, id : Ids, list : {"buy", "sell"}, opp : {None}, qty : {0}]
        /\ f.pc = "match" /\ ~Idle(t)
    BY <1>4, AtType DEF MatchEnds
  <2>2. PICK g \in FrameRecord : g = [f EXCEPT !.pc = "rest"] /\ g.pc = "rest"
    <3>1. [f EXCEPT !.pc = "rest"] \in FrameRecord /\ [f EXCEPT !.pc = "rest"].pc = "rest"
      BY <2>1 DEF FrameRecord
    <3> QED BY <3>1
  <2>3. Goto(t, g)
    BY <1>4, <2>2 DEF MatchEnds
  <2> QED BY <1>4, <2>1, <2>2, <2>3, GotoShape DEF NextTops
<1>5. CASE Fill(t)
  BY <1>5, FillShape DEF NextTops, Frame
<1>6. CASE FillEmptied(t)
  <2>1. At(t, "fill") /\ f.id \in Ids /\ f.list \in {"buy", "sell"} /\ f.pc = "fill" /\ ~Idle(t)
    BY <1>6, AtType DEF FillEmptied
  <2>2. PICK g \in FrameRecord : g = Frame("rest", f.id, f.list) /\ g.pc = "rest"
    BY <2>1, FrameTypes DEF Frame
  <2>3. Goto(t, g)
    BY <1>6, <2>2 DEF FillEmptied
  <2> QED BY <1>6, <2>1, <2>2, <2>3, GotoShape DEF NextTops
<1>7. CASE \/ MoveRejected(t) \/ StopRests(t) \/ RestDone(t) \/ RestCanceled(t) \/ Rest(t)
           \/ TriggerEnds(t) \/ RequestEnds(t) \/ StopEnds(t)
  <2>1. ~Idle(t) /\ Return(t)
    BY <1>7 DEF MoveRejected, StopRests, RestDone, RestCanceled, Rest, TriggerEnds, RequestEnds,
                StopEnds, At
  <2> QED BY <1>r, <2>1
<1>8. CASE TriggerFirst(t)
  <2>1. At(t, "trigger") /\ f.list \in {"stopBuy", "stopSell"} /\ f.pc = "trigger" /\ ~Idle(t)
    BY <1>8, AtType DEF TriggerFirst
  <2>2. First(f.list) \in Ids
    BY <1>8, <2>1, FirstType DEF TriggerFirst, FirstTriggered, Lists
  <2>3. PICK g \in FrameRecord : g = Insertion(First(f.list), RestList(f.list))
    BY <2>2, FrameTypes, ListTypes
  <2>4. Call(t, g) /\ g.pc \in {"lock", "match"}
    BY <1>8, <2>3, InsertionFields DEF TriggerFirst
  <2>5. g.pc \notin Bottoms /\ f.pc \in Waiting
    BY <2>1, <2>4
  <2> QED BY <2>1, <2>4, <2>5, CallShape DEF NextTops
<1>9. CASE TriggerSells(t)
  <2>1. ~Idle(t) /\ f.pc = "trigger"
    BY <1>9 DEF TriggerSells, At
  <2>2. PICK g \in FrameRecord : g = Frame("trigger", None, "stopSell") /\ g.pc = "trigger"
    BY ListFrameTypes DEF Frame
  <2>3. Goto(t, g)
    BY <1>9, <2>2 DEF TriggerSells
  <2> QED BY <1>g, <2>1, <2>2, <2>3
<1>10. CASE IocCancels(t) \/ IocNotFound(t)
  <2>1. At(t, "ioc")
    BY <1>10 DEF IocCancels, IocNotFound
  <2>2. ~Idle(t) /\ f.pc = "ioc" /\ f.id \in Ids /\ f.list \in {"buy", "sell"}
    BY <2>1, AtType
  <2>3. PICK g \in FrameRecord : g = Frame("changed", f.id, f.list) /\ g.pc = "changed"
    BY <2>2, FrameTypes DEF Frame
  <2>4. Goto(t, g)
    BY <1>10, <2>3 DEF IocCancels, IocNotFound
  <2> QED BY <1>g, <2>2, <2>3, <2>4
<1>11. CASE CancelFirst(t)
  BY <1>11, SameShape DEF CancelFirst, NextTops, NextTop, At, Top
<1>12. CASE CancelNext(t)
  <2>1. At(t, "cancelAll") /\ ~Idle(t) /\ f.pc = "cancelAll" /\ f.list \in Lists /\ f.list # "stopSell"
    BY <1>12, AtType DEF CancelNext
  <2>2. ListAfter[f.list] \in Lists
    BY <2>1 DEF ListAfter, Lists
  <2>3. PICK g \in FrameRecord : g = Frame("cancelAll", None, ListAfter[f.list]) /\ g.pc = "cancelAll"
    BY <2>2, ListFrameTypes DEF Frame
  <2>4. Goto(t, g)
    BY <1>12, <2>3 DEF CancelNext
  <2> QED BY <1>12, <2>1, <2>3, <2>4, GotoShape DEF NextTops
<1> QED BY <1>1, <1>2, <1>3, <1>4, <1>5, <1>6, <1>7, <1>8, <1>9, <1>10, <1>11, <1>12 DEF Continue

LEMMA RequestShape ==
  ASSUME TypeOK, TypeOK', Shape, NEW t \in Sessions, Request(t)
  PROVE  Shape' /\ NextTops(t)
<1> USE DEF Bottoms, Waiting
<1>0. t \in Threads /\ Idle(t)
  BY DEF Request, Insert, InsertWhenClosed, ReplaceKept, ReplaceMoved, ReplaceRejected,
         ReplaceWhenClosed, Cancel, CancelRejected, Threads
<1>1. CASE stack' = stack
  BY <1>0, <1>1, SameShape DEF NextTops, Idle
<1>2. CASE \E id \in Ids, o \in NewOrders : Insert(t, id, o)
  <2>1. PICK id \in Ids, o \in NewOrders : Insert(t, id, o)
    BY <1>2
  <2>2. PICK c \in FrameRecord : c = Frame("changed", id, ListOf(o.side)) /\ c.pc = "changed"
    BY NewFrames
  <2>3. PICK g \in FrameRecord : g = Placement(id, ListOf(o.side), o.type)
    BY NewFrames
  <2>4. Begin(t, <<c, g>>) /\ g.pc \in {"stop", "lock", "match"}
    BY <2>1, <2>2, <2>3, PlacementFields DEF Insert
  <2> QED BY <1>0, <2>2, <2>4, BeginShape DEF NextTops
<1>3. CASE \E id \in Ids, o \in ReplaceOrders :
             ReplaceKept(t, id, o) \/ ReplaceMoved(t, id, o) \/ ReplaceRejected(t, id, o)
  <2>1. PICK id \in Ids, o \in ReplaceOrders :
               ReplaceKept(t, id, o) \/ ReplaceMoved(t, id, o) \/ ReplaceRejected(t, id, o)
    BY <1>3
  <2>2. PICK a \in FrameRecord : a = AfterReplace(id, o, ListOf(o.side)) /\ a.pc \in {"ioc", "changed"}
    BY NewFrames
  <2>3. PICK m \in FrameRecord : m = Frame("moved", id, Found(id, ListOf(o.side))) /\ m.pc = "moved"
    BY NewFrames
  <2>4. Begin(t, <<a>>) \/ Begin(t, <<a, m>>)
    BY <2>1, <2>2, <2>3 DEF ReplaceKept, ReplaceMoved, ReplaceRejected
  <2> QED BY <1>0, <2>2, <2>3, <2>4, BeginShape DEF NextTops
<1> QED BY <1>1, <1>2, <1>3 DEF Request, InsertWhenClosed, ReplaceWhenClosed, Cancel, CancelRejected

LEMMA CommandShape ==
  ASSUME TypeOK, TypeOK', Shape, NEW t \in Threads, Command(t)
  PROVE  Shape' /\ NextTops(t)
<1>0. Idle(t)
  BY DEF Command, Stop, Start
<1>1. CASE Stop(t)
  <2>1. PICK c \in FrameRecord : c = Frame("cancelAll", None, "buy") /\ c.pc = "cancelAll"
    BY ListFrameTypes DEF Lists, Frame
  <2>2. Begin(t, <<c>>)
    BY <1>1, <2>1 DEF Stop
  <2> QED BY <1>0, <1>1, <2>1, <2>2, BeginShape DEF NextTops, Bottoms
<1>2. CASE Start(t)
  BY <1>0, <1>2, SameShape DEF Start, NextTops, Idle
<1> QED BY <1>1, <1>2 DEF Command

-----------------------------------------------------------------------------
(* All requests and commands come from one thread, as in a deployment with *)
(* one session whose console is left alone.                                *)
OneThread == Threads # {} /\ \A t, u \in Threads : t = u

(* What the matching loop has just found out when it is about to fill, and *)
(* when it is over.                                                        *)
Meets(f) ==
  \/ order[f.id].type = "MARKET"
  \/ Crosses(f.list, order[f.id].price, order[f.opp].price)

FillInv ==
  \A t \in Threads : At(t, "fill") =>
    /\ book[Opposite(Top(t).list)] # <<>> /\ Top(t).opp = First(Opposite(Top(t).list))
    /\ order[Top(t).id].pending > 0
    /\ Top(t).qty = Smaller(order[Top(t).id].pending, order[Top(t).opp].pending)
    /\ Meets(Top(t))

RestInv == \A t \in Threads : At(t, "rest") => ~CanTrade(Top(t).id, Top(t).list)

MatchInv == Shape /\ FillInv /\ RestInv /\ FreshUnfilled

LEMMA MatchLoops ==
  ASSUME OneThread, TypeOK, TypeOK', Shape, NEW t \in Threads, Match(t)
  PROVE  FillInv'
<1> DEFINE f == Top(t)
           opp == First(Opposite(f.list))
           qty == Smaller(order[f.id].pending, order[opp].pending)
<1>1. /\ At(t, "match") /\ f.id \in Ids /\ f.list \in {"buy", "sell"} /\ f.pc = "match" /\ ~Idle(t)
      /\ f \in [pc : {"match"}, id : Ids, list : {"buy", "sell"}, opp : {None}, qty : {0}]
  BY AtType DEF Match
<1>2. opp \in Ids /\ order[f.id].pending \in Int
  BY <1>1, FirstType, ListTypes DEF Match, CanTrade, TypeOK, OrderRecord
<1>3. order[opp].pending \in Int
  BY <1>2 DEF TypeOK, OrderRecord
<1>4. qty \in Int
  BY <1>2, <1>3 DEF Smaller
<1>5. /\ order[f.id].pending > 0 /\ book[Opposite(f.list)] # <<>>
      /\ order[f.id].type = "MARKET" \/ Crosses(f.list, order[f.id].price, order[opp].price)
  BY DEF Match, CanTrade
<1>6. Goto(t, [f EXCEPT !.pc = "fill", !.opp = opp, !.qty = qty]) /\ order' = order /\ book' = book
  BY DEF Match
<1> HIDE DEF opp, qty
<1>7. PICK g \in FrameRecord : /\ g = [f EXCEPT !.pc = "fill", !.opp = opp, !.qty = qty]
                               /\ g.pc = "fill" /\ g.id = f.id /\ g.list = f.list
                               /\ g.opp = opp /\ g.qty = qty
  <2>1. [f EXCEPT !.pc = "fill", !.opp = opp, !.qty = qty] \in FrameRecord
    BY <1>1, <1>2, <1>4 DEF FrameRecord
  <2> QED BY <1>1, <2>1
<1>8. stack'[t] # <<>> /\ NextTop(t) = g
  BY <1>1, <1>6, <1>7, GotoShape DEF Bottoms
<1> HIDE DEF f
<1>9. /\ book[Opposite(g.list)] # <<>> /\ g.opp = First(Opposite(g.list)) /\ order[g.id].pending > 0
      /\ g.qty = Smaller(order[g.id].pending, order[g.opp].pending) /\ Meets(g)
  BY <1>5, <1>7 DEF Meets, opp, qty
<1> QED
  <2> SUFFICES ASSUME NEW u \in Threads
               PROVE  /\ book'[Opposite(NextTop(u).list)] # <<>>
                      /\ NextTop(u).opp = Head(book'[Opposite(NextTop(u).list)]).id
                      /\ order'[NextTop(u).id].pending > 0
                      /\ NextTop(u).qty = Smaller(order'[NextTop(u).id].pending, order'[NextTop(u).opp].pending)
                      /\ \/ order'[NextTop(u).id].type = "MARKET"
                         \/ Crosses(NextTop(u).list, order'[NextTop(u).id].price, order'[NextTop(u).opp].price)
    BY DEF FillInv, Meets, NextTop, Top, First
  <2>1. u = t
    BY DEF OneThread
  <2> QED BY <1>6, <1>8, <1>9, <2>1 DEF First, Meets

LEMMA EndLoops ==
  ASSUME OneThread, TypeOK, TypeOK', Shape, NEW t \in Threads, MatchEnds(t) \/ FillEmptied(t)
  PROVE  RestInv'
<1> DEFINE f == Top(t)
<1>1. ~CanTrade(f.id, f.list) /\ order' = order /\ book' = book
  BY DEF MatchEnds, FillEmptied, CanTrade
<1>2. stack'[t] # <<>> /\ NextTop(t).id = f.id /\ NextTop(t).list = f.list
  <2>1. CASE MatchEnds(t)
    <3>1. /\ f \in [pc : {"match"}, id : Ids, list : {"buy", "sell"}, opp : {None}, qty : {0}]
          /\ f.pc = "match" /\ ~Idle(t)
      BY <2>1, AtType DEF MatchEnds
    <3>2. PICK g \in FrameRecord : /\ g = [f EXCEPT !.pc = "rest"]
                                   /\ g.pc = "rest" /\ g.id = f.id /\ g.list = f.list
      <4>1. [f EXCEPT !.pc = "rest"] \in FrameRecord
        BY <3>1 DEF FrameRecord
      <4> QED BY <3>1, <4>1
    <3>3. Goto(t, g)
      BY <2>1, <3>2 DEF MatchEnds
    <3> QED BY <3>1, <3>2, <3>3, GotoShape DEF Bottoms
  <2>2. CASE FillEmptied(t)
    <3>1. At(t, "fill") /\ f.id \in Ids /\ f.list \in {"buy", "sell"} /\ f.pc = "fill" /\ ~Idle(t)
      BY <2>2, AtType DEF FillEmptied
    <3>2. PICK g \in FrameRecord : /\ g = Frame("rest", f.id, f.list)
                                   /\ g.pc = "rest" /\ g.id = f.id /\ g.list = f.list
      BY <3>1, FrameTypes DEF Frame
    <3>3. Goto(t, g)
      BY <2>2, <3>2 DEF FillEmptied
    <3> QED BY <3>1, <3>2, <3>3, GotoShape DEF Bottoms
  <2> QED BY <2>1, <2>2
<1> HIDE DEF f
<1> SUFFICES ASSUME NEW u \in Threads, CanTrade(NextTop(u).id, NextTop(u).list)
             PROVE  FALSE
  BY <1>1 DEF RestInv, NextTop, Top, CanTrade, First
<1>3. u = t
  BY DEF OneThread
<1> QED BY <1>1, <1>2, <1>3

LEMMA TopsLoop ==
  ASSUME OneThread, TypeOK, TypeOK', Shape, NEW t \in Threads, NextTops(t)
  PROVE  FillInv' /\ RestInv'
<1>1. ASSUME NEW u \in Threads, NEW pc, At(u, pc)'
      PROVE  stack'[t] # <<>> /\ NextTop(t).pc = pc
  <2>1. u = t
    BY DEF OneThread
  <2> QED BY <1>1, <2>1 DEF At, Idle, Top, NextTop
<1>2. FillInv'
  <2>1. CASE Match(t)
    BY <2>1, MatchLoops
  <2>2. CASE ~Match(t)
    BY <1>1, <2>2 DEF NextTops, FillInv
  <2> QED BY <2>1, <2>2
<1>3. RestInv'
  <2>1. CASE MatchEnds(t) \/ FillEmptied(t)
    BY <2>1, EndLoops
  <2>2. CASE ~(MatchEnds(t) \/ FillEmptied(t))
    BY <1>1, <2>2 DEF NextTops, RestInv
  <2> QED BY <2>1, <2>2
<1> QED BY <1>2, <1>3

LEMMA NextLoop ==
  ASSUME OneThread, TypeOK, PlacesInv, MatchInv, [Next]_vars
  PROVE  MatchInv'
<1>0. TypeOK'
  BY NextTypes
<1>1. ASSUME NEW t \in Sessions, Request(t) PROVE MatchInv'
  <2>1. t \in Threads /\ Shape' /\ NextTops(t)
    BY <1>0, <1>1, RequestShape DEF MatchInv, Threads
  <2>2. FreshUnfilled'
    BY <1>1, RequestRefills, RequestIssues, FreshStays DEF MatchInv
  <2> QED BY <1>0, <2>1, <2>2, TopsLoop DEF MatchInv
<1>2. ASSUME NEW t \in Consoles, Command(t) PROVE MatchInv'
  <2>1. t \in Threads /\ Shape' /\ NextTops(t)
    BY <1>0, <1>2, CommandShape DEF MatchInv, Threads
  <2>2. order' = order /\ status' = status
    BY <1>2 DEF Command, Stop, Start
  <2>3. FreshUnfilled'
    BY <2>2 DEF MatchInv, FreshUnfilled
  <2> QED BY <1>0, <2>1, <2>3, TopsLoop DEF MatchInv
<1>3. ASSUME NEW t \in Threads, Continue(t) PROVE MatchInv'
  <2>1. Shape' /\ NextTops(t)
    BY <1>0, <1>3, ContinueShape DEF MatchInv
  <2>2. KeepsIssued
    BY <1>3, ContinueIssues
  <2>3. \A id \in Ids : Refilled(id) => status'[id] # "NONE"
    BY <1>3, <2>2, FilledIssued DEF KeepsIssued
  <2>4. FreshUnfilled'
    BY <2>2, <2>3, FreshStays DEF MatchInv
  <2> QED BY <1>0, <2>1, <2>4, TopsLoop DEF MatchInv
<1>4. CASE UNCHANGED vars
  BY <1>4 DEF vars, MatchInv, Shape, FillInv, RestInv, FreshUnfilled, At, Top, Idle, Meets, CanTrade, First
<1> QED BY <1>1, <1>2, <1>3, <1>4 DEF Next

LEMMA InitLoop == Init => MatchInv
<1> SUFFICES ASSUME Init PROVE MatchInv
  OBVIOUS
<1>1. \A t \in Threads : stack[t] = <<>>
  BY DEF Init
<1>2. Shape
  BY <1>1 DEF Shape
<1>3. FillInv /\ RestInv
  BY <1>1 DEF FillInv, RestInv, At, Idle
<1>4. FreshUnfilled
  BY DEF Init, FreshUnfilled, Blank, MakeOrder, WithPending, ActualPending
<1> QED BY <1>2, <1>3, <1>4 DEF MatchInv

LEMMA LoopCorrect ==
  ASSUME OneThread
  PROVE  Spec => [](TypeOK /\ PlacesInv /\ MatchInv)
BY InitTypes, NextTypes, InitPlaces, NextPlaces, InitLoop, NextLoop, PTL DEF Spec

-----------------------------------------------------------------------------
(* While the thread moves no order, every entry is current.                *)
LEMMA NoneMoves ==
  ASSUME OneThread, NEW t \in Threads, ~At(t, "moved")
  PROVE  \A l, id : ~Moving(l, id)
<1> SUFFICES ASSUME NEW l, NEW id, NEW u \in Threads, At(u, "moved") PROVE FALSE
  BY DEF Moving
<1>1. u = t
  BY DEF OneThread
<1> QED BY <1>1

LEMMA HeadEntry ==
  ASSUME TypeOK, PlacesInv, NEW l \in Lists, book[l] # <<>>, \A id : ~Moving(l, id)
  PROVE  /\ 1 \in DOMAIN book[l] /\ book[l][1].id = First(l) /\ First(l) \in Ids
         /\ Holds(l, First(l)) /\ EntryIsCurrent(l, book[l][1])
         /\ \A p \in DOMAIN book[l] : p = 1 \/ Ahead(l, book[l][1].key, book[l][p].key)
<1>1. 1 \in DOMAIN book[l] /\ book[l][1].id = First(l)
  BY BookTypes, TailElements DEF First
<1>2. \A p \in DOMAIN book[l] : p = 1 \/ 1 < p
  BY BookTypes
<1> QED BY <1>1, <1>2, FirstType DEF Holds, PlacesInv, CurrentInv, EntriesInv, Sorted

(* Which steps add entries.                                                *)
LEMMA RequestFewer ==
  ASSUME TypeOK, NEW t \in Sessions, Request(t)
  PROVE  Fewer
<1>1. CASE book' = book
  BY <1>1, SameBook
<1>2. CASE \E id \in Ids, o \in CancelOrders : Cancel(t, id, o)
  <2>1. PICK id \in Ids, o \in CancelOrders : EraseFrom(CancelList(o), id)
    BY <1>2 DEF Cancel
  <2>2. CancelList(o) \in Lists
    BY ListTypes DEF CancelList
  <2> QED BY <2>1, <2>2, EraseDrops, DroppedFewer
<1> QED BY <1>1, <1>2 DEF Request, Insert, InsertWhenClosed, ReplaceKept, ReplaceMoved, ReplaceRejected,
          ReplaceWhenClosed, CancelRejected

LEMMA ContinueFewer ==
  ASSUME TypeOK, NEW t \in Threads, Continue(t)
  PROVE  Fewer \/ StopRests(t) \/ Rest(t)
<1>1. CASE book' = book
  BY <1>1, SameBook
<1>2. CASE Move(t) \/ IocCancels(t)
  <2>1. EraseFrom(Top(t).list, Top(t).id) /\ (At(t, "moved") \/ At(t, "ioc"))
    BY <1>2 DEF Move, IocCancels
  <2>2. Top(t).list \in Lists
    BY <2>1, AtType
  <2> QED BY <2>1, <2>2, EraseDrops, DroppedFewer
<1>3. CASE CancelFirst(t) \/ TriggerFirst(t)
  <2>1. /\ book' = [book EXCEPT ![Top(t).list] = Tail(@)] /\ book[Top(t).list] # <<>>
        /\ At(t, "cancelAll") \/ At(t, "trigger")
    BY <1>3 DEF CancelFirst, TriggerFirst, FirstTriggered
  <2>2. Top(t).list \in Lists
    BY <2>1, AtType
  <2> QED BY <2>1, <2>2, TailDrops, DroppedFewer
<1>4. CASE Fill(t)
  <2>1. PICK other \in Lists : other = Opposite(Top(t).list)
    BY ListTypes
  <2>2. book[other] # <<>> /\ (book' = book \/ book' = [book EXCEPT ![other] = Tail(@)])
    BY <1>4, <2>1 DEF Fill
  <2> QED BY <2>2, SameBook, TailDrops, DroppedFewer
<1> QED BY <1>1, <1>2, <1>3, <1>4 DEF Continue, MoveRejected, StopFires, Lock, Match, MatchEnds,
          FillEmptied, RestDone, RestCanceled, TriggerSells, TriggerEnds, IocNotFound, RequestEnds,
          CancelNext, StopEnds

LEMMA OldEntries ==
  ASSUME Fewer, NEW l \in Lists, NEW i \in DOMAIN book'[l]
  PROVE  \E j \in DOMAIN book[l] : book'[l][i] = book[l][j]
BY DEF Fewer, Dropped

(* The list does not have the order it will get, and a list that gets an   *)
(* entry has no others than it had.                                        *)
LEMMA InsertedEntries ==
  ASSUME NEW l \in Lists, NEW p \in Nat, NEW e, Inserted(l, p, e), NEW m \in Lists, NEW i \in DOMAIN book'[m]
  PROVE  (m = l /\ book'[m][i] = e) \/ \E j \in DOMAIN book[m] : book'[m][i] = book[m][j]
BY DEF Inserted

-----------------------------------------------------------------------------
(* With one thread: a request to cancel that names its order's side and    *)
(* present kind is refused only when the order rests nowhere.              *)
THEOREM OnlyGoneAreRefused ==
  ASSUME OneThread
  PROVE  Spec => RefusedMeansGone
<1>1. ASSUME PlacesInv, NEW t \in Sessions, NEW id \in Ids, NEW o \in CancelOrders,
             CancelRejected(t, id, o), ListOf(o.side) = ListOf(order[id].side),
             IsStop(o.type) = IsStop(order[id].type), NEW l \in Lists, Holds(l, id)
      PROVE  FALSE
  <2>1. Idle(t) /\ ~Holds(CancelList(o), id) /\ t \in Threads
    BY <1>1 DEF CancelRejected, Threads
  <2>2. ~Moving(l, id)
    BY <2>1, NoneMoves DEF At
  <2>3. PICK p \in DOMAIN book[l] : book[l][p].id = id
    BY <1>1 DEF Holds
  <2>4. EntryIsCurrent(l, book[l][p]) /\ ListOf(order[id].side) = RestSide(l)
    BY <1>1, <2>2, <2>3 DEF PlacesInv, CurrentInv, EntriesInv
  <2>5. CancelList(o) = l
    BY <1>1, <2>3, <2>4 DEF CancelList, EntryIsCurrent, IsStop, StopList, RestSide, Lists
  <2> QED BY <1>1, <2>1, <2>5
<1>2. PlacesInv =>
        \A t \in Sessions, id \in Ids, o \in CancelOrders :
          /\ CancelRejected(t, id, o)
          /\ ListOf(o.side) = ListOf(order[id].side) /\ IsStop(o.type) = IsStop(order[id].type)
          => \A l \in Lists : ~Holds(l, id)
  BY <1>1
<1> QED BY <1>2, PlacesCorrect, PTL DEF RefusedMeansGone

-----------------------------------------------------------------------------
(* The loop that could trade no more leaves a price that does not cross.   *)
LEMMA RestUncrossed ==
  ASSUME OneThread, TypeOK, PlacesInv, MatchInv, NotCrossed, NEW t \in Threads, Rest(t)
  PROVE  NotCrossed'
<1> DEFINE f == Top(t)
           o == order[f.id]
           placed == IF o.type = "MARKET" THEN MarketToLimit(o, ltp) ELSE o
           other == Opposite(f.list)
<1>1. At(t, "rest") /\ o.pending > 0 /\ InsertInto(f.list, placed.price, f.id)
  BY DEF Rest
<1>2. f.id \in Ids /\ f.list \in {"buy", "sell"} /\ f.list \in Lists /\ other \in Lists
  BY <1>1, AtType, ListTypes
<1>3. placed.price \in Int
  BY <1>2, OrderOperatorTypes DEF TypeOK, OrderRecord
<1>4. ~CanTrade(f.id, f.list)
  BY <1>1 DEF MatchInv, RestInv
<1>5. PICK p \in Nat : Inserted(f.list, p, [key |-> placed.price, id |-> f.id])
  BY <1>1, <1>2, <1>3, InsertInserts
<1>6. \A q \in DOMAIN book[other] :
        /\ f.list = "buy" => placed.price < book[other][q].key
        /\ f.list = "sell" => placed.price > book[other][q].key
  <2> SUFFICES ASSUME NEW q \in DOMAIN book[other]
               PROVE  /\ f.list = "buy" => placed.price < book[other][q].key
                      /\ f.list = "sell" => placed.price > book[other][q].key
    OBVIOUS
  <2>1. book[other] # <<>>
    BY <1>2, BookTypes
  <2>2. ~At(t, "moved")
    BY <1>1 DEF At
  <2>3. /\ 1 \in DOMAIN book[other] /\ book[other][1].id = First(other) /\ First(other) \in Ids
        /\ EntryIsCurrent(other, book[other][1])
        /\ q = 1 \/ Ahead(other, book[other][1].key, book[other][q].key)
    BY <1>2, <2>1, <2>2, NoneMoves, HeadEntry
  <2>4. other \in {"buy", "sell"} /\ (other = "sell" <=> f.list = "buy")
    BY <1>2 DEF Opposite
  <2>5. book[other][1].key = order[First(other)].price
    BY <2>3, <2>4 DEF EntryIsCurrent
  <2>6. placed = o /\ ~Crosses(f.list, o.price, order[First(other)].price)
    BY <1>1, <1>4, <2>1 DEF CanTrade
  <2>7. book[other][1].key \in Int /\ book[other][q].key \in Int
    BY <1>2, <2>3, BookTypes DEF Entry
  <2> HIDE DEF placed, o, other
  <2> QED BY <1>2, <1>3, <2>3, <2>4, <2>5, <2>6, <2>7 DEF Crosses, Ahead
<1> HIDE DEF placed, o
<1> SUFFICES ASSUME NEW b \in DOMAIN book'["buy"], NEW s \in DOMAIN book'["sell"]
             PROVE  book'["buy"][b].key < book'["sell"][s].key
  BY DEF NotCrossed
<1>7. PICK e \in Entry : e = [key |-> placed.price, id |-> f.id] /\ e.key = placed.price
  <2>1. [key |-> placed.price, id |-> f.id] \in Entry
    BY <1>2, <1>3 DEF Entry
  <2> QED BY <2>1
<1>8. /\ (f.list = "buy" /\ book'["buy"][b] = e) \/ \E j \in DOMAIN book["buy"] : book'["buy"][b] = book["buy"][j]
      /\ (f.list = "sell" /\ book'["sell"][s] = e) \/ \E j \in DOMAIN book["sell"] : book'["sell"][s] = book["sell"][j]
  BY <1>2, <1>5, <1>7, InsertedEntries DEF Lists
<1>9. CASE f.list = "buy"
  <2>1. PICK j \in DOMAIN book["sell"] : book'["sell"][s] = book["sell"][j]
    BY <1>8, <1>9
  <2> QED BY <1>6, <1>7, <1>8, <1>9, <2>1 DEF NotCrossed, Opposite
<1>10. CASE f.list = "sell"
  <2>1. PICK j \in DOMAIN book["buy"] : book'["buy"][b] = book["buy"][j]
    BY <1>8, <1>10
  <2>2. book["buy"][j].key \in Int
    BY BookTypes DEF Lists, Entry
  <2> QED BY <1>3, <1>6, <1>7, <1>8, <1>10, <2>1, <2>2 DEF NotCrossed, Opposite
<1> QED BY <1>2, <1>9, <1>10

LEMMA FewerUncrossed ==
  ASSUME Fewer, NotCrossed
  PROVE  NotCrossed'
<1> SUFFICES ASSUME NEW b \in DOMAIN book'["buy"], NEW s \in DOMAIN book'["sell"]
             PROVE  book'["buy"][b].key < book'["sell"][s].key
  BY DEF NotCrossed
<1>1. PICK i \in DOMAIN book["buy"] : book'["buy"][b] = book["buy"][i]
  BY OldEntries DEF Lists
<1>2. PICK j \in DOMAIN book["sell"] : book'["sell"][s] = book["sell"][j]
  BY OldEntries DEF Lists
<1> QED BY <1>1, <1>2 DEF NotCrossed

LEMMA NextUncrossed ==
  ASSUME OneThread, TypeOK, PlacesInv, MatchInv, NotCrossed, [Next]_vars
  PROVE  NotCrossed'
<1>1. ASSUME NEW t \in Sessions, Request(t) PROVE NotCrossed'
  BY <1>1, RequestFewer, FewerUncrossed
<1>2. CASE book' = book
  BY <1>2 DEF NotCrossed
<1>3. ASSUME NEW t \in Threads, Continue(t) PROVE NotCrossed'
  <2>1. CASE Rest(t)
    BY <2>1, RestUncrossed
  <2>2. CASE StopRests(t)
    <3>1. At(t, "stop") /\ InsertInto(StopList(Top(t).list), order[Top(t).id].stop, Top(t).id)
      BY <2>2 DEF StopRests
    <3>2. StopList(Top(t).list) \in Lists \ {"buy", "sell"} /\ Top(t).id \in Ids
      BY <3>1, AtType DEF StopList, Lists
    <3>3. book'["buy"] = book["buy"] /\ book'["sell"] = book["sell"]
      BY <3>1, <3>2 DEF InsertInto, TypeOK
    <3> QED BY <3>3 DEF NotCrossed
  <2> QED BY <1>3, <2>1, <2>2, ContinueFewer, FewerUncrossed
<1> QED BY <1>1, <1>2, <1>3 DEF Next, Command, Stop, Start, vars

(* With one thread: the book is never crossed, not even while an insertion *)
(* or a chain of triggered stop orders is under way.                       *)
THEOREM NeverCrossed ==
  ASSUME OneThread
  PROVE  Spec => []NotCrossed
<1>1. Init => NotCrossed
  BY DEF Init, NotCrossed, Lists
<1> QED BY <1>1, LoopCorrect, NextUncrossed, PTL DEF Spec

-----------------------------------------------------------------------------
(* The price of a trade respects the limits of both its orders.            *)
LEMMA FillRespects ==
  ASSUME OneThread, TypeOK, PlacesInv, MatchInv, NEW t \in Threads, Continue(t),
         NEW id \in Ids, Refilled(id), order[id].type = "LIMIT"
  PROVE  Crosses(ListOf(order[id].side), order[id].price, ltp')
<1> DEFINE f == Top(t)
           other == Opposite(f.list)
<1>1. Fill(t) /\ id \in {First(other), f.id}
  BY ContinueFills
<1>2. /\ At(t, "fill") /\ f.id \in Ids /\ f.list \in {"buy", "sell"} /\ other \in Lists
      /\ f.opp \in Ids /\ Len(stack[t]) \in DOMAIN stack[t] /\ stack[t][Len(stack[t])] = f /\ f.pc = "fill"
  BY <1>1, AtType, ListTypes DEF Fill
<1>3. book[other] # <<>> /\ f.opp = First(other) /\ Meets(f) /\ ltp' = order[f.opp].price
  BY <1>1, <1>2 DEF MatchInv, FillInv, Fill
<1>4. ListOf(order[f.id].side) = f.list
  BY <1>2 DEF PlacesInv, CurrentInv, FramesInv, Placing
<1>5. CASE id = f.id
  BY <1>3, <1>4, <1>5 DEF Meets
<1>6. CASE id = f.opp
  BY <1>3, <1>6 DEF Crosses, TypeOK, OrderRecord
<1> QED BY <1>1, <1>3, <1>5, <1>6

(* With one thread: no trade of a limit order, resting or incoming, is at  *)
(* a price worse than its limit.                                           *)
THEOREM LimitsAreRespected ==
  ASSUME OneThread
  PROVE  Spec => LimitRespected
<1>1. ASSUME TypeOK, PlacesInv, MatchInv, [Next]_vars, NEW id \in Ids,
             order'[id].filled > order[id].filled, order[id].type = "LIMIT"
      PROVE  Crosses(ListOf(order[id].side), order[id].price, ltp')
  <2>1. order[id].filled \in Int
    BY <1>1 DEF TypeOK, OrderRecord
  <2>2. Refilled(id)
    BY <1>1, <2>1 DEF Refilled
  <2>3. ASSUME NEW t \in Sessions, Request(t) PROVE FALSE
    BY <1>1, <2>2, <2>3, RequestRefills DEF MatchInv, FreshUnfilled
  <2>4. PICK t \in Threads : Continue(t)
    BY <1>1, <2>2, <2>3 DEF Next, Command, Stop, Start, vars, Refilled
  <2> QED BY <1>1, <2>2, <2>4, FillRespects
<1>2. TypeOK /\ PlacesInv /\ MatchInv /\ [Next]_vars =>
        \A id \in Ids :
          order'[id].filled > order[id].filled /\ order[id].type = "LIMIT" =>
            Crosses(ListOf(order[id].side), order[id].price, ltp')
  BY <1>1
<1> QED BY <1>2, LoopCorrect, PTL DEF Spec, LimitRespected

-----------------------------------------------------------------------------
(* A stopped book: the lists behind the one a stop works on are empty, and *)
(* nothing else runs.                                                      *)
Before == [buy |-> {}, sell |-> {"buy"}, stopBuy |-> {"buy", "sell"},
           stopSell |-> {"buy", "sell", "stopBuy"}]

ClosedInv ==
  \A t \in Threads :
    /\ ~active => Idle(t) \/ At(t, "cancelAll")
    /\ At(t, "cancelAll") => ~active /\ \A l \in Before[Top(t).list] : book[l] = <<>>
    /\ ~active /\ Idle(t) => \A l \in Lists : book[l] = <<>>

LEMMA EmptyStays ==
  ASSUME TypeOK, TypeOK', Fewer, NEW l \in Lists, book[l] = <<>>
  PROVE  book'[l] = <<>>
<1>1. DOMAIN book[l] = {}
  OBVIOUS
<1>2. DOMAIN book'[l] = {}
  BY <1>1, OldEntries
<1>3. book'[l] \in Seq(Entry)
  BY DEF TypeOK
<1>4. book'[l] # <<>> => 1 \in DOMAIN book'[l]
  BY <1>3, LenProperties, EmptySeq
<1> QED BY <1>2, <1>4

(* The thread's stack after a step of a book that is not being stopped.    *)
LEMMA OpenSteps ==
  ASSUME OneThread, NEW t \in Threads, active', stack'[t] = <<>> \/ NextTop(t).pc # "cancelAll"
  PROVE  ClosedInv'
<1> SUFFICES ASSUME NEW u \in Threads
             PROVE  stack'[u] = <<>> \/ NextTop(u).pc # "cancelAll"
  BY DEF ClosedInv, At, Idle, Top, NextTop
<1>1. u = t
  BY DEF OneThread
<1> QED BY <1>1

LEMMA CancelNextCloses ==
  ASSUME OneThread, TypeOK, TypeOK', MatchInv, ClosedInv, NEW t \in Threads, CancelNext(t)
  PROVE  ClosedInv'
<1> DEFINE l == Top(t).list
<1>1. /\ At(t, "cancelAll") /\ ~Idle(t) /\ Top(t).pc = "cancelAll"
      /\ l \in Lists /\ l # "stopSell" /\ book[l] = <<>> /\ book' = book /\ active' = active
  BY AtType DEF CancelNext
<1>2. ListAfter[l] \in Lists /\ Before[ListAfter[l]] = Before[l] \cup {l}
  BY <1>1 DEF ListAfter, Lists, Before
<1>3. PICK g \in FrameRecord : g = Frame("cancelAll", None, ListAfter[l]) /\ g.pc = "cancelAll"
                               /\ g.list = ListAfter[l]
  BY <1>2, ListFrameTypes DEF Frame
<1>4. Goto(t, g)
  BY <1>3 DEF CancelNext
<1>5. stack'[t] # <<>> /\ NextTop(t) = g
  BY <1>1, <1>3, <1>4, GotoShape DEF Bottoms, MatchInv
<1>6. ~active /\ \A m \in Before[l] : book[m] = <<>>
  BY <1>1 DEF ClosedInv
<1> HIDE DEF l
<1> SUFFICES ASSUME NEW u \in Threads
             PROVE  /\ stack'[u] # <<>> /\ NextTop(u).pc = "cancelAll"
                    /\ ~active' /\ \A m \in Before[NextTop(u).list] : book'[m] = <<>>
  BY DEF ClosedInv, At, Idle, Top, NextTop
<1>7. u = t
  BY DEF OneThread
<1> QED BY <1>1, <1>2, <1>3, <1>5, <1>6, <1>7

LEMMA CancelFirstCloses ==
  ASSUME OneThread, TypeOK, TypeOK', ClosedInv, NEW t \in Threads, CancelFirst(t)
  PROVE  ClosedInv'
<1>1. At(t, "cancelAll") /\ stack' = stack /\ active' = active /\ Top(t).list \in Lists
  BY AtType DEF CancelFirst
<1>2. Fewer
  BY <1>1, TailDrops, DroppedFewer DEF CancelFirst
<1>3. Before[Top(t).list] \subseteq Lists
  BY <1>1 DEF Before, Lists
<1>4. ~active /\ \A m \in Before[Top(t).list] : book'[m] = <<>>
  BY <1>1, <1>2, <1>3, EmptyStays DEF ClosedInv
<1> SUFFICES ASSUME NEW u \in Threads
             PROVE  /\ At(u, "cancelAll") /\ ~Idle(u)
                    /\ ~active' /\ \A m \in Before[Top(u).list] : book'[m] = <<>>
  BY <1>1 DEF ClosedInv, At, Idle, Top
<1>5. u = t
  BY DEF OneThread
<1> QED BY <1>1, <1>4, <1>5 DEF At

LEMMA StopEndsClosed ==
  ASSUME OneThread, TypeOK, TypeOK', MatchInv, ClosedInv, NEW t \in Threads, StopEnds(t)
  PROVE  ClosedInv'
<1>1. /\ At(t, "cancelAll") /\ ~Idle(t) /\ Top(t).pc = "cancelAll" /\ Top(t).list = "stopSell"
      /\ book["stopSell"] = <<>> /\ book' = book /\ active' = active /\ Return(t)
  BY DEF StopEnds, At
<1>2. stack'[t] = <<>>
  BY <1>1, ReturnShape DEF Bottoms, MatchInv
<1>3. \A m \in Lists : book'[m] = <<>>
  BY <1>1 DEF ClosedInv, Before, Lists
<1> SUFFICES ASSUME NEW u \in Threads
             PROVE  stack'[u] = <<>>
  BY <1>3 DEF ClosedInv, At, Idle
<1>4. u = t
  BY DEF OneThread
<1> QED BY <1>2, <1>4

LEMMA StopCloses ==
  ASSUME OneThread, TypeOK, TypeOK', MatchInv, NEW t \in Threads, Stop(t)
  PROVE  ClosedInv'
<1>1. PICK c \in FrameRecord : c = Frame("cancelAll", None, "buy") /\ c.pc = "cancelAll" /\ c.list = "buy"
  BY ListFrameTypes DEF Lists, Frame
<1>2. Idle(t) /\ Begin(t, <<c>>) /\ ~active'
  BY <1>1 DEF Stop
<1>3. stack'[t] # <<>> /\ NextTop(t) = c
  BY <1>1, <1>2, BeginShape DEF Bottoms, MatchInv
<1> SUFFICES ASSUME NEW u \in Threads
             PROVE  /\ stack'[u] # <<>> /\ NextTop(u).pc = "cancelAll"
                    /\ ~active' /\ Before[NextTop(u).list] = {}
  BY DEF ClosedInv, At, Idle, Top, NextTop
<1>4. u = t
  BY DEF OneThread
<1> QED BY <1>1, <1>2, <1>3, <1>4 DEF Before

LEMMA NextCloses ==
  ASSUME OneThread, TypeOK, PlacesInv, MatchInv, ClosedInv, [Next]_vars
  PROVE  ClosedInv'
<1>0. TypeOK'
  BY NextTypes
<1>1. ASSUME NEW t \in Sessions, Request(t) PROVE ClosedInv'
  <2>1. t \in Threads /\ Idle(t) /\ active' = active
    BY <1>1 DEF Request, Insert, InsertWhenClosed, ReplaceKept, ReplaceMoved, ReplaceRejected,
         ReplaceWhenClosed, Cancel, CancelRejected, Threads
  <2>2. NextTops(t) /\ Fewer
    BY <1>0, <1>1, RequestShape, RequestFewer DEF MatchInv
  <2>3. CASE active
    <3>1. ~Stop(t)
      BY <2>1, <2>3, Zenon DEF Stop
    <3>2. ~CancelFirst(t) /\ ~CancelNext(t)
      BY <2>1 DEF CancelFirst, CancelNext, At
    <3>3. stack'[t] = <<>> \/ NextTop(t).pc # "cancelAll"
      BY <2>2, <3>1, <3>2 DEF NextTops
    <3> QED BY <2>1, <2>3, <3>3, OpenSteps
  <2>4. CASE ~active
    <3>1. stack' = stack
      BY <1>1, <2>4 DEF Request, Insert, InsertWhenClosed, ReplaceKept, ReplaceMoved, ReplaceRejected,
           ReplaceWhenClosed, Cancel, CancelRejected
    <3>2. \A l \in Lists : book'[l] = <<>>
      BY <1>0, <2>1, <2>2, <2>4, EmptyStays DEF ClosedInv
    <3>3. \A u \in Threads : stack'[u] = <<>>
      BY <2>1, <3>1 DEF OneThread, Idle
    <3> QED BY <3>2, <3>3 DEF ClosedInv, Idle, At
  <2> QED BY <2>3, <2>4
<1>2. ASSUME NEW t \in Consoles, Command(t) PROVE ClosedInv'
  <2>1. t \in Threads
    BY DEF Threads
  <2>2. CASE Start(t)
    BY <2>1, <2>2, OpenSteps DEF Start, Idle
  <2> QED BY <1>0, <1>2, <2>1, <2>2, StopCloses DEF Command
<1>3. ASSUME NEW t \in Threads, Continue(t) PROVE ClosedInv'
  <2>1. NextTops(t)
    BY <1>0, <1>3, ContinueShape DEF MatchInv
  <2>2. CASE CancelFirst(t) \/ CancelNext(t) \/ StopEnds(t)
    BY <1>0, <2>2, CancelFirstCloses, CancelNextCloses, StopEndsClosed
  <2>3. CASE ~(CancelFirst(t) \/ CancelNext(t) \/ StopEnds(t))
    <3>1. ~Idle(t) /\ ~At(t, "cancelAll") /\ active' = active
      BY <1>3, <2>3 DEF Continue, Move, MoveRejected, StopFires, StopRests, Lock, Match, MatchEnds, Fill,
           FillEmptied, RestDone, RestCanceled, Rest, TriggerFirst, TriggerSells, TriggerEnds, IocCancels,
           IocNotFound, RequestEnds, At
    <3>2. active
      BY <3>1 DEF ClosedInv
    <3>3. stack'[t] = <<>> \/ NextTop(t).pc # "cancelAll"
      BY <2>1, <2>3, <3>1 DEF NextTops, Stop
    <3> QED BY <3>1, <3>2, <3>3, OpenSteps
  <2> QED BY <2>2, <2>3
<1>4. CASE UNCHANGED vars
  BY <1>4 DEF vars, ClosedInv, At, Top, Idle
<1> QED BY <1>1, <1>2, <1>3, <1>4 DEF Next

(* With one thread: a stopped book holds no orders once its thread is done *)
(* with the stop, whatever requests come until it is started again.        *)
THEOREM StoppedBookIsEmpty ==
  ASSUME OneThread
  PROVE  Spec => []ClosedBookIsEmpty
<1>1. Init => ClosedInv
  BY DEF Init, ClosedInv, At, Idle
<1>2. ClosedInv => ClosedBookIsEmpty
  BY DEF ClosedInv, ClosedBookIsEmpty, Quiet, OneThread
<1> QED BY <1>1, <1>2, LoopCorrect, NextCloses, PTL DEF Spec

-----------------------------------------------------------------------------
(* No entry of a stop list has a stop price that the last price triggers,  *)
(* unless a check of the list is under way or to come.                     *)
NotTriggered(sl) == \A p \in DOMAIN book[sl] : ~Triggered(sl, book[sl][p].key)

Checking(sl) ==
  \E t \in Threads : \E d \in DOMAIN stack[t] :
    stack[t][d].pc = "trigger" /\ stack[t][d].list = sl

WillCheck(sl) ==
  \E t \in Threads : \E d \in DOMAIN stack'[t] :
    stack'[t][d].pc = "trigger" /\ stack'[t][d].list = sl

ArmedInv ==
  /\ Checking("stopBuy") \/ NotTriggered("stopBuy")
  /\ Checking("stopBuy") \/ Checking("stopSell") \/ NotTriggered("stopSell")

LEMMA GotoFrame ==
  ASSUME TypeOK, TypeOK', NEW t \in Threads, ~Idle(t), NEW f, Goto(t, f)
  PROVE  f \in FrameRecord
<1> DEFINE S == FrameRecord \cup {f}
           n == Len(stack[t])
<1>1. stack[t] \in Seq(FrameRecord) /\ stack[t] # <<>> /\ n \in Nat \ {0} /\ DOMAIN stack[t] = 1 .. n
  BY TopType
<1>2. \A d \in 1 .. n : stack[t][d] \in S
  BY <1>1, ElementOfSeq
<1>3. stack[t] \in Seq(S) /\ f \in S
  BY <1>1, <1>2, SeqDef
<1>4. Len(Append(Front(stack[t]), f)) = n /\ Append(Front(stack[t]), f)[n] = f
  BY <1>1, <1>3, ReplaceLastElements
<1>5. stack'[t] = Append(Front(stack[t]), f)
  BY DEF Goto, TypeOK
<1> HIDE DEF n, S
<1>6. stack'[t] \in Seq(FrameRecord) /\ Len(stack'[t]) = n /\ stack'[t][n] = f
  BY <1>4, <1>5 DEF TypeOK
<1>7. n \in 1 .. Len(stack'[t])
  BY <1>1, <1>6
<1> QED BY <1>6, <1>7, ElementOfSeq

LEMMA TopChecks ==
  ASSUME TypeOK, TypeOK', NEW t \in Threads, ~Idle(t), Return(t) \/ \E f : Goto(t, f),
         NEW sl, Checking(sl)
  PROVE  WillCheck(sl) \/ (Top(t).pc = "trigger" /\ Top(t).list = sl)
<1> DEFINE n == Len(stack[t])
<1>1. /\ Others(t) /\ n \in Nat \ {0} /\ DOMAIN stack[t] = 1 .. n
      /\ \A d \in 1 .. n - 1 : d \in DOMAIN stack'[t] /\ stack'[t][d] = stack[t][d]
  <2>1. CASE Return(t)
    BY <2>1, ReturnFrames
  <2>2. CASE \E f : Goto(t, f)
    <3>1. PICK f : Goto(t, f)
      BY <2>2
    <3>2. f \in FrameRecord
      BY <3>1, GotoFrame
    <3> QED BY <3>1, <3>2, GotoFrames
  <2> QED BY <2>1, <2>2
<1>2. stack[t][n] = Top(t)
  BY DEF Top
<1>3. PICK u \in Threads : \E d \in DOMAIN stack[u] : stack[u][d].pc = "trigger" /\ stack[u][d].list = sl
  BY DEF Checking
<1>4. PICK d \in DOMAIN stack[u] : stack[u][d].pc = "trigger" /\ stack[u][d].list = sl
  BY <1>3
<1> HIDE DEF n
<1>5. CASE u # t
  BY <1>1, <1>4, <1>5 DEF Others, WillCheck
<1>6. CASE u = t
  <2>1. d = n \/ d \in 1 .. n - 1
    BY <1>1, <1>4, <1>6
  <2> QED BY <1>1, <1>2, <1>4, <1>6, <2>1 DEF WillCheck
<1> QED BY <1>5, <1>6

LEMMA CallChecks ==
  ASSUME TypeOK, NEW t \in Threads, NEW f \in FrameRecord, Call(t, f), NEW sl, Checking(sl)
  PROVE  WillCheck(sl)
<1> DEFINE n == Len(stack[t])
<1>1. /\ Others(t) /\ n \in Nat /\ DOMAIN stack[t] = 1 .. n
      /\ \A d \in 1 .. n : d \in DOMAIN stack'[t] /\ stack'[t][d] = stack[t][d]
  BY CallFrames
<1>2. PICK u \in Threads : \E d \in DOMAIN stack[u] : stack[u][d].pc = "trigger" /\ stack[u][d].list = sl
  BY DEF Checking
<1>3. PICK d \in DOMAIN stack[u] : stack[u][d].pc = "trigger" /\ stack[u][d].list = sl
  BY <1>2
<1>4. d \in DOMAIN stack'[u] /\ stack'[u][d] = stack[u][d]
  BY <1>1, <1>3 DEF Others
<1> QED BY <1>3, <1>4 DEF WillCheck

(* Only the check of a list ends it.                                       *)
LEMMA ContinueChecks ==
  ASSUME TypeOK, TypeOK', NEW t \in Threads, Continue(t), ~Fill(t), NEW sl, Checking(sl)
  PROVE  \/ WillCheck(sl)
         \/ (TriggerSells(t) /\ sl = "stopBuy") \/ (TriggerEnds(t) /\ sl = "stopSell")
<1>1. CASE \/ Move(t) \/ MoveRejected(t) \/ StopFires(t) \/ StopRests(t) \/ Lock(t) \/ Match(t)
           \/ MatchEnds(t) \/ FillEmptied(t) \/ RestDone(t) \/ RestCanceled(t) \/ Rest(t)
           \/ IocCancels(t) \/ IocNotFound(t) \/ RequestEnds(t) \/ CancelNext(t) \/ StopEnds(t)
  <2>1. ~Idle(t) /\ Top(t).pc # "trigger" /\ (Return(t) \/ \E f : Goto(t, f))
    BY <1>1 DEF Move, MoveRejected, StopFires, StopRests, Lock, Match, MatchEnds, FillEmptied, RestDone,
         RestCanceled, Rest, IocCancels, IocNotFound, RequestEnds, CancelNext, StopEnds, At
  <2> QED BY <2>1, TopChecks
<1>2. CASE TriggerSells(t) \/ TriggerEnds(t)
  <2>1. /\ ~Idle(t) /\ (Return(t) \/ \E f : Goto(t, f))
        /\ TriggerSells(t) => Top(t).list = "stopBuy"
        /\ TriggerEnds(t) => Top(t).list = "stopSell"
    BY <1>2 DEF TriggerSells, TriggerEnds, At
  <2> QED BY <1>2, <2>1, TopChecks
<1>3. CASE TriggerFirst(t)
  <2>1. At(t, "trigger") /\ Top(t).list \in {"stopBuy", "stopSell"}
    BY <1>3, AtType DEF TriggerFirst
  <2>2. First(Top(t).list) \in Ids
    BY <1>3, <2>1, FirstType DEF TriggerFirst, FirstTriggered, Lists
  <2>3. PICK g \in FrameRecord : g = Insertion(First(Top(t).list), RestList(Top(t).list))
    BY <2>2, FrameTypes, ListTypes
  <2>4. Call(t, g)
    BY <1>3, <2>3 DEF TriggerFirst
  <2> QED BY <2>4, CallChecks
<1>4. CASE CancelFirst(t)
  BY <1>4 DEF CancelFirst, Checking, WillCheck
<1> QED BY <1>1, <1>2, <1>3, <1>4 DEF Continue

LEMMA UntriggeredStays ==
  ASSUME Fewer, ltp' = ltp, NEW sl \in Lists, NotTriggered(sl)
  PROVE  NotTriggered(sl)'
<1> SUFFICES ASSUME NEW p \in DOMAIN book'[sl] PROVE ~Triggered(sl, book'[sl][p].key)
  BY DEF NotTriggered, Triggered
<1>1. PICK j \in DOMAIN book[sl] : book'[sl][p] = book[sl][j]
  BY OldEntries
<1> QED BY <1>1 DEF NotTriggered

LEMMA StopRestsArmed ==
  ASSUME TypeOK, NEW t \in Threads, StopRests(t), NEW sl \in Lists, NotTriggered(sl)
  PROVE  NotTriggered(sl)'
<1> DEFINE f == Top(t)
<1>1. /\ At(t, "stop") /\ ~Triggered(f.list, order[f.id].stop) /\ ltp' = ltp
      /\ InsertInto(StopList(f.list), order[f.id].stop, f.id)
  BY DEF StopRests
<1>2. f.id \in Ids /\ f.list \in {"buy", "sell"} /\ order[f.id].stop \in Int /\ StopList(f.list) \in Lists
  BY <1>1, AtType, ListTypes DEF TypeOK, OrderRecord
<1>3. ~Triggered(StopList(f.list), order[f.id].stop)
  BY <1>1, <1>2 DEF Triggered, StopList
<1>4. PICK e \in Entry : e = [key |-> order[f.id].stop, id |-> f.id] /\ e.key = order[f.id].stop
  <2>1. [key |-> order[f.id].stop, id |-> f.id] \in Entry
    BY <1>2 DEF Entry
  <2> QED BY <2>1
<1>5. PICK p \in Nat : Inserted(StopList(f.list), p, e)
  BY <1>1, <1>2, <1>4, InsertInserts
<1> HIDE DEF f
<1> SUFFICES ASSUME NEW i \in DOMAIN book'[sl] PROVE ~Triggered(sl, book'[sl][i].key)
  BY <1>1 DEF NotTriggered, Triggered
<1>6. (sl = StopList(f.list) /\ book'[sl][i] = e) \/ \E j \in DOMAIN book[sl] : book'[sl][i] = book[sl][j]
  BY <1>2, <1>5, InsertedEntries
<1> QED BY <1>3, <1>4, <1>6 DEF NotTriggered

LEMMA RestKeepsStops ==
  ASSUME TypeOK, NEW t \in Threads, Rest(t), NEW sl \in {"stopBuy", "stopSell"}, NotTriggered(sl)
  PROVE  NotTriggered(sl)'
<1>1. At(t, "rest") /\ ltp' = ltp /\ \E key : InsertInto(Top(t).list, key, Top(t).id)
  BY DEF Rest
<1>2. Top(t).list \in {"buy", "sell"}
  BY <1>1, AtType
<1>3. book'[sl] = book[sl]
  BY <1>1, <1>2 DEF InsertInto, TypeOK, Lists
<1> QED BY <1>1, <1>3 DEF NotTriggered, Triggered

(* A list whose first entry is not triggered has none that is.             *)
LEMMA CheckedList ==
  ASSUME TypeOK, PlacesInv, NEW sl \in {"stopBuy", "stopSell"}, ~FirstTriggered(sl), \A id : ~Moving(sl, id)
  PROVE  NotTriggered(sl)
<1> SUFFICES ASSUME NEW p \in DOMAIN book[sl] PROVE ~Triggered(sl, book[sl][p].key)
  BY DEF NotTriggered
<1>1. sl \in Lists
  BY ListTypes
<1>2. book[sl] # <<>>
  OBVIOUS
<1>3. /\ 1 \in DOMAIN book[sl] /\ First(sl) \in Ids /\ book[sl][1].id = First(sl)
      /\ EntryIsCurrent(sl, book[sl][1])
      /\ p = 1 \/ Ahead(sl, book[sl][1].key, book[sl][p].key)
  BY <1>1, <1>2, HeadEntry
<1>4. book[sl][1].key = order[First(sl)].stop
  BY <1>3 DEF EntryIsCurrent
<1>5. ~Triggered(sl, book[sl][1].key)
  BY <1>2, <1>4 DEF FirstTriggered
<1>6. book[sl][1].key \in Int /\ book[sl][p].key \in Int /\ ltp \in Int
  BY <1>1, <1>3, BookTypes DEF Entry, TypeOK
<1> QED BY <1>3, <1>5, <1>6 DEF Triggered, Ahead

LEMMA IdleArmed ==
  ASSUME OneThread, TypeOK, ArmedInv, NEW t \in Threads, Idle(t), NEW sl \in {"stopBuy", "stopSell"}
  PROVE  NotTriggered(sl)
<1>1. \A u \in Threads : DOMAIN stack[u] = {}
  BY StackTypes DEF OneThread
<1> QED BY <1>1 DEF ArmedInv, Checking

LEMMA ContinueArmed ==
  ASSUME OneThread, TypeOK, TypeOK', PlacesInv, ArmedInv, NEW t \in Threads, Continue(t)
  PROVE  ArmedInv'
<1> SUFFICES /\ WillCheck("stopBuy") \/ NotTriggered("stopBuy")'
             /\ WillCheck("stopBuy") \/ WillCheck("stopSell") \/ NotTriggered("stopSell")'
  BY DEF ArmedInv, Checking, WillCheck
<1> {"stopBuy", "stopSell"} \subseteq Lists
  BY ListTypes
<1>1. CASE Fill(t)
  <2>1. PICK c \in FrameRecord : c = Frame("trigger", None, "stopBuy") /\ c.pc = "trigger" /\ c.list = "stopBuy"
    BY ListFrameTypes DEF Frame
  <2>2. PICK m \in FrameRecord : m = Frame("match", Top(t).id, Top(t).list)
    BY <1>1, AtType, FrameTypes DEF Fill
  <2>3. stack' = [stack EXCEPT ![t] = Front(@) \o <<m, c>>] /\ ~Idle(t)
    BY <1>1, <2>1, <2>2 DEF Fill, At
  <2>4. \E d \in DOMAIN stack'[t] : stack'[t][d] = c
    <3>1. \A f, g \in FrameRecord :
            stack' = [stack EXCEPT ![t] = Front(@) \o <<f, g>>] =>
              /\ Others(t) /\ Len(stack[t]) \in Nat \ {0}
              /\ DOMAIN stack[t] = 1 .. Len(stack[t]) /\ DOMAIN stack'[t] = 1 .. Len(stack[t]) + 1
              /\ \A d \in 1 .. Len(stack[t]) - 1 : stack'[t][d] = stack[t][d]
              /\ stack'[t][Len(stack[t])] = f /\ stack'[t][Len(stack[t]) + 1] = g
      BY <2>3, FillFrames, Zenon
    <3>2. /\ Len(stack[t]) \in Nat \ {0} /\ DOMAIN stack'[t] = 1 .. Len(stack[t]) + 1
          /\ stack'[t][Len(stack[t]) + 1] = c
      BY <2>3, <3>1, Zenon
    <3> QED BY <3>2
  <2> QED BY <2>1, <2>4 DEF WillCheck
<1>2. CASE TriggerSells(t)
  <2>1. ~FirstTriggered("stopBuy") /\ ltp' = ltp /\ book' = book /\ At(t, "trigger")
    BY <1>2 DEF TriggerSells
  <2>2. NotTriggered("stopBuy")
    BY <2>1, NoneMoves, CheckedList DEF At
  <2>3. PICK g \in FrameRecord : g = Frame("trigger", None, "stopSell") /\ g.pc = "trigger" /\ g.list = "stopSell"
    BY ListFrameTypes DEF Frame
  <2>4. Goto(t, g) /\ ~Idle(t)
    BY <1>2, <2>3 DEF TriggerSells, At
  <2>5. WillCheck("stopSell")
    <3>1. Len(stack[t]) \in DOMAIN stack'[t] /\ stack'[t][Len(stack[t])] = g
      BY <2>4, GotoFrames
    <3> QED BY <2>3, <3>1 DEF WillCheck
  <2> QED BY <2>1, <2>2, <2>5 DEF NotTriggered, Triggered
<1>3. CASE TriggerEnds(t)
  <2>1. ~FirstTriggered("stopSell") /\ ltp' = ltp /\ book' = book /\ At(t, "trigger") /\ ~TriggerSells(t)
    BY <1>3 DEF TriggerEnds, TriggerSells
  <2>2. NotTriggered("stopSell")
    BY <2>1, NoneMoves, CheckedList DEF At
  <2>3. Checking("stopBuy") => WillCheck("stopBuy")
    <3>1. ~Fill(t)
      BY <2>1 DEF Fill, At
    <3> QED BY <2>1, <3>1, ContinueChecks
  <2> QED BY <2>1, <2>2, <2>3 DEF ArmedInv, NotTriggered, Triggered
<1>4. CASE ~(Fill(t) \/ TriggerSells(t) \/ TriggerEnds(t))
  <2>1. \A sl : Checking(sl) => WillCheck(sl)
    BY <1>4, ContinueChecks
  <2>2. ltp' = ltp
    BY <1>4 DEF Continue, Move, MoveRejected, StopFires, StopRests, Lock, Match, MatchEnds, FillEmptied,
       RestDone, RestCanceled, Rest, TriggerFirst, IocCancels, IocNotFound, RequestEnds, CancelFirst,
       CancelNext, StopEnds
  <2>3. ASSUME NEW sl \in {"stopBuy", "stopSell"}, NotTriggered(sl) PROVE NotTriggered(sl)'
    BY <2>2, <2>3, ContinueFewer, UntriggeredStays, StopRestsArmed, RestKeepsStops
  <2> QED BY <2>1, <2>3 DEF ArmedInv
<1> QED BY <1>1, <1>2, <1>3, <1>4

LEMMA NextArmed ==
  ASSUME OneThread, TypeOK, PlacesInv, ArmedInv, [Next]_vars
  PROVE  ArmedInv'
<1>0. TypeOK' /\ {"stopBuy", "stopSell"} \subseteq Lists
  BY NextTypes, ListTypes
<1>1. ASSUME NEW t \in Threads, Idle(t), Fewer, ltp' = ltp PROVE ArmedInv'
  <2>1. \A sl \in {"stopBuy", "stopSell"} : NotTriggered(sl)
    BY <1>1, IdleArmed
  <2>2. NotTriggered("stopBuy")' /\ NotTriggered("stopSell")'
    BY <1>0, <1>1, <2>1, UntriggeredStays
  <2> QED BY <2>2 DEF ArmedInv
<1>2. ASSUME NEW t \in Sessions, Request(t) PROVE ArmedInv'
  <2>1. t \in Threads /\ Idle(t) /\ ltp' = ltp
    BY <1>2 DEF Request, Insert, InsertWhenClosed, ReplaceKept, ReplaceMoved, ReplaceRejected,
         ReplaceWhenClosed, Cancel, CancelRejected, Threads
  <2> QED BY <1>1, <1>2, <2>1, RequestFewer
<1>3. ASSUME NEW t \in Consoles, Command(t) PROVE ArmedInv'
  <2>1. t \in Threads /\ Idle(t) /\ ltp' = ltp /\ book' = book
    BY <1>3 DEF Command, Stop, Start, Threads
  <2> QED BY <1>1, <2>1, SameBook
<1>4. ASSUME NEW t \in Threads, Continue(t) PROVE ArmedInv'
  BY <1>0, <1>4, ContinueArmed
<1>5. CASE UNCHANGED vars
  BY <1>5 DEF vars, ArmedInv, Checking, NotTriggered, Triggered
<1> QED BY <1>2, <1>3, <1>4, <1>5 DEF Next

(* With one thread: when it is idle, no stop order rests that the last     *)
(* price should have triggered, however long the chain of triggers was.    *)
THEOREM StopsStayArmed ==
  ASSUME OneThread
  PROVE  Spec => []StopsAreArmed
<1>1. Init => ArmedInv
  BY DEF Init, ArmedInv, NotTriggered, Lists
<1>2. ASSUME TypeOK, PlacesInv, ArmedInv, Quiet, NEW sl \in {"stopBuy", "stopSell"}, NEW id \in Resting(sl)
      PROVE  ~Triggered(sl, order[id].stop)
  <2>1. PICK t \in Threads : Idle(t)
    BY <1>2 DEF Quiet, OneThread
  <2>2. PICK p \in DOMAIN book[sl] : id = book[sl][p].id
    BY DEF Resting
  <2>3. ~Triggered(sl, book[sl][p].key)
    BY <1>2, <2>1, IdleArmed DEF NotTriggered
  <2>4. EntryIsCurrent(sl, book[sl][p])
    BY <1>2, <2>1, NoneMoves, ListTypes DEF At, PlacesInv, CurrentInv, EntriesInv
  <2> QED BY <2>2, <2>3, <2>4 DEF EntryIsCurrent
<1>3. TypeOK /\ PlacesInv /\ ArmedInv => StopsAreArmed
  BY <1>2 DEF StopsAreArmed
<1> QED BY <1>1, <1>3, PlacesCorrect, NextArmed, PTL DEF Spec

-----------------------------------------------------------------------------
(* Quantities: what is filled is part of the quantity, and what is shown   *)
(* follows from both.                                                      *)
Visible(o) ==
  IF o.disclosed > 0 /\ o.disclosed < ActualPending(o) THEN o.disclosed ELSE ActualPending(o)

Sound(o) == o.filled >= 0 /\ o.filled <= o.qty /\ o.pending = Visible(o)

Open(o) == ActualPending(o) > 0

LEMMA PendingFits ==
  ASSUME NEW o \in OrderRecord
  PROVE  o = WithPending(o) <=> o.pending = Visible(o)
BY DEF WithPending, Visible, ActualPending, OrderRecord

LEMMA PendingSound ==
  ASSUME NEW o \in OrderRecord, o.filled >= 0, o.filled <= o.qty
  PROVE  /\ Sound(WithPending(o)) /\ (Open(WithPending(o)) <=> Open(o))
         /\ WithPending(o).qty = o.qty /\ WithPending(o).filled = o.filled
BY DEF WithPending, Sound, Visible, Open, ActualPending, OrderRecord

LEMMA SoundPending ==
  ASSUME NEW o \in OrderRecord, Sound(o)
  PROVE  /\ o.pending \in Nat /\ o.pending <= ActualPending(o)
         /\ o.pending > 0 <=> Open(o)
         /\ o.pending = 0 <=> ~Open(o)
BY DEF Sound, Visible, Open, ActualPending, OrderRecord

LEMMA FillSound ==
  ASSUME NEW o \in OrderRecord, Sound(o), NEW q \in Nat, q <= o.pending
  PROVE  Sound(FillOrder(o, q))
<1> DEFINE r == [o EXCEPT !.filled = @ + q]
<1>1. r \in OrderRecord /\ r.filled >= 0 /\ r.filled <= r.qty
  BY SoundPending DEF OrderRecord, Sound, ActualPending
<1> HIDE DEF r
<1>2. Sound(WithPending(r))
  BY <1>1, PendingSound
<1> QED BY <1>2 DEF FillOrder, r

LEMMA TriggerSound ==
  ASSUME NEW o \in OrderRecord, Sound(o)
  PROVE  /\ Sound(TriggerOrder(o)) /\ (Open(TriggerOrder(o)) <=> Open(o))
         /\ \A p \in Int : /\ Sound(MarketToLimit(o, p))
                           /\ Open(MarketToLimit(o, p)) <=> Open(o)
BY DEF TriggerOrder, MarketToLimit, Sound, Visible, Open, ActualPending, OrderRecord

LEMMA ReplaceSound ==
  ASSUME NEW old \in OrderRecord, NEW new \in OrderRecord, Sound(old), CanReplace(old, new)
  PROVE  Sound(ReplacedOrder(old, new)) /\ Open(ReplacedOrder(old, new))
<1> DEFINE r == [old EXCEPT !.qty = new.qty, !.disclosed = new.disclosed,
                   !.tif = new.tif, !.type = new.type, !.stop = new.stop,
                   !.price = IF new.type \in {"MARKET", "STOP"} THEN @ ELSE new.price]
<1>1. r \in OrderRecord
  BY DEF OrderRecord
<1>2. r.filled = old.filled /\ r.qty = new.qty
  BY DEF OrderRecord
<1> HIDE DEF r
<1>3. r.filled >= 0 /\ r.filled <= r.qty /\ Open(r)
  BY <1>2 DEF Sound, CanReplace, Open, ActualPending, OrderRecord
<1>4. Sound(WithPending(r)) /\ Open(WithPending(r))
  BY <1>1, <1>3, PendingSound
<1> QED BY <1>4 DEF ReplacedOrder, r

-----------------------------------------------------------------------------
(* Which orders rest and which are being placed, before and after a step.  *)
Held(id) == \E l \in Lists : Holds(l, id)

Stopping(id) ==
  \E t \in Threads : \E d \in DOMAIN stack[t] : stack[t][d].id = id /\ stack[t][d].pc = "stop"

WillBeHeld(id) == \E l \in Lists : WillHold(l, id)

WillBePlaced(id) ==
  \E t \in Threads : \E d \in DOMAIN stack'[t] : stack'[t][d].id = id /\ Placing(stack'[t][d])

WillStop(id) ==
  \E t \in Threads : \E d \in DOMAIN stack'[t] : stack'[t][d].id = id /\ stack'[t][d].pc = "stop"

LEMMA ShorterHeld ==
  ASSUME TypeOK, Distinct, NEW l \in Lists, NEW p \in DOMAIN book[l], NEW s \in Seq(Entry),
         book' = [book EXCEPT ![l] = s], Len(s) = Len(book[l]) - 1,
         \A i \in 1 .. Len(book[l]) - 1 : s[i] = IF i < p THEN book[l][i] ELSE book[l][i + 1],
         NEW id
  PROVE  WillBeHeld(id) <=> Held(id) /\ id # book[l][p].id
<1>1. Len(book[l]) \in Nat /\ DOMAIN book[l] = 1 .. Len(book[l])
  BY BookTypes
<1>2. book'[l] = s /\ DOMAIN s = 1 .. Len(book[l]) - 1 /\ \A m \in Lists \ {l} : book'[m] = book[m]
  BY LenProperties DEF TypeOK
<1>3. ASSUME NEW m \in Lists, NEW i \in DOMAIN book'[m], book'[m][i].id = id
      PROVE  Held(id) /\ id # book[l][p].id
  <2>1. CASE m = l
    <3>1. PICK j \in DOMAIN book[l] : j # p /\ book'[l][i] = book[l][j]
      <4>1. CASE i < p
        BY <1>1, <1>2, <1>3, <2>1, <4>1
      <4>2. CASE ~(i < p)
        <5>1. i + 1 \in DOMAIN book[l] /\ i + 1 # p /\ book'[l][i] = book[l][i + 1]
          BY <1>1, <1>2, <1>3, <2>1, <4>2
        <5> QED BY <5>1
      <4> QED BY <4>1, <4>2
    <3> QED BY <1>3, <2>1, <3>1 DEF Held, Holds, Distinct
  <2>2. CASE m # l
    <3>1. i \in DOMAIN book[m] /\ book[m][i].id = id
      BY <1>2, <1>3, <2>2
    <3> QED BY <2>2, <3>1 DEF Held, Holds, Distinct
  <2> QED BY <2>1, <2>2
<1>4. ASSUME NEW m \in Lists, NEW j \in DOMAIN book[m], book[m][j].id = id, id # book[l][p].id
      PROVE  WillHold(m, id)
  <2>1. CASE m = l
    <3>1. CASE j < p
      <4>1. j \in DOMAIN book'[m] /\ book'[m][j] = book[m][j]
        BY <1>1, <1>2, <2>1, <3>1
      <4> QED BY <1>4, <4>1 DEF WillHold
    <3>2. CASE ~(j < p)
      <4>1. j # p
        BY <1>4, <2>1
      <4>2. j - 1 \in DOMAIN book'[m] /\ book'[m][j - 1] = book[m][j]
        BY <1>1, <1>2, <2>1, <3>2, <4>1
      <4> QED BY <1>4, <4>2 DEF WillHold
    <3> QED BY <3>1, <3>2
  <2>2. CASE m # l
    BY <1>2, <1>4, <2>2 DEF WillHold
  <2> QED BY <2>1, <2>2
<1> QED BY <1>3, <1>4 DEF WillBeHeld, WillHold, Held, Holds

LEMMA EraseHeld ==
  ASSUME TypeOK, Distinct, NEW l \in Lists, NEW x, EraseFrom(l, x)
  PROVE  Held(x) /\ \A id : WillBeHeld(id) <=> Held(id) /\ id # x
<1>1. PICK p \in DOMAIN book[l] : book[l][p].id = x /\ book' = [book EXCEPT ![l] = RemoveAt(@, p)]
  BY DEF EraseFrom
<1>2. /\ RemoveAt(book[l], p) \in Seq(Entry) /\ Len(RemoveAt(book[l], p)) = Len(book[l]) - 1
      /\ \A i \in 1 .. Len(book[l]) - 1 :
           RemoveAt(book[l], p)[i] = IF i < p THEN book[l][i] ELSE book[l][i + 1]
  BY BookTypes, RemoveAtElements
<1>3. ASSUME NEW id PROVE WillBeHeld(id) <=> Held(id) /\ id # x
  BY <1>1, <1>2, ShorterHeld
<1> QED BY <1>1, <1>3 DEF Held, Holds

LEMMA TailHeld ==
  ASSUME TypeOK, Distinct, NEW l \in Lists, book[l] # <<>>, book' = [book EXCEPT ![l] = Tail(@)]
  PROVE  Held(First(l)) /\ \A id : WillBeHeld(id) <=> Held(id) /\ id # First(l)
<1>1. /\ Tail(book[l]) \in Seq(Entry) /\ Len(Tail(book[l])) = Len(book[l]) - 1
      /\ \A i \in 1 .. Len(book[l]) - 1 : Tail(book[l])[i] = book[l][i + 1]
      /\ Head(book[l]) = book[l][1] /\ Len(book[l]) \in Nat \ {0}
  BY BookTypes, TailElements
<1>2. 1 \in DOMAIN book[l] /\ book[l][1].id = First(l)
  BY <1>1, BookTypes DEF First
<1>3. \A i \in 1 .. Len(book[l]) - 1 : Tail(book[l])[i] = IF i < 1 THEN book[l][i] ELSE book[l][i + 1]
  BY <1>1
<1>4. ASSUME NEW id PROVE WillBeHeld(id) <=> Held(id) /\ id # First(l)
  BY <1>1, <1>2, <1>3, ShorterHeld
<1> QED BY <1>2, <1>4 DEF Held, Holds

LEMMA InsertHeld ==
  ASSUME TypeOK, NEW l \in Lists, NEW key \in Int, NEW x \in Ids, InsertInto(l, key, x)
  PROVE  \A id : WillBeHeld(id) <=> Held(id) \/ id = x
<1> DEFINE e == [key |-> key, id |-> x]
<1>1. e \in Entry /\ e.id = x
  BY DEF Entry
<1>2. PICK p \in 1 .. Len(book[l]) + 1 : book' = [book EXCEPT ![l] = InsertAt(@, p, e)]
  BY DEF InsertInto
<1> HIDE DEF e
<1>3. /\ InsertAt(book[l], p, e) \in Seq(Entry)
      /\ Len(InsertAt(book[l], p, e)) = Len(book[l]) + 1
      /\ \A i \in 1 .. Len(book[l]) + 1 :
           InsertAt(book[l], p, e)[i] =
             IF i < p THEN book[l][i] ELSE IF i = p THEN e ELSE book[l][i - 1]
  BY <1>1, BookTypes, InsertAtElements
<1>4. book'[l] = InsertAt(book[l], p, e) /\ \A m \in Lists \ {l} : book'[m] = book[m]
  BY <1>2 DEF TypeOK
<1>5. /\ DOMAIN book'[l] = 1 .. Len(book[l]) + 1 /\ DOMAIN book[l] = 1 .. Len(book[l])
      /\ Len(book[l]) \in Nat
  BY <1>3, <1>4, BookTypes, LenProperties
<1>6. WillBeHeld(x)
  <2>1. p \in DOMAIN book'[l] /\ book'[l][p] = e
    BY <1>3, <1>4, <1>5
  <2> QED BY <1>1, <2>1 DEF WillBeHeld, WillHold
<1>7. ASSUME NEW m \in Lists, NEW j \in DOMAIN book[m]
      PROVE  WillHold(m, book[m][j].id)
  <2>1. CASE m = l
    <3>1. CASE j < p
      <4>1. j \in 1 .. Len(book[l]) + 1
        BY <1>5, <2>1
      <4>2. j \in DOMAIN book'[m] /\ book'[m][j] = book[m][j]
        BY <1>3, <1>4, <1>5, <2>1, <3>1, <4>1
      <4> QED BY <4>2 DEF WillHold
    <3>2. CASE ~(j < p)
      <4>1. j \in Nat /\ j >= p /\ j + 1 \in 1 .. Len(book[l]) + 1 /\ (j + 1) - 1 = j /\ p \in Nat
        BY <1>2, <1>5, <2>1, <3>2
      <4>2. j + 1 \in DOMAIN book'[m] /\ book'[m][j + 1] = book[m][j]
        BY <1>3, <1>4, <1>5, <2>1, <4>1
      <4> QED BY <4>2 DEF WillHold
    <3> QED BY <3>1, <3>2
  <2>2. CASE m # l
    BY <1>4, <2>2 DEF WillHold
  <2> QED BY <2>1, <2>2
<1>8. ASSUME NEW m \in Lists, NEW i \in DOMAIN book'[m]
      PROVE  book'[m][i].id = x \/ Holds(m, book'[m][i].id)
  <2>1. CASE m = l
    <3>1. CASE i < p
      <4>1. i \in 1 .. Len(book[l]) + 1 /\ i \in DOMAIN book[m]
        BY <1>2, <1>5, <2>1, <3>1
      <4>2. book'[m][i] = book[m][i]
        BY <1>3, <1>4, <2>1, <3>1, <4>1
      <4> QED BY <4>1, <4>2 DEF Holds
    <3>2. CASE i = p
      BY <1>1, <1>3, <1>4, <1>5, <2>1, <3>2
    <3>3. CASE i > p
      <4>0. i \in 1 .. Len(book[l]) + 1 /\ p \in 1 .. Len(book[l]) + 1
        BY <1>2, <1>5, <2>1
      <4>1. i \in 1 .. Len(book[l]) + 1 /\ i - 1 \in DOMAIN book[m] /\ p \in Nat
        BY <1>5, <2>1, <3>3, <4>0
      <4>2. book'[m][i] = book[m][i - 1]
        BY <1>3, <1>4, <2>1, <3>3, <4>1
      <4> QED BY <4>1, <4>2 DEF Holds
    <3>4. i \in Int /\ p \in Int
      BY <1>2, <1>5, <2>1
    <3> QED BY <3>1, <3>2, <3>3, <3>4
  <2>2. CASE m # l
    BY <1>4, <2>2 DEF Holds
  <2> QED BY <2>1, <2>2
<1> QED BY <1>6, <1>7, <1>8 DEF WillBeHeld, WillHold, Held, Holds

LEMMA SameHeld ==
  ASSUME book' = book
  PROVE  \A id : WillBeHeld(id) <=> Held(id)
BY DEF WillBeHeld, WillHold, Held, Holds

(* The frames above the k lowest ones go, and others come.                 *)
ToPlace(f, id) == Placing(f) /\ f.id = id

KeepsLowest(t, k) ==
  /\ Others(t)
  /\ \A d \in DOMAIN stack[t] : d <= k => d \in DOMAIN stack'[t] /\ stack'[t][d] = stack[t][d]
  /\ \A d \in DOMAIN stack'[t] : d <= k => d \in DOMAIN stack[t] /\ stack'[t][d] = stack[t][d]

LEMMA FramesPlace ==
  ASSUME Apart, NEW t \in Threads, NEW k \in Nat, KeepsLowest(t, k), NEW id
  PROVE  /\ WillBePlaced(id) <=>
              \/ /\ BeingPlaced(id)
                 /\ ~\E d \in DOMAIN stack[t] : ~(d <= k) /\ ToPlace(stack[t][d], id)
              \/ \E d \in DOMAIN stack'[t] : ~(d <= k) /\ ToPlace(stack'[t][d], id)
         /\ WillStop(id) =>
              \/ Stopping(id)
              \/ \E d \in DOMAIN stack'[t] :
                   ~(d <= k) /\ stack'[t][d].pc = "stop" /\ stack'[t][d].id = id
<1> USE DEF ToPlace
<1>1. BeingPlaced(id) <=> \E u \in Threads : \E d \in DOMAIN stack[u] : ToPlace(stack[u][d], id)
  BY DEF BeingPlaced, Placing
<1>2. ASSUME NEW u \in Threads, NEW d \in DOMAIN stack'[u], ToPlace(stack'[u][d], id)
      PROVE  \/ /\ BeingPlaced(id)
                /\ ~\E e \in DOMAIN stack[t] : ~(e <= k) /\ ToPlace(stack[t][e], id)
             \/ \E e \in DOMAIN stack'[t] : ~(e <= k) /\ ToPlace(stack'[t][e], id)
  <2>1. CASE u = t /\ ~(d <= k)
    BY <1>2, <2>1
  <2>2. CASE u # t \/ d <= k
    <3>1. d \in DOMAIN stack[u] /\ stack'[u][d] = stack[u][d]
      BY <1>2, <2>2 DEF KeepsLowest, Others
    <3>2. ASSUME NEW e \in DOMAIN stack[t], ~(e <= k), ToPlace(stack[t][e], id) PROVE FALSE
      BY <1>2, <2>2, <3>1, <3>2 DEF Apart
    <3> QED BY <1>1, <1>2, <3>1, <3>2
  <2> QED BY <2>1, <2>2
<1>3. ASSUME BeingPlaced(id), ~\E d \in DOMAIN stack[t] : ~(d <= k) /\ ToPlace(stack[t][d], id)
      PROVE  WillBePlaced(id)
  <2>1. PICK u \in Threads : \E d \in DOMAIN stack[u] : ToPlace(stack[u][d], id)
    BY <1>1, <1>3
  <2>2. PICK d \in DOMAIN stack[u] : ToPlace(stack[u][d], id)
    BY <2>1
  <2>3. u # t \/ d <= k
    BY <1>3, <2>2
  <2>4. d \in DOMAIN stack'[u] /\ stack'[u][d] = stack[u][d]
    BY <2>2, <2>3 DEF KeepsLowest, Others
  <2> QED BY <2>2, <2>4 DEF WillBePlaced
<1>4. ASSUME NEW u \in Threads, NEW d \in DOMAIN stack'[u], stack'[u][d].pc = "stop", stack'[u][d].id = id
      PROVE  \/ Stopping(id)
             \/ \E e \in DOMAIN stack'[t] :
                  ~(e <= k) /\ stack'[t][e].pc = "stop" /\ stack'[t][e].id = id
  <2>1. CASE u = t /\ ~(d <= k)
    BY <1>4, <2>1
  <2>2. CASE u # t \/ d <= k
    <3>1. d \in DOMAIN stack[u] /\ stack'[u][d] = stack[u][d]
      BY <1>4, <2>2 DEF KeepsLowest, Others
    <3> QED BY <1>4, <3>1 DEF Stopping
  <2> QED BY <2>1, <2>2
<1>5. (\E d \in DOMAIN stack'[t] : ~(d <= k) /\ ToPlace(stack'[t][d], id)) => WillBePlaced(id)
  BY DEF WillBePlaced
<1>6. WillBePlaced(id) => \E u \in Threads : \E d \in DOMAIN stack'[u] : ToPlace(stack'[u][d], id)
  BY DEF WillBePlaced
<1>7. WillStop(id) => \E u \in Threads : \E d \in DOMAIN stack'[u] :
                        stack'[u][d].pc = "stop" /\ stack'[u][d].id = id
  BY DEF WillStop
<1> HIDE DEF ToPlace
<1> QED BY <1>2, <1>3, <1>4, <1>5, <1>6, <1>7

LEMMA GotoPlaced ==
  ASSUME TypeOK, TypeOK', Apart, NEW t \in Threads, ~Idle(t), NEW g, Goto(t, g), NEW id
  PROVE  /\ WillBePlaced(id) <=> (BeingPlaced(id) /\ ~ToPlace(Top(t), id)) \/ ToPlace(g, id)
         /\ WillStop(id) => Stopping(id) \/ (g.pc = "stop" /\ g.id = id)
<1> DEFINE n == Len(stack[t])
<1>1. g \in FrameRecord
  BY GotoFrame
<1>2. /\ Others(t) /\ n \in Nat \ {0} /\ DOMAIN stack[t] = 1 .. n /\ DOMAIN stack'[t] = 1 .. n
      /\ \A d \in 1 .. n - 1 : stack'[t][d] = stack[t][d]
      /\ stack'[t][n] = g
  BY <1>1, GotoFrames
<1>3. stack[t][n] = Top(t)
  BY DEF Top
<1> HIDE DEF n
<1>4. n - 1 \in Nat /\ \A d \in 1 .. n : (d <= n - 1 <=> d \in 1 .. n - 1) /\ (~(d <= n - 1) <=> d = n)
  BY <1>2
<1>5. KeepsLowest(t, n - 1)
  BY <1>2, <1>4 DEF KeepsLowest
<1>6. n \in 1 .. n
  BY <1>2
<1> QED BY <1>2, <1>3, <1>4, <1>5, <1>6, FramesPlace

LEMMA ReturnPlaced ==
  ASSUME TypeOK, TypeOK', Apart, NEW t \in Threads, ~Idle(t), Return(t), NEW id
  PROVE  /\ WillBePlaced(id) <=> BeingPlaced(id) /\ ~ToPlace(Top(t), id)
         /\ WillStop(id) => Stopping(id)
<1> DEFINE n == Len(stack[t])
<1>1. /\ Others(t) /\ n \in Nat \ {0} /\ DOMAIN stack[t] = 1 .. n /\ DOMAIN stack'[t] = 1 .. n - 1
      /\ \A d \in 1 .. n - 1 : stack'[t][d] = stack[t][d]
  BY ReturnFrames
<1>2. stack[t][n] = Top(t)
  BY DEF Top
<1> HIDE DEF n
<1>3. /\ n - 1 \in Nat /\ n \in 1 .. n
      /\ \A d \in 1 .. n : (d <= n - 1 <=> d \in 1 .. n - 1) /\ (~(d <= n - 1) <=> d = n)
      /\ \A d \in 1 .. n - 1 : d <= n - 1 /\ d \in 1 .. n
  BY <1>1
<1>4. KeepsLowest(t, n - 1)
  BY <1>1, <1>3 DEF KeepsLowest
<1> QED BY <1>1, <1>2, <1>3, <1>4, FramesPlace

LEMMA CallPlaced ==
  ASSUME TypeOK, Apart, NEW t \in Threads, NEW g \in FrameRecord, Call(t, g), NEW id
  PROVE  /\ WillBePlaced(id) <=> BeingPlaced(id) \/ ToPlace(g, id)
         /\ WillStop(id) => Stopping(id) \/ (g.pc = "stop" /\ g.id = id)
<1> DEFINE n == Len(stack[t])
<1>1. /\ Others(t) /\ n \in Nat /\ DOMAIN stack[t] = 1 .. n /\ DOMAIN stack'[t] = 1 .. n + 1
      /\ \A d \in 1 .. n : stack'[t][d] = stack[t][d]
      /\ stack'[t][n + 1] = g
  BY CallFrames
<1> HIDE DEF n
<1>2. /\ n + 1 \in 1 .. n + 1
      /\ \A d \in 1 .. n : d <= n /\ d \in 1 .. n + 1
      /\ \A d \in 1 .. n + 1 : (d <= n <=> d \in 1 .. n) /\ (~(d <= n) <=> d = n + 1)
  BY <1>1
<1>3. KeepsLowest(t, n)
  BY <1>1, <1>2 DEF KeepsLowest
<1> QED BY <1>1, <1>2, <1>3, FramesPlace

LEMMA BeginPlaced ==
  ASSUME TypeOK, Apart, NEW t \in Threads, Idle(t), NEW f \in FrameRecord, NEW g \in FrameRecord,
         Begin(t, <<f>>) \/ Begin(t, <<f, g>>), ~Placing(f), NEW id
  PROVE  /\ Begin(t, <<f>>) => /\ WillBePlaced(id) <=> BeingPlaced(id)
                               /\ WillStop(id) => Stopping(id)
         /\ Begin(t, <<f, g>>) => /\ WillBePlaced(id) <=> BeingPlaced(id) \/ ToPlace(g, id)
                                  /\ WillStop(id) => Stopping(id) \/ (g.pc = "stop" /\ g.id = id)
<1>1. DOMAIN stack[t] = {} /\ Others(t)
  BY BeginFrames
<1>2. ASSUME Begin(t, <<f>>)
      PROVE  (WillBePlaced(id) <=> BeingPlaced(id)) /\ (WillStop(id) => Stopping(id))
  <2>1. DOMAIN stack'[t] = {1} /\ stack'[t][1] = f
    BY <1>2, BeginFrames
  <2>2. KeepsLowest(t, 0) /\ 0 \in Nat
    BY <1>1, <2>1 DEF KeepsLowest
  <2> QED BY <1>1, <2>1, <2>2, FramesPlace DEF ToPlace, Placing
<1>3. ASSUME Begin(t, <<f, g>>)
      PROVE  /\ WillBePlaced(id) <=> BeingPlaced(id) \/ ToPlace(g, id)
             /\ WillStop(id) => Stopping(id) \/ (g.pc = "stop" /\ g.id = id)
  <2>1. DOMAIN stack'[t] = {1, 2} /\ stack'[t][1] = f /\ stack'[t][2] = g
    BY <1>3, BeginFrames
  <2>2. KeepsLowest(t, 0) /\ 0 \in Nat
    BY <1>1, <2>1 DEF KeepsLowest
  <2>3. ~(1 <= 0) /\ ~(2 <= 0)
    OBVIOUS
  <2> QED BY <1>1, <2>1, <2>2, <2>3, FramesPlace DEF ToPlace, Placing
<1> QED BY <1>2, <1>3

LEMMA FillPlaced ==
  ASSUME TypeOK, Apart, NEW t \in Threads, Fill(t), NEW id
  PROVE  (WillBePlaced(id) <=> BeingPlaced(id)) /\ (WillStop(id) => Stopping(id))
<1> DEFINE f == Top(t)
           n == Len(stack[t])
<1>1. ~Idle(t) /\ f.pc = "fill" /\ f.id \in Ids /\ f.list \in {"buy", "sell"} /\ stack[t][n] = f
  BY AtType DEF Fill
<1>2. PICK m \in FrameRecord : m = Frame("match", f.id, f.list)
  BY <1>1, FrameTypes
<1>3. PICK c \in FrameRecord : c = Frame("trigger", None, "stopBuy")
  BY ListFrameTypes
<1>4. stack' = [stack EXCEPT ![t] = Front(@) \o <<m, c>>]
  BY <1>2, <1>3 DEF Fill
<1>5. m.pc = "match" /\ m.id = f.id /\ c.pc = "trigger"
  BY <1>2, <1>3 DEF Frame
<1> HIDE DEF f
<1>6. /\ Others(t) /\ Len(stack[t]) \in Nat \ {0}
      /\ DOMAIN stack[t] = 1 .. Len(stack[t]) /\ DOMAIN stack'[t] = 1 .. Len(stack[t]) + 1
      /\ \A d \in 1 .. Len(stack[t]) - 1 : stack'[t][d] = stack[t][d]
      /\ stack'[t][Len(stack[t])] = m /\ stack'[t][Len(stack[t]) + 1] = c
  <2>1. \A a, b \in FrameRecord : stack' = [stack EXCEPT ![t] = Front(@) \o <<a, b>>] =>
          /\ Others(t) /\ Len(stack[t]) \in Nat \ {0}
          /\ DOMAIN stack[t] = 1 .. Len(stack[t]) /\ DOMAIN stack'[t] = 1 .. Len(stack[t]) + 1
          /\ \A d \in 1 .. Len(stack[t]) - 1 : stack'[t][d] = stack[t][d]
          /\ stack'[t][Len(stack[t])] = a /\ stack'[t][Len(stack[t]) + 1] = b
    BY <1>1, FillFrames, Zenon
  <2> QED BY <1>2, <1>3, <1>4, <2>1, Zenon
<1> HIDE DEF n
<1>7. /\ Others(t) /\ n \in Nat \ {0} /\ DOMAIN stack[t] = 1 .. n /\ DOMAIN stack'[t] = 1 .. n + 1
      /\ \A d \in 1 .. n - 1 : stack'[t][d] = stack[t][d]
      /\ stack'[t][n] = m /\ stack'[t][n + 1] = c
  BY <1>6 DEF n
<1>8. /\ n - 1 \in Nat /\ n \in 1 .. n
      /\ \A d \in 1 .. n : (d <= n - 1 <=> d \in 1 .. n - 1) /\ (~(d <= n - 1) <=> d = n) /\ d \in 1 .. n + 1
      /\ \A d \in 1 .. n + 1 : (d <= n - 1 <=> d \in 1 .. n - 1) /\ (~(d <= n - 1) <=> d = n \/ d = n + 1)
      /\ \A d \in 1 .. n - 1 : d \in 1 .. n
      /\ n \in 1 .. n + 1
  BY <1>7
<1>9. KeepsLowest(t, n - 1)
  BY <1>7, <1>8 DEF KeepsLowest
<1>10. (\E d \in DOMAIN stack'[t] : ~(d <= n - 1) /\ ToPlace(stack'[t][d], id)) <=> f.id = id
  BY <1>5, <1>7, <1>8 DEF ToPlace, Placing
<1>11. (\E d \in DOMAIN stack[t] : ~(d <= n - 1) /\ ToPlace(stack[t][d], id)) <=> f.id = id
  BY <1>1, <1>7, <1>8 DEF ToPlace, Placing
<1>12. f.id = id => BeingPlaced(id)
  BY <1>1, <1>7, <1>8 DEF BeingPlaced
<1>13. ~\E d \in DOMAIN stack'[t] : ~(d <= n - 1) /\ stack'[t][d].pc = "stop" /\ stack'[t][d].id = id
  BY <1>5, <1>7, <1>8
<1> QED BY <1>8, <1>9, <1>10, <1>11, <1>12, <1>13, FramesPlace

LEMMA SamePlaced ==
  ASSUME stack' = stack, NEW id
  PROVE  (WillBePlaced(id) <=> BeingPlaced(id)) /\ (WillStop(id) => Stopping(id))
BY DEF WillBePlaced, BeingPlaced, WillStop, Stopping, Placing

-----------------------------------------------------------------------------
(* What the client was told of an order, and where the order is.  This     *)
(* takes orders for a positive quantity: one for none is confirmed, waits  *)
(* as a stop order or vanishes, and was never filled nor canceled.         *)
PositiveOrders == \A o \in NewOrders : o.qty > 0

IdInv(id) ==
  /\ Sound(order[id])
  /\ Held(id) => Open(order[id]) /\ status[id] = "WORKING"
  /\ BeingPlaced(id) => (Open(order[id]) <=> status[id] = "WORKING")
  /\ Stopping(id) => Open(order[id])
  /\ status[id] = "WORKING" => Held(id) \/ BeingPlaced(id)

WorkInv == \A id \in Ids : IdInv(id)

LEMMA WillWork ==
  ASSUME NEW id,
         Sound(order'[id]),
         WillBeHeld(id) => Open(order'[id]) /\ status'[id] = "WORKING",
         WillBePlaced(id) => (Open(order'[id]) <=> status'[id] = "WORKING"),
         WillStop(id) => Open(order'[id]),
         status'[id] = "WORKING" => WillBeHeld(id) \/ WillBePlaced(id)
  PROVE  IdInv(id)'
<1>1. Held(id)' <=> WillBeHeld(id)
  BY DEF Held, Holds, WillBeHeld, WillHold
<1>2. BeingPlaced(id)' <=> WillBePlaced(id)
  BY DEF BeingPlaced, WillBePlaced, Placing
<1>3. Stopping(id)' <=> WillStop(id)
  BY DEF Stopping, WillStop
<1> QED BY <1>1, <1>2, <1>3 DEF IdInv, Sound, Visible, Open, ActualPending

LEMMA SameWork ==
  ASSUME NEW id, IdInv(id), order'[id] = order[id], status'[id] = status[id],
         WillBeHeld(id) <=> Held(id), WillBePlaced(id) <=> BeingPlaced(id), WillStop(id) => Stopping(id)
  PROVE  IdInv(id)'
BY WillWork DEF IdInv

LEMMA HomesOfIds ==
  ASSUME PlacesInv, NEW id \in Ids
  PROVE  /\ Held(id) => ~BeingPlaced(id)
         /\ status[id] = "NONE" => ~Held(id) /\ ~BeingPlaced(id)
BY DEF PlacesInv, HomeInv, Apart, FreshIds, Held, BeingPlaced, Placing

LEMMA TopPlacing ==
  ASSUME TypeOK, NEW t \in Threads, ~Idle(t), Placing(Top(t))
  PROVE  BeingPlaced(Top(t).id) /\ (Top(t).pc = "stop" => Stopping(Top(t).id))
<1>1. Len(stack[t]) \in DOMAIN stack[t] /\ stack[t][Len(stack[t])] = Top(t)
  BY TopType DEF Top
<1> QED BY <1>1 DEF BeingPlaced, Stopping, Placing

(* Steps that leave every order where it is.                               *)
LEMMA QuietPlaced ==
  ASSUME TypeOK, TypeOK', PlacesInv, NEW t \in Threads, NEW id,
         \/ MoveRejected(t) \/ Lock(t) \/ Match(t) \/ MatchEnds(t) \/ FillEmptied(t)
         \/ TriggerSells(t) \/ TriggerEnds(t) \/ IocNotFound(t)
         \/ RequestEnds(t) \/ CancelNext(t) \/ StopEnds(t)
  PROVE  /\ order' = order /\ book' = book /\ status' = status
         /\ WillBePlaced(id) <=> BeingPlaced(id)
         /\ WillStop(id) => Stopping(id)
<1> DEFINE f == Top(t)
<1>1. ~Idle(t) /\ Apart /\ order' = order /\ book' = book /\ status' = status
  BY DEF MoveRejected, Lock, Match, MatchEnds, FillEmptied, TriggerSells, TriggerEnds, IocNotFound,
         RequestEnds, CancelNext, StopEnds, At, PlacesInv, HomeInv
<1>2. (WillBePlaced(id) <=> BeingPlaced(id)) /\ (WillStop(id) => Stopping(id))
  <2>1. CASE Return(t) /\ ~Placing(f)
    BY <1>1, <2>1, ReturnPlaced DEF ToPlace
  <2>2. CASE \E g : Goto(t, g) /\ ~Placing(g) /\ ~Placing(f)
    BY <1>1, <2>2, GotoPlaced DEF ToPlace, Placing
  <2>3. CASE Placing(f) /\ \E g : Goto(t, g) /\ Placing(g) /\ g.id = f.id /\ g.pc # "stop"
    <3>1. f.id = id => BeingPlaced(id)
      BY <1>1, <2>3, TopPlacing
    <3> QED BY <1>1, <2>3, <3>1, GotoPlaced DEF ToPlace
  <2>4. CASE MoveRejected(t) \/ TriggerEnds(t) \/ RequestEnds(t) \/ StopEnds(t)
    BY <2>1, <2>4 DEF MoveRejected, TriggerEnds, RequestEnds, StopEnds, At, Placing
  <2>5. CASE TriggerSells(t) \/ IocNotFound(t) \/ CancelNext(t)
    BY <2>2, <2>5 DEF TriggerSells, IocNotFound, CancelNext, At, Placing, Frame
  <2>6. CASE Lock(t)
    <3>1. /\ At(t, "lock") /\ f \in FrameRecord /\ f.pc = "lock" /\ Goto(t, [f EXCEPT !.pc = "match"])
      BY <2>6, AtType DEF Lock
    <3>2. [f EXCEPT !.pc = "match"].pc = "match" /\ [f EXCEPT !.pc = "match"].id = f.id
      BY <3>1 DEF FrameRecord
    <3> QED BY <2>3, <3>1, <3>2 DEF Placing
  <2>7. CASE Match(t)
    <3> DEFINE opp == First(Opposite(f.list))
               qty == Smaller(order[f.id].pending, order[opp].pending)
               g == [f EXCEPT !.pc = "fill", !.opp = opp, !.qty = qty]
    <3>1. /\ At(t, "match") /\ f.pc = "match" /\ Goto(t, g)
          /\ f \in [pc : {"match"}, id : Ids, list : {"buy", "sell"}, opp : {None}, qty : {0}]
      BY <2>7, AtType DEF Match
    <3> HIDE DEF opp, qty
    <3>2. g.pc = "fill" /\ g.id = f.id
      BY <3>1
    <3> QED BY <2>3, <3>1, <3>2 DEF Placing
  <2>8. CASE MatchEnds(t)
    <3>1. /\ At(t, "match") /\ f.pc = "match" /\ Goto(t, [f EXCEPT !.pc = "rest"])
          /\ f \in [pc : {"match"}, id : Ids, list : {"buy", "sell"}, opp : {None}, qty : {0}]
      BY <2>8, AtType DEF MatchEnds
    <3>2. [f EXCEPT !.pc = "rest"].pc = "rest" /\ [f EXCEPT !.pc = "rest"].id = f.id
      BY <3>1
    <3> QED BY <2>3, <3>1, <3>2 DEF Placing
  <2>9. CASE FillEmptied(t)
    BY <2>3, <2>9 DEF FillEmptied, At, Placing, Frame
  <2> QED BY <2>4, <2>5, <2>6, <2>7, <2>8, <2>9
<1> QED BY <1>1, <1>2

LEMMA QuietWork ==
  ASSUME TypeOK, TypeOK', PlacesInv, WorkInv, NEW t \in Threads, NEW id \in Ids,
         \/ MoveRejected(t) \/ Lock(t) \/ Match(t) \/ MatchEnds(t) \/ FillEmptied(t)
         \/ TriggerSells(t) \/ TriggerEnds(t) \/ IocNotFound(t)
         \/ RequestEnds(t) \/ CancelNext(t) \/ StopEnds(t)
  PROVE  IdInv(id)'
<1>1. /\ order' = order /\ book' = book /\ status' = status
      /\ WillBePlaced(id) <=> BeingPlaced(id)
      /\ WillStop(id) => Stopping(id)
  BY QuietPlaced
<1> QED BY <1>1, SameHeld, SameWork DEF WorkInv

(* The end of an insertion.                                                *)
LEMMA RestWork ==
  ASSUME TypeOK, TypeOK', PlacesInv, WorkInv, NEW t \in Threads, NEW id \in Ids,
         RestDone(t) \/ RestCanceled(t) \/ Rest(t) \/ StopRests(t)
  PROVE  IdInv(id)'
<1> DEFINE f == Top(t)
<1>1. /\ ~Idle(t) /\ Apart /\ Return(t) /\ Placing(f) /\ f.id \in Ids
      /\ f.list \in {"buy", "sell"} /\ f.list \in Lists
  <2>1. (At(t, "rest") \/ At(t, "stop")) /\ Return(t) /\ Apart
    BY DEF RestDone, RestCanceled, Rest, StopRests, PlacesInv, HomeInv
  <2> QED BY <2>1, AtType DEF Placing
<1>2. /\ WillBePlaced(id) <=> BeingPlaced(id) /\ f.id # id
      /\ WillStop(id) => Stopping(id)
  BY <1>1, ReturnPlaced DEF ToPlace
<1>3. BeingPlaced(f.id) /\ (f.pc = "stop" => Stopping(f.id)) /\ ~Held(f.id)
  BY <1>1, TopPlacing, HomesOfIds
<1>4. IdInv(id) /\ IdInv(f.id) /\ order[f.id] \in OrderRecord
  BY <1>1 DEF WorkInv, TypeOK
<1>5. order[f.id].pending > 0 <=> Open(order[f.id])
  BY <1>4, SoundPending DEF IdInv
<1> HIDE DEF f
<1>6. CASE RestDone(t)
  <2>1. order' = order /\ book' = book /\ status' = status /\ ~(order[f.id].pending > 0)
    <3>1. order[f.id].pending <= 0 /\ order' = order /\ book' = book /\ status' = status
      BY <1>6 DEF RestDone, f
    <3>2. order[f.id].pending \in Int
      BY <1>4 DEF OrderRecord
    <3> QED BY <3>1, <3>2
  <2>2. WillBeHeld(id) <=> Held(id)
    BY <2>1, SameHeld
  <2>3. CASE id = f.id
    BY <1>2, <1>3, <1>4, <1>5, <2>1, <2>2, <2>3, WillWork DEF IdInv
  <2>4. CASE id # f.id
    BY <1>2, <1>4, <2>1, <2>2, <2>4, SameWork
  <2> QED BY <2>3, <2>4
<1>7. CASE RestCanceled(t)
  <2>1. /\ order' = order /\ book' = book /\ status'[f.id] = "CANCELED"
        /\ id # f.id => status'[id] = status[id]
    BY <1>1, <1>7 DEF RestCanceled, Report, TypeOK, f
  <2>2. WillBeHeld(id) <=> Held(id)
    BY <2>1, SameHeld
  <2>3. CASE id = f.id
    BY <1>2, <1>3, <1>4, <2>1, <2>2, <2>3, WillWork DEF IdInv
  <2>4. CASE id # f.id
    BY <1>2, <1>4, <2>1, <2>2, <2>4, SameWork
  <2> QED BY <2>3, <2>4
<1>8. CASE Rest(t)
  <2> DEFINE placed == IF order[f.id].type = "MARKET" THEN MarketToLimit(order[f.id], ltp) ELSE order[f.id]
  <2>1. Sound(placed) /\ (Open(placed) <=> Open(order[f.id])) /\ placed.price \in Int
    BY <1>4, TriggerSound, OrderOperatorTypes DEF IdInv, TypeOK, OrderRecord
  <2>2. /\ order[f.id].pending > 0 /\ InsertInto(f.list, placed.price, f.id) /\ status' = status
        /\ order' = [order EXCEPT ![f.id] = placed]
    BY <1>8 DEF Rest, f
  <2> HIDE DEF placed
  <2>3. order'[f.id] = placed /\ (id # f.id => order'[id] = order[id])
    BY <1>1, <2>2 DEF TypeOK
  <2>4. WillBeHeld(id) <=> Held(id) \/ id = f.id
    BY <1>1, <2>1, <2>2, InsertHeld
  <2>5. CASE id = f.id
    BY <1>2, <1>3, <1>4, <1>5, <2>1, <2>2, <2>3, <2>4, <2>5, WillWork DEF IdInv
  <2>6. CASE id # f.id
    BY <1>2, <1>4, <2>2, <2>3, <2>4, <2>6, SameWork
  <2> QED BY <2>5, <2>6
<1>9. CASE StopRests(t)
  <2>1. /\ f.pc = "stop" /\ InsertInto(StopList(f.list), order[f.id].stop, f.id)
        /\ status' = status /\ order' = order
    BY <1>9 DEF StopRests, At, f
  <2>2. StopList(f.list) \in Lists /\ order[f.id].stop \in Int
    BY <1>4, ListTypes DEF OrderRecord
  <2>3. WillBeHeld(id) <=> Held(id) \/ id = f.id
    BY <1>1, <2>1, <2>2, InsertHeld
  <2>4. CASE id = f.id
    BY <1>2, <1>3, <1>4, <2>1, <2>3, <2>4, WillWork DEF IdInv
  <2>5. CASE id # f.id
    BY <1>2, <1>4, <2>1, <2>3, <2>5, SameWork
  <2> QED BY <2>4, <2>5
<1> QED BY <1>6, <1>7, <1>8, <1>9

(* An order on its way from one place to another.                          *)
LEMMA PlacedWork ==
  ASSUME TypeOK, TypeOK', PlacesInv, WorkInv, NEW t \in Threads, NEW id \in Ids,
         Move(t) \/ StopFires(t) \/ TriggerFirst(t)
  PROVE  IdInv(id)'
<1> DEFINE f == Top(t)
<1>0. Apart /\ Distinct
  BY DEF PlacesInv, HomeInv
<1>1. CASE Move(t)
  <2>1. /\ ~Idle(t) /\ f.pc = "moved" /\ f.list \in Lists /\ f.id \in Ids
        /\ EraseFrom(f.list, f.id) /\ order' = order /\ status' = status
    BY <1>1, AtType DEF Move
  <2>2. PICK g : g = Placement(f.id, RestSide(f.list), order[f.id].type)
    OBVIOUS
  <2>3. Goto(t, g) /\ Placing(g) /\ g.id = f.id /\ ~Placing(f)
    BY <1>1, <2>1, <2>2, PlacementFields DEF Move, Placing
  <2>4. /\ WillBePlaced(id) <=> BeingPlaced(id) \/ f.id = id
        /\ WillStop(id) => Stopping(id) \/ f.id = id
    BY <1>0, <2>1, <2>3, GotoPlaced DEF ToPlace
  <2>5. Held(f.id) /\ (WillBeHeld(id) <=> Held(id) /\ id # f.id)
    BY <1>0, <2>1, EraseHeld
  <2>6. IdInv(id)
    BY DEF WorkInv
  <2>7. CASE id = f.id
    BY <2>1, <2>4, <2>5, <2>6, <2>7, WillWork DEF IdInv
  <2>8. CASE id # f.id
    BY <2>1, <2>4, <2>5, <2>6, <2>8, SameWork
  <2> QED BY <2>7, <2>8
<1>2. CASE StopFires(t)
  <2>1. /\ ~Idle(t) /\ f.pc = "stop" /\ f.list \in Lists /\ f.id \in Ids /\ Placing(f)
        /\ order' = [order EXCEPT ![f.id] = TriggerOrder(@)] /\ status' = status /\ book' = book
    BY <1>2, AtType DEF StopFires, Placing
  <2>2. PICK g : g = Insertion(f.id, f.list)
    OBVIOUS
  <2>3. Goto(t, g) /\ Placing(g) /\ g.id = f.id /\ g.pc # "stop" /\ BeingPlaced(f.id) /\ Stopping(f.id)
    BY <1>2, <2>1, <2>2, InsertionFields, TopPlacing DEF StopFires
  <2>4. (WillBePlaced(id) <=> BeingPlaced(id)) /\ (WillStop(id) => Stopping(id))
    BY <1>0, <2>1, <2>3, GotoPlaced DEF ToPlace
  <2>5. WillBeHeld(id) <=> Held(id)
    BY <2>1, SameHeld
  <2>6. IdInv(id) /\ order[id] \in OrderRecord
    BY DEF WorkInv, TypeOK
  <2>7. CASE id = f.id
    <3>1. order'[id] = TriggerOrder(order[id])
      BY <2>1, <2>7 DEF TypeOK
    <3>2. Sound(order'[id]) /\ (Open(order'[id]) <=> Open(order[id]))
      BY <2>6, <3>1, TriggerSound DEF IdInv
    <3> QED BY <2>1, <2>4, <2>5, <2>6, <3>2, WillWork DEF IdInv
  <2>8. CASE id # f.id
    <3>1. order'[id] = order[id]
      BY <2>1, <2>8 DEF TypeOK
    <3> QED BY <2>1, <2>4, <2>5, <2>6, <3>1, SameWork
  <2> QED BY <2>7, <2>8
<1>3. CASE TriggerFirst(t)
  <2>1. /\ f.list \in Lists /\ f.list \in {"stopBuy", "stopSell"} /\ book[f.list] # <<>>
        /\ book' = [book EXCEPT ![f.list] = Tail(@)] /\ status' = status
        /\ order' = [order EXCEPT ![First(f.list)] = TriggerOrder(@)]
    BY <1>3, AtType DEF TriggerFirst, FirstTriggered
  <2>2. First(f.list) \in Ids
    BY <2>1, FirstType
  <2>3. PICK g \in FrameRecord : g = Insertion(First(f.list), RestList(f.list))
    BY <2>2, FrameTypes, ListTypes
  <2>4. Call(t, g) /\ Placing(g) /\ g.id = First(f.list) /\ g.pc # "stop"
    BY <1>3, <2>3, InsertionFields DEF TriggerFirst
  <2>5. /\ WillBePlaced(id) <=> BeingPlaced(id) \/ id = First(f.list)
        /\ WillStop(id) => Stopping(id)
    BY <1>0, <2>4, CallPlaced DEF ToPlace
  <2>6. Held(First(f.list)) /\ (WillBeHeld(id) <=> Held(id) /\ id # First(f.list))
    BY <1>0, <2>1, TailHeld
  <2>7. IdInv(id) /\ order[id] \in OrderRecord
    BY DEF WorkInv, TypeOK
  <2>8. CASE id = First(f.list)
    <3>1. order'[id] = TriggerOrder(order[id])
      BY <2>1, <2>8 DEF TypeOK
    <3>2. Sound(order'[id]) /\ (Open(order'[id]) <=> Open(order[id]))
      BY <2>7, <3>1, TriggerSound DEF IdInv
    <3> QED BY <2>1, <2>5, <2>6, <2>7, <2>8, <3>2, WillWork DEF IdInv
  <2>9. CASE id # First(f.list)
    <3>1. order'[id] = order[id]
      BY <2>1, <2>9 DEF TypeOK
    <3> QED BY <2>1, <2>5, <2>6, <2>7, <2>9, <3>1, SameWork
  <2> QED BY <2>8, <2>9
<1> QED BY <1>1, <1>2, <1>3

(* A canceled order leaves its list.                                       *)
LEMMA ErasedWork ==
  ASSUME TypeOK, PlacesInv, WorkInv, NEW id \in Ids, NEW x \in Ids, Report(x, "CANCELED"), order' = order,
         Held(x), WillBeHeld(id) <=> Held(id) /\ id # x,
         WillBePlaced(id) <=> BeingPlaced(id), WillStop(id) => Stopping(id)
  PROVE  IdInv(id)'
<1>1. status'[x] = "CANCELED" /\ (id # x => status'[id] = status[id])
  BY DEF Report, TypeOK
<1>2. IdInv(id) /\ (Held(id) => ~BeingPlaced(id))
  BY HomesOfIds DEF WorkInv
<1>3. CASE id = x
  BY <1>1, <1>2, <1>3, WillWork DEF IdInv
<1>4. CASE id # x
  BY <1>1, <1>2, <1>4, SameWork
<1> QED BY <1>3, <1>4

LEMMA CanceledWork ==
  ASSUME TypeOK, TypeOK', PlacesInv, WorkInv, NEW t \in Threads, NEW id \in Ids,
         IocCancels(t) \/ CancelFirst(t)
  PROVE  IdInv(id)'
<1> DEFINE f == Top(t)
<1>0. Apart /\ Distinct
  BY DEF PlacesInv, HomeInv
<1>1. CASE IocCancels(t)
  <2>1. /\ ~Idle(t) /\ f.pc = "ioc" /\ f.list \in Lists /\ f.id \in Ids
        /\ EraseFrom(f.list, f.id) /\ order' = order /\ Report(f.id, "CANCELED")
        /\ Goto(t, Frame("changed", f.id, f.list)) /\ Frame("changed", f.id, f.list).pc = "changed"
    BY <1>1, AtType DEF IocCancels, Frame
  <2>2. (WillBePlaced(id) <=> BeingPlaced(id)) /\ (WillStop(id) => Stopping(id))
    BY <1>0, <2>1, GotoPlaced DEF ToPlace, Placing
  <2>3. Held(f.id) /\ (WillBeHeld(id) <=> Held(id) /\ id # f.id)
    BY <1>0, <2>1, EraseHeld
  <2> QED BY <2>1, <2>2, <2>3, ErasedWork
<1>2. CASE CancelFirst(t)
  <2>1. /\ f.list \in Lists /\ book[f.list] # <<>> /\ order' = order /\ stack' = stack
        /\ book' = [book EXCEPT ![f.list] = Tail(@)] /\ Report(First(f.list), "CANCELED")
    BY <1>2, AtType DEF CancelFirst
  <2>2. First(f.list) \in Ids
    BY <2>1, FirstType
  <2>3. Held(First(f.list)) /\ (WillBeHeld(id) <=> Held(id) /\ id # First(f.list))
    BY <1>0, <2>1, TailHeld
  <2> QED BY <2>1, <2>2, <2>3, SamePlaced, ErasedWork
<1> QED BY <1>1, <1>2

(* A trade.                                                                *)
LEMMA FilledWorks ==
  ASSUME NEW o \in OrderRecord, Sound(o), NEW q \in Nat, q <= o.pending
  PROVE  LET r == FillOrder(o, q) IN
         /\ r \in OrderRecord /\ Sound(r)
         /\ FillStatus(r) = "WORKING" <=> Open(r)
         /\ FillStatus(r) = "WORKING" <=> r.pending # 0
<1>1. PICK r \in OrderRecord : r = FillOrder(o, q)
  BY OrderOperatorTypes
<1>2. Sound(r)
  BY <1>1, FillSound
<1>3. r.pending = 0 <=> ~Open(r)
  BY <1>2, SoundPending
<1> QED BY <1>1, <1>2, <1>3 DEF FillStatus

(* A trade with one thread: the incoming order and the one at the head of  *)
(* the other list are open, and both lose what they have in common.        *)
FillMeans(t, f, other, hit) ==
  /\ f = Top(t) /\ other = Opposite(f.list) /\ hit = First(other)
  /\ f.id \in Ids /\ f.list \in {"buy", "sell"} /\ other \in Lists /\ book[other] # <<>>
  /\ f.opp = hit /\ hit \in Ids /\ hit # f.id /\ f.pc = "fill" /\ At(t, "fill") /\ Holds(other, hit)
  /\ BeingPlaced(f.id) /\ ~BeingPlaced(hit) /\ ~Held(f.id) /\ ~Stopping(f.id)
  /\ f.qty \in Nat /\ f.qty <= order[f.id].pending /\ f.qty <= order[hit].pending
  /\ f.qty = Smaller(order[f.id].pending, order[hit].pending)
  /\ \A i \in Ids : order'[i] = IF i \in {hit, f.id} THEN FillOrder(order[i], f.qty) ELSE order[i]
  /\ book' = IF order'[hit].pending = 0 THEN [book EXCEPT ![other] = Tail(@)] ELSE book
  /\ \A i \in {hit, f.id} : /\ order[i] \in OrderRecord /\ IdInv(i) /\ Sound(order'[i])
                            /\ FillStatus(order'[i]) = "WORKING" <=> Open(order'[i])
  /\ order'[hit].pending # 0 <=> Open(order'[hit])

LEMMA FillSteps ==
  ASSUME TypeOK, PlacesInv, MatchInv, WorkInv, NEW t \in Threads, Fill(t)
  PROVE  \E f, other, hit : FillMeans(t, f, other, hit)
<1> DEFINE f == Top(t)
           other == Opposite(f.list)
           hit == First(other)
           inc == FillOrder(order[f.id], f.qty)
           rest == FillOrder(order[hit], f.qty)
<1>1. /\ At(t, "fill") /\ f.id \in Ids /\ f.list \in {"buy", "sell"} /\ other \in Lists
      /\ Len(stack[t]) \in DOMAIN stack[t] /\ stack[t][Len(stack[t])] = f /\ f.pc = "fill" /\ Placing(f)
      /\ ~Idle(t) /\ Apart /\ Distinct /\ HomeInv
  BY AtType, ListTypes DEF Fill, Placing, PlacesInv, HomeInv
<1>2. /\ book[other] # <<>> /\ f.opp = hit
      /\ f.qty = Smaller(order[f.id].pending, order[hit].pending)
  BY <1>1 DEF MatchInv, FillInv
<1>3. /\ hit \in Ids /\ hit # f.id
      /\ \A i \in Ids : order'[i] = IF i \in {hit, f.id} THEN FillOrder(order[i], f.qty) ELSE order[i]
  BY <1>1, FillOrders
<1>4. order'[hit] = rest /\ order'[f.id] = inc
  BY <1>1, <1>3
<1>5. book' = IF order'[hit].pending = 0 THEN [book EXCEPT ![other] = Tail(@)] ELSE book
  BY DEF Fill
<1>6. Holds(other, hit) /\ Held(hit)
  BY <1>1, <1>2, BookTypes, TailElements DEF Holds, First, Held
<1>7. BeingPlaced(f.id) /\ ~BeingPlaced(hit) /\ ~Held(f.id) /\ ~Stopping(f.id)
  <2>1. BeingPlaced(f.id) /\ ~BeingPlaced(hit) /\ ~Held(f.id)
    BY <1>1, <1>3, <1>6, TopPlacing, HomesOfIds
  <2>2. ASSUME Stopping(f.id) PROVE FALSE
    <3>1. PICK u \in Threads : \E d \in DOMAIN stack[u] : stack[u][d].id = f.id /\ stack[u][d].pc = "stop"
      BY <2>2 DEF Stopping
    <3>2. PICK d \in DOMAIN stack[u] : stack[u][d].id = f.id /\ stack[u][d].pc = "stop"
      BY <3>1
    <3>3. Placing(stack[u][d])
      BY <3>2 DEF Placing
    <3>4. u = t /\ d = Len(stack[t])
      BY <1>1, <3>2, <3>3 DEF Apart
    <3> QED BY <1>1, <3>2, <3>4
  <2> QED BY <2>1, <2>2
<1>8. IdInv(f.id) /\ IdInv(hit) /\ order[f.id] \in OrderRecord /\ order[hit] \in OrderRecord
  BY <1>1, <1>3 DEF WorkInv, TypeOK
<1> HIDE DEF f, hit, other
<1>9. f.qty \in Nat /\ f.qty <= order[f.id].pending /\ f.qty <= order[hit].pending
  <2>1. order[f.id].pending \in Nat /\ order[hit].pending \in Nat
    BY <1>8, SoundPending DEF IdInv
  <2> QED BY <1>2, <2>1 DEF Smaller
<1>10. /\ Sound(inc) /\ Sound(rest)
       /\ FillStatus(inc) = "WORKING" <=> Open(inc)
       /\ FillStatus(rest) = "WORKING" <=> Open(rest)
       /\ FillStatus(rest) = "WORKING" <=> rest.pending # 0
  BY <1>8, <1>9, FilledWorks DEF IdInv
<1> HIDE DEF inc, rest
<1>11. f = Top(t) /\ other = Opposite(f.list) /\ hit = First(other)
  BY DEF f, other, hit
<1>12. FillMeans(t, f, other, hit)
  BY <1>1, <1>2, <1>3, <1>4, <1>5, <1>6, <1>7, <1>8, <1>9, <1>10, <1>11 DEF FillMeans
<1> QED BY <1>12

LEMMA FillWork ==
  ASSUME TypeOK, TypeOK', PlacesInv, MatchInv, WorkInv, NEW t \in Threads, NEW id \in Ids, Fill(t)
  PROVE  IdInv(id)'
<1>1. PICK f, other, hit : FillMeans(t, f, other, hit)
  BY FillSteps
<1>2. /\ f.id \in Ids /\ hit \in Ids /\ hit # f.id /\ other \in Lists /\ hit = First(other)
      /\ BeingPlaced(f.id) /\ ~BeingPlaced(hit) /\ ~Held(f.id) /\ ~Stopping(f.id) /\ Held(hit)
      /\ Sound(order'[f.id]) /\ Sound(order'[hit])
  BY <1>1 DEF FillMeans, Held
<1>3. id \notin {hit, f.id} => order'[id] = order[id]
  BY <1>1 DEF FillMeans
<1>4. /\ status'[hit] = "WORKING" <=> Open(order'[hit])
      /\ status'[f.id] = "WORKING" <=> Open(order'[f.id])
      /\ id \notin {hit, f.id} => status'[id] = status[id]
  <2>1. /\ status' = [status EXCEPT ![f.opp] = FillStatus(order'[f.opp]), ![f.id] = FillStatus(order'[f.id])]
        /\ f.opp = hit
    BY <1>1 DEF Fill, FillMeans
  <2>2. /\ status'[hit] = FillStatus(order'[hit]) /\ status'[f.id] = FillStatus(order'[f.id])
        /\ id \notin {hit, f.id} => status'[id] = status[id]
    BY <1>2, <2>1 DEF TypeOK
  <2> QED BY <1>1, <2>2 DEF FillMeans
<1>5. (WillBePlaced(id) <=> BeingPlaced(id)) /\ (WillStop(id) => Stopping(id))
  BY FillPlaced DEF PlacesInv, HomeInv
<1>6. WillBeHeld(id) <=> Held(id) /\ (Open(order'[hit]) \/ id # hit)
  <2>1. Distinct /\ book[other] # <<>> /\ (order'[hit].pending # 0 <=> Open(order'[hit]))
        /\ book' = IF order'[hit].pending = 0 THEN [book EXCEPT ![other] = Tail(@)] ELSE book
    BY <1>1 DEF FillMeans, PlacesInv, HomeInv
  <2>2. CASE order'[hit].pending = 0
    BY <1>2, <2>1, <2>2, TailHeld
  <2>3. CASE order'[hit].pending # 0
    BY <2>1, <2>3, SameHeld
  <2> QED BY <2>2, <2>3
<1>7. IdInv(id)
  BY DEF WorkInv
<1>8. CASE id = f.id
  BY <1>2, <1>4, <1>5, <1>6, <1>8, WillWork
<1>9. CASE id = hit
  <2>1. ~WillBePlaced(id) /\ ~WillStop(id)
    BY <1>2, <1>5, <1>9 DEF Stopping, BeingPlaced
  <2> QED BY <1>2, <1>4, <1>6, <1>9, <2>1, WillWork
<1>10. CASE id \notin {f.id, hit}
  BY <1>3, <1>4, <1>5, <1>6, <1>7, <1>10, SameWork
<1> QED BY <1>8, <1>9, <1>10

(* The requests.                                                           *)
LEMMA NewWork ==
  ASSUME PositiveOrders, NEW o \in NewOrders
  PROVE  o \in OrderRecord /\ Sound(o) /\ Open(o)
<1>1. o \in OrderRecord /\ o.filled = 0 /\ o = WithPending(o) /\ o.qty > 0
  BY OrdersAssumption DEF PositiveOrders
<1>2. o.pending = Visible(o)
  BY <1>1, PendingFits
<1> QED BY <1>1, <1>2 DEF Sound, Open, ActualPending, OrderRecord

LEMMA InsertPlaced ==
  ASSUME TypeOK, PlacesInv, NEW t \in Threads, NEW id, NEW x \in Ids, NEW o \in NewOrders, Insert(t, x, o)
  PROVE  /\ WillBePlaced(id) <=> BeingPlaced(id) \/ id = x
         /\ WillStop(id) => Stopping(id) \/ id = x
<1>0. Apart /\ Idle(t)
  BY DEF PlacesInv, HomeInv, Insert
<1>1. PICK c \in FrameRecord : c = Frame("changed", x, ListOf(o.side))
  BY NewFrames
<1>2. PICK g \in FrameRecord : g = Placement(x, ListOf(o.side), o.type)
  BY NewFrames
<1>3. Begin(t, <<c, g>>)
  BY <1>1, <1>2 DEF Insert
<1>4. ~Placing(c) /\ Placing(g) /\ g.id = x
  BY <1>1, <1>2, PlacementFields DEF Placing, Frame
<1>5. \A a, b \in FrameRecord : Begin(t, <<a, b>>) /\ ~Placing(a) =>
        /\ WillBePlaced(id) <=> BeingPlaced(id) \/ ToPlace(b, id)
        /\ WillStop(id) => Stopping(id) \/ (b.pc = "stop" /\ b.id = id)
  BY <1>0, BeginPlaced, ZenonT(30)
<1>6. /\ WillBePlaced(id) <=> BeingPlaced(id) \/ ToPlace(g, id)
      /\ WillStop(id) => Stopping(id) \/ (g.pc = "stop" /\ g.id = id)
  BY <1>1, <1>2, <1>3, <1>4, <1>5, Zenon
<1> QED BY <1>4, <1>6 DEF ToPlace

LEMMA InsertWork ==
  ASSUME PositiveOrders, TypeOK, PlacesInv, WorkInv, NEW t \in Threads, NEW id \in Ids,
         NEW x \in Ids, NEW o \in NewOrders, Insert(t, x, o) \/ InsertWhenClosed(t, x, o)
  PROVE  IdInv(id)'
<1>0. Sound(o) /\ Open(o)
  BY NewWork
<1>1. Idle(t) /\ status[x] = "NONE" /\ order' = [order EXCEPT ![x] = o] /\ book' = book
  BY DEF Insert, InsertWhenClosed
<1>2. (id = x => order'[id] = o) /\ (id # x => order'[id] = order[id])
  BY <1>1 DEF TypeOK
<1>3. WillBeHeld(id) <=> Held(id)
  BY <1>1, SameHeld
<1>4. IdInv(id) /\ ~Held(x) /\ ~BeingPlaced(x)
  BY <1>1, HomesOfIds DEF WorkInv
<1>5. ~Stopping(x)
  BY <1>4 DEF Stopping, BeingPlaced
<1>6. CASE Insert(t, x, o)
  <2>1. /\ WillBePlaced(id) <=> BeingPlaced(id) \/ id = x
        /\ WillStop(id) => Stopping(id) \/ id = x
    BY <1>6, InsertPlaced
  <2>2. status'[x] = "WORKING" /\ (id # x => status'[id] = status[id])
    BY <1>6 DEF Insert, Report, TypeOK
  <2>3. CASE id = x
    BY <1>0, <1>2, <1>3, <1>4, <2>1, <2>2, <2>3, WillWork
  <2>4. CASE id # x
    BY <1>2, <1>3, <1>4, <2>1, <2>2, <2>4, SameWork
  <2> QED BY <2>3, <2>4
<1>7. CASE InsertWhenClosed(t, x, o)
  <2>1. stack' = stack /\ status'[x] = "REJECTED" /\ (id # x => status'[id] = status[id])
    BY <1>7 DEF InsertWhenClosed, Report, TypeOK
  <2>2. (WillBePlaced(id) <=> BeingPlaced(id)) /\ (WillStop(id) => Stopping(id))
    BY <2>1, SamePlaced
  <2>3. CASE id = x
    BY <1>0, <1>2, <1>3, <1>4, <1>5, <2>1, <2>2, <2>3, WillWork
  <2>4. CASE id # x
    BY <1>2, <1>3, <1>4, <2>1, <2>2, <2>4, SameWork
  <2> QED BY <2>3, <2>4
<1> QED BY <1>6, <1>7

LEMMA ReplacePlaced ==
  ASSUME TypeOK, PlacesInv, NEW t \in Threads, NEW id, NEW x \in Ids, NEW o,
         ReplaceKept(t, x, o) \/ ReplaceMoved(t, x, o) \/ ReplaceRejected(t, x, o)
  PROVE  (WillBePlaced(id) <=> BeingPlaced(id)) /\ (WillStop(id) => Stopping(id))
<1>1. Idle(t) /\ Apart
  BY DEF ReplaceKept, ReplaceMoved, ReplaceRejected, PlacesInv, HomeInv
<1>2. PICK a \in FrameRecord : a = AfterReplace(x, o, ListOf(o.side))
  BY NewFrames
<1>3. PICK m \in FrameRecord : m = Frame("moved", x, Found(x, ListOf(o.side)))
  BY NewFrames
<1>4. ~Placing(a) /\ ~Placing(m) /\ m.pc # "stop"
  BY <1>2, <1>3 DEF Placing, AfterReplace, Frame
<1>5. Begin(t, <<a>>) \/ Begin(t, <<a, m>>)
  BY <1>2, <1>3 DEF ReplaceKept, ReplaceMoved, ReplaceRejected
<1>6. \A f, g \in FrameRecord : ~Placing(f) /\ (Begin(t, <<f>>) \/ Begin(t, <<f, g>>)) =>
        /\ Begin(t, <<f>>) => /\ WillBePlaced(id) <=> BeingPlaced(id)
                              /\ WillStop(id) => Stopping(id)
        /\ Begin(t, <<f, g>>) => /\ WillBePlaced(id) <=> BeingPlaced(id) \/ ToPlace(g, id)
                                 /\ WillStop(id) => Stopping(id) \/ (g.pc = "stop" /\ g.id = id)
  BY <1>1, BeginPlaced, ZenonT(30)
<1>7. /\ WillBePlaced(id) <=> BeingPlaced(id) \/ (Begin(t, <<a, m>>) /\ ToPlace(m, id))
      /\ WillStop(id) => Stopping(id) \/ (m.pc = "stop" /\ m.id = id)
  BY <1>2, <1>3, <1>4, <1>5, <1>6, Zenon DEF ToPlace
<1> QED BY <1>4, <1>7 DEF ToPlace

LEMMA ReplaceWork ==
  ASSUME TypeOK, PlacesInv, WorkInv, NEW t \in Threads, NEW id \in Ids, NEW x \in Ids,
         NEW o \in ReplaceOrders,
         ReplaceKept(t, x, o) \/ ReplaceMoved(t, x, o) \/ ReplaceRejected(t, x, o)
  PROVE  IdInv(id)'
<1>0. o \in OrderRecord
  BY OrdersAssumption
<1>1. Idle(t) /\ book' = book /\ status' = status
  BY DEF ReplaceKept, ReplaceMoved, ReplaceRejected
<1>2. (WillBePlaced(id) <=> BeingPlaced(id)) /\ (WillStop(id) => Stopping(id))
  BY ReplacePlaced
<1>3. WillBeHeld(id) <=> Held(id)
  BY <1>1, SameHeld
<1>4. IdInv(id) /\ IdInv(x) /\ order[x] \in OrderRecord
  BY DEF WorkInv, TypeOK
<1>5. CASE ReplaceRejected(t, x, o)
  BY <1>1, <1>2, <1>3, <1>4, <1>5, SameWork DEF ReplaceRejected
<1>6. CASE ReplaceKept(t, x, o) \/ ReplaceMoved(t, x, o)
  <2>1. order' = [order EXCEPT ![x] = ReplacedOrder(@, o)]
    BY <1>6 DEF ReplaceKept, ReplaceMoved
  <2>2. CanReplaceIn(Found(x, ListOf(o.side)), x, o)
    BY <1>6 DEF ReplaceKept, ReplaceMoved
  <2>3. Held(x) /\ CanReplace(order[x], o)
    BY <2>2, ListTypes DEF CanReplaceIn, Found, Held
  <2>4. Sound(ReplacedOrder(order[x], o)) /\ Open(ReplacedOrder(order[x], o))
    BY <1>0, <1>4, <2>3, ReplaceSound DEF IdInv
  <2>5. (id = x => order'[id] = ReplacedOrder(order[x], o)) /\ (id # x => order'[id] = order[id])
    BY <2>1 DEF TypeOK
  <2>6. CASE id = x
    BY <1>1, <1>2, <1>3, <1>4, <2>3, <2>4, <2>5, <2>6, WillWork DEF IdInv
  <2>7. CASE id # x
    BY <1>1, <1>2, <1>3, <1>4, <2>5, <2>7, SameWork
  <2> QED BY <2>6, <2>7
<1> QED BY <1>5, <1>6

LEMMA CancelWork ==
  ASSUME TypeOK, PlacesInv, WorkInv, NEW t \in Threads, NEW id \in Ids, NEW x \in Ids,
         NEW o \in CancelOrders, Cancel(t, x, o) \/ CancelRejected(t, x, o)
  PROVE  IdInv(id)'
<1>0. Distinct /\ CancelList(o) \in Lists
  BY ListTypes DEF PlacesInv, HomeInv, CancelList
<1>1. order' = order /\ stack' = stack
  BY DEF Cancel, CancelRejected
<1>2. (WillBePlaced(id) <=> BeingPlaced(id)) /\ (WillStop(id) => Stopping(id))
  BY <1>1, SamePlaced
<1>3. CASE Cancel(t, x, o)
  <2>1. EraseFrom(CancelList(o), x) /\ Report(x, "CANCELED")
    BY <1>3 DEF Cancel
  <2>2. Held(x) /\ (WillBeHeld(id) <=> Held(id) /\ id # x)
    BY <1>0, <2>1, EraseHeld
  <2> QED BY <1>1, <1>2, <2>1, <2>2, ErasedWork
<1>4. CASE CancelRejected(t, x, o)
  <2>1. book' = book /\ status' = status
    BY <1>4 DEF CancelRejected
  <2> QED BY <1>1, <1>2, <2>1, SameHeld, SameWork DEF WorkInv
<1> QED BY <1>3, <1>4

(* A stopped book with nothing to do holds nothing, so a replace request   *)
(* that is answered with a reject names no order at work.                  *)
LEMMA RejectedWork ==
  ASSUME OneThread, TypeOK, ClosedInv, WorkInv, NEW t \in Threads, NEW id \in Ids, NEW x \in Ids,
         NEW o, ReplaceWhenClosed(t, x, o)
  PROVE  IdInv(id)'
<1>1. /\ Idle(t) /\ ~active /\ order' = order /\ book' = book /\ stack' = stack
      /\ status' = [status EXCEPT ![x] = "REJECTED"]
  BY DEF ReplaceWhenClosed, Report
<1>2. \A l \in Lists : book[l] = <<>>
  BY <1>1 DEF ClosedInv
<1>3. ~Held(id)
  BY <1>2 DEF Held, Holds
<1>4. ~BeingPlaced(id) /\ ~Stopping(id)
  <2>1. \A u \in Threads : stack[u] = <<>>
    BY <1>1 DEF OneThread, Idle
  <2> QED BY <2>1 DEF BeingPlaced, Stopping
<1>5. (WillBeHeld(id) <=> Held(id)) /\ (WillBePlaced(id) <=> BeingPlaced(id)) /\ (WillStop(id) => Stopping(id))
  BY <1>1, SameHeld, SamePlaced
<1>6. IdInv(id) /\ status'[id] \in {status[id], "REJECTED"} /\ order'[id] = order[id]
  BY <1>1 DEF WorkInv, TypeOK
<1> QED BY <1>3, <1>4, <1>5, <1>6, WillWork DEF IdInv

(* The commands.                                                           *)
LEMMA CommandPlaced ==
  ASSUME TypeOK, PlacesInv, NEW t \in Threads, NEW id, Command(t)
  PROVE  /\ order' = order /\ book' = book /\ status' = status
         /\ WillBePlaced(id) <=> BeingPlaced(id)
         /\ WillStop(id) => Stopping(id)
<1>1. order' = order /\ book' = book /\ status' = status /\ Apart
  BY DEF Command, Stop, Start, PlacesInv, HomeInv
<1>2. CASE Stop(t)
  <2>1. PICK c \in FrameRecord : c = Frame("cancelAll", None, "buy")
    BY ListFrameTypes DEF Lists
  <2>2. Idle(t) /\ Begin(t, <<c>>) /\ ~Placing(c)
    BY <1>2, <2>1 DEF Stop, Placing, Frame
  <2>3. \A f, g \in FrameRecord : ~Placing(f) /\ Begin(t, <<f>>) =>
          (WillBePlaced(id) <=> BeingPlaced(id)) /\ (WillStop(id) => Stopping(id))
    BY <1>1, <2>2, BeginPlaced, Zenon
  <2>4. (WillBePlaced(id) <=> BeingPlaced(id)) /\ (WillStop(id) => Stopping(id))
    BY <2>1, <2>2, <2>3, Zenon
  <2> QED BY <1>1, <2>4
<1>3. CASE Start(t)
  <2>1. stack' = stack
    BY <1>3 DEF Start
  <2> QED BY <1>1, <2>1, SamePlaced
<1> QED BY <1>2, <1>3 DEF Command

LEMMA CommandWork ==
  ASSUME TypeOK, PlacesInv, WorkInv, NEW t \in Threads, NEW id \in Ids, Command(t)
  PROVE  IdInv(id)'
BY CommandPlaced, SameHeld, SameWork DEF WorkInv

LEMMA NextWork ==
  ASSUME OneThread, PositiveOrders, TypeOK, PlacesInv, MatchInv, ClosedInv, WorkInv, [Next]_vars
  PROVE  WorkInv'
<1>0. TypeOK'
  BY NextTypes
<1> SUFFICES ASSUME NEW id \in Ids PROVE IdInv(id)'
  BY DEF WorkInv
<1>1. ASSUME NEW t \in Sessions, Request(t) PROVE IdInv(id)'
  <2>1. t \in Threads
    BY DEF Threads
  <2>2. CASE \E x \in Ids : \E o \in NewOrders : Insert(t, x, o) \/ InsertWhenClosed(t, x, o)
    BY <2>1, <2>2, InsertWork
  <2>3. CASE \E x \in Ids : \E o \in ReplaceOrders :
               ReplaceKept(t, x, o) \/ ReplaceMoved(t, x, o) \/ ReplaceRejected(t, x, o)
    BY <2>1, <2>3, ReplaceWork
  <2>4. CASE \E x \in Ids : \E o \in ReplaceOrders : ReplaceWhenClosed(t, x, o)
    BY <2>1, <2>4, RejectedWork
  <2>5. CASE \E x \in Ids : \E o \in CancelOrders : Cancel(t, x, o) \/ CancelRejected(t, x, o)
    BY <2>1, <2>5, CancelWork
  <2> QED BY <1>1, <2>2, <2>3, <2>4, <2>5 DEF Request
<1>2. ASSUME NEW t \in Consoles, Command(t) PROVE IdInv(id)'
  BY <1>2, CommandWork DEF Threads
<1>3. ASSUME NEW t \in Threads, Continue(t) PROVE IdInv(id)'
  <2>1. CASE Fill(t)
    BY <1>0, <2>1, FillWork
  <2>2. CASE RestDone(t) \/ RestCanceled(t) \/ Rest(t) \/ StopRests(t)
    BY <1>0, <2>2, RestWork
  <2>3. CASE Move(t) \/ StopFires(t) \/ TriggerFirst(t)
    BY <1>0, <2>3, PlacedWork
  <2>4. CASE IocCancels(t) \/ CancelFirst(t)
    BY <1>0, <2>4, CanceledWork
  <2>5. CASE \/ MoveRejected(t) \/ Lock(t) \/ Match(t) \/ MatchEnds(t) \/ FillEmptied(t)
             \/ TriggerSells(t) \/ TriggerEnds(t) \/ IocNotFound(t)
             \/ RequestEnds(t) \/ CancelNext(t) \/ StopEnds(t)
    BY <1>0, <2>5, QuietWork
  <2> QED BY <1>3, <2>1, <2>2, <2>3, <2>4, <2>5 DEF Continue
<1>4. CASE UNCHANGED vars
  <2>1. order' = order /\ book' = book /\ status' = status /\ stack' = stack
    BY <1>4 DEF vars
  <2> QED BY <2>1, SameHeld, SamePlaced, SameWork DEF WorkInv
<1> QED BY <1>1, <1>2, <1>3, <1>4 DEF Next

LEMMA InitWork == Init => WorkInv
<1> SUFFICES ASSUME Init, NEW id \in Ids PROVE IdInv(id)
  BY DEF WorkInv
<1>1. order[id] = Blank /\ status[id] = "NONE"
  BY DEF Init
<1>2. Sound(Blank)
  BY DEF Blank, MakeOrder, WithPending, Sound, Visible, ActualPending
<1>3. ~Held(id)
  BY DEF Init, Held, Holds
<1>4. ~BeingPlaced(id) /\ ~Stopping(id)
  BY DEF Init, BeingPlaced, Stopping
<1> QED BY <1>1, <1>2, <1>3, <1>4 DEF IdInv

LEMMA InitClosed == Init => ClosedInv
BY DEF Init, ClosedInv, At, Idle

LEMMA WorkCorrect ==
  ASSUME OneThread, PositiveOrders
  PROVE  Spec => [](TypeOK /\ PlacesInv /\ MatchInv /\ ClosedInv /\ WorkInv)
<1>1. TypeOK /\ PlacesInv /\ MatchInv /\ ClosedInv /\ WorkInv /\ [Next]_vars =>
        TypeOK' /\ PlacesInv' /\ MatchInv' /\ ClosedInv' /\ WorkInv'
  BY NextTypes, NextPlaces, NextLoop, NextCloses, NextWork
<1>2. Init => TypeOK /\ PlacesInv /\ MatchInv /\ ClosedInv /\ WorkInv
  BY InitTypes, InitPlaces, InitLoop, InitClosed, InitWork
<1> QED BY <1>1, <1>2, PTL DEF Spec

(* With one thread, and orders for a positive quantity: no order is filled *)
(* beyond its quantity, and a resting order shows a positive quantity, the *)
(* one that setPendingQty() computes from its other fields.                *)
THEOREM NoneIsOverfilled ==
  ASSUME OneThread, PositiveOrders
  PROVE  Spec => []NothingOverfilled
<1>1. ASSUME TypeOK, WorkInv PROVE NothingOverfilled
  <2>1. \A id \in Ids : order[id].filled <= order[id].qty
    BY <1>1 DEF WorkInv, IdInv, Sound
  <2>2. ASSUME NEW l \in Lists, NEW id \in Resting(l)
        PROVE  order[id].pending > 0 /\ order[id] = WithPending(order[id])
    <3>1. Held(id) /\ id \in Ids
      BY <1>1, BookTypes DEF Resting, Held, Holds, Entry
    <3>2. order[id] \in OrderRecord /\ Sound(order[id]) /\ Open(order[id])
      BY <1>1, <3>1 DEF TypeOK, WorkInv, IdInv
    <3> QED BY <3>2, PendingFits, SoundPending DEF Sound
  <2> QED BY <2>1, <2>2 DEF NothingOverfilled
<1>2. TypeOK /\ PlacesInv /\ MatchInv /\ ClosedInv /\ WorkInv => NothingOverfilled
  BY <1>1
<1> QED BY <1>2, WorkCorrect, PTL

(* With one thread, and orders for a positive quantity: between requests,  *)
(* the orders that the client was last told to be working are those that   *)
(* rest in the book.                                                       *)
THEOREM WorkingMeansResting ==
  ASSUME OneThread, PositiveOrders
  PROVE  Spec => []WorkingOrdersRest
<1>1. ASSUME TypeOK, WorkInv, Quiet, NEW id \in Ids
      PROVE  status[id] = "WORKING" <=> \E l \in Lists : id \in Resting(l)
  <2>1. Held(id) <=> \E l \in Lists : id \in Resting(l)
    BY DEF Held, Holds, Resting
  <2>2. \A t \in Threads : DOMAIN stack[t] = {}
    BY <1>1 DEF Quiet, Idle
  <2>3. ~BeingPlaced(id)
    BY <2>2 DEF BeingPlaced
  <2> QED BY <1>1, <2>1, <2>3 DEF WorkInv, IdInv
<1>2. TypeOK /\ PlacesInv /\ MatchInv /\ ClosedInv /\ WorkInv => WorkingOrdersRest
  BY <1>1 DEF WorkingOrdersRest
<1> QED BY <1>2, WorkCorrect, PTL

-----------------------------------------------------------------------------
(* Which orders a step reports on.                                         *)
Touched(t) == {First(Opposite(Top(t).list)), Top(t).id}

Ended(s) == s \in {"FILLED", "CANCELED", "REJECTED"}

LEMMA RequestReports ==
  ASSUME TypeOK, NEW t \in Sessions, Request(t), NEW id \in Ids, status[id] # "NONE"
  PROVE  status'[id] = status[id] \/ Ended(status'[id])
<1>1. CASE status' = status
  BY <1>1
<1>2. CASE \E x \in Ids : \/ Report(x, "REJECTED") \/ Report(x, "CANCELED")
                          \/ Report(x, "WORKING") /\ status[x] = "NONE"
  BY <1>2 DEF Report, TypeOK, Ended
<1> QED BY <1>1, <1>2 DEF Request, Insert, InsertWhenClosed, ReplaceKept, ReplaceMoved, ReplaceRejected,
          ReplaceWhenClosed, Cancel, CancelRejected

LEMMA ContinueReports ==
  ASSUME TypeOK, MatchInv, NEW t \in Threads, Continue(t), NEW id \in Ids
  PROVE  \/ status'[id] = status[id]
         \/ Ended(status'[id])
         \/ Fill(t) /\ id \in Touched(t)
<1>1. CASE status' = status
  BY <1>1
<1>2. CASE RestCanceled(t) \/ IocCancels(t) \/ CancelFirst(t)
  <2>1. PICK x : Report(x, "CANCELED")
    BY <1>2 DEF RestCanceled, IocCancels, CancelFirst
  <2> QED BY <2>1 DEF Report, TypeOK, Ended
<1>3. CASE Fill(t)
  <2>1. PICK o, p : status' = [status EXCEPT ![Top(t).opp] = o, ![Top(t).id] = p]
    BY <1>3 DEF Fill
  <2>2. Top(t).opp = First(Opposite(Top(t).list))
    BY <1>3 DEF Fill, MatchInv, FillInv
  <2>3. id \notin Touched(t) => status'[id] = status[id]
    BY <2>1, <2>2 DEF Touched, TypeOK
  <2> QED BY <1>3, <2>3
<1> QED BY <1>1, <1>2, <1>3 DEF Continue, Move, MoveRejected, StopFires, StopRests, Lock, Match, MatchEnds,
          FillEmptied, RestDone, Rest, TriggerFirst, TriggerSells, TriggerEnds, IocNotFound, RequestEnds,
          CancelNext, StopEnds

LEMMA TradesAreOpen ==
  ASSUME TypeOK, PlacesInv, MatchInv, WorkInv, NEW t \in Threads, Fill(t), NEW id \in Touched(t)
  PROVE  status[id] = "WORKING"
<1> DEFINE f == Top(t)
           other == Opposite(f.list)
<1>1. /\ At(t, "fill") /\ f.id \in Ids /\ other \in Lists /\ book[other] # <<>>
      /\ ~Idle(t) /\ Placing(f)
  BY AtType, ListTypes DEF Fill, Placing
<1>2. CASE id = First(other)
  <2>1. id \in Ids /\ Held(id)
    BY <1>1, <1>2, BookTypes, TailElements, FirstType DEF Holds, First, Held
  <2> QED BY <2>1 DEF WorkInv, IdInv
<1>3. CASE id = f.id
  <2>1. BeingPlaced(id) /\ IdInv(id) /\ order[id] \in OrderRecord
    BY <1>1, <1>3, TopPlacing DEF WorkInv, TypeOK
  <2>2. order[id].pending > 0
    BY <1>1, <1>3 DEF MatchInv, FillInv
  <2>3. Open(order[id])
    BY <2>1, <2>2, SoundPending DEF IdInv
  <2> QED BY <2>1, <2>3 DEF IdInv
<1> QED BY <1>2, <1>3 DEF Touched

(* With one thread, and orders for a positive quantity: an order that the  *)
(* client was told to be filled, canceled or rejected is never reported to *)
(* work again, and never trades.                                           *)
THEOREM OverStaysOver ==
  ASSUME OneThread, PositiveOrders
  PROVE  Spec => OverIsOver
<1>1. ASSUME TypeOK, PlacesInv, MatchInv, WorkInv, [Next]_vars, NEW id \in Ids, Over(id)
      PROVE  Ended(status'[id]) /\ order'[id].filled = order[id].filled
  <2>1. Ended(status[id]) /\ status[id] # "NONE" /\ status[id] # "WORKING"
    BY <1>1 DEF Over, Ended
  <2>2. ASSUME NEW t \in Sessions, Request(t)
        PROVE  Ended(status'[id]) /\ order'[id].filled = order[id].filled
    <3>1. ~Refilled(id)
      BY <1>1, <2>1, <2>2, RequestRefills
    <3> QED BY <1>1, <2>1, <2>2, <3>1, RequestReports DEF Refilled
  <2>3. ASSUME NEW t \in Threads, Continue(t)
        PROVE  Ended(status'[id]) /\ order'[id].filled = order[id].filled
    <3>1. ~(Fill(t) /\ id \in Touched(t))
      BY <1>1, <2>1, TradesAreOpen
    <3>2. ~Refilled(id)
      BY <1>1, <2>3, <3>1, ContinueFills DEF Touched
    <3>3. status'[id] = status[id] \/ Ended(status'[id])
      BY <1>1, <2>3, <3>1, ContinueReports
    <3> QED BY <2>1, <3>2, <3>3 DEF Refilled
  <2>4. CASE order' = order /\ status' = status
    BY <2>1, <2>4
  <2> QED BY <1>1, <2>2, <2>3, <2>4 DEF Next, Command, Stop, Start, vars
<1>2. TypeOK /\ PlacesInv /\ MatchInv /\ ClosedInv /\ WorkInv /\ [Next]_vars =>
        \A id \in Ids : Over(id) => Over(id)' /\ order'[id].filled = order[id].filled
  BY <1>1 DEF Over, Ended
<1> QED BY <1>2, WorkCorrect, PTL DEF Spec, OverIsOver
=============================================================================
