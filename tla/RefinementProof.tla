--------------------------- MODULE RefinementProof ---------------------------
(***************************************************************************)
(* OrderBook with one thread implements PriceTimeMarket, step by step.     *)
(***************************************************************************)
EXTENDS OneThreadProof, OrderBookRefinement

LEMMA InitMarket == Init => Market!Init
<1> SUFFICES ASSUME Init PROVE Market!Init
  OBVIOUS
<1>1. restingOrders = [s \in {"buy", "sell"} |-> {}]
  BY DEF restingOrders, Resting, Init, Lists
<1>2. \A s \in {"buy", "sell"}, id \in Ids : ~ComesIn(s, id) /\ ~Holds(s, id)
  BY DEF ComesIn, Holds, Init, Lists, Inserting
<1>3. incomingOrders = [s \in {"buy", "sell"} |-> {}]
  BY <1>2 DEF incomingOrders
<1>4. openQuantity = [id \in Ids |-> 0]
  BY <1>2 DEF openQuantity, Trading
<1>5. limitPrice = [id \in Ids |-> None]
  BY <1>2 DEF limitPrice, LimitOf, Trading
<1>6. aheadInList = [id \in Ids |-> {}]
  BY DEF aheadInList, AheadIn, Init, Lists
<1> QED BY <1>1, <1>3, <1>4, <1>5, <1>6 DEF Market!Init, Market!Sides, Init

-----------------------------------------------------------------------------
(* An order on its way into the market, now and after a step.              *)
SideOf(id) == ListOf(order[id].side)

Arrives(id) == BeingPlaced(id) /\ ~IsStop(order[id].type) /\ Open(order[id])

WillArrive(id) == WillBePlaced(id) /\ ~IsStop(order'[id].type) /\ Open(order'[id])

(* The frame that inserts an order works for the order's side.             *)
LEMMA ArrivesIn ==
  ASSUME PlacesInv, NEW l \in {"buy", "sell"}, NEW id \in Ids
  PROVE  ComesIn(l, id) <=> Arrives(id) /\ SideOf(id) = l
<1>1. ASSUME NEW t \in Threads, NEW d \in DOMAIN stack[t], stack[t][d].id = id, Placing(stack[t][d])
      PROVE  SideOf(id) = stack[t][d].list /\ (stack[t][d].pc = "stop" <=> IsStop(order[id].type))
  BY <1>1 DEF PlacesInv, CurrentInv, FramesInv, SideOf
<1>2. ASSUME ComesIn(l, id) PROVE Arrives(id) /\ SideOf(id) = l
  <2>1. PICK t \in Threads : \E d \in DOMAIN stack[t] : Inserting(stack[t][d], l, id)
    BY <1>2 DEF ComesIn
  <2>2. PICK d \in DOMAIN stack[t] : Inserting(stack[t][d], l, id)
    BY <2>1
  <2> QED BY <1>1, <1>2, <2>2 DEF ComesIn, Inserting, Arrives, Placing, BeingPlaced, Open
<1>3. ASSUME Arrives(id), SideOf(id) = l PROVE ComesIn(l, id)
  <2>1. PICK t \in Threads : \E d \in DOMAIN stack[t] : stack[t][d].id = id /\ Placing(stack[t][d])
    BY <1>3 DEF Arrives, BeingPlaced, Placing
  <2>2. PICK d \in DOMAIN stack[t] : stack[t][d].id = id /\ Placing(stack[t][d])
    BY <2>1
  <2>3. Inserting(stack[t][d], l, id)
    BY <1>1, <1>3, <2>2 DEF Inserting, Placing, Arrives
  <2> QED BY <1>3, <2>3 DEF ComesIn, Arrives, Open
<1> QED BY <1>2, <1>3

LEMMA WillArriveIn ==
  ASSUME PlacesInv', NEW l \in {"buy", "sell"}, NEW id \in Ids
  PROVE  ComesIn(l, id)' <=> WillArrive(id) /\ ListOf(order'[id].side) = l
<1>1. ASSUME NEW t \in Threads, NEW d \in DOMAIN stack'[t], stack'[t][d].id = id, Placing(stack'[t][d])
      PROVE  /\ ListOf(order'[id].side) = stack'[t][d].list
             /\ stack'[t][d].pc = "stop" <=> IsStop(order'[id].type)
  BY <1>1 DEF PlacesInv, CurrentInv, FramesInv
<1>2. ASSUME ComesIn(l, id)' PROVE WillArrive(id) /\ ListOf(order'[id].side) = l
  <2>1. PICK t \in Threads : \E d \in DOMAIN stack'[t] : Inserting(stack'[t][d], l, id)
    BY <1>2 DEF ComesIn
  <2>2. PICK d \in DOMAIN stack'[t] : Inserting(stack'[t][d], l, id)
    BY <2>1
  <2> QED BY <1>1, <1>2, <2>2 DEF ComesIn, Inserting, WillArrive, Placing, WillBePlaced, Open
<1>3. ASSUME WillArrive(id), ListOf(order'[id].side) = l PROVE ComesIn(l, id)'
  <2>1. PICK t \in Threads : \E d \in DOMAIN stack'[t] : stack'[t][d].id = id /\ Placing(stack'[t][d])
    BY <1>3 DEF WillArrive, WillBePlaced
  <2>2. PICK d \in DOMAIN stack'[t] : stack'[t][d].id = id /\ Placing(stack'[t][d])
    BY <2>1
  <2>3. Inserting(stack'[t][d], l, id)
    BY <1>1, <1>3, <2>2 DEF Inserting, Placing, WillArrive
  <2> QED BY <1>3, <2>3 DEF ComesIn, WillArrive, Open
<1> QED BY <1>2, <1>3

-----------------------------------------------------------------------------
(* What a change of a list means to the market.  An order is in its list   *)
(* once, so its key and its place are those of that entry.                 *)
LEMMA KeyAt ==
  ASSUME Distinct, NEW l \in Lists, NEW p \in DOMAIN book[l]
  PROVE  KeyIn(l, book[l][p].id) = book[l][p].key
<1>1. (CHOOSE q \in DOMAIN book[l] : book[l][q].id = book[l][p].id) = p
  BY DEF Distinct
<1> QED BY <1>1 DEF KeyIn

LEMMA WillKeyAt ==
  ASSUME Distinct', NEW l \in Lists, NEW p \in DOMAIN book'[l], NEW id, book'[l][p].id = id
  PROVE  KeyIn(l, id)' = book'[l][p].key
<1>1. \A q \in DOMAIN book'[l] : book'[l][q].id = id => q = p
  BY DEF Distinct
<1>2. (CHOOSE q \in DOMAIN book'[l] : book'[l][q].id = id) = p
  BY <1>1
<1> QED BY <1>2 DEF KeyIn

GoesBefore(l, y, id) ==
  \E p, q \in DOMAIN book[l] : p < q /\ book[l][p].id = y /\ book[l][q].id = id

WillGoBefore(l, y, id) ==
  \E p, q \in DOMAIN book'[l] : p < q /\ book'[l][p].id = y /\ book'[l][q].id = id

LEMMA AheadMeans ==
  ASSUME NEW l, NEW id
  PROVE  /\ \A y : y \in AheadIn(l, id) <=> GoesBefore(l, y, id)
         /\ \A y : y \in AheadIn(l, id)' <=> WillGoBefore(l, y, id)
BY DEF AheadIn, GoesBefore, WillGoBefore

(* The market's view of the places, and of its change.                     *)
KeepsPlace(id) ==
  \A m \in {"buy", "sell"} :
    /\ WillHold(m, id) <=> Holds(m, id)
    /\ Holds(m, id) => KeyIn(m, id)' = KeyIn(m, id)

SameLists ==
  /\ restingOrders' = restingOrders /\ aheadInList' = aheadInList
  /\ \A id : KeepsPlace(id)

Taken(l, x) ==
  /\ Holds(l, x)
  /\ restingOrders' = [restingOrders EXCEPT ![l] = @ \ {x}]
  /\ aheadInList' = Market!Without(x)
  /\ \A m \in {"buy", "sell"} : ~WillHold(m, x)
  /\ \A id \in Ids \ {x} : KeepsPlace(id)

LEMMA ListsStay ==
  ASSUME \A l \in {"buy", "sell"} : book'[l] = book[l]
  PROVE  SameLists
<1>1. restingOrders' = restingOrders
  BY DEF restingOrders, Resting
<1>2. aheadInList' = aheadInList
  BY DEF aheadInList, AheadIn
<1>3. ASSUME NEW id PROVE KeepsPlace(id)
  BY DEF KeepsPlace, WillHold, Holds, KeyIn
<1> QED BY <1>1, <1>2, <1>3 DEF SameLists

(* One entry is taken off a list.                                          *)
LEMMA ShorterTakes ==
  ASSUME TypeOK, Distinct, Distinct', NEW l \in {"buy", "sell"}, NEW p \in DOMAIN book[l],
         NEW s \in Seq(Entry), book' = [book EXCEPT ![l] = s], Len(s) = Len(book[l]) - 1,
         \A i \in 1 .. Len(book[l]) - 1 : s[i] = IF i < p THEN book[l][i] ELSE book[l][i + 1],
         NEW x, book[l][p].id = x
  PROVE  Taken(l, x)
<1>0. l \in Lists /\ {"buy", "sell"} \subseteq Lists
  BY DEF Lists
<1>1. Len(book[l]) \in Nat /\ DOMAIN book[l] = 1 .. Len(book[l])
  BY <1>0, BookTypes
<1>2. book'[l] = s /\ DOMAIN s = 1 .. Len(book[l]) - 1 /\ \A m \in Lists \ {l} : book'[m] = book[m]
  BY <1>0, LenProperties DEF TypeOK
<1>3. ASSUME NEW i \in DOMAIN book'[l]
      PROVE  LET j == IF i < p THEN i ELSE i + 1 IN
             j \in DOMAIN book[l] /\ j # p /\ book'[l][i] = book[l][j] /\ book[l][j].id # x
  <2>1. LET j == IF i < p THEN i ELSE i + 1 IN
        j \in DOMAIN book[l] /\ j # p /\ book'[l][i] = book[l][j]
    BY <1>1, <1>2
  <2> QED BY <1>0, <2>1 DEF Distinct
<1>4. ASSUME NEW j \in DOMAIN book[l], book[l][j].id # x
      PROVE  LET i == IF j < p THEN j ELSE j - 1 IN
             i \in DOMAIN book'[l] /\ book'[l][i] = book[l][j]
  <2>1. j # p
    BY <1>4
  <2> QED BY <1>1, <1>2, <2>1
<1>5. ASSUME NEW id PROVE WillHold(l, id) <=> Holds(l, id) /\ id # x
  <2>1. WillHold(l, id) => Holds(l, id) /\ id # x
    BY <1>3 DEF WillHold, Holds
  <2>2. Holds(l, id) /\ id # x => WillHold(l, id)
    BY <1>4 DEF WillHold, Holds
  <2> QED BY <2>1, <2>2
<1>6. ASSUME NEW m \in {"buy", "sell"}, m # l, NEW id
      PROVE  /\ book'[m] = book[m] /\ (WillHold(m, id) <=> Holds(m, id)) /\ ~Holds(m, x)
             /\ KeyIn(m, id)' = KeyIn(m, id)
             /\ ~WillGoBefore(m, x, id) /\ ~WillGoBefore(m, id, x)
             /\ \A y : WillGoBefore(m, y, id) <=> GoesBefore(m, y, id)
  <2>1. book'[m] = book[m] /\ ~Holds(m, x)
    BY <1>0, <1>2, <1>6 DEF Holds, Distinct
  <2> QED BY <2>1 DEF WillHold, Holds, KeyIn, WillGoBefore, GoesBefore
<1>7. ASSUME NEW id, Holds(l, id), id # x PROVE KeyIn(l, id)' = KeyIn(l, id)
  <2>1. PICK j \in DOMAIN book[l] : book[l][j].id = id
    BY <1>7 DEF Holds
  <2>2. PICK i \in DOMAIN book'[l] : book'[l][i] = book[l][j]
    BY <1>4, <1>7, <2>1
  <2> QED BY <1>0, <2>1, <2>2, KeyAt, WillKeyAt
<1>8. ASSUME NEW y, NEW id PROVE WillGoBefore(l, y, id) <=> GoesBefore(l, y, id) /\ y # x /\ id # x
  <2>1. ASSUME WillGoBefore(l, y, id) PROVE GoesBefore(l, y, id) /\ y # x /\ id # x
    <3>1. PICK i, k \in DOMAIN book'[l] : i < k /\ book'[l][i].id = y /\ book'[l][k].id = id
      BY <2>1 DEF WillGoBefore
    <3>2. (IF i < p THEN i ELSE i + 1) < (IF k < p THEN k ELSE k + 1)
      BY <1>1, <1>2, <3>1
    <3> QED BY <1>3, <3>1, <3>2 DEF GoesBefore
  <2>2. ASSUME GoesBefore(l, y, id), y # x, id # x PROVE WillGoBefore(l, y, id)
    <3>1. PICK i, k \in DOMAIN book[l] : i < k /\ book[l][i].id = y /\ book[l][k].id = id
      BY <2>2 DEF GoesBefore
    <3>2. i # p /\ k # p
      BY <2>2, <3>1
    <3>3. (IF i < p THEN i ELSE i - 1) < (IF k < p THEN k ELSE k - 1)
      BY <1>1, <3>1, <3>2
    <3> QED BY <1>4, <2>2, <3>1, <3>3 DEF WillGoBefore
  <2> QED BY <2>1, <2>2
<1>9. restingOrders' = [restingOrders EXCEPT ![l] = @ \ {x}]
  <2>1. Resting(l)' = Resting(l) \ {x}
    <3>1. \A id : id \in Resting(l) <=> Holds(l, id)
      BY DEF Resting, Holds
    <3>2. \A id : id \in Resting(l)' <=> WillHold(l, id)
      BY DEF Resting, WillHold
    <3> QED BY <1>5, <3>1, <3>2
  <2>2. \A m \in {"buy", "sell"} : m # l => Resting(m)' = Resting(m)
    BY <1>6 DEF Resting
  <2> QED BY <2>1, <2>2 DEF restingOrders
<1>10. aheadInList' = Market!Without(x)
  <2>1. ASSUME NEW id \in Ids
        PROVE  aheadInList'[id] = IF id = x THEN {} ELSE aheadInList[id] \ {x}
    <3>1. ASSUME NEW m \in {"buy", "sell"}, NEW y
          PROVE  WillGoBefore(m, y, id) <=> GoesBefore(m, y, id) /\ y # x /\ id # x
      <4>1. CASE m = l
        BY <1>8, <4>1
      <4>2. CASE m # l
        <5>1. ~WillGoBefore(m, x, id) /\ (WillGoBefore(m, y, id) <=> GoesBefore(m, y, id))
          BY <1>6, <4>2
        <5>2. ~WillGoBefore(m, y, x)
          BY <1>6, <4>2
        <5> QED BY <5>1, <5>2
      <4> QED BY <4>1, <4>2
    <3>2. /\ \A y : y \in aheadInList[id] <=> GoesBefore("buy", y, id) \/ GoesBefore("sell", y, id)
          /\ \A y : y \in aheadInList'[id] <=> WillGoBefore("buy", y, id) \/ WillGoBefore("sell", y, id)
      BY AheadMeans DEF aheadInList
    <3> QED BY <3>1, <3>2
  <2> QED BY <2>1 DEF aheadInList, Market!Without
<1>11. Holds(l, x) /\ \A m \in {"buy", "sell"} : ~WillHold(m, x)
  BY <1>5, <1>6 DEF Holds
<1>12. ASSUME NEW id \in Ids \ {x} PROVE KeepsPlace(id)
  BY <1>5, <1>6, <1>7 DEF KeepsPlace
<1> QED BY <1>9, <1>10, <1>11, <1>12 DEF Taken

LEMMA EraseTakes ==
  ASSUME TypeOK, Distinct, Distinct', NEW l \in Lists, NEW x, EraseFrom(l, x)
  PROVE  IF l \in {"buy", "sell"} THEN Taken(l, x) ELSE SameLists
<1>1. PICK p \in DOMAIN book[l] : book[l][p].id = x /\ book' = [book EXCEPT ![l] = RemoveAt(@, p)]
  BY DEF EraseFrom
<1>2. /\ RemoveAt(book[l], p) \in Seq(Entry) /\ Len(RemoveAt(book[l], p)) = Len(book[l]) - 1
      /\ \A i \in 1 .. Len(book[l]) - 1 :
           RemoveAt(book[l], p)[i] = IF i < p THEN book[l][i] ELSE book[l][i + 1]
  BY BookTypes, RemoveAtElements
<1>3. l \notin {"buy", "sell"} => SameLists
  BY <1>1, ListsStay DEF TypeOK, Lists
<1> QED BY <1>1, <1>2, <1>3, ShorterTakes

LEMMA TailTakes ==
  ASSUME TypeOK, Distinct, Distinct', NEW l \in Lists, book[l] # <<>>,
         book' = [book EXCEPT ![l] = Tail(@)]
  PROVE  IF l \in {"buy", "sell"} THEN Taken(l, First(l)) ELSE SameLists
<1>1. /\ Tail(book[l]) \in Seq(Entry) /\ Len(Tail(book[l])) = Len(book[l]) - 1
      /\ \A i \in 1 .. Len(book[l]) - 1 : Tail(book[l])[i] = book[l][i + 1]
      /\ Head(book[l]) = book[l][1] /\ Len(book[l]) \in Nat \ {0}
  BY BookTypes, TailElements
<1>2. 1 \in DOMAIN book[l] /\ book[l][1].id = First(l)
  BY <1>1, BookTypes DEF First
<1>3. \A i \in 1 .. Len(book[l]) - 1 : Tail(book[l])[i] = IF i < 1 THEN book[l][i] ELSE book[l][i + 1]
  BY <1>1
<1>4. l \notin {"buy", "sell"} => SameLists
  BY ListsStay DEF TypeOK, Lists
<1> QED BY <1>1, <1>2, <1>3, <1>4, ShorterTakes

(* An order is put into a list behind those that are as good.              *)
BeforeKey(l, key) == {r \in Resting(l) : Ahead(l, KeyIn(l, r), key)}

Put(l, x, key) ==
  /\ restingOrders' = [restingOrders EXCEPT ![l] = @ \cup {x}]
  /\ aheadInList' = [j \in Ids |-> IF j = x THEN BeforeKey(l, key)
                                   ELSE IF j \in Resting(l) \ BeforeKey(l, key)
                                          THEN aheadInList[j] \cup {x}
                                   ELSE aheadInList[j]]
  /\ \A m \in {"buy", "sell"} : WillHold(m, x) <=> m = l
  /\ KeyIn(l, x)' = key
  /\ \A id \in Ids \ {x} : KeepsPlace(id)

ListGets(l, key, x, p, e) ==
  /\ e.key = key /\ e.id = x
  /\ \A j \in DOMAIN book[l] : Ahead(l, book[l][j].key, key) <=> j < p
  /\ book'[l] \in Seq(Entry) /\ Len(book'[l]) = Len(book[l]) + 1
  /\ \A i \in 1 .. Len(book[l]) + 1 :
       book'[l][i] = IF i < p THEN book[l][i] ELSE IF i = p THEN e ELSE book[l][i - 1]
  /\ \A m \in Lists \ {l} : book'[m] = book[m]

LEMMA InsertChanges ==
  ASSUME TypeOK, NEW l \in Lists, NEW key \in Int, NEW x \in Ids, InsertInto(l, key, x)
  PROVE  \E p \in 1 .. Len(book[l]) + 1 : \E e \in Entry : ListGets(l, key, x, p, e)
<1>1. [key |-> key, id |-> x] \in Entry
  BY DEF Entry
<1>2. PICK e \in Entry : e = [key |-> key, id |-> x]
  BY <1>1
<1>3. e.key = key /\ e.id = x
  BY <1>2
<1>4. PICK p \in 1 .. Len(book[l]) + 1 :
        /\ \A j \in DOMAIN book[l] : Ahead(l, book[l][j].key, key) <=> j < p
        /\ book' = [book EXCEPT ![l] = InsertAt(@, p, e)]
  BY <1>2 DEF InsertInto
<1>5. /\ InsertAt(book[l], p, e) \in Seq(Entry)
      /\ Len(InsertAt(book[l], p, e)) = Len(book[l]) + 1
      /\ \A i \in 1 .. Len(book[l]) + 1 :
           InsertAt(book[l], p, e)[i] =
             IF i < p THEN book[l][i] ELSE IF i = p THEN e ELSE book[l][i - 1]
  <2>1. book[l] \in Seq(Entry)
    BY BookTypes
  <2>2. PICK s \in Seq(Entry) : s = book[l]
    BY <2>1
  <2>3. PICK q \in 1 .. Len(s) + 1 : q = p
    BY <2>2
  <2>4. /\ InsertAt(s, q, e) \in Seq(Entry)
        /\ Len(InsertAt(s, q, e)) = Len(s) + 1
        /\ \A i \in 1 .. Len(s) + 1 :
             InsertAt(s, q, e)[i] = IF i < q THEN s[i] ELSE IF i = q THEN e ELSE s[i - 1]
    BY InsertAtElements
  <2> QED BY <2>2, <2>3, <2>4, Zenon
<1>6. book'[l] = InsertAt(book[l], p, e) /\ \A m \in Lists \ {l} : book'[m] = book[m]
  BY <1>4 DEF TypeOK
<1>7. ListGets(l, key, x, p, e)
  BY <1>4, <1>5, <1>6, <1>3 DEF ListGets
<1> QED BY <1>2, <1>7

LEMMA InsertPuts ==
  ASSUME TypeOK, Distinct, Distinct', NEW l \in {"buy", "sell"}, NEW key \in Int, NEW x \in Ids,
         InsertInto(l, key, x), \A m \in Lists : ~Holds(m, x)
  PROVE  Put(l, x, key)
<1>0. l \in Lists /\ {"buy", "sell"} \subseteq Lists
  BY DEF Lists
<1>1. PICK p \in 1 .. Len(book[l]) + 1 : \E e \in Entry : ListGets(l, key, x, p, e)
  BY <1>0, InsertChanges
<1>2. PICK e \in Entry : ListGets(l, key, x, p, e)
  BY <1>1
<1>3. /\ book[l] \in Seq(Entry) /\ Len(book[l]) \in Nat /\ DOMAIN book[l] = 1 .. Len(book[l])
      /\ \A j \in DOMAIN book[l] : Ahead(l, book[l][j].key, key) <=> j < p
      /\ e.key = key /\ e.id = x
  BY <1>0, <1>2, BookTypes DEF ListGets
<1>4. /\ book'[l] \in Seq(Entry) /\ Len(book'[l]) = Len(book[l]) + 1
      /\ \A i \in 1 .. Len(book[l]) + 1 :
           book'[l][i] = IF i < p THEN book[l][i] ELSE IF i = p THEN e ELSE book[l][i - 1]
      /\ \A m \in Lists \ {l} : book'[m] = book[m]
  BY <1>2 DEF ListGets
<1>5. DOMAIN book'[l] = 1 .. Len(book[l]) + 1
  BY <1>4, LenProperties
<1>6. p \in DOMAIN book'[l] /\ book'[l][p] = e /\ p \in Nat
  BY <1>3, <1>4, <1>5
<1>7. ASSUME NEW j \in DOMAIN book[l]
      PROVE  LET i == IF j < p THEN j ELSE j + 1 IN
             i \in DOMAIN book'[l] /\ i # p /\ book'[l][i] = book[l][j]
  <2>1. j \in 1 .. Len(book[l])
    BY <1>3
  <2>2. CASE j < p
    BY <1>3, <1>4, <1>5, <1>6, <2>1, <2>2
  <2>3. CASE ~(j < p)
    <3>1. PICK i \in 1 .. Len(book[l]) + 1 : i = j + 1
      BY <1>3, <2>1
    <3>2. ~(i < p) /\ i # p /\ i - 1 = j
      BY <1>3, <1>6, <2>1, <2>3, <3>1
    <3>3. book'[l][i] = book[l][j]
      BY <1>4, <3>2
    <3> QED BY <1>5, <2>3, <3>1, <3>2, <3>3
  <2> QED BY <2>2, <2>3
<1>8. ASSUME NEW i \in DOMAIN book'[l], i # p
      PROVE  LET j == IF i < p THEN i ELSE i - 1 IN
             j \in DOMAIN book[l] /\ book'[l][i] = book[l][j] /\ book'[l][i].id # x
  <2>1. LET j == IF i < p THEN i ELSE i - 1 IN j \in DOMAIN book[l] /\ book'[l][i] = book[l][j]
    <3>1. i \in 1 .. Len(book[l]) + 1 /\ p \in 1 .. Len(book[l]) + 1
      BY <1>5, <1>6
    <3>2. CASE i < p
      BY <1>3, <1>4, <3>1, <3>2
    <3>3. CASE ~(i < p)
      BY <1>3, <1>4, <1>8, <3>1, <3>3
    <3> QED BY <3>2, <3>3
  <2> QED BY <1>0, <2>1 DEF Holds
<1>9. ASSUME NEW id PROVE WillHold(l, id) <=> Holds(l, id) \/ id = x
  <2>1. WillHold(l, id) => Holds(l, id) \/ id = x
    BY <1>3, <1>6, <1>8 DEF WillHold, Holds
  <2>2. Holds(l, id) => WillHold(l, id)
    BY <1>7 DEF WillHold, Holds
  <2>3. id = x => WillHold(l, id)
    BY <1>3, <1>6 DEF WillHold
  <2> QED BY <2>1, <2>2, <2>3
<1>10. ASSUME NEW m \in {"buy", "sell"}, m # l, NEW id
       PROVE  /\ book'[m] = book[m] /\ (WillHold(m, id) <=> Holds(m, id)) /\ ~Holds(m, x)
              /\ KeyIn(m, id)' = KeyIn(m, id)
              /\ ~GoesBefore(m, x, id) /\ ~GoesBefore(m, id, x)
              /\ \A y : WillGoBefore(m, y, id) <=> GoesBefore(m, y, id)
  <2>1. book'[m] = book[m] /\ ~Holds(m, x)
    BY <1>0, <1>4, <1>10
  <2> QED BY <2>1 DEF WillHold, Holds, KeyIn, WillGoBefore, GoesBefore
<1>11. ASSUME NEW id, Holds(l, id) PROVE KeyIn(l, id)' = KeyIn(l, id)
  <2>1. PICK j \in DOMAIN book[l] : book[l][j].id = id
    BY <1>11 DEF Holds
  <2>2. PICK i \in DOMAIN book'[l] : book'[l][i] = book[l][j]
    BY <1>7, <2>1
  <2> QED BY <1>0, <2>1, <2>2, KeyAt, WillKeyAt
<1>12. KeyIn(l, x)' = key
  BY <1>0, <1>3, <1>6, WillKeyAt
<1>13. ASSUME NEW j \in DOMAIN book[l]
       PROVE  book[l][j].id \in BeforeKey(l, key) <=> j < p
  BY <1>0, <1>3, KeyAt DEF BeforeKey, Resting
<1>14. ASSUME NEW y, NEW id, y # x, id # x PROVE WillGoBefore(l, y, id) <=> GoesBefore(l, y, id)
  <2>1. ASSUME WillGoBefore(l, y, id) PROVE GoesBefore(l, y, id)
    <3>1. PICK i, k \in DOMAIN book'[l] : i < k /\ book'[l][i].id = y /\ book'[l][k].id = id
      BY <2>1 DEF WillGoBefore
    <3>2. i # p /\ k # p
      BY <1>3, <1>6, <1>14, <3>1
    <3>3. (IF i < p THEN i ELSE i - 1) < (IF k < p THEN k ELSE k - 1)
      BY <1>3, <1>5, <1>6, <3>1, <3>2
    <3> QED BY <1>8, <3>1, <3>2, <3>3 DEF GoesBefore
  <2>2. ASSUME GoesBefore(l, y, id) PROVE WillGoBefore(l, y, id)
    <3>1. PICK i, k \in DOMAIN book[l] : i < k /\ book[l][i].id = y /\ book[l][k].id = id
      BY <2>2 DEF GoesBefore
    <3>2. (IF i < p THEN i ELSE i + 1) < (IF k < p THEN k ELSE k + 1)
      BY <1>3, <1>6, <3>1
    <3> QED BY <1>7, <3>1, <3>2 DEF WillGoBefore
  <2> QED BY <2>1, <2>2
<1>15. ASSUME NEW y PROVE WillGoBefore(l, y, x) <=> y \in BeforeKey(l, key)
  <2>1. ASSUME WillGoBefore(l, y, x) PROVE y \in BeforeKey(l, key)
    <3>1. PICK i, k \in DOMAIN book'[l] : i < k /\ book'[l][i].id = y /\ book'[l][k].id = x
      BY <2>1 DEF WillGoBefore
    <3>2. k = p
      BY <1>8, <3>1
    <3>3. i # p /\ i < p
      BY <1>5, <1>6, <3>1, <3>2
    <3>4. i \in DOMAIN book[l] /\ book[l][i].id = y
      BY <1>8, <3>1, <3>3
    <3> QED BY <1>13, <3>3, <3>4
  <2>2. ASSUME y \in BeforeKey(l, key) PROVE WillGoBefore(l, y, x)
    <3>1. PICK j \in DOMAIN book[l] : book[l][j].id = y
      BY <2>2 DEF BeforeKey, Resting
    <3>2. j < p
      BY <1>13, <2>2, <3>1
    <3>3. j \in DOMAIN book'[l] /\ book'[l][j].id = y
      BY <1>7, <3>1, <3>2
    <3> QED BY <1>3, <1>6, <3>2, <3>3 DEF WillGoBefore
  <2> QED BY <2>1, <2>2
<1>16. ASSUME NEW id, id # x
       PROVE  WillGoBefore(l, x, id) <=> id \in Resting(l) \ BeforeKey(l, key)
  <2>1. ASSUME WillGoBefore(l, x, id) PROVE id \in Resting(l) \ BeforeKey(l, key)
    <3>1. PICK i, k \in DOMAIN book'[l] : i < k /\ book'[l][i].id = x /\ book'[l][k].id = id
      BY <2>1 DEF WillGoBefore
    <3>2. i = p /\ k # p /\ ~(k < p)
      BY <1>3, <1>5, <1>6, <1>8, <1>16, <3>1
    <3>3. k - 1 \in DOMAIN book[l] /\ book[l][k - 1].id = id /\ ~(k - 1 < p)
      BY <1>3, <1>5, <1>6, <1>8, <3>1, <3>2
    <3> QED BY <1>13, <3>3 DEF Resting
  <2>2. ASSUME id \in Resting(l) \ BeforeKey(l, key) PROVE WillGoBefore(l, x, id)
    <3>1. PICK j \in DOMAIN book[l] : book[l][j].id = id
      BY <2>2 DEF Resting
    <3>2. ~(j < p)
      BY <1>13, <2>2, <3>1
    <3>3. j + 1 \in DOMAIN book'[l] /\ book'[l][j + 1].id = id /\ p < j + 1
      BY <1>3, <1>6, <1>7, <3>1, <3>2
    <3> QED BY <1>3, <1>6, <3>3 DEF WillGoBefore
  <2> QED BY <2>1, <2>2
<1>17. restingOrders' = [restingOrders EXCEPT ![l] = @ \cup {x}]
  <2>1. Resting(l)' = Resting(l) \cup {x}
    <3>1. \A id : id \in Resting(l) <=> Holds(l, id)
      BY DEF Resting, Holds
    <3>2. \A id : id \in Resting(l)' <=> WillHold(l, id)
      BY DEF Resting, WillHold
    <3> QED BY <1>9, <3>1, <3>2
  <2>2. \A m \in {"buy", "sell"} : m # l => Resting(m)' = Resting(m)
    BY <1>10 DEF Resting
  <2> QED BY <2>1, <2>2 DEF restingOrders
<1>18. aheadInList' = [j \in Ids |-> IF j = x THEN BeforeKey(l, key)
                                     ELSE IF j \in Resting(l) \ BeforeKey(l, key)
                                            THEN aheadInList[j] \cup {x}
                                     ELSE aheadInList[j]]
  <2> SUFFICES ASSUME NEW id \in Ids
               PROVE  aheadInList'[id] = IF id = x THEN BeforeKey(l, key)
                                         ELSE IF id \in Resting(l) \ BeforeKey(l, key)
                                                THEN aheadInList[id] \cup {x}
                                         ELSE aheadInList[id]
    BY DEF aheadInList
  <2>1. PICK m \in {"buy", "sell"} : m # l
    OBVIOUS
  <2>2. /\ \A y : y \in aheadInList[id] <=> GoesBefore(l, y, id) \/ GoesBefore(m, y, id)
        /\ \A y : y \in aheadInList'[id] <=> WillGoBefore(l, y, id) \/ WillGoBefore(m, y, id)
    <3>1. /\ \A y : y \in aheadInList[id] <=> GoesBefore("buy", y, id) \/ GoesBefore("sell", y, id)
          /\ \A y : y \in aheadInList'[id] <=> WillGoBefore("buy", y, id) \/ WillGoBefore("sell", y, id)
      BY AheadMeans DEF aheadInList
    <3>2. (l = "buy" /\ m = "sell") \/ (l = "sell" /\ m = "buy")
      BY <2>1
    <3> QED BY <3>1, <3>2
  <2>3. \A y : WillGoBefore(m, y, id) <=> GoesBefore(m, y, id)
    BY <1>10, <2>1
  <2>4. \A y : ~GoesBefore(m, y, x) /\ ~GoesBefore(m, x, y)
    BY <1>10, <2>1
  <2>5. ~GoesBefore(l, x, id)
    BY <1>0 DEF GoesBefore, Holds
  <2>6. CASE id = x
    <3>1. \A y : y \in aheadInList'[id] <=> y \in BeforeKey(l, key)
      BY <1>15, <2>2, <2>3, <2>4, <2>6
    <3> QED BY <2>6, <3>1
  <2>7. CASE id # x
    <3>1. \A y : y # x => (WillGoBefore(l, y, id) <=> GoesBefore(l, y, id))
      BY <1>14, <2>7
    <3>2. \A y : y # x => (y \in aheadInList'[id] <=> y \in aheadInList[id])
      BY <2>2, <2>3, <3>1
    <3>3. x \notin aheadInList[id] /\ (x \in aheadInList'[id] <=> id \in Resting(l) \ BeforeKey(l, key))
      BY <1>16, <2>2, <2>3, <2>4, <2>5, <2>7
    <3>4. CASE id \in Resting(l) \ BeforeKey(l, key)
      <4>1. \A y : y \in aheadInList'[id] <=> y \in aheadInList[id] \cup {x}
        BY <3>2, <3>3, <3>4
      <4> QED BY <2>7, <3>4, <4>1
    <3>5. CASE id \notin Resting(l) \ BeforeKey(l, key)
      <4>1. \A y : y \in aheadInList'[id] <=> y \in aheadInList[id]
        BY <3>2, <3>3, <3>5
      <4>2. aheadInList'[id] = aheadInList[id]
        <5>1. aheadInList[id] = AheadIn("buy", id) \cup AheadIn("sell", id)
          BY DEF aheadInList
        <5>2. aheadInList'[id] = AheadIn("buy", id)' \cup AheadIn("sell", id)'
          BY DEF aheadInList
        <5> QED BY <4>1, <5>1, <5>2
      <4> QED BY <2>7, <3>5, <4>2
    <3> QED BY <3>4, <3>5
  <2> QED BY <2>6, <2>7
<1>19. \A m \in {"buy", "sell"} : WillHold(m, x) <=> m = l
  BY <1>9, <1>10
<1>20. ASSUME NEW id \in Ids \ {x} PROVE KeepsPlace(id)
  BY <1>9, <1>10, <1>11 DEF KeepsPlace
<1> QED BY <1>12, <1>17, <1>18, <1>19, <1>20 DEF Put

-----------------------------------------------------------------------------
(* An order that neither the list nor the calls nor a change of its terms  *)
(* concerns is the same for the market.                                    *)
SameTrader(id) ==
  /\ KeepsPlace(id)
  /\ WillArrive(id) <=> Arrives(id)
  /\ Arrives(id) => /\ order'[id].side = order[id].side /\ order'[id].type = order[id].type
                    /\ order'[id].price = order[id].price
  /\ Trading(id) => ActualPending(order'[id]) = ActualPending(order[id])

SameInMarket(id) ==
  /\ openQuantity'[id] = openQuantity[id] /\ limitPrice'[id] = limitPrice[id]
  /\ \A l \in {"buy", "sell"} : ComesIn(l, id)' <=> ComesIn(l, id)

(* Who trades, with what and at which limit, now and after a step.         *)
LEMMA TraderNow ==
  ASSUME PlacesInv, NEW id \in Ids
  PROVE  /\ Trading(id) <=> Holds("buy", id) \/ Holds("sell", id) \/ Arrives(id)
         /\ openQuantity[id] = IF Trading(id) THEN ActualPending(order[id]) ELSE 0
         /\ limitPrice[id] = LimitOf(id)
<1>1. SideOf(id) \in {"buy", "sell"}
  BY DEF SideOf, ListOf
<1>2. (\E l \in {"buy", "sell"} : ComesIn(l, id)) <=> Arrives(id)
  BY <1>1, ArrivesIn
<1> QED BY <1>2 DEF Trading, openQuantity, limitPrice

WillTrade(id) == WillHold("buy", id) \/ WillHold("sell", id) \/ WillArrive(id)

WillLimit(id) ==
  IF WillHold("buy", id) THEN KeyIn("buy", id)'
  ELSE IF WillHold("sell", id) THEN KeyIn("sell", id)'
  ELSE IF WillTrade(id) /\ order'[id].type # "MARKET" THEN order'[id].price ELSE None

LEMMA TraderThen ==
  ASSUME PlacesInv', NEW id \in Ids
  PROVE  /\ openQuantity'[id] = IF WillTrade(id) THEN ActualPending(order'[id]) ELSE 0
         /\ limitPrice'[id] = WillLimit(id)
<1>1. ListOf(order'[id].side) \in {"buy", "sell"}
  BY DEF ListOf
<1>2. (\E l \in {"buy", "sell"} : ComesIn(l, id)') <=> WillArrive(id)
  BY <1>1, WillArriveIn
<1>3. Trading(id)' <=> WillTrade(id)
  BY <1>2 DEF Trading, WillTrade, Holds, WillHold
<1>4. openQuantity'[id] = IF WillTrade(id) THEN ActualPending(order'[id]) ELSE 0
  BY <1>3 DEF openQuantity, ActualPending
<1>5. LimitOf(id)' = WillLimit(id)
  BY <1>3 DEF LimitOf, WillLimit, Holds, WillHold
<1> QED BY <1>4, <1>5 DEF limitPrice

LEMMA SameTraders ==
  ASSUME PlacesInv, PlacesInv', NEW id \in Ids, SameTrader(id)
  PROVE  SameInMarket(id)
<1>1. WillTrade(id) <=> Trading(id)
  BY TraderNow DEF SameTrader, KeepsPlace, WillTrade
<1>2. openQuantity'[id] = openQuantity[id]
  BY <1>1, TraderNow, TraderThen DEF SameTrader
<1>3. limitPrice'[id] = limitPrice[id]
  <2>1. CASE Holds("buy", id)
    BY <2>1, TraderNow, TraderThen DEF SameTrader, KeepsPlace, LimitOf, WillLimit
  <2>2. CASE ~Holds("buy", id) /\ Holds("sell", id)
    BY <2>2, TraderNow, TraderThen DEF SameTrader, KeepsPlace, LimitOf, WillLimit
  <2>3. CASE ~Holds("buy", id) /\ ~Holds("sell", id)
    <3>1. Trading(id) => order'[id].type = order[id].type /\ order'[id].price = order[id].price
      BY <2>3, TraderNow DEF SameTrader
    <3> QED BY <1>1, <2>3, <3>1, TraderNow, TraderThen DEF SameTrader, KeepsPlace, LimitOf, WillLimit
  <2> QED BY <2>1, <2>2, <2>3
<1>4. \A l \in {"buy", "sell"} : ComesIn(l, id)' <=> ComesIn(l, id)
  BY ArrivesIn, WillArriveIn DEF SameTrader, SideOf
<1> QED BY <1>2, <1>3, <1>4 DEF SameInMarket

(* The sets of incoming orders.                                            *)
LEMMA IncomingStays ==
  ASSUME \A l \in {"buy", "sell"}, id \in Ids : ComesIn(l, id)' <=> ComesIn(l, id)
  PROVE  incomingOrders' = incomingOrders
<1>1. incomingOrders' = [s \in {"buy", "sell"} |-> {id \in Ids : ComesIn(s, id)'}]
  BY DEF incomingOrders
<1> QED BY <1>1 DEF incomingOrders

LEMMA IncomingGains ==
  ASSUME NEW l \in {"buy", "sell"}, NEW x \in Ids, \A id \in Ids \ {x} : SameInMarket(id),
         \A m \in {"buy", "sell"} : ~ComesIn(m, x) /\ (ComesIn(m, x)' <=> m = l)
  PROVE  incomingOrders' = [incomingOrders EXCEPT ![l] = @ \cup {x}]
<1>1. incomingOrders' = [s \in {"buy", "sell"} |-> {id \in Ids : ComesIn(s, id)'}]
  BY DEF incomingOrders
<1>2. ASSUME NEW m \in {"buy", "sell"}, m # l
      PROVE  {id \in Ids : ComesIn(m, id)'} = {id \in Ids : ComesIn(m, id)}
  BY <1>2 DEF SameInMarket
<1>3. {id \in Ids : ComesIn(l, id)'} = {id \in Ids : ComesIn(l, id)} \cup {x}
  BY DEF SameInMarket
<1> QED BY <1>1, <1>2, <1>3 DEF incomingOrders

LEMMA IncomingLoses ==
  ASSUME NEW l \in {"buy", "sell"}, NEW x \in Ids,
         \A id \in Ids \ {x} : \A m \in {"buy", "sell"} : ComesIn(m, id)' <=> ComesIn(m, id),
         \A m \in {"buy", "sell"} : ~ComesIn(m, x)' /\ (ComesIn(m, x) => m = l)
  PROVE  incomingOrders' = [incomingOrders EXCEPT ![l] = @ \ {x}]
<1>1. incomingOrders' = [s \in {"buy", "sell"} |-> {id \in Ids : ComesIn(s, id)'}]
  BY DEF incomingOrders
<1>2. ASSUME NEW m \in {"buy", "sell"}, m # l
      PROVE  {id \in Ids : ComesIn(m, id)'} = {id \in Ids : ComesIn(m, id)}
  BY <1>2
<1>3. {id \in Ids : ComesIn(l, id)'} = {id \in Ids : ComesIn(l, id)} \ {x}
  OBVIOUS
<1> QED BY <1>1, <1>2, <1>3 DEF incomingOrders

-----------------------------------------------------------------------------
(* The shapes of the steps of the market.                                  *)
LEMMA Observed ==
  /\ \A f \in {openQuantity, limitPrice, aheadInList} : f = [id \in Ids |-> f[id]]
  /\ openQuantity' = [id \in Ids |-> openQuantity'[id]]
  /\ limitPrice' = [id \in Ids |-> limitPrice'[id]]
  /\ aheadInList' = [id \in Ids |-> aheadInList'[id]]
  /\ DOMAIN restingOrders = {"buy", "sell"} /\ DOMAIN incomingOrders = {"buy", "sell"}
  /\ \A l \in {"buy", "sell"} :
       restingOrders[l] = Resting(l) /\ incomingOrders[l] = {id \in Ids : ComesIn(l, id)}
BY DEF openQuantity, limitPrice, aheadInList, restingOrders, incomingOrders

LEMMA RestingHolds ==
  ASSUME NEW l, NEW id
  PROVE  id \in Resting(l) <=> Holds(l, id)
BY DEF Resting, Holds

NoTrade == ltp' = ltp /\ volume' = volume

OthersSame(x) == \A id \in Ids \ {x} : SameTrader(id)

LEMMA Stutters ==
  ASSUME PlacesInv, PlacesInv', SameLists, \A id \in Ids : SameTrader(id), NoTrade
  PROVE  UNCHANGED Market!vars
<1>1. \A id \in Ids : SameInMarket(id)
  BY SameTraders
<1>2. incomingOrders' = incomingOrders
  BY <1>1, IncomingStays DEF SameInMarket
<1>3. openQuantity' = openQuantity /\ limitPrice' = limitPrice
  BY <1>1, Observed DEF SameInMarket
<1> QED BY <1>2, <1>3 DEF SameLists, NoTrade, Market!vars

LEMMA Enters ==
  ASSUME TypeOK', PlacesInv, PlacesInv', SameLists, NoTrade, NEW x \in Ids, OthersSame(x),
         ~Holds("buy", x), ~Holds("sell", x), ~Arrives(x), WillArrive(x)
  PROVE  Market!Next
<1>1. PICK s \in {"buy", "sell"} : s = ListOf(order'[x].side)
  BY DEF ListOf
<1>2. \A id \in Ids \ {x} : SameInMarket(id)
  BY SameTraders DEF OthersSame
<1>3. incomingOrders' = [incomingOrders EXCEPT ![s] = @ \cup {x}]
  <2>1. \A m \in {"buy", "sell"} : ~ComesIn(m, x) /\ (ComesIn(m, x)' <=> m = s)
    BY <1>1, ArrivesIn, WillArriveIn
  <2> QED BY <1>2, <2>1, IncomingGains
<1>4. openQuantity[x] = 0 /\ openQuantity'[x] > 0
  <2>1. openQuantity[x] = 0
    BY TraderNow
  <2>2. openQuantity'[x] = ActualPending(order'[x])
    BY TraderThen DEF WillTrade
  <2> QED BY <2>1, <2>2 DEF WillArrive, Open
<1>5. Market!Enter(s, x)
  BY <1>2, <1>3, <1>4 DEF Market!Enter, Market!SameButFor, SameInMarket, SameLists, NoTrade
<1> QED BY <1>5 DEF Market!Next, Market!Sides

LEMMA Amends ==
  ASSUME TypeOK, TypeOK', PlacesInv, PlacesInv', SameLists, NoTrade, NEW x \in Ids, OthersSame(x),
         NEW l \in {"buy", "sell"}, Holds(l, x), ~Arrives(x), ~WillArrive(x),
         Open(order'[x])
  PROVE  [Market!Next]_Market!vars
<1>1. CASE ActualPending(order'[x]) = ActualPending(order[x])
  <2>1. SameTrader(x)
    BY <1>1 DEF SameTrader, SameLists
  <2> QED BY <2>1, Stutters DEF OthersSame
<1>2. CASE ActualPending(order'[x]) # ActualPending(order[x])
  <2>1. \A id \in Ids \ {x} : SameInMarket(id)
    BY SameTraders DEF OthersSame
  <2>2. \A m \in {"buy", "sell"} : ~ComesIn(m, x) /\ ~ComesIn(m, x)'
    BY ArrivesIn, WillArriveIn
  <2>3. incomingOrders' = incomingOrders
    BY <2>1, <2>2, IncomingStays DEF SameInMarket
  <2>4. openQuantity[x] = ActualPending(order[x]) /\ openQuantity'[x] = ActualPending(order'[x])
    BY TraderNow, TraderThen DEF SameLists, KeepsPlace, WillTrade
  <2>5. openQuantity'[x] > 0
    BY <2>4 DEF Open
  <2>6. limitPrice'[x] = limitPrice[x]
    BY TraderNow, TraderThen DEF SameLists, KeepsPlace, LimitOf, WillLimit
  <2>7. limitPrice' = limitPrice
    BY <2>1, <2>6, Observed DEF SameInMarket
  <2>8. Market!Amend(l, x)
    BY <2>1, <2>3, <2>5, <2>7 DEF Market!Amend, Market!SameButFor, SameInMarket, SameLists, NoTrade
  <2>9. x \in restingOrders[l]
    BY Observed, RestingHolds
  <2> QED BY <2>8, <2>9 DEF Market!Next, Market!Sides
<1> QED BY <1>1, <1>2

LEMMA Requeues ==
  ASSUME PlacesInv, PlacesInv', NoTrade, NEW x \in Ids, OthersSame(x),
         NEW l \in {"buy", "sell"}, Taken(l, x), ~Arrives(x), WillArrive(x),
         ListOf(order'[x].side) = l, ActualPending(order'[x]) = ActualPending(order[x])
  PROVE  Market!Next
<1>1. \A id \in Ids \ {x} : SameInMarket(id)
  BY SameTraders DEF OthersSame
<1>2. incomingOrders' = [incomingOrders EXCEPT ![l] = @ \cup {x}]
  <2>1. \A m \in {"buy", "sell"} : ~ComesIn(m, x) /\ (ComesIn(m, x)' <=> m = l)
    BY ArrivesIn, WillArriveIn
  <2> QED BY <1>1, <2>1, IncomingGains
<1>3. openQuantity'[x] = openQuantity[x]
  BY TraderNow, TraderThen DEF Taken, WillTrade
<1>4. openQuantity' = openQuantity
  BY <1>1, <1>3, Observed DEF SameInMarket
<1>5. Market!Requeue(l, x)
  BY <1>1, <1>2, <1>4 DEF Market!Requeue, Market!SameButFor, SameInMarket, Taken, NoTrade
<1>6. x \in restingOrders[l]
  BY Observed, RestingHolds DEF Taken
<1> QED BY <1>5, <1>6 DEF Market!Next, Market!Sides

(* An order that is gone has nothing left and no limit.                    *)
LEMMA GoneTrader ==
  ASSUME PlacesInv', NEW x \in Ids, ~WillTrade(x), \A id \in Ids \ {x} : SameInMarket(id)
  PROVE  /\ openQuantity'[x] = 0 /\ Market!SameButFor(x, openQuantity, openQuantity')
         /\ limitPrice' = [limitPrice EXCEPT ![x] = None]
<1>1. openQuantity'[x] = 0 /\ limitPrice'[x] = None
  BY TraderThen DEF WillTrade, WillLimit
<1> QED BY <1>1, Observed DEF SameInMarket, Market!SameButFor

LEMMA Withdraws ==
  ASSUME PlacesInv, PlacesInv', NoTrade, NEW x \in Ids, OthersSame(x),
         NEW l \in {"buy", "sell"}, Taken(l, x), ~Arrives(x), ~WillArrive(x)
  PROVE  Market!Next
<1>1. \A id \in Ids \ {x} : SameInMarket(id)
  BY SameTraders DEF OthersSame
<1>2. incomingOrders' = [incomingOrders EXCEPT ![l] = @ \ {x}]
  <2>1. \A m \in {"buy", "sell"} : ~ComesIn(m, x)' /\ (ComesIn(m, x) => m = l)
    BY ArrivesIn, WillArriveIn
  <2> QED BY <1>1, <2>1, IncomingLoses DEF SameInMarket
<1>3. ~WillTrade(x)
  BY DEF Taken, WillTrade
<1>4. Market!Leave(l, x)
  BY <1>1, <1>2, <1>3, GoneTrader DEF Market!Leave, Taken, NoTrade
<1>5. x \in restingOrders[l]
  BY Observed, RestingHolds DEF Taken
<1> QED BY <1>4, <1>5 DEF Market!Next, Market!Sides

LEMMA Drops ==
  ASSUME PlacesInv, PlacesInv', SameLists, NoTrade, NEW x \in Ids, OthersSame(x),
         ~Holds("buy", x), ~Holds("sell", x), Arrives(x), ~WillArrive(x)
  PROVE  Market!Next
<1>1. PICK s \in {"buy", "sell"} : s = SideOf(x)
  BY DEF SideOf, ListOf
<1>2. \A id \in Ids \ {x} : SameInMarket(id)
  BY SameTraders DEF OthersSame
<1>3. incomingOrders' = [incomingOrders EXCEPT ![s] = @ \ {x}] /\ x \in incomingOrders[s]
  <2>1. \A m \in {"buy", "sell"} : ~ComesIn(m, x)' /\ (ComesIn(m, x) <=> m = s)
    BY <1>1, ArrivesIn, WillArriveIn
  <2> QED BY <1>2, <2>1, IncomingLoses, Observed DEF SameInMarket
<1>4. ~WillTrade(x)
  BY DEF SameLists, KeepsPlace, WillTrade
<1>5. restingOrders' = [restingOrders EXCEPT ![s] = @ \ {x}]
  <2>1. x \notin restingOrders[s]
    BY Observed, RestingHolds
  <2>2. [restingOrders EXCEPT ![s] = @ \ {x}] = restingOrders
    BY <2>1 DEF restingOrders
  <2> QED BY <2>2 DEF SameLists
<1>6. aheadInList' = Market!Without(x)
  <2>1. ASSUME NEW j \in Ids PROVE aheadInList[j] = IF j = x THEN {} ELSE aheadInList[j] \ {x}
    <3>1. \A y : y \in aheadInList[j] <=> GoesBefore("buy", y, j) \/ GoesBefore("sell", y, j)
      BY AheadMeans DEF aheadInList
    <3>2. /\ ~GoesBefore("buy", x, j) /\ ~GoesBefore("sell", x, j)
          /\ j = x => \A y : ~GoesBefore("buy", y, j) /\ ~GoesBefore("sell", y, j)
      BY DEF GoesBefore, Holds
    <3>3. x \notin aheadInList[j] /\ (j = x => \A y : y \notin aheadInList[j])
      BY <3>1, <3>2
    <3> QED BY <3>3
  <2>2. aheadInList = [j \in Ids |-> aheadInList[j]]
    BY Observed
  <2>3. Market!Without(x) = aheadInList
    BY <2>1, <2>2 DEF Market!Without
  <2> QED BY <2>3 DEF SameLists
<1>7. Market!Leave(s, x)
  BY <1>2, <1>3, <1>4, <1>5, <1>6, GoneTrader DEF Market!Leave, NoTrade
<1> QED BY <1>3, <1>7 DEF Market!Next, Market!Sides

-----------------------------------------------------------------------------
(* Which step of the market each operation is.                             *)
MarketStep == [Market!Next]_Market!vars

LEMMA SameTraderBy ==
  ASSUME NEW id, KeepsPlace(id), order'[id] = order[id], WillBePlaced(id) <=> BeingPlaced(id)
  PROVE  SameTrader(id)
BY DEF SameTrader, WillArrive, Arrives

(* A resting order is open, not on its way, and in a list of its side.     *)
LEMMA HeldTrader ==
  ASSUME PlacesInv, WorkInv, NEW id \in Ids, NEW l \in Lists, Holds(l, id)
  PROVE  /\ ~BeingPlaced(id) /\ ~Arrives(id) /\ Open(order[id]) /\ SideOf(id) = RestSide(l)
         /\ \A m \in {"buy", "sell"} : m # l => ~Holds(m, id)
<1>1. Held(id) /\ ~BeingPlaced(id)
  BY HomesOfIds DEF Held
<1>2. Open(order[id])
  BY <1>1 DEF WorkInv, IdInv
<1>3. SideOf(id) = RestSide(l)
  BY DEF Holds, PlacesInv, CurrentInv, EntriesInv, SideOf
<1>4. \A m \in {"buy", "sell"} : m # l => ~Holds(m, id)
  BY DEF Holds, PlacesInv, HomeInv, Distinct, Lists
<1> QED BY <1>1, <1>2, <1>3, <1>4 DEF Arrives

LEMMA UnheldTrader ==
  ASSUME NEW id, ~Held(id)
  PROVE  ~Holds("buy", id) /\ ~Holds("sell", id)
BY DEF Held, Lists

LEMMA QuietMarket ==
  ASSUME PlacesInv, PlacesInv', book' = book, order' = order, NoTrade,
         \A id \in Ids : WillBePlaced(id) <=> BeingPlaced(id)
  PROVE  MarketStep
<1>1. SameLists
  BY ListsStay
<1>2. \A id \in Ids : SameTrader(id)
  BY <1>1, SameTraderBy DEF SameLists
<1> QED BY <1>1, <1>2, Stutters DEF MarketStep

(* An order taken off its list is withdrawn, or nothing if it was a stop.  *)
LEMMA TakenMarket ==
  ASSUME PlacesInv, PlacesInv', WorkInv, NEW l \in Lists, NEW x \in Ids, Holds(l, x),
         IF l \in {"buy", "sell"} THEN Taken(l, x) ELSE SameLists,
         order' = order, NoTrade, \A id \in Ids : WillBePlaced(id) <=> BeingPlaced(id)
  PROVE  MarketStep
<1>1. CASE l \in {"buy", "sell"}
  <2>1. OthersSame(x)
    BY <1>1, SameTraderBy DEF OthersSame, Taken
  <2>2. ~Arrives(x) /\ ~WillArrive(x)
    BY HeldTrader DEF WillArrive
  <2> QED BY <1>1, <2>1, <2>2, Withdraws DEF MarketStep
<1>2. CASE l \notin {"buy", "sell"}
  <2>1. \A id \in Ids : SameTrader(id)
    BY <1>2, SameTraderBy DEF SameLists
  <2> QED BY <1>2, <2>1, Stutters DEF MarketStep
<1> QED BY <1>1, <1>2

LEMMA InsertMarket ==
  ASSUME PositiveOrders, TypeOK, TypeOK', PlacesInv, PlacesInv', WorkInv, NEW t \in Threads,
         NEW x \in Ids, NEW o \in NewOrders, Insert(t, x, o) \/ InsertWhenClosed(t, x, o)
  PROVE  MarketStep
<1>1. status[x] = "NONE" /\ order' = [order EXCEPT ![x] = o] /\ book' = book /\ NoTrade
  BY DEF Insert, InsertWhenClosed, NoTrade
<1>2. order'[x] = o /\ \A id \in Ids \ {x} : order'[id] = order[id]
  BY <1>1 DEF TypeOK
<1>3. ~Held(x) /\ ~BeingPlaced(x) /\ Open(o)
  BY <1>1, HomesOfIds, NewWork
<1>4. SameLists /\ ~Holds("buy", x) /\ ~Holds("sell", x) /\ ~Arrives(x) /\ ~Trading(x)
  <2>1. SameLists /\ ~Holds("buy", x) /\ ~Holds("sell", x) /\ ~Arrives(x)
    BY <1>1, <1>3, ListsStay, UnheldTrader DEF Arrives
  <2> QED BY <2>1, TraderNow
<1>5. CASE Insert(t, x, o)
  <2>1. \A id : WillBePlaced(id) <=> BeingPlaced(id) \/ id = x
    BY <1>5, InsertPlaced
  <2>2. OthersSame(x)
    BY <1>2, <1>4, <2>1, SameTraderBy DEF OthersSame, SameLists
  <2>3. CASE IsStop(o.type)
    <3>1. SameTrader(x)
      BY <1>2, <1>4, <2>3 DEF SameTrader, SameLists, WillArrive
    <3> QED BY <1>1, <1>4, <2>2, <3>1, Stutters DEF OthersSame, MarketStep
  <2>4. CASE ~IsStop(o.type)
    <3>1. WillArrive(x)
      BY <1>2, <1>3, <2>1, <2>4 DEF WillArrive
    <3> QED BY <1>1, <1>4, <2>2, <3>1, Enters DEF MarketStep
  <2> QED BY <2>3, <2>4
<1>6. CASE InsertWhenClosed(t, x, o)
  <2>1. \A id : WillBePlaced(id) <=> BeingPlaced(id)
    BY <1>6, SamePlaced DEF InsertWhenClosed
  <2>2. SameTrader(x)
    BY <1>3, <1>4, <2>1 DEF SameTrader, SameLists, WillArrive
  <2>3. OthersSame(x)
    BY <1>2, <1>4, <2>1, SameTraderBy DEF OthersSame, SameLists
  <2> QED BY <1>1, <1>4, <2>2, <2>3, Stutters DEF OthersSame, MarketStep
<1> QED BY <1>5, <1>6

LEMMA ReplaceMarket ==
  ASSUME TypeOK, TypeOK', PlacesInv, PlacesInv', WorkInv, NEW t \in Threads, NEW x \in Ids,
         NEW o \in ReplaceOrders,
         ReplaceKept(t, x, o) \/ ReplaceMoved(t, x, o) \/ ReplaceRejected(t, x, o)
  PROVE  MarketStep
<1>1. book' = book /\ NoTrade /\ o \in OrderRecord
  BY OrdersAssumption DEF ReplaceKept, ReplaceMoved, ReplaceRejected, NoTrade
<1>2. \A id : WillBePlaced(id) <=> BeingPlaced(id)
  BY ReplacePlaced
<1>3. CASE ReplaceRejected(t, x, o)
  BY <1>1, <1>2, <1>3, QuietMarket DEF ReplaceRejected
<1>4. CASE ReplaceKept(t, x, o) \/ ReplaceMoved(t, x, o)
  <2>1. PICK l \in Lists : l = Found(x, ListOf(o.side))
    BY ListTypes DEF Found
  <2>2. order' = [order EXCEPT ![x] = ReplacedOrder(@, o)] /\ Holds(l, x) /\ CanReplace(order[x], o)
    BY <1>4, <2>1 DEF ReplaceKept, ReplaceMoved, CanReplaceIn
  <2>3. order'[x] = ReplacedOrder(order[x], o) /\ \A id \in Ids \ {x} : order'[id] = order[id]
    BY <2>2 DEF TypeOK
  <2>4. Open(order'[x])
    BY <1>1, <2>2, <2>3, ReplaceSound DEF TypeOK, WorkInv, IdInv
  <2>5. /\ ~Arrives(x) /\ ~WillArrive(x)
        /\ \A m \in {"buy", "sell"} : m # l => ~Holds(m, x)
    BY <1>2, <2>2, HeldTrader DEF WillArrive
  <2>6. SameLists
    BY <1>1, ListsStay
  <2>7. OthersSame(x)
    BY <1>2, <2>3, <2>6, SameTraderBy DEF OthersSame, SameLists
  <2>8. CASE l \in {"buy", "sell"}
    BY <1>1, <2>2, <2>4, <2>5, <2>6, <2>7, <2>8, Amends DEF MarketStep
  <2>9. CASE l \notin {"buy", "sell"}
    <3>1. SameTrader(x)
      BY <2>5, <2>6, <2>9, TraderNow DEF SameTrader, SameLists
    <3> QED BY <1>1, <2>6, <2>7, <3>1, Stutters DEF OthersSame, MarketStep
  <2> QED BY <2>8, <2>9
<1> QED BY <1>3, <1>4

LEMMA CancelMarket ==
  ASSUME TypeOK, TypeOK', PlacesInv, PlacesInv', WorkInv, NEW t \in Threads, NEW x \in Ids,
         NEW o \in CancelOrders, Cancel(t, x, o) \/ CancelRejected(t, x, o)
  PROVE  MarketStep
<1>1. order' = order /\ NoTrade /\ \A id : WillBePlaced(id) <=> BeingPlaced(id)
  BY SamePlaced DEF Cancel, CancelRejected, NoTrade
<1>2. CASE Cancel(t, x, o)
  <2>1. PICK l \in Lists : l = CancelList(o)
    BY ListTypes DEF CancelList
  <2>2. EraseFrom(l, x) /\ Holds(l, x)
    BY <1>2, <2>1 DEF Cancel, EraseFrom, Holds
  <2>3. IF l \in {"buy", "sell"} THEN Taken(l, x) ELSE SameLists
    BY <2>2, EraseTakes DEF PlacesInv, HomeInv
  <2> QED BY <1>1, <2>2, <2>3, TakenMarket
<1>3. CASE CancelRejected(t, x, o)
  BY <1>1, <1>3, QuietMarket DEF CancelRejected
<1> QED BY <1>2, <1>3
LEMMA RejectedMarket ==
  ASSUME PlacesInv, PlacesInv', NEW t, NEW x, NEW o, ReplaceWhenClosed(t, x, o)
  PROVE  MarketStep
<1>1. book' = book /\ order' = order /\ stack' = stack /\ NoTrade
  BY DEF ReplaceWhenClosed, NoTrade
<1> QED BY <1>1, SamePlaced, QuietMarket

LEMMA CommandMarket ==
  ASSUME TypeOK, PlacesInv, PlacesInv', NEW t \in Threads, Command(t)
  PROVE  MarketStep
<1>1. NoTrade
  BY DEF Command, Stop, Start, NoTrade
<1> QED BY <1>1, CommandPlaced, QuietMarket

LEMMA QuietCallMarket ==
  ASSUME TypeOK, TypeOK', PlacesInv, PlacesInv', NEW t \in Threads,
         \/ MoveRejected(t) \/ Lock(t) \/ Match(t) \/ MatchEnds(t) \/ FillEmptied(t)
         \/ TriggerSells(t) \/ TriggerEnds(t) \/ IocNotFound(t)
         \/ RequestEnds(t) \/ CancelNext(t) \/ StopEnds(t)
  PROVE  MarketStep
<1>1. NoTrade
  BY DEF MoveRejected, Lock, Match, MatchEnds, FillEmptied, TriggerSells, TriggerEnds, IocNotFound,
         RequestEnds, CancelNext, StopEnds, NoTrade
<1>2. order' = order /\ book' = book /\ \A id : WillBePlaced(id) <=> BeingPlaced(id)
  BY QuietPlaced
<1> QED BY <1>1, <1>2, QuietMarket

(* The order that a call is placing.                                       *)
LEMMA TopTrader ==
  ASSUME TypeOK, PlacesInv, NEW t \in Threads, ~Idle(t), Placing(Top(t)), Top(t).id \in Ids
  PROVE  /\ SideOf(Top(t).id) = Top(t).list
         /\ Top(t).pc = "stop" <=> IsStop(order[Top(t).id].type)
         /\ BeingPlaced(Top(t).id) /\ ~Held(Top(t).id)
         /\ ~Holds("buy", Top(t).id) /\ ~Holds("sell", Top(t).id)
<1>1. Len(stack[t]) \in DOMAIN stack[t] /\ stack[t][Len(stack[t])] = Top(t)
  BY TopType DEF Top
<1>2. SideOf(Top(t).id) = Top(t).list /\ (Top(t).pc = "stop" <=> IsStop(order[Top(t).id].type))
  BY <1>1 DEF PlacesInv, CurrentInv, FramesInv, SideOf
<1>3. BeingPlaced(Top(t).id) /\ ~Held(Top(t).id)
  BY TopPlacing, HomesOfIds
<1> QED BY <1>2, <1>3, UnheldTrader

LEMMA EndMarket ==
  ASSUME TypeOK, TypeOK', PlacesInv, PlacesInv', NEW t \in Threads,
         RestDone(t) \/ RestCanceled(t) \/ StopRests(t)
  PROVE  MarketStep
<1>1. PICK x \in Ids : /\ x = Top(t).id /\ ~Idle(t) /\ Placing(Top(t)) /\ Apart /\ Return(t)
                       /\ order' = order /\ NoTrade
  <2>1. /\ At(t, "rest") \/ At(t, "stop")
        /\ Return(t) /\ Apart /\ order' = order /\ NoTrade
    BY DEF RestDone, RestCanceled, StopRests, NoTrade, PlacesInv, HomeInv
  <2> QED BY <2>1, AtType DEF Placing
<1>2. \A id : WillBePlaced(id) <=> BeingPlaced(id) /\ id # x
  BY <1>1, ReturnPlaced DEF ToPlace
<1>3. ~Holds("buy", x) /\ ~Holds("sell", x)
  BY <1>1, TopTrader
<1>4. SameLists
  <2>1. CASE RestDone(t) \/ RestCanceled(t)
    BY <2>1, ListsStay DEF RestDone, RestCanceled
  <2>2. CASE StopRests(t)
    <3>1. \E s : book' = [book EXCEPT ![StopList(Top(t).list)] = s]
      BY <2>2 DEF StopRests, InsertInto
    <3>2. StopList(Top(t).list) \notin {"buy", "sell"}
      BY ListTypes
    <3>3. \A l \in {"buy", "sell"} : book'[l] = book[l]
      BY <3>1, <3>2 DEF TypeOK, Lists
    <3> QED BY <3>3, ListsStay
  <2> QED BY <2>1, <2>2
<1>5. OthersSame(x)
  BY <1>1, <1>2, <1>4, SameTraderBy DEF OthersSame, SameLists
<1>6. ~WillArrive(x)
  BY <1>2 DEF WillArrive
<1>7. CASE Arrives(x)
  BY <1>1, <1>3, <1>4, <1>5, <1>6, <1>7, Drops DEF MarketStep
<1>8. CASE ~Arrives(x)
  <2>1. SameTrader(x)
    BY <1>1, <1>4, <1>6, <1>8 DEF SameTrader, SameLists
  <2> QED BY <1>1, <1>4, <1>5, <2>1, Stutters DEF OthersSame, MarketStep
<1> QED BY <1>7, <1>8

LEMMA CanceledMarket ==
  ASSUME TypeOK, TypeOK', PlacesInv, PlacesInv', WorkInv, NEW t \in Threads,
         IocCancels(t) \/ CancelFirst(t)
  PROVE  MarketStep
<1>0. Apart /\ Distinct /\ Distinct' /\ order' = order /\ NoTrade
  BY DEF PlacesInv, HomeInv, IocCancels, CancelFirst, NoTrade
<1>1. CASE IocCancels(t)
  <2>1. PICK l \in Lists, x \in Ids :
          /\ ~Idle(t) /\ ~Placing(Top(t)) /\ EraseFrom(l, x) /\ Goto(t, Frame("changed", x, l))
    BY <1>1, AtType DEF IocCancels, Placing
  <2>2. ~Placing(Frame("changed", x, l))
    BY DEF Placing, Frame
  <2>3. \A id : WillBePlaced(id) <=> BeingPlaced(id)
    BY <1>0, <2>1, <2>2, GotoPlaced DEF ToPlace
  <2>4. Holds(l, x)
    BY <2>1 DEF EraseFrom, Holds
  <2> QED BY <1>0, <2>1, <2>3, <2>4, EraseTakes, TakenMarket
<1>2. CASE CancelFirst(t)
  <2>1. PICK l \in Lists : book[l] # <<>> /\ book' = [book EXCEPT ![l] = Tail(@)] /\ stack' = stack
    BY <1>2, AtType DEF CancelFirst
  <2>2. First(l) \in Ids /\ Holds(l, First(l))
    BY <2>1, FirstType, BookTypes, TailElements DEF First, Holds
  <2>3. \A id : WillBePlaced(id) <=> BeingPlaced(id)
    BY <2>1, SamePlaced
  <2> QED BY <1>0, <2>1, <2>2, <2>3, TailTakes, TakenMarket
<1> QED BY <1>1, <1>2

LEMMA MoveMarket ==
  ASSUME TypeOK, TypeOK', PlacesInv, PlacesInv', WorkInv, NEW t \in Threads, Move(t)
  PROVE  MarketStep
<1>0. Apart /\ Distinct /\ Distinct' /\ order' = order /\ NoTrade
  BY DEF PlacesInv, HomeInv, Move, NoTrade
<1>1. PICK l \in Lists, x \in Ids :
        /\ ~Idle(t) /\ ~Placing(Top(t)) /\ EraseFrom(l, x)
        /\ Goto(t, Placement(x, RestSide(l), order[x].type))
  BY AtType DEF Move, Placing
<1>2. PICK g : g = Placement(x, RestSide(l), order[x].type)
  OBVIOUS
<1>3. Placing(g) /\ g.id = x
  BY <1>2, PlacementFields DEF Placing
<1>4. \A id : WillBePlaced(id) <=> BeingPlaced(id) \/ id = x
  BY <1>0, <1>1, <1>2, <1>3, GotoPlaced DEF ToPlace
<1>5. IF l \in {"buy", "sell"} THEN Taken(l, x) ELSE SameLists
  BY <1>0, <1>1, EraseTakes
<1>6. Holds(l, x)
  BY <1>1 DEF EraseFrom, Holds
<1>7. ~Arrives(x) /\ SideOf(x) = RestSide(l) /\ \A m \in {"buy", "sell"} : m # l => ~Holds(m, x)
  BY <1>6, HeldTrader
<1>8. OthersSame(x)
  BY <1>0, <1>4, <1>5, SameTraderBy DEF OthersSame, Taken, SameLists
<1>9. CASE l \in {"buy", "sell"}
  <2>1. Taken(l, x) /\ ListOf(order'[x].side) = l
    BY <1>0, <1>5, <1>7, <1>9 DEF SideOf, RestSide
  <2>2. CASE WillArrive(x)
    BY <1>0, <1>7, <1>8, <1>9, <2>1, <2>2, Requeues DEF MarketStep
  <2>3. CASE ~WillArrive(x)
    BY <1>0, <1>7, <1>8, <1>9, <2>1, <2>3, Withdraws DEF MarketStep
  <2> QED BY <2>2, <2>3
<1>10. CASE l \notin {"buy", "sell"}
  <2>1. SameLists /\ ~Holds("buy", x) /\ ~Holds("sell", x)
    BY <1>5, <1>7, <1>10
  <2>2. CASE WillArrive(x)
    BY <1>0, <1>7, <1>8, <2>1, <2>2, Enters DEF MarketStep
  <2>3. CASE ~WillArrive(x)
    <3>1. SameTrader(x)
      BY <1>0, <1>7, <2>1, <2>3 DEF SameTrader, SameLists
    <3> QED BY <1>0, <1>8, <2>1, <3>1, Stutters DEF OthersSame, MarketStep
  <2> QED BY <2>2, <2>3
<1> QED BY <1>9, <1>10

(* A triggered order comes into the market.                                *)
LEMMA TriggeredMarket ==
  ASSUME TypeOK, TypeOK', PlacesInv, PlacesInv', WorkInv, NEW t \in Threads,
         StopFires(t) \/ TriggerFirst(t)
  PROVE  MarketStep
<1>0. Apart /\ Distinct /\ Distinct' /\ NoTrade
  BY DEF PlacesInv, HomeInv, StopFires, TriggerFirst, NoTrade
<1>t. ASSUME NEW x \in Ids, order' = [order EXCEPT ![x] = TriggerOrder(@)], SameLists,
             ~Holds("buy", x), ~Holds("sell", x), ~Arrives(x), Open(order[x]),
             \A id : WillBePlaced(id) <=> BeingPlaced(id) \/ id = x
      PROVE  MarketStep
  <2>1. order'[x] = TriggerOrder(order[x]) /\ \A id \in Ids \ {x} : order'[id] = order[id]
    BY <1>t DEF TypeOK
  <2>2. order[x] \in OrderRecord /\ Sound(order[x])
    BY DEF TypeOK, WorkInv, IdInv
  <2>3. Open(order'[x]) /\ ~IsStop(order'[x].type)
    BY <1>t, <2>1, <2>2, TriggerSound, TriggerTerms DEF IsStop
  <2>4. WillArrive(x)
    BY <1>t, <2>3 DEF WillArrive
  <2>5. OthersSame(x)
    BY <1>t, <2>1, SameTraderBy DEF OthersSame, SameLists
  <2> QED BY <1>0, <1>t, <2>4, <2>5, Enters DEF MarketStep
<1>1. CASE StopFires(t)
  <2>1. PICK x \in Ids : /\ x = Top(t).id /\ ~Idle(t) /\ Placing(Top(t)) /\ Top(t).pc = "stop"
                         /\ Goto(t, Insertion(x, Top(t).list)) /\ book' = book
                         /\ order' = [order EXCEPT ![x] = TriggerOrder(@)]
    BY <1>1, AtType DEF StopFires, Placing
  <2>2. PICK g : g = Insertion(x, Top(t).list)
    OBVIOUS
  <2>3. Goto(t, g) /\ Placing(g) /\ g.id = x /\ Stopping(x)
    BY <2>1, <2>2, InsertionFields, TopPlacing DEF Placing
  <2>4. \A id : WillBePlaced(id) <=> BeingPlaced(id) \/ id = x
    BY <1>0, <2>1, <2>3, GotoPlaced DEF ToPlace
  <2>5. Open(order[x]) /\ IsStop(order[x].type) /\ ~Holds("buy", x) /\ ~Holds("sell", x)
    BY <2>1, <2>3, TopTrader DEF WorkInv, IdInv
  <2> QED BY <1>t, <2>1, <2>4, <2>5, ListsStay DEF Arrives
<1>2. CASE TriggerFirst(t)
  <2>1. PICK l \in {"stopBuy", "stopSell"} :
          /\ l = Top(t).list /\ book[l] # <<>> /\ book' = [book EXCEPT ![l] = Tail(@)]
          /\ order' = [order EXCEPT ![First(l)] = TriggerOrder(@)]
    BY <1>2, AtType DEF TriggerFirst, FirstTriggered
  <2>2. l \in Lists
    BY ListTypes
  <2>3. PICK x \in Ids : x = First(l)
    BY <2>1, <2>2, FirstType
  <2>4. PICK g \in FrameRecord : g = Insertion(x, RestList(l))
    BY FrameTypes, ListTypes
  <2>5. Call(t, g) /\ Placing(g) /\ g.id = x
    BY <1>2, <2>1, <2>3, <2>4, InsertionFields DEF TriggerFirst, Placing
  <2>6. \A id : WillBePlaced(id) <=> BeingPlaced(id) \/ id = x
    BY <1>0, <2>5, CallPlaced DEF ToPlace
  <2>7. SameLists
    BY <1>0, <2>1, <2>2, TailTakes
  <2>8. Holds(l, x)
    BY <2>1, <2>2, <2>3, BookTypes, TailElements DEF First, Holds
  <2>9. ~Arrives(x) /\ Open(order[x]) /\ ~Holds("buy", x) /\ ~Holds("sell", x)
    BY <2>2, <2>8, HeldTrader
  <2> QED BY <1>t, <2>1, <2>3, <2>6, <2>7, <2>9
<1> QED BY <1>1, <1>2
-----------------------------------------------------------------------------
(* A resting order waits for the price it is entered under.                *)
LEMMA RestingLimit ==
  ASSUME PlacesInv, NEW l \in {"buy", "sell"}, NEW p \in DOMAIN book[l], book[l][p].id \in Ids
  PROVE  limitPrice[book[l][p].id] = book[l][p].key
<1>1. l \in Lists /\ Holds(l, book[l][p].id) /\ Distinct
  BY DEF PlacesInv, HomeInv, Holds, Lists
<1>2. l = "sell" => ~Holds("buy", book[l][p].id)
  BY <1>1 DEF Distinct, Holds, Lists
<1>3. KeyIn(l, book[l][p].id) = book[l][p].key
  BY <1>1, KeyAt
<1> QED BY <1>1, <1>2, <1>3 DEF limitPrice, LimitOf

(* An incoming order takes any price, or those within its limit.           *)
LEMMA IncomingLimit ==
  ASSUME PlacesInv, NEW id \in Ids, Arrives(id), ~Holds("buy", id), ~Holds("sell", id)
  PROVE  limitPrice[id] = IF order[id].type = "MARKET" THEN None ELSE order[id].price
BY TraderNow DEF LimitOf

LEMMA RestSuitsNone ==
  ASSUME OneThread, TypeOK, PlacesInv, MatchInv, NEW t \in Threads, Rest(t),
         NEW x \in Ids, x = Top(t).id, NEW l \in {"buy", "sell"}, l = Top(t).list,
         limitPrice[x] = IF order[x].type = "MARKET" THEN None ELSE order[x].price
  PROVE  \A r \in restingOrders[Market!OtherSide(l)] : ~Market!Suits(l, limitPrice[x], limitPrice[r])
<1>1. PICK other \in {"buy", "sell"} : /\ other = Opposite(l) /\ other = Market!OtherSide(l)
                                       /\ other \in Lists /\ (other = "sell" <=> l = "buy")
  BY DEF Opposite, Market!OtherSide, Lists
<1>2. /\ At(t, "rest") /\ ~At(t, "moved") /\ order[x].pending > 0 /\ ~CanTrade(x, l)
      /\ order[x].price \in Int
  BY DEF Rest, At, MatchInv, RestInv, TypeOK, OrderRecord
<1> SUFFICES ASSUME NEW r \in Resting(other) PROVE ~Market!Suits(l, limitPrice[x], limitPrice[r])
  BY <1>1, Observed
<1>3. PICK q \in DOMAIN book[other] : r = book[other][q].id
  BY DEF Resting
<1>4. book[other] # <<>> /\ book[other][q] \in Entry /\ r \in Ids
  BY <1>1, <1>3, BookTypes DEF Entry
<1>5. /\ 1 \in DOMAIN book[other] /\ book[other][1].id = First(other)
      /\ EntryIsCurrent(other, book[other][1]) /\ book[other][1] \in Entry
      /\ q = 1 \/ Ahead(other, book[other][1].key, book[other][q].key)
  BY <1>1, <1>2, <1>4, NoneMoves, HeadEntry, BookTypes
<1>6. book[other][1].key = order[First(other)].price
  BY <1>5 DEF EntryIsCurrent
<1>7. order[x].type # "MARKET" /\ ~Crosses(l, order[x].price, book[other][1].key)
  BY <1>1, <1>2, <1>4, <1>6 DEF CanTrade
<1>8. limitPrice[x] = order[x].price /\ limitPrice[x] # None
  BY <1>2, <1>7, UnpricedAssumption
<1>9. limitPrice[r] = book[other][q].key
  BY <1>3, <1>4, RestingLimit
<1>10. book[other][1].key \in Int /\ book[other][q].key \in Int
  BY <1>4, <1>5 DEF Entry
<1> QED BY <1>1, <1>2, <1>5, <1>7, <1>8, <1>9, <1>10 DEF Crosses, Ahead, Market!Suits, Market!AsGood

(* An unpriced order gets a price, and stays the same otherwise.           *)
LEMMA UnpricedTerms ==
  ASSUME NEW o \in OrderRecord, NEW p \in Int
  PROVE  /\ MarketToLimit(o, p) \in OrderRecord /\ MarketToLimit(o, p).price = p
         /\ ActualPending(MarketToLimit(o, p)) = ActualPending(o)
<1>1. MarketToLimit(o, p) \in OrderRecord
  BY OrderOperatorTypes
<1>2. MarketToLimit(o, p).price = p /\ MarketToLimit(o, p).qty = o.qty /\ MarketToLimit(o, p).filled = o.filled
  BY DEF MarketToLimit, OrderRecord
<1> QED BY <1>1, <1>2 DEF ActualPending

LEMMA RestMarket ==
  ASSUME OneThread, TypeOK, TypeOK', PlacesInv, PlacesInv', MatchInv, WorkInv,
         NEW t \in Threads, Rest(t)
  PROVE  MarketStep
<1>0. Apart /\ Distinct /\ Distinct' /\ NoTrade /\ ltp \in Int
  BY DEF PlacesInv, HomeInv, Rest, NoTrade, TypeOK
<1>1. PICK x \in Ids, l \in {"buy", "sell"} :
        /\ x = Top(t).id /\ l = Top(t).list /\ ~Idle(t) /\ Top(t).pc = "rest"
        /\ Return(t) /\ order[x].pending > 0 /\ l \in Lists
  BY AtType DEF Rest
<1>2. order[x] \in OrderRecord /\ Sound(order[x])
  BY DEF TypeOK, WorkInv, IdInv
<1>3. PICK placed \in OrderRecord :
        /\ placed = IF order[x].type = "MARKET" THEN MarketToLimit(order[x], ltp) ELSE order[x]
        /\ placed.price = IF order[x].type = "MARKET" THEN ltp ELSE order[x].price
        /\ ActualPending(placed) = ActualPending(order[x]) /\ placed.price \in Int
  <2>1. /\ MarketToLimit(order[x], ltp) \in OrderRecord
        /\ MarketToLimit(order[x], ltp).price = ltp
        /\ ActualPending(MarketToLimit(order[x], ltp)) = ActualPending(order[x])
    BY <1>0, <1>2, UnpricedTerms
  <2>2. order[x].price \in Int
    BY <1>2 DEF OrderRecord
  <2>3. CASE order[x].type = "MARKET"
    BY <1>0, <2>1, <2>3
  <2>4. CASE order[x].type # "MARKET"
    BY <1>2, <2>2, <2>4
  <2> QED BY <2>3, <2>4
<1>4. order' = [order EXCEPT ![x] = placed] /\ InsertInto(l, placed.price, x)
  BY <1>1, <1>3 DEF Rest
<1>5. order'[x] = placed /\ \A id \in Ids \ {x} : order'[id] = order[id]
  BY <1>4 DEF TypeOK
<1>6. \A id : WillBePlaced(id) <=> BeingPlaced(id) /\ id # x
  BY <1>0, <1>1, ReturnPlaced DEF ToPlace, Placing
<1>7. /\ SideOf(x) = l /\ ~Held(x) /\ ~Holds("buy", x) /\ ~Holds("sell", x)
      /\ BeingPlaced(x) /\ ~IsStop(order[x].type)
  BY <1>1, TopTrader DEF Placing
<1>8. Arrives(x) /\ ~WillArrive(x)
  BY <1>1, <1>2, <1>6, <1>7, SoundPending DEF Arrives, WillArrive
<1>9. Put(l, x, placed.price)
  BY <1>0, <1>1, <1>3, <1>4, <1>7, InsertPuts DEF Held
<1>10. ASSUME NEW id \in Ids \ {x} PROVE SameInMarket(id)
  BY <1>5, <1>6, <1>9, SameTraderBy, SameTraders DEF Put
<1>11. incomingOrders' = [incomingOrders EXCEPT ![l] = @ \ {x}] /\ x \in incomingOrders[l]
  <2>1. \A m \in {"buy", "sell"} : ~ComesIn(m, x)' /\ (ComesIn(m, x) <=> m = l)
    BY <1>7, <1>8, ArrivesIn, WillArriveIn
  <2> QED BY <1>10, <2>1, IncomingLoses, Observed DEF SameInMarket
<1>12. openQuantity' = openQuantity
  <2>1. openQuantity'[x] = openQuantity[x]
    BY <1>3, <1>5, <1>8, <1>9, TraderNow, TraderThen DEF Put, WillTrade
  <2> QED BY <1>10, <2>1, Observed DEF SameInMarket
<1>13. limitPrice[x] = IF order[x].type = "MARKET" THEN None ELSE order[x].price
  BY <1>7, <1>8, IncomingLimit
<1>14. placed.price = IF limitPrice[x] = None THEN ltp ELSE limitPrice[x]
  BY <1>2, <1>3, <1>13, UnpricedAssumption DEF OrderRecord
<1>15. limitPrice' = [limitPrice EXCEPT ![x] = placed.price]
  <2>1. limitPrice'[x] = placed.price
    <3>1. limitPrice'[x] = WillLimit(x)
      BY TraderThen
    <3>2. WillHold(l, x) /\ KeyIn(l, x)' = placed.price /\ (WillHold("buy", x) <=> l = "buy")
      BY <1>9 DEF Put
    <3> QED BY <3>1, <3>2 DEF WillLimit
  <2> QED BY <1>10, <2>1, Observed DEF SameInMarket
<1>16. {r \in restingOrders[l] : Market!AsGood(l, limitPrice[r], placed.price)} = BeforeKey(l, placed.price)
  <2>1. ASSUME NEW r \in Resting(l) PROVE limitPrice[r] = KeyIn(l, r)
    <3>1. PICK q \in DOMAIN book[l] : r = book[l][q].id
      BY DEF Resting
    <3>2. r \in Ids
      BY <1>1, <3>1, BookTypes DEF Entry
    <3> QED BY <1>0, <1>1, <3>1, <3>2, RestingLimit, KeyAt
  <2>2. \A k1, k2 : Market!AsGood(l, k1, k2) <=> Ahead(l, k1, k2)
    BY <1>1 DEF Market!AsGood, Ahead
  <2> QED BY <2>1, <2>2, Observed DEF BeforeKey
<1>17. \A r \in restingOrders[Market!OtherSide(l)] : ~Market!Suits(l, limitPrice[x], limitPrice[r])
  BY <1>1, <1>13, RestSuitsNone
<1>18. Market!Rest(l, x)
  <2>1. restingOrders' = [restingOrders EXCEPT ![l] = @ \cup {x}]
    BY <1>9 DEF Put
  <2>2. aheadInList' = [j \in Ids |-> IF j = x THEN BeforeKey(l, placed.price)
                                   ELSE IF j \in restingOrders[l] \ BeforeKey(l, placed.price)
                                          THEN aheadInList[j] \cup {x}
                                   ELSE aheadInList[j]]
    BY <1>9, Observed DEF Put
  <2> QED BY <1>0, <1>11, <1>12, <1>14, <1>15, <1>16, <1>17, <2>1, <2>2 DEF Market!Rest, NoTrade
<1> QED BY <1>1, <1>11, <1>18 DEF MarketStep, Market!Next, Market!Sides
-----------------------------------------------------------------------------
(* Who is in the market has something left; the others have no limit.      *)
LEMMA TradersAreOpen ==
  ASSUME TypeOK, PlacesInv, WorkInv, NEW id \in Ids
  PROVE  openQuantity[id] > 0 \/ limitPrice[id] = None
<1>1. CASE Trading(id)
  <2>1. Open(order[id])
    <3>1. \A l \in {"buy", "sell"} : Holds(l, id) => Open(order[id])
      BY HeldTrader DEF Lists
    <3> QED BY <1>1, <3>1, TraderNow DEF Arrives
  <2> QED BY <1>1, <2>1, TraderNow DEF Open
<1>2. CASE ~Trading(id)
  <2>1. ~Holds("buy", id) /\ ~Holds("sell", id)
    BY <1>2, TraderNow
  <2> QED BY <1>2, <2>1, TraderNow DEF LimitOf
<1> QED BY <1>1, <1>2

(* A fill takes its quantity from what is left of an order.                *)
LEMMA FilledTerms ==
  ASSUME NEW o \in OrderRecord, NEW q \in Int
  PROVE  /\ ActualPending(FillOrder(o, q)) = ActualPending(o) - q
         /\ FillOrder(o, q).side = o.side /\ FillOrder(o, q).type = o.type
         /\ FillOrder(o, q).price = o.price
BY DEF FillOrder, WithPending, ActualPending, OrderRecord

(* The order at the head of a list, while no order moves.                  *)
LEMMA HeadTrader ==
  ASSUME TypeOK, PlacesInv, WorkInv, NEW l \in {"buy", "sell"}, book[l] # <<>>,
         \A id : ~Moving(l, id)
  PROVE  limitPrice[First(l)] = order[First(l)].price /\ aheadInList[First(l)] = {}
<1>1. l \in Lists /\ Distinct
  BY DEF Lists, PlacesInv, HomeInv
<1>2. /\ 1 \in DOMAIN book[l] /\ book[l][1].id = First(l) /\ First(l) \in Ids
      /\ Holds(l, First(l)) /\ EntryIsCurrent(l, book[l][1])
  BY <1>1, HeadEntry
<1>3. limitPrice[First(l)] = book[l][1].key /\ book[l][1].key = order[First(l)].price
  BY <1>2, RestingLimit DEF EntryIsCurrent
<1>4. ASSUME NEW m \in {"buy", "sell"}, NEW y, GoesBefore(m, y, First(l)) PROVE FALSE
  <2>1. PICK p, q \in DOMAIN book[m] : p < q /\ book[m][q].id = First(l)
    BY <1>4 DEF GoesBefore
  <2>2. m = l /\ q = 1
    BY <1>1, <1>2, <2>1 DEF Distinct, Lists
  <2> QED BY <1>1, <2>1, <2>2, BookTypes
<1>5. aheadInList[First(l)] = {}
  <2>1. \A y : y \in aheadInList[First(l)] <=> GoesBefore("buy", y, First(l)) \/ GoesBefore("sell", y, First(l))
    BY <1>2, AheadMeans DEF aheadInList
  <2> QED BY <1>4, <2>1
<1> QED BY <1>3, <1>5

LEMMA FillMarket ==
  ASSUME OneThread, TypeOK, TypeOK', PlacesInv, PlacesInv', MatchInv, WorkInv,
         NEW t \in Threads, Fill(t)
  PROVE  MarketStep
<1>0. Apart /\ Distinct /\ Distinct'
  BY DEF PlacesInv, HomeInv
<1>1. PICK f, other, hit : FillMeans(t, f, other, hit)
  BY FillSteps
<1>2. PICK s \in {"buy", "sell"}, i \in Ids, r \in Ids, q \in Nat :
        s = f.list /\ i = f.id /\ r = hit /\ q = f.qty
  BY <1>1 DEF FillMeans
<1>3. /\ f = Top(t) /\ At(t, "fill") /\ ~Idle(t) /\ ~At(t, "moved") /\ Placing(f) /\ f.pc # "stop"
      /\ other = Opposite(s) /\ other \in {"buy", "sell"} /\ other \in Lists /\ other # s
      /\ book[other] # <<>> /\ r = First(other) /\ r # i /\ Holds(other, r) /\ f.opp = r
  BY <1>1, <1>2 DEF FillMeans, At, Placing, Opposite
<1>4. /\ order[i] \in OrderRecord /\ order[r] \in OrderRecord /\ IdInv(i) /\ IdInv(r)
      /\ order'[i] = FillOrder(order[i], q) /\ order'[r] = FillOrder(order[r], q)
      /\ \A id \in Ids \ {i, r} : order'[id] = order[id]
  BY <1>1, <1>2 DEF FillMeans
<1>5. q > 0 /\ q <= ActualPending(order[i]) /\ q <= ActualPending(order[r])
      /\ Open(order[i]) /\ Open(order[r])
  <2>1. Open(order[r])
    BY <1>2, <1>3, HeldTrader
  <2>2. order[i].pending > 0
    BY <1>2, <1>3 DEF MatchInv, FillInv
  <2>3. q = Smaller(order[i].pending, order[r].pending)
    BY <1>1, <1>2 DEF FillMeans
  <2>4. \A x \in {i, r} : /\ order[x].pending \in Nat /\ order[x].pending <= ActualPending(order[x])
                          /\ order[x].pending > 0 <=> Open(order[x])
    BY <1>4, SoundPending DEF IdInv
  <2>5. ActualPending(order[i]) \in Int /\ ActualPending(order[r]) \in Int
    BY <1>4 DEF ActualPending, OrderRecord
  <2> QED BY <2>1, <2>2, <2>3, <2>4, <2>5 DEF Smaller
<1>6. PICK u \in Int, v \in Int : u = ActualPending(order[i]) /\ v = ActualPending(order[r])
  BY <1>4 DEF ActualPending, OrderRecord
<1>7. /\ ActualPending(order'[i]) = u - q /\ ActualPending(order'[r]) = v - q
      /\ Open(order'[i]) <=> q # u
      /\ Open(order'[r]) <=> q # v
      /\ order'[i].side = order[i].side /\ order'[i].type = order[i].type /\ order'[i].price = order[i].price
  <2>1. ActualPending(order'[i]) = u - q /\ ActualPending(order'[r]) = v - q
    BY <1>4, <1>6, FilledTerms
  <2>2. q <= u /\ q <= v
    BY <1>5, <1>6
  <2>3. Open(order'[i]) <=> q # u
    BY <2>1, <2>2 DEF Open
  <2>4. Open(order'[r]) <=> q # v
    BY <2>1, <2>2 DEF Open
  <2>5. order'[i].side = order[i].side /\ order'[i].type = order[i].type /\ order'[i].price = order[i].price
    BY <1>4, FilledTerms
  <2> QED BY <2>1, <2>3, <2>4, <2>5
<1>8. IF q = v THEN Taken(other, r) ELSE SameLists
  <2>1. /\ order'[r].pending # 0 <=> q # v
        /\ book' = IF order'[r].pending = 0 THEN [book EXCEPT ![other] = Tail(@)] ELSE book
    BY <1>1, <1>2, <1>7 DEF FillMeans
  <2>2. CASE q = v
    BY <1>0, <1>3, <2>1, <2>2, TailTakes
  <2>3. CASE q # v
    BY <2>1, <2>3, ListsStay
  <2> QED BY <2>2, <2>3
<1>9. /\ \A id : WillBePlaced(id) <=> BeingPlaced(id)
      /\ \A id \in Ids \ {r} : KeepsPlace(id)
  BY <1>0, <1>8, FillPlaced DEF Taken, SameLists
<1>10. /\ ~Holds("buy", i) /\ ~Holds("sell", i) /\ ~WillHold("buy", i) /\ ~WillHold("sell", i)
       /\ Arrives(i) /\ (WillArrive(i) <=> q # u) /\ SideOf(i) = s /\ ListOf(order'[i].side) = s
  <2>1. /\ SideOf(i) = s /\ ~IsStop(order[i].type) /\ BeingPlaced(i)
        /\ ~Holds("buy", i) /\ ~Holds("sell", i)
    BY <1>2, <1>3, TopTrader
  <2>2. ~WillHold("buy", i) /\ ~WillHold("sell", i)
    BY <1>3, <1>9, <2>1 DEF KeepsPlace
  <2> QED BY <1>5, <1>7, <1>9, <2>1, <2>2 DEF Arrives, WillArrive, SideOf
<1>11. ~Arrives(r) /\ ~WillArrive(r) /\ ~Holds(s, r)
  BY <1>3, <1>9, HeldTrader DEF WillArrive
<1>12. ASSUME NEW id \in Ids \ {i, r} PROVE SameInMarket(id)
  BY <1>4, <1>9, SameTraderBy, SameTraders
<1>13. openQuantity[i] = u /\ openQuantity[r] = v
  BY <1>3, <1>6, <1>10, TraderNow
<1>14. WillTrade(i) <=> q # u
  BY <1>10 DEF WillTrade
<1>15. WillTrade(r) <=> q # v
  <2>1. CASE q = v
    BY <1>8, <1>11, <2>1 DEF Taken, WillTrade
  <2>2. CASE q # v
    BY <1>3, <1>8, <2>2 DEF SameLists, KeepsPlace, WillTrade
  <2> QED BY <2>1, <2>2
<1>16. openQuantity'[i] = u - q /\ openQuantity'[r] = v - q
  BY <1>7, <1>14, <1>15, TraderThen
<1>17. openQuantity' = [openQuantity EXCEPT ![i] = @ - q, ![r] = @ - q]
  BY <1>3, <1>12, <1>13, <1>16, Observed DEF SameInMarket
<1>18. limitPrice[i] = IF order[i].type = "MARKET" THEN None ELSE order[i].price
  BY <1>10, IncomingLimit
<1>19. /\ limitPrice[r] = order[r].price /\ ltp' = limitPrice[r] /\ volume' = volume + q
       /\ aheadInList[r] = {}
  <2>1. limitPrice[r] = order[r].price /\ aheadInList[r] = {}
    BY <1>3, NoneMoves, HeadTrader
  <2>2. ltp' = order[f.opp].price /\ volume' = volume + f.qty
    BY <1>3 DEF Fill
  <2> QED BY <1>2, <1>3, <2>1, <2>2
<1>20. Market!Suits(s, limitPrice[i], limitPrice[r])
  <2>1. order[i].type = "MARKET" \/ Crosses(s, order[i].price, order[r].price)
    BY <1>2, <1>3 DEF MatchInv, FillInv, Meets
  <2> QED BY <1>18, <1>19, <2>1 DEF Crosses, Market!Suits, Market!AsGood
<1>21. limitPrice' = [j \in Ids |-> IF openQuantity'[j] > 0 THEN limitPrice[j] ELSE None]
  <2> SUFFICES ASSUME NEW j \in Ids
               PROVE  limitPrice'[j] = IF openQuantity'[j] > 0 THEN limitPrice[j] ELSE None
    BY Observed
  <2>1. limitPrice'[j] = WillLimit(j)
    BY TraderThen
  <2>2. CASE j = i
    <3>1. openQuantity'[i] > 0 <=> WillTrade(i)
      BY <1>5, <1>6, <1>14, <1>16
    <3> QED BY <1>7, <1>10, <1>18, <2>1, <2>2, <3>1 DEF WillLimit
  <2>3. CASE j = r
    <3>1. openQuantity'[r] > 0 <=> WillTrade(r)
      BY <1>5, <1>6, <1>15, <1>16
    <3>2. CASE q = v
      BY <1>15, <2>1, <2>3, <3>1, <3>2 DEF WillLimit, WillTrade
    <3>3. CASE q # v
      <4>1. KeepsPlace(r) /\ limitPrice[r] = LimitOf(r)
        BY <1>8, <3>3, TraderNow DEF SameLists
      <4>2. WillLimit(r) = LimitOf(r)
        <5>1. CASE other = "buy"
          BY <1>3, <4>1, <5>1 DEF KeepsPlace, WillLimit, LimitOf
        <5>2. CASE other = "sell"
          <6>1. ~Holds("buy", r)
            BY <1>3, <1>11, <5>2
          <6> QED BY <1>3, <4>1, <5>2, <6>1 DEF KeepsPlace, WillLimit, LimitOf
        <5> QED BY <1>3, <5>1, <5>2
      <4> QED BY <1>15, <2>1, <2>3, <3>1, <3>3, <4>1, <4>2
    <3> QED BY <3>2, <3>3
  <2>4. CASE j \notin {i, r}
    BY <1>12, <2>4, TradersAreOpen DEF SameInMarket
  <2> QED BY <2>2, <2>3, <2>4
<1>22. /\ incomingOrders' = [incomingOrders EXCEPT ![s] = IF q = u THEN @ \ {i} ELSE @]
       /\ i \in incomingOrders[s]
  <2>1. ASSUME NEW m \in {"buy", "sell"} PROVE ComesIn(m, i) <=> m = s
    BY <1>10, ArrivesIn
  <2>2. ASSUME NEW m \in {"buy", "sell"} PROVE ComesIn(m, i)' <=> m = s /\ q # u
    BY <1>10, WillArriveIn
  <2>3. ASSUME NEW id \in Ids \ {i}, NEW m \in {"buy", "sell"} PROVE ComesIn(m, id)' <=> ComesIn(m, id)
    <3>1. CASE id = r
      BY <1>11, <3>1, ArrivesIn, WillArriveIn
    <3>2. CASE id # r
      BY <1>12, <3>2 DEF SameInMarket
    <3> QED BY <3>1, <3>2
  <2>4. i \in incomingOrders[s]
    <3>1. ComesIn(s, i)
      BY <2>1
    <3> QED BY <3>1, Observed
  <2>5. CASE q = u
    <3>1. ASSUME NEW m \in {"buy", "sell"} PROVE ~ComesIn(m, i)' /\ (ComesIn(m, i) => m = s)
      BY <2>1, <2>2, <2>5
    <3>2. incomingOrders' = [incomingOrders EXCEPT ![s] = @ \ {i}]
      BY <2>3, <3>1, IncomingLoses
    <3> QED BY <2>4, <2>5, <3>2
  <2>6. CASE q # u
    <3>1. ASSUME NEW m \in {"buy", "sell"}, NEW id \in Ids PROVE ComesIn(m, id)' <=> ComesIn(m, id)
      <4>1. CASE id = i
        BY <2>6, <4>1, <1>10, ArrivesIn, WillArriveIn
      <4>2. CASE id # i
        BY <2>3, <4>2
      <4> QED BY <4>1, <4>2
    <3>2. incomingOrders' = incomingOrders
      BY <3>1, IncomingStays
    <3>3. [incomingOrders EXCEPT ![s] = @] = incomingOrders
      BY DEF incomingOrders
    <3> QED BY <2>4, <2>6, <3>2, <3>3
  <2> QED BY <2>5, <2>6
<1>23. /\ restingOrders' = [restingOrders EXCEPT ![other] = IF q = v THEN @ \ {r} ELSE @]
       /\ r \in restingOrders[other]
       /\ aheadInList' = IF q = v THEN Market!Without(r) ELSE aheadInList
  <2>1. [restingOrders EXCEPT ![other] = @] = restingOrders
    BY DEF restingOrders
  <2>2. r \in restingOrders[other]
    BY <1>3, Observed, RestingHolds
  <2>3. CASE q = v
    BY <1>8, <2>2, <2>3 DEF Taken
  <2>4. CASE q # v
    BY <1>8, <2>1, <2>2, <2>4 DEF SameLists
  <2> QED BY <2>3, <2>4
<1>24. other = Market!OtherSide(s)
  BY <1>3 DEF Opposite, Market!OtherSide
<1>25. Market!Trade(s, i, r, q)
  BY <1>5, <1>6, <1>13, <1>17, <1>19, <1>20, <1>21, <1>22, <1>23, <1>24 DEF Market!Trade
<1>26. q \in 1 .. openQuantity[i]
  BY <1>5, <1>6, <1>13
<1> QED BY <1>22, <1>23, <1>24, <1>25, <1>26 DEF MarketStep, Market!Next, Market!Sides
-----------------------------------------------------------------------------
LEMMA NextMarket ==
  ASSUME OneThread, PositiveOrders, TypeOK, PlacesInv, MatchInv, WorkInv, [Next]_vars
  PROVE  MarketStep
<1>0. TypeOK' /\ PlacesInv'
  BY NextTypes, NextPlaces
<1>1. ASSUME NEW t \in Sessions, Request(t) PROVE MarketStep
  <2>1. t \in Threads
    BY DEF Threads
  <2>2. CASE \E x \in Ids : \E o \in NewOrders : Insert(t, x, o) \/ InsertWhenClosed(t, x, o)
    BY <1>0, <2>1, <2>2, InsertMarket
  <2>3. CASE \E x \in Ids : \E o \in ReplaceOrders :
               ReplaceKept(t, x, o) \/ ReplaceMoved(t, x, o) \/ ReplaceRejected(t, x, o)
    BY <1>0, <2>1, <2>3, ReplaceMarket
  <2>4. CASE \E x \in Ids : \E o \in ReplaceOrders : ReplaceWhenClosed(t, x, o)
    BY <1>0, <2>4, RejectedMarket
  <2>5. CASE \E x \in Ids : \E o \in CancelOrders : Cancel(t, x, o) \/ CancelRejected(t, x, o)
    BY <1>0, <2>1, <2>5, CancelMarket
  <2> QED BY <1>1, <2>2, <2>3, <2>4, <2>5 DEF Request
<1>2. ASSUME NEW t \in Consoles, Command(t) PROVE MarketStep
  BY <1>0, <1>2, CommandMarket DEF Threads
<1>3. ASSUME NEW t \in Threads, Continue(t) PROVE MarketStep
  <2>1. CASE Fill(t)
    BY <1>0, <2>1, FillMarket
  <2>2. CASE Rest(t)
    BY <1>0, <2>2, RestMarket
  <2>3. CASE RestDone(t) \/ RestCanceled(t) \/ StopRests(t)
    BY <1>0, <2>3, EndMarket
  <2>4. CASE Move(t)
    BY <1>0, <2>4, MoveMarket
  <2>5. CASE StopFires(t) \/ TriggerFirst(t)
    BY <1>0, <2>5, TriggeredMarket
  <2>6. CASE IocCancels(t) \/ CancelFirst(t)
    BY <1>0, <2>6, CanceledMarket
  <2>7. CASE \/ MoveRejected(t) \/ Lock(t) \/ Match(t) \/ MatchEnds(t) \/ FillEmptied(t)
             \/ TriggerSells(t) \/ TriggerEnds(t) \/ IocNotFound(t)
             \/ RequestEnds(t) \/ CancelNext(t) \/ StopEnds(t)
    BY <1>0, <2>7, QuietCallMarket
  <2> QED BY <1>3, <2>1, <2>2, <2>3, <2>4, <2>5, <2>6, <2>7 DEF Continue
<1>4. CASE UNCHANGED vars
  <2>1. book' = book /\ order' = order /\ stack' = stack /\ NoTrade
    BY <1>4 DEF vars, NoTrade
  <2> QED BY <1>0, <2>1, SamePlaced, QuietMarket
<1> QED BY <1>1, <1>2, <1>3, <1>4 DEF Next

(* With one thread, and orders for a positive quantity, the book            *)
(* implements the market by price-time priority: whatever a call to         *)
(* insertBuy, insertSell, replace, cancel, stop and checkTriggeredOrders    *)
(* does, in whatever order and with whatever calls inside it, is at each    *)
(* step a step of that market or none.                                      *)
THEOREM PriceTimeKept ==
  ASSUME OneThread, PositiveOrders
  PROVE  Spec => PriceTimePriority
<1>1. TypeOK /\ PlacesInv /\ MatchInv /\ WorkInv /\ [Next]_vars => [Market!Next]_(Market!vars)
  BY NextMarket DEF MarketStep
<1> QED BY <1>1, InitMarket, WorkCorrect, PTL DEF Spec, PriceTimePriority, Market!Spec
=============================================================================
