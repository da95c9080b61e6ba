----------------------------- MODULE OrderList -----------------------------
(***************************************************************************)
(* An OrderList of esm/orderList.h and the ids its index is kept by, as    *)
(* the session threads use them: without a lock.  UniqueOrderId::get() has *)
(* a static counter, and find and insert leave their iterators in members  *)
(* of the list.  A step is what a thread does between two accesses to such *)
(* a shared variable; the containers themselves are atomic.                *)
(***************************************************************************)
EXTENDS Integers, Sequences, SequencesExt

CONSTANTS
  Threads,   \* session threads
  Orders,    \* NewOrder objects
  Prices,
  Millis,    \* milliseconds since 1970 when the first id is taken
  End        \* the iterator end(); no order

VARIABLES
  counter,   \* UniqueOrderId::_orderId
  orderId,   \* _orderId of each order, 0 before it has one
  price,     \* _price of each order
  byPrice,   \* _ordersByPrice, a DescOrderList: its orders, best first
  byId,      \* _ordersByOrderId
  iByPrice,  \* _iOrdersByPrice, the order it points to
  iById,     \* _iOrdersByOrderId, the id it points to, 0 for end()
  at         \* of each thread, what it does next, for which order, and the
             \* counter it has in a register

vars == <<counter, orderId, price, byPrice, byId, iByPrice, iById, at>>

Frame(pc, o, register) == [pc |-> pc, o |-> o, register |-> register]

Idle(t) == at[t].pc = "idle"
Goto(t, pc) == at' = [at EXCEPT ![t].pc = pc]
Return(t) == at' = [at EXCEPT ![t] = Frame("idle", End, 0)]

Init ==
  /\ counter = 0
  /\ orderId = [o \in Orders |-> 0]
  /\ price \in [Orders -> Prices]
  /\ byPrice = <<>> /\ byId = <<>>
  /\ iByPrice = End /\ iById = 0
  /\ at = [t \in Threads |-> Frame("idle", End, 0)]

-----------------------------------------------------------------------------
(* UniqueOrderId::get(), called by the constructor of NewOrder: load and   *)
(* test the counter, store it, and read it again in makeString().          *)
LoadId(t, o) ==
  /\ Idle(t) /\ orderId[o] = 0 /\ \A u \in Threads : at[u].o # o
  /\ at' = [at EXCEPT ![t] = Frame("store", o, counter)]
  /\ UNCHANGED <<counter, orderId, price, byPrice, byId, iByPrice, iById>>

StoreId(t) ==
  /\ at[t].pc = "store"
  /\ counter' = IF at[t].register = 0 THEN Millis ELSE at[t].register + 1
  /\ Goto(t, "make")
  /\ UNCHANGED <<orderId, price, byPrice, byId, iByPrice, iById>>

MakeString(t) ==
  /\ at[t].pc = "make"
  /\ orderId' = [orderId EXCEPT ![at[t].o] = counter]
  /\ Goto(t, "insert")
  /\ UNCHANGED <<counter, price, byPrice, byId, iByPrice, iById>>

-----------------------------------------------------------------------------
(* insert(): the order goes behind those with an equal price; then what    *)
(* _iOrdersByPrice points to goes into the index, unless the id is there.  *)
InsertByPrice(t) ==
  LET o == at[t].o IN
  /\ at[t].pc = "insert"
  /\ \E p \in 1 .. Len(byPrice) + 1 :
       /\ \A i \in DOMAIN byPrice : price[byPrice[i]] >= price[o] <=> i < p
       /\ byPrice' = InsertAt(byPrice, p, o)
  /\ iByPrice' = o
  /\ Goto(t, "index")
  /\ UNCHANGED <<counter, orderId, price, byId, iById>>

InsertById(t) ==
  /\ at[t].pc = "index"
  /\ byId' = [i \in DOMAIN byId \cup {orderId[at[t].o]} |->
                IF i \in DOMAIN byId THEN byId[i] ELSE iByPrice]
  /\ Return(t)
  /\ UNCHANGED <<counter, orderId, price, byPrice, iByPrice, iById>>

(* cancel(), erase( orderId ) and replace(): find, then use what           *)
(* _iOrdersByOrderId points to.  An iterator that another thread has       *)
(* erased leaves the rest undefined: the process may end there.            *)
Found(o) == IF orderId[o] \in DOMAIN byId THEN orderId[o] ELSE 0

Find(t, o, pc) ==
  /\ Idle(t) /\ orderId[o] # 0 /\ \A u \in Threads : at[u].o # o
  /\ iById' = Found(o)
  /\ at' = [at EXCEPT ![t] = Frame(pc, o, 0)]
  /\ UNCHANGED <<counter, orderId, price, byPrice, byId, iByPrice>>

Erase(t) ==
  /\ at[t].pc = "erase" /\ iById \in DOMAIN byId
  /\ \E p \in DOMAIN byPrice :
       byPrice[p] = byId[iById] /\ byPrice' = RemoveAt(byPrice, p)
  /\ byId' = [i \in DOMAIN byId \ {iById} |-> byId[i]]
  /\ Return(t)
  /\ UNCHANGED <<counter, orderId, price, iByPrice, iById>>

(* What replace() changes in an order is nothing the list uses.            *)
Replace(t) ==
  /\ at[t].pc = "replace" /\ iById \in DOMAIN byId
  /\ Return(t)
  /\ UNCHANGED <<counter, orderId, price, byPrice, byId, iByPrice, iById>>

OrderIdNotFound(t) ==
  /\ at[t].pc \in {"erase", "replace"} /\ iById = 0
  /\ Return(t)
  /\ UNCHANGED <<counter, orderId, price, byPrice, byId, iByPrice, iById>>

-----------------------------------------------------------------------------
(* fill(): first() leaves begin() in _iOrdersByPrice and follows it.  The  *)
(* order it finds is filled and, when nothing is left, erased by its id.   *)
First(t) ==
  /\ Idle(t)
  /\ iByPrice' = IF byPrice = <<>> THEN End ELSE Head(byPrice)
  /\ Goto(t, "first")
  /\ UNCHANGED <<counter, orderId, price, byPrice, byId, iById>>

ListIsEmpty(t) ==
  /\ at[t].pc = "first" /\ iByPrice = End
  /\ Return(t)
  /\ UNCHANGED <<counter, orderId, price, byPrice, byId, iByPrice, iById>>

FillPart(t) ==
  /\ at[t].pc = "first" /\ iByPrice # End
  /\ Return(t)
  /\ UNCHANGED <<counter, orderId, price, byPrice, byId, iByPrice, iById>>

FillAll(t) ==
  /\ at[t].pc = "first" /\ iByPrice # End
  /\ iById' = Found(iByPrice)
  /\ Goto(t, "erase")
  /\ UNCHANGED <<counter, orderId, price, byPrice, byId, iByPrice>>

-----------------------------------------------------------------------------
Next ==
  \E t \in Threads :
    \/ \E o \in Orders : LoadId(t, o) \/ \E pc \in {"erase", "replace"} : Find(t, o, pc)
    \/ StoreId(t) \/ MakeString(t) \/ InsertByPrice(t) \/ InsertById(t)
    \/ Erase(t) \/ Replace(t) \/ OrderIdNotFound(t)
    \/ First(t) \/ ListIsEmpty(t) \/ FillPart(t) \/ FillAll(t)

Spec == Init /\ [][Next]_vars

-----------------------------------------------------------------------------
(* uniqueOrderId.h:12: "Generates a sequential unique ID (number)".  While *)
(* no call is under way, the id of a resting order leads to this order.    *)
IdsFindTheirOrders ==
  (\A t \in Threads : Idle(t)) =>
    \A o \in Range(byPrice) : orderId[o] \in DOMAIN byId /\ byId[orderId[o]] = o
=============================================================================
