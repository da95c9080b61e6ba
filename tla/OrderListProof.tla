-------------------------- MODULE OrderListProof --------------------------
(***************************************************************************)
(* The index of an OrderList, when one thread works on the list: then the  *)
(* ids are unique, the iterators that find, first and insert leave in the  *)
(* list's members are still good when they are used, and the id of every   *)
(* resting order leads to this order.                                      *)
(***************************************************************************)
EXTENDS OrderList, DataLemmas

OneThread == Threads # {} /\ \A t, u \in Threads : t = u

Statement == {"idle", "store", "make", "insert", "index", "erase", "replace", "first"}
Local     == [pc : Statement, o : Orders \cup {End}, register : Nat]

Listed(o) == \E i \in DOMAIN byPrice : byPrice[i] = o

TypeInv ==
  /\ counter \in Nat /\ orderId \in [Orders -> Nat]
  /\ byPrice \in Seq(Orders)
  /\ iByPrice \in Orders \cup {End}
  /\ at \in [Threads -> Local]

(* An order gets an id once, and nobody else has it.                       *)
IdsInv ==
  /\ \A o \in Orders : orderId[o] <= counter
  /\ \A o, p \in Orders : orderId[o] = orderId[p] /\ orderId[o] # 0 => o = p
  /\ \A t \in Threads :
       /\ at[t].pc = "store" => at[t].register = counter
       /\ at[t].pc \in {"store", "make"} => at[t].o \in Orders /\ orderId[at[t].o] = 0
       /\ at[t].pc = "make" => \A o \in Orders : orderId[o] < counter

(* An order is in the list once and has an id.                             *)
ListInv ==
  /\ \A i, j \in DOMAIN byPrice : byPrice[i] = byPrice[j] => i = j
  /\ \A o \in Orders : Listed(o) => orderId[o] # 0
  /\ \A t \in Threads :
       /\ at[t].pc = "insert" => at[t].o \in Orders /\ orderId[at[t].o] # 0 /\ ~Listed(at[t].o)
       /\ at[t].pc = "index" =>
            at[t].o \in Orders /\ iByPrice = at[t].o /\ Listed(at[t].o)
              /\ orderId[at[t].o] \notin DOMAIN byId

(* The index leads from the id of an order that rests to this order, and   *)
(* has the id of every one, but for the order whose insertion is under way.*)
IndexInv ==
  /\ \A i \in DOMAIN byId : byId[i] \in Orders /\ Listed(byId[i]) /\ orderId[byId[i]] = i
  /\ \A o \in Orders : Listed(o) =>
       orderId[o] \in DOMAIN byId \/ \E t \in Threads : at[t].pc = "index" /\ at[t].o = o

(* What the shared iterator of find points to is in the index when it is   *)
(* used.                                                                   *)
FoundInv ==
  \A t \in Threads : at[t].pc \in {"erase", "replace"} /\ iById # 0 => iById \in DOMAIN byId

OneInv == TypeInv /\ IdsInv /\ ListInv /\ IndexInv /\ FoundInv

LEMMA InitOne == ASSUME End \notin Orders PROVE Init => OneInv
<1> SUFFICES ASSUME Init PROVE OneInv
  OBVIOUS
<1>1. TypeInv
  BY DEF Init, TypeInv, Local, Statement, Frame
<1>2. IdsInv
  BY DEF Init, IdsInv, Frame
<1>3. ListInv
  BY DEF Init, ListInv, Listed, Frame
<1>4. IndexInv
  BY DEF Init, IndexInv, Listed
<1>5. FoundInv
  BY DEF Init, FoundInv, Frame
<1> QED BY <1>1, <1>2, <1>3, <1>4, <1>5 DEF OneInv

(* What Goto, Return and a new frame leave of the one thread.              *)
LEMMA Moves ==
  ASSUME OneThread, TypeInv, NEW t \in Threads
  PROVE  /\ \A u \in Threads : u = t
         /\ at[t] \in Local
         /\ \A pc \in Statement : Goto(t, pc) =>
              /\ at' \in [Threads -> Local]
              /\ at'[t].pc = pc /\ at'[t].o = at[t].o /\ at'[t].register = at[t].register
         /\ Return(t) => at' \in [Threads -> Local] /\ at'[t].pc = "idle"
         /\ \A pc \in Statement, o \in Orders, r \in Nat :
              at' = [at EXCEPT ![t] = Frame(pc, o, r)] =>
                /\ at' \in [Threads -> Local]
                /\ at'[t].pc = pc /\ at'[t].o = o /\ at'[t].register = r
<1>1. at[t] \in Local /\ at \in [Threads -> Local]
  BY DEF TypeInv
<1>2. ASSUME NEW pc \in Statement, Goto(t, pc)
      PROVE  /\ at' \in [Threads -> Local]
             /\ at'[t].pc = pc /\ at'[t].o = at[t].o /\ at'[t].register = at[t].register
  <2>1. PICK f : f = [at[t] EXCEPT !.pc = pc]
    OBVIOUS
  <2>2. f \in Local /\ f.pc = pc /\ f.o = at[t].o /\ f.register = at[t].register
    BY <1>1, <2>1 DEF Local
  <2>3. at' = [at EXCEPT ![t] = f]
    BY <1>2, <2>1 DEF Goto
  <2> QED BY <1>1, <2>2, <2>3
<1>3. ASSUME Return(t) PROVE at' \in [Threads -> Local] /\ at'[t].pc = "idle"
  <2>1. PICK f : f = Frame("idle", End, 0)
    OBVIOUS
  <2>2. f \in Local /\ f.pc = "idle"
    BY <2>1 DEF Local, Statement, Frame
  <2>3. at' = [at EXCEPT ![t] = f]
    BY <1>3, <2>1 DEF Return
  <2> QED BY <1>1, <2>2, <2>3
<1>4. ASSUME NEW pc \in Statement, NEW o \in Orders, NEW r \in Nat,
             at' = [at EXCEPT ![t] = Frame(pc, o, r)]
      PROVE  /\ at' \in [Threads -> Local]
             /\ at'[t].pc = pc /\ at'[t].o = o /\ at'[t].register = r
  <2>1. PICK f : f = Frame(pc, o, r)
    OBVIOUS
  <2>2. f \in Local /\ f.pc = pc /\ f.o = o /\ f.register = r
    BY <2>1 DEF Local, Frame
  <2> QED BY <1>1, <1>4, <2>1, <2>2
<1>5. \A u \in Threads : u = t
  BY DEF OneThread
<1> QED BY <1>1, <1>2, <1>3, <1>4, <1>5

-----------------------------------------------------------------------------
(* What is in a list without repetitions after an insertion, and after an  *)
(* erasure.                                                                *)
In(q, x) == \E i \in 1 .. Len(q) : q[i] = x
Once(q)  == \A i \in 1 .. Len(q) : \A j \in 1 .. Len(q) : q[i] = q[j] => i = j

LEMMA InsertedElements ==
  ASSUME NEW S, NEW s \in Seq(S), NEW p \in 1 .. Len(s) + 1, NEW e \in S
  PROVE  Once(s) /\ ~In(s, e) =>
           /\ InsertAt(s, p, e) \in Seq(S) /\ Once(InsertAt(s, p, e))
           /\ \A x : In(InsertAt(s, p, e), x) <=> x = e \/ In(s, x)
<1>1. /\ InsertAt(s, p, e) \in Seq(S) /\ Len(InsertAt(s, p, e)) = Len(s) + 1
      /\ \A i \in 1 .. Len(s) + 1 :
           InsertAt(s, p, e)[i] = IF i < p THEN s[i] ELSE IF i = p THEN e ELSE s[i - 1]
  BY InsertAtElements
<1> HAVE Once(s) /\ ~In(s, e)
<1>2. PICK r : r = InsertAt(s, p, e)
  OBVIOUS
<1>3. PICK n \in Nat : n = Len(s)
  BY LenProperties
<1>4. /\ r \in Seq(S) /\ Len(r) = n + 1 /\ p \in 1 .. n + 1
      /\ \A i \in 1 .. n + 1 : r[i] = IF i < p THEN s[i] ELSE IF i = p THEN e ELSE s[i - 1]
      /\ \A i \in 1 .. n : \A j \in 1 .. n : s[i] = s[j] => i = j
      /\ \A i \in 1 .. n : s[i] # e
  BY <1>1, <1>2, <1>3 DEF Once, In
<1>5. r[p] = e
  BY <1>4
<1>6. ASSUME NEW i \in 1 .. n PROVE \E j \in 1 .. n + 1 : r[j] = s[i]
  <2>1. CASE i < p
    BY <1>4, <2>1
  <2>2. CASE ~(i < p)
    <3>1. i + 1 \in 1 .. n + 1 /\ ~(i + 1 < p) /\ i + 1 # p /\ i + 1 - 1 = i
      BY <1>4, <2>2
    <3>2. r[i + 1] = s[i]
      BY <1>4, <3>1
    <3> QED BY <3>1, <3>2
  <2> QED BY <2>1, <2>2
<1>7. ASSUME NEW j \in 1 .. n + 1 PROVE r[j] = e \/ \E i \in 1 .. n : s[i] = r[j]
  <2>1. CASE j < p
    <3>1. j \in 1 .. n
      BY <1>4, <2>1
    <3> QED BY <1>4, <2>1, <3>1
  <2>2. CASE j = p
    BY <1>5, <2>2
  <2>3. CASE j > p
    <3>1. j - 1 \in 1 .. n /\ ~(j < p) /\ j # p
      BY <1>4, <2>3
    <3> QED BY <1>4, <3>1
  <2> QED BY <1>4, <2>1, <2>2, <2>3
<1>8. ASSUME NEW x PROVE (\E i \in 1 .. n + 1 : r[i] = x) <=> x = e \/ \E i \in 1 .. n : s[i] = x
  <2>1. ASSUME NEW i \in 1 .. n + 1, r[i] = x PROVE x = e \/ \E j \in 1 .. n : s[j] = x
    BY <1>7, <2>1
  <2>2. ASSUME x = e PROVE \E i \in 1 .. n + 1 : r[i] = x
    BY <1>4, <1>5, <2>2
  <2>3. ASSUME NEW i \in 1 .. n, s[i] = x PROVE \E j \in 1 .. n + 1 : r[j] = x
    BY <1>6, <2>3
  <2> QED BY <2>1, <2>2, <2>3
<1>9. ASSUME NEW i \in 1 .. n + 1, NEW j \in 1 .. n + 1, i < j PROVE r[i] # r[j]
  <2>1. CASE j < p
    <3>1. i \in 1 .. n /\ j \in 1 .. n /\ i < p /\ i # j
      BY <1>4, <1>9, <2>1
    <3>2. r[i] = s[i] /\ r[j] = s[j]
      BY <1>4, <2>1, <3>1
    <3> QED BY <1>4, <3>1, <3>2
  <2>2. CASE j = p
    <3>1. i \in 1 .. n /\ i < p
      BY <1>4, <1>9, <2>2
    <3>2. r[i] = s[i]
      BY <1>4, <3>1
    <3> QED BY <1>4, <1>5, <2>2, <3>1, <3>2
  <2>3. CASE j > p
    <3>1. j - 1 \in 1 .. n /\ r[j] = s[j - 1]
      BY <1>4, <2>3
    <3>2. CASE i < p
      <4>1. i \in 1 .. n /\ r[i] = s[i] /\ i # j - 1
        BY <1>4, <2>3, <3>2
      <4> QED BY <1>4, <3>1, <4>1
    <3>3. CASE i = p
      BY <1>4, <1>5, <3>1, <3>3
    <3>4. CASE i > p
      <4>1. i - 1 \in 1 .. n /\ r[i] = s[i - 1] /\ i - 1 # j - 1
        BY <1>4, <1>9, <3>4
      <4> QED BY <1>4, <3>1, <4>1
    <3> QED BY <1>4, <3>2, <3>3, <3>4
  <2> QED BY <1>4, <2>1, <2>2, <2>3
<1>10. ASSUME NEW i \in 1 .. n + 1, NEW j \in 1 .. n + 1, r[i] = r[j] PROVE i = j
  BY <1>9, <1>10
<1>11. Once(r) /\ \A x : In(r, x) <=> x = e \/ In(s, x)
  BY <1>3, <1>4, <1>8, <1>10 DEF Once, In
<1> QED BY <1>2, <1>4, <1>11

LEMMA ErasedElements ==
  ASSUME NEW S, NEW s \in Seq(S), NEW p \in 1 .. Len(s)
  PROVE  Once(s) =>
           /\ RemoveAt(s, p) \in Seq(S) /\ Once(RemoveAt(s, p))
           /\ \A x : In(RemoveAt(s, p), x) <=> x # s[p] /\ In(s, x)
<1>1. /\ RemoveAt(s, p) \in Seq(S) /\ Len(RemoveAt(s, p)) = Len(s) - 1
      /\ \A i \in 1 .. Len(s) - 1 : RemoveAt(s, p)[i] = IF i < p THEN s[i] ELSE s[i + 1]
  BY RemoveAtElements
<1> HAVE Once(s)
<1>2. PICK r : r = RemoveAt(s, p)
  OBVIOUS
<1>3. PICK n \in Nat : n = Len(s)
  BY LenProperties
<1>4. /\ r \in Seq(S) /\ Len(r) = n - 1 /\ p \in 1 .. n
      /\ \A i \in 1 .. n - 1 : r[i] = IF i < p THEN s[i] ELSE s[i + 1]
      /\ \A i \in 1 .. n : \A j \in 1 .. n : s[i] = s[j] => i = j
  BY <1>1, <1>2, <1>3 DEF Once
<1>5. ASSUME NEW i \in 1 .. n, i # p PROVE \E j \in 1 .. n - 1 : r[j] = s[i]
  <2>1. CASE i < p
    <3>1. i \in 1 .. n - 1
      BY <1>4, <2>1
    <3> QED BY <1>4, <2>1, <3>1
  <2>2. CASE i > p
    <3>1. i - 1 \in 1 .. n - 1 /\ ~(i - 1 < p) /\ i - 1 + 1 = i
      BY <1>4, <2>2
    <3> QED BY <1>4, <3>1
  <2> QED BY <1>4, <1>5, <2>1, <2>2
<1>6. ASSUME NEW j \in 1 .. n - 1 PROVE \E i \in 1 .. n : i # p /\ s[i] = r[j]
  <2>1. CASE j < p
    BY <1>4, <2>1
  <2>2. CASE ~(j < p)
    <3>1. j + 1 \in 1 .. n /\ j + 1 # p
      BY <1>4, <2>2
    <3> QED BY <1>4, <2>2, <3>1
  <2> QED BY <2>1, <2>2
<1>7. ASSUME NEW x PROVE (\E i \in 1 .. n - 1 : r[i] = x) <=> x # s[p] /\ \E i \in 1 .. n : s[i] = x
  <2>1. ASSUME NEW i \in 1 .. n - 1, r[i] = x PROVE x # s[p] /\ \E j \in 1 .. n : s[j] = x
    <3>1. PICK j \in 1 .. n : j # p /\ s[j] = x
      BY <1>6, <2>1
    <3> QED BY <1>4, <3>1
  <2>2. ASSUME x # s[p], NEW i \in 1 .. n, s[i] = x PROVE \E j \in 1 .. n - 1 : r[j] = x
    <3>1. i # p
      BY <2>2
    <3> QED BY <1>5, <2>2, <3>1
  <2> QED BY <2>1, <2>2
<1>8. ASSUME NEW i \in 1 .. n - 1, NEW j \in 1 .. n - 1, i < j PROVE r[i] # r[j]
  <2>1. i \in 1 .. n /\ i + 1 \in 1 .. n /\ j \in 1 .. n /\ j + 1 \in 1 .. n
    BY <1>4
  <2>2. CASE j < p
    <3>1. r[i] = s[i] /\ r[j] = s[j] /\ i # j
      BY <1>4, <1>8, <2>2
    <3> QED BY <1>4, <2>1, <3>1
  <2>3. CASE ~(j < p) /\ i < p
    <3>1. r[i] = s[i] /\ r[j] = s[j + 1] /\ i # j + 1
      BY <1>4, <1>8, <2>3
    <3> QED BY <1>4, <2>1, <3>1
  <2>4. CASE ~(i < p)
    <3>1. ~(j < p) /\ i + 1 # j + 1
      BY <1>4, <1>8, <2>4
    <3>2. r[i] = s[i + 1] /\ r[j] = s[j + 1]
      BY <1>4, <2>4, <3>1
    <3> QED BY <1>4, <2>1, <3>1, <3>2
  <2> QED BY <1>4, <1>8, <2>2, <2>3, <2>4
<1>9. ASSUME NEW i \in 1 .. n - 1, NEW j \in 1 .. n - 1, r[i] = r[j] PROVE i = j
  BY <1>8, <1>9
<1>10. Once(r) /\ \A x : In(r, x) <=> x # s[p] /\ In(s, x)
  BY <1>3, <1>4, <1>7, <1>9 DEF Once, In
<1> QED BY <1>2, <1>4, <1>10

LEMMA KeepsOne ==
  ASSUME OneThread, OneInv, NEW t \in Threads, at' \in [Threads -> Local],
         iByPrice' \in Orders \cup {End},
         UNCHANGED <<counter, orderId, byPrice, byId>>,
         at[t].pc # "index",
         at'[t].pc \in {"idle", "first", "erase", "replace"},
         at'[t].pc \in {"erase", "replace"} => iById' = 0 \/ iById' \in DOMAIN byId
  PROVE  OneInv'
<1>1. \A u \in Threads : u = t
  BY DEF OneThread
<1>2. TypeInv'
  BY DEF OneInv, TypeInv
<1>3. IdsInv'
  BY <1>1 DEF OneInv, IdsInv
<1>4. ListInv' /\ IndexInv'
  <2>1. \A o : Listed(o)' <=> Listed(o)
    BY DEF Listed
  <2> QED BY <1>1, <2>1 DEF OneInv, ListInv, IndexInv
<1>5. FoundInv'
  <2>1. \A o : Listed(o)' <=> Listed(o)
    BY DEF Listed
  <2> QED BY <1>1, <2>1 DEF OneInv, IndexInv, FoundInv
<1> QED BY <1>2, <1>3, <1>4, <1>5 DEF OneInv

LEMMA LoadOne ==
  ASSUME OneThread, OneInv, NEW t \in Threads, NEW o \in Orders, LoadId(t, o)
  PROVE  OneInv'
<1>1. /\ \A u \in Threads : u = t
      /\ at' \in [Threads -> Local] /\ at'[t].pc = "store" /\ at'[t].o = o /\ at'[t].register = counter
      /\ orderId[o] = 0 /\ at[t].pc = "idle"
      /\ UNCHANGED <<counter, orderId, price, byPrice, byId, iByPrice, iById>>
  <2>1. "store" \in Statement /\ counter \in Nat /\ TypeInv
    BY DEF Statement, OneInv, TypeInv
  <2> QED BY <2>1, Moves DEF LoadId, Idle
<1>2. \A p : Listed(p)' <=> Listed(p)
  BY <1>1 DEF Listed
<1>3. TypeInv' /\ IdsInv'
  BY <1>1 DEF OneInv, TypeInv, IdsInv
<1>4. ListInv' /\ IndexInv' /\ FoundInv'
  BY <1>1, <1>2 DEF OneInv, ListInv, IndexInv, FoundInv
<1> QED BY <1>3, <1>4 DEF OneInv

LEMMA StoreOne ==
  ASSUME OneThread, Millis \in Nat \ {0}, OneInv, NEW t \in Threads, StoreId(t)
  PROVE  OneInv'
<1>1. /\ \A u \in Threads : u = t
      /\ at' \in [Threads -> Local] /\ at'[t].pc = "make" /\ at'[t].o = at[t].o
      /\ at[t].pc = "store" /\ counter' = IF at[t].register = 0 THEN Millis ELSE at[t].register + 1
      /\ UNCHANGED <<orderId, price, byPrice, byId, iByPrice, iById>>
  <2>1. "make" \in Statement /\ TypeInv
    BY DEF Statement, OneInv
  <2> QED BY <2>1, Moves DEF StoreId
<1>2. \A p : Listed(p)' <=> Listed(p)
  BY <1>1 DEF Listed
<1>3. counter \in Nat /\ counter' \in Nat /\ counter < counter'
  BY <1>1 DEF OneInv, TypeInv, IdsInv
<1>4. \A p \in Orders : orderId[p] \in Nat /\ orderId[p] < counter'
  BY <1>3 DEF OneInv, TypeInv, IdsInv
<1>5. TypeInv' /\ IdsInv'
  BY <1>1, <1>3, <1>4 DEF OneInv, TypeInv, IdsInv
<1>6. ListInv' /\ IndexInv' /\ FoundInv'
  BY <1>1, <1>2 DEF OneInv, ListInv, IndexInv, FoundInv
<1> QED BY <1>5, <1>6 DEF OneInv

LEMMA MakeOne ==
  ASSUME OneThread, OneInv, NEW t \in Threads, MakeString(t)
  PROVE  OneInv'
<1>1. /\ \A u \in Threads : u = t
      /\ at' \in [Threads -> Local] /\ at'[t].pc = "insert" /\ at'[t].o = at[t].o
      /\ at[t].pc = "make" /\ orderId' = [orderId EXCEPT ![at[t].o] = counter]
      /\ UNCHANGED <<counter, price, byPrice, byId, iByPrice, iById>>
  <2>1. "insert" \in Statement /\ TypeInv
    BY DEF Statement, OneInv
  <2> QED BY <2>1, Moves DEF MakeString
<1>2. \A p : Listed(p)' <=> Listed(p)
  BY <1>1 DEF Listed
<1>3. PICK o \in Orders : o = at[t].o /\ orderId[o] = 0
  BY <1>1 DEF OneInv, IdsInv
<1>4. /\ counter \in Nat /\ \A p \in Orders : orderId[p] \in Nat /\ orderId[p] < counter
      /\ orderId' \in [Orders -> Nat] /\ orderId'[o] = counter
      /\ \A p \in Orders : p # o => orderId'[p] = orderId[p]
  BY <1>1, <1>3 DEF OneInv, TypeInv, IdsInv
<1>5. ~Listed(o) /\ counter # 0
  BY <1>3, <1>4 DEF OneInv, ListInv
<1>6. TypeInv'
  BY <1>1, <1>4 DEF OneInv, TypeInv
<1>7. IdsInv'
  <2>1. \A p \in Orders : orderId'[p] <= counter
    BY <1>4
  <2>2. ASSUME NEW p \in Orders, NEW q \in Orders, orderId'[p] = orderId'[q], orderId'[p] # 0
        PROVE  p = q
    BY <1>4, <2>2 DEF OneInv, IdsInv
  <2> QED BY <1>1, <2>1, <2>2 DEF IdsInv
<1>8. ListInv'
  BY <1>1, <1>2, <1>3, <1>4, <1>5 DEF OneInv, ListInv
<1>9. IndexInv'
  BY <1>1, <1>2, <1>4, <1>5 DEF OneInv, IndexInv
<1>10. FoundInv'
  BY <1>1 DEF FoundInv
<1> QED BY <1>6, <1>7, <1>8, <1>9, <1>10 DEF OneInv

LEMMA InsertOne ==
  ASSUME OneThread, OneInv, NEW t \in Threads, InsertByPrice(t)
  PROVE  OneInv'
<1>1. PICK o \in Orders : o = at[t].o /\ orderId[o] # 0 /\ ~Listed(o)
  BY DEF OneInv, ListInv, InsertByPrice
<1>2. PICK p \in 1 .. Len(byPrice) + 1 : byPrice' = InsertAt(byPrice, p, o)
  BY <1>1 DEF InsertByPrice
<1>3. /\ \A u \in Threads : u = t
      /\ at' \in [Threads -> Local] /\ at'[t].pc = "index" /\ at'[t].o = o
      /\ at[t].pc = "insert" /\ iByPrice' = o
      /\ UNCHANGED <<counter, orderId, price, byId, iById>>
  <2>1. "index" \in Statement /\ TypeInv
    BY DEF Statement, OneInv
  <2> QED BY <1>1, <2>1, Moves DEF InsertByPrice
<1>4. /\ byPrice \in Seq(Orders) /\ byPrice' \in Seq(Orders) /\ Once(byPrice')
      /\ \A x : In(byPrice', x) <=> x = o \/ In(byPrice, x)
  <2>1. byPrice \in Seq(Orders) /\ Once(byPrice) /\ ~In(byPrice, o)
    BY <1>1, LenProperties DEF OneInv, TypeInv, ListInv, Listed, In, Once
  <2> QED BY <1>2, <2>1, InsertedElements
<1>5. \A x : Listed(x)' <=> x = o \/ Listed(x)
  BY <1>4, LenProperties DEF Listed, In
<1>6. \A i, j \in DOMAIN byPrice' : byPrice'[i] = byPrice'[j] => i = j
  BY <1>4, LenProperties DEF Once
<1>7. TypeInv'
  BY <1>3, <1>4 DEF OneInv, TypeInv
<1>8. IdsInv'
  BY <1>3 DEF OneInv, IdsInv
<1>9. orderId[o] \notin DOMAIN byId
  BY <1>1 DEF OneInv, IdsInv, IndexInv
<1>10. ListInv'
  BY <1>1, <1>3, <1>5, <1>6, <1>9 DEF OneInv, ListInv
<1>11. IndexInv'
  BY <1>3, <1>5 DEF OneInv, IndexInv
<1>12. FoundInv'
  BY <1>3 DEF FoundInv
<1> QED BY <1>7, <1>8, <1>10, <1>11, <1>12 DEF OneInv

LEMMA IndexOne ==
  ASSUME OneThread, OneInv, NEW t \in Threads, InsertById(t)
  PROVE  OneInv'
<1>1. PICK o \in Orders : o = at[t].o /\ iByPrice = o /\ Listed(o) /\ orderId[o] \notin DOMAIN byId
  BY DEF OneInv, ListInv, InsertById
<1>2. /\ \A u \in Threads : u = t
      /\ at' \in [Threads -> Local] /\ at'[t].pc = "idle" /\ at[t].pc = "index"
      /\ byId' = [i \in DOMAIN byId \cup {orderId[o]} |-> IF i \in DOMAIN byId THEN byId[i] ELSE o]
      /\ UNCHANGED <<counter, orderId, price, byPrice, iByPrice, iById>>
  BY <1>1, Moves DEF InsertById, OneInv
<1>3. PICK k : k = orderId[o]
  OBVIOUS
<1>4. /\ DOMAIN byId' = DOMAIN byId \cup {k} /\ byId'[k] = o
      /\ \A i \in DOMAIN byId : byId'[i] = byId[i]
  BY <1>1, <1>2, <1>3
<1>5. \A p : Listed(p)' <=> Listed(p)
  BY <1>2 DEF Listed
<1>6. TypeInv' /\ IdsInv'
  BY <1>2 DEF OneInv, TypeInv, IdsInv
<1>7. ListInv'
  BY <1>2, <1>5 DEF OneInv, ListInv
<1>8. IndexInv'
  <2>1. ASSUME NEW i \in DOMAIN byId'
        PROVE  /\ byId'[i] \in Orders /\ orderId'[byId'[i]] = i
               /\ \E j \in DOMAIN byPrice' : byPrice'[j] = byId'[i]
    <3>1. CASE i \in DOMAIN byId
      <4>1. byId'[i] = byId[i] /\ byId[i] \in Orders /\ Listed(byId[i]) /\ orderId[byId[i]] = i
        BY <1>4, <3>1 DEF OneInv, IndexInv
      <4> QED BY <1>2, <4>1 DEF Listed
    <3>2. CASE i = k
      BY <1>1, <1>2, <1>3, <1>4, <3>2 DEF Listed
    <3> QED BY <1>4, <3>1, <3>2
  <2>2. ASSUME NEW p \in Orders, Listed(p) PROVE orderId[p] \in DOMAIN byId'
    BY <1>1, <1>2, <1>3, <1>4, <2>2 DEF OneInv, IndexInv
  <2>3. (\A i \in DOMAIN byId : byId[i] \in Orders /\ Listed(byId[i]) /\ orderId[byId[i]] = i)'
    BY <2>1 DEF Listed
  <2> QED BY <1>2, <1>5, <2>2, <2>3 DEF IndexInv
<1>9. FoundInv'
  BY <1>2 DEF FoundInv
<1> QED BY <1>6, <1>7, <1>8, <1>9 DEF OneInv

LEMMA EraseOne ==
  ASSUME OneThread, OneInv, NEW t \in Threads, Erase(t)
  PROVE  OneInv'
<1>1. PICK k \in DOMAIN byId : k = iById
  BY DEF Erase
<1>2. PICK p \in DOMAIN byPrice : byPrice[p] = byId[k] /\ byPrice' = RemoveAt(byPrice, p)
  BY <1>1 DEF Erase
<1>3. /\ \A u \in Threads : u = t
      /\ at' \in [Threads -> Local] /\ at'[t].pc = "idle" /\ at[t].pc = "erase"
      /\ byId' = [i \in DOMAIN byId \ {k} |-> byId[i]]
      /\ UNCHANGED <<counter, orderId, price, iByPrice, iById>>
  BY <1>1, Moves DEF Erase, OneInv
<1>4. /\ byPrice \in Seq(Orders) /\ byPrice' \in Seq(Orders) /\ Once(byPrice')
      /\ \A x : In(byPrice', x) <=> x # byPrice[p] /\ In(byPrice, x)
  <2>1. byPrice \in Seq(Orders) /\ Once(byPrice) /\ p \in 1 .. Len(byPrice)
    BY <1>2, LenProperties DEF OneInv, TypeInv, ListInv, Once
  <2> QED BY <1>2, <2>1, ErasedElements
<1>5. \A x : Listed(x)' <=> Listed(x) /\ x # byId[k]
  <2>1. \A x : Listed(x) <=> In(byPrice, x)
    BY <1>4, LenProperties DEF Listed, In
  <2>2. \A x : Listed(x)' <=> In(byPrice', x)
    BY <1>4, LenProperties DEF Listed, In
  <2> QED BY <1>2, <1>4, <2>1, <2>2
<1>6. \A i, j \in DOMAIN byPrice' : byPrice'[i] = byPrice'[j] => i = j
  BY <1>4, LenProperties DEF Once
<1>7. DOMAIN byId' = DOMAIN byId \ {k} /\ \A i \in DOMAIN byId' : byId'[i] = byId[i]
  BY <1>3
<1>8. byId[k] \in Orders /\ orderId[byId[k]] = k
       /\ \A i \in DOMAIN byId : byId[i] \in Orders /\ Listed(byId[i]) /\ orderId[byId[i]] = i
  BY DEF OneInv, IndexInv
<1>9. TypeInv' /\ IdsInv'
  BY <1>3, <1>4 DEF OneInv, TypeInv, IdsInv
<1>10. ListInv'
  BY <1>3, <1>5, <1>6 DEF OneInv, ListInv
<1>11. IndexInv'
  <2>1. ASSUME NEW i \in DOMAIN byId'
        PROVE  /\ byId'[i] \in Orders /\ orderId'[byId'[i]] = i
               /\ \E j \in DOMAIN byPrice' : byPrice'[j] = byId'[i]
    <3>1. i \in DOMAIN byId /\ i # k /\ byId'[i] = byId[i] /\ byId[i] # byId[k]
      BY <1>7, <1>8
    <3>2. PICK q : q = byId'[i]
      OBVIOUS
    <3>3. Listed(q)'
      BY <1>5, <1>8, <3>1, <3>2
    <3> QED BY <1>3, <1>8, <3>1, <3>2, <3>3 DEF Listed
  <2>2. ASSUME NEW q \in Orders, Listed(q), q # byId[k] PROVE orderId[q] \in DOMAIN byId'
    <3>1. orderId[q] \in DOMAIN byId /\ orderId[q] # 0
      BY <1>3, <2>2 DEF OneInv, IndexInv, ListInv
    <3>2. orderId[q] # k
      BY <1>8, <2>2, <3>1 DEF OneInv, IdsInv
    <3> QED BY <1>7, <3>1, <3>2
  <2>3. (\A i \in DOMAIN byId : byId[i] \in Orders /\ Listed(byId[i]) /\ orderId[byId[i]] = i)'
    BY <2>1 DEF Listed
  <2> QED BY <1>3, <1>5, <2>2, <2>3 DEF IndexInv
<1>12. FoundInv'
  BY <1>3 DEF FoundInv
<1> QED BY <1>9, <1>10, <1>11, <1>12 DEF OneInv

LEMMA FoundIsGood ==
  ASSUME NEW o
  PROVE  Found(o) = 0 \/ Found(o) \in DOMAIN byId
BY DEF Found

LEMMA NextOne ==
  ASSUME OneThread, Millis \in Nat \ {0}, OneInv, [Next]_vars
  PROVE  OneInv'
<1>1. ASSUME NEW t \in Threads, NEW o \in Orders, NEW pc \in {"erase", "replace"}, Find(t, o, pc)
      PROVE  OneInv'
  <2>1. /\ at' = [at EXCEPT ![t] = Frame(pc, o, 0)] /\ at[t].pc = "idle"
        /\ iById' = Found(o)
        /\ UNCHANGED <<counter, orderId, price, byPrice, byId, iByPrice>>
    BY <1>1 DEF Find, Idle
  <2>2. at' \in [Threads -> Local] /\ at'[t].pc = pc
    BY <2>1, Moves DEF Statement, OneInv
  <2> QED BY <2>1, <2>2, FoundIsGood, KeepsOne DEF OneInv, TypeInv
<1>2. ASSUME NEW t \in Threads, Replace(t) \/ OrderIdNotFound(t) \/ ListIsEmpty(t) \/ FillPart(t)
      PROVE  OneInv'
  <2>1. /\ Return(t) /\ at[t].pc # "index"
        /\ UNCHANGED <<counter, orderId, price, byPrice, byId, iByPrice>>
    BY <1>2 DEF Replace, OrderIdNotFound, ListIsEmpty, FillPart
  <2>2. at' \in [Threads -> Local] /\ at'[t].pc = "idle"
    BY <2>1, Moves DEF OneInv
  <2> QED BY <2>1, <2>2, KeepsOne DEF OneInv, TypeInv
<1>3. ASSUME NEW t \in Threads, First(t) PROVE OneInv'
  <2>1. /\ Goto(t, "first") /\ at[t].pc # "index"
        /\ UNCHANGED <<counter, orderId, price, byPrice, byId, iById>>
    BY <1>3 DEF First, Idle
  <2>2. at' \in [Threads -> Local] /\ at'[t].pc = "first"
    BY <2>1, Moves DEF Statement, OneInv
  <2>3. iByPrice' \in Orders \cup {End}
    <3>1. CASE byPrice = <<>>
      BY <1>3, <3>1 DEF First
    <3>2. CASE byPrice # <<>>
      BY <1>3, <3>2, TailElements DEF First, OneInv, TypeInv
    <3> QED BY <3>1, <3>2
  <2> QED BY <2>1, <2>2, <2>3, KeepsOne
<1>4. ASSUME NEW t \in Threads, FillAll(t) PROVE OneInv'
  <2>1. /\ Goto(t, "erase") /\ at[t].pc # "index" /\ iById' = Found(iByPrice)
        /\ UNCHANGED <<counter, orderId, price, byPrice, byId, iByPrice>>
    BY <1>4 DEF FillAll
  <2>2. at' \in [Threads -> Local] /\ at'[t].pc = "erase"
    BY <2>1, Moves DEF Statement, OneInv
  <2> QED BY <2>1, <2>2, FoundIsGood, KeepsOne DEF OneInv, TypeInv
<1>5. CASE UNCHANGED vars
  <2>1. \A p : Listed(p)' <=> Listed(p)
    BY <1>5 DEF vars, Listed
  <2>2. TypeInv' /\ IdsInv'
    BY <1>5 DEF vars, OneInv, TypeInv, IdsInv
  <2>3. ListInv' /\ IndexInv' /\ FoundInv'
    BY <1>5, <2>1 DEF vars, OneInv, ListInv, IndexInv, FoundInv
  <2> QED BY <2>2, <2>3 DEF OneInv
<1> QED BY <1>1, <1>2, <1>3, <1>4, <1>5, LoadOne, StoreOne, MakeOne, InsertOne, IndexOne, EraseOne
        DEF Next

LEMMA IndexCorrect ==
  ASSUME OneThread, Millis \in Nat \ {0}, End \notin Orders
  PROVE  Spec => []OneInv
<1>1. OneInv /\ [Next]_vars => OneInv'
  BY NextOne
<1> QED BY <1>1, InitOne, PTL DEF Spec

(* When one thread works on the list, ids are unique and every order that  *)
(* rests is found by its id, through any series of insertions, cancels,    *)
(* replaces and fills.                                                     *)
THEOREM OneThreadFindsOrders ==
  ASSUME OneThread, Millis \in Nat \ {0}, End \notin Orders
  PROVE  Spec => []IdsFindTheirOrders
<1>1. OneInv => IdsFindTheirOrders
  <2> SUFFICES ASSUME OneInv, \A t \in Threads : Idle(t), NEW o \in Range(byPrice)
               PROVE  orderId[o] \in DOMAIN byId /\ byId[orderId[o]] = o
    BY DEF IdsFindTheirOrders
  <2>1. o \in Orders /\ Listed(o)
    BY ElementOfSeq, LenProperties DEF Range, Listed, OneInv, TypeInv
  <2>2. orderId[o] \in DOMAIN byId /\ orderId[o] # 0
    BY <2>1 DEF OneInv, IndexInv, ListInv, Idle
  <2>3. byId[orderId[o]] \in Orders /\ orderId[byId[orderId[o]]] = orderId[o]
    BY <2>2 DEF OneInv, IndexInv
  <2> QED BY <2>1, <2>2, <2>3 DEF OneInv, IdsInv
<1> QED BY <1>1, IndexCorrect, PTL

(* What find() leaves in _iOrdersByOrderId is followed into both           *)
(* containers, one statement later: the entry is still in the index then,  *)
(* and its order in the list.                                              *)
IteratorsAreGood ==
  \A t \in Threads : at[t].pc \in {"erase", "replace"} /\ iById # 0 =>
    iById \in DOMAIN byId /\ byId[iById] \in Range(byPrice)

(* With one thread no statement of cancel(), replace() or erase() uses an  *)
(* iterator of an entry that is gone.                                      *)
THEOREM OneThreadKeepsIterators ==
  ASSUME OneThread, Millis \in Nat \ {0}, End \notin Orders
  PROVE  Spec => []IteratorsAreGood
<1>1. OneInv => IteratorsAreGood
  <2> SUFFICES ASSUME OneInv, NEW t \in Threads, at[t].pc \in {"erase", "replace"}, iById # 0
               PROVE  iById \in DOMAIN byId /\ byId[iById] \in Range(byPrice)
    BY DEF IteratorsAreGood
  <2>1. iById \in DOMAIN byId
    BY DEF OneInv, FoundInv
  <2>2. Listed(byId[iById])
    BY <2>1 DEF OneInv, IndexInv
  <2> QED BY <2>1, <2>2 DEF Listed, Range
<1> QED BY <1>1, IndexCorrect, PTL
=============================================================================
