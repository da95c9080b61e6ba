----------------------------- MODULE MarketData -----------------------------
(***************************************************************************)
(* Market data: the publisher thread of esm/market.cpp sweeps the books,   *)
(* takes a picture of every changed one (esm/orderBook.cpp, orderList.h),  *)
(* collects pictures in packets (esm/structures.h) and sends each packet   *)
(* to the market data sessions (esm/fixMarketDataHandler.cpp).  Session    *)
(* threads change the books and then set _hasChanged, without a lock.      *)
(* Books are named by their position in _orderBooksForMarketPicture.       *)
(***************************************************************************)
EXTENDS Integers, Sequences, SequencesExt

CONSTANTS
  MaxBooks,   \* bound on the number of books
  Levels,     \* price levels in a picture, 5 in the code
  MaxRecs,    \* MaxNoOfRecs, 10 in the code
  BuyLists,   \* entries, best first, that the two lists of a book can hold
  SellLists,
  Writers,    \* threads that change books
  Clients,    \* market data sessions
  Garbage,    \* what memory behind the levels of a picture can look like
  Nothing     \* no snapshot

Level == [price : Int, qty : Int]

ASSUME SizesAssumption ==
  /\ MaxBooks \in Nat \ {0} /\ Levels \in Nat \ {0} /\ MaxRecs \in Nat \ {0}
  /\ <<>> \in BuyLists \cap SellLists

(* _ordersByPrice is sorted by price, the buys in descending order.        *)
ASSUME ListsAssumption ==
  /\ BuyLists \cup SellLists \subseteq Seq(Level)
  /\ \A l \in BuyLists : \A i, j \in DOMAIN l : i < j => l[i].price >= l[j].price
  /\ \A l \in SellLists : \A i, j \in DOMAIN l : i < j => l[i].price <= l[j].price

VARIABLES
  count,      \* number of books
  buys,       \* _buyOrders of each book
  sells,      \* _sellOrders
  changed,    \* _hasChanged
  writing,    \* the book that each writer changed and has not flagged, or 0
  picture,    \* _marketPictureRecord of each book: its buy and sell levels
  sweep,      \* loop index of the publisher
  pc,         \* what the publisher executes next
  packet,     \* _marketPicture: the records collected
  sent,       \* how many of them were sent
  logged,     \* _setSessions
  seen        \* the latest snapshot that each client got

books     == <<count, buys, sells, writing>>
publisher == <<picture, sweep, pc, packet, sent>>
sessions  == <<logged, seen>>
vars      == <<books, changed, publisher, sessions>>

AllBooks == 1 .. MaxBooks
NoLevel  == [price |-> 0, qty |-> 0]
NoLevels == [k \in 1 .. Levels |-> NoLevel]

-----------------------------------------------------------------------------
(* getMarketData(): one pass over a list; n is the number of levels in     *)
(* use, and the pass breaks off at the first price without a level.        *)
Merges(acc, e)  == acc.n > 0 /\ acc.levels[acc.n].price = e.price
HasRoom(acc)    == acc.n < Levels

(* Mutant: the pass goes on with the last level.                           *)
AddEntryPastEnd(acc, e) ==
  CASE Merges(acc, e) -> [acc EXCEPT !.levels[acc.n].qty = @ + e.qty]
    [] ~Merges(acc, e) /\ HasRoom(acc) -> [acc EXCEPT !.n = @ + 1, !.levels[acc.n + 1] = e]
    [] OTHER -> [acc EXCEPT !.levels[acc.n].qty = @ + e.qty]

AddEntry(acc, e) ==
  CASE acc.over -> acc
    [] ~acc.over /\ Merges(acc, e) -> [acc EXCEPT !.levels[acc.n].qty = @ + e.qty]
    [] ~acc.over /\ ~Merges(acc, e) /\ HasRoom(acc) ->
         [acc EXCEPT !.n = @ + 1, !.levels[acc.n + 1] = e]
    [] OTHER -> [acc EXCEPT !.over = TRUE]

MarketDataOf ==
  [list \in BuyLists \cup SellLists |->
     LET pass[i \in 0 .. Len(list)] ==
           IF i = 0 THEN [levels |-> NoLevels, n |-> 0, over |-> FALSE]
           ELSE AddEntry(pass[i - 1], list[i])
     IN pass[Len(list)].levels]

Init ==
  /\ count = 0
  /\ buys = [b \in AllBooks |-> <<>>] /\ sells = [b \in AllBooks |-> <<>>]
  /\ changed = [b \in AllBooks |-> FALSE]
  /\ writing = [w \in Writers |-> 0]
  /\ picture = [b \in AllBooks |-> [buy |-> NoLevels, sell |-> NoLevels]]
  /\ sweep = 0 /\ pc = "sleep" /\ packet = <<>> /\ sent = 0
  /\ logged = {}
  /\ seen = [c \in Clients |-> Nothing]

-----------------------------------------------------------------------------
(* Session threads: Market::insert() adds a book; a request leaves one or  *)
(* both lists of a book with other contents, then sets _hasChanged.        *)
AddBook(w) ==
  /\ writing[w] = 0 /\ count < MaxBooks
  /\ count' = count + 1
  /\ UNCHANGED <<buys, sells, writing, changed, publisher, sessions>>

Write(w) ==
  /\ writing[w] = 0
  /\ \E b \in 1 .. count :
       /\ writing' = [writing EXCEPT ![w] = b]
       /\ \/ \E l \in BuyLists : buys' = [buys EXCEPT ![b] = l] /\ sells' = sells
          \/ \E l \in SellLists : sells' = [sells EXCEPT ![b] = l] /\ buys' = buys
  /\ UNCHANGED <<count, changed, publisher, sessions>>

Flag(w) ==
  /\ writing[w] # 0
  /\ changed' = [changed EXCEPT ![writing[w]] = TRUE]
  /\ writing' = [writing EXCEPT ![w] = 0]
  /\ UNCHANGED <<count, buys, sells, publisher, sessions>>

-----------------------------------------------------------------------------
(* Mutant: the index of the last book is its size.                         *)
SweepBeginsPastEnd ==
  /\ pc = "sleep"
  /\ sweep' = count + 1 /\ pc' = "look"
  /\ UNCHANGED <<books, changed, picture, packet, sent, sessions>>

(* sendMarketPicture(): the loop runs from the last book to the first.     *)
SweepBegins ==
  /\ pc = "sleep"
  /\ sweep' = count /\ pc' = "look"
  /\ UNCHANGED <<books, changed, picture, packet, sent, sessions>>

Skip ==
  /\ pc = "look" /\ sweep > 0 /\ ~changed[sweep]
  /\ sweep' = sweep - 1
  /\ UNCHANGED <<books, changed, picture, pc, packet, sent, sessions>>

(* Mutant: the first book of the vector is not looked at.                  *)
TakeButFirst ==
  /\ pc = "look" /\ sweep > 0 /\ changed[sweep]
  /\ IF sweep > 1 THEN pc' = "buys" /\ sweep' = sweep ELSE pc' = pc /\ sweep' = 0
  /\ UNCHANGED <<books, changed, picture, packet, sent, sessions>>

Take ==
  /\ pc = "look" /\ sweep > 0 /\ changed[sweep]
  /\ pc' = "buys"
  /\ UNCHANGED <<books, changed, picture, sweep, packet, sent, sessions>>

(* getMarketPictureRecord(): the buys, the sells, then _hasChanged.        *)
CopyBuys ==
  /\ pc = "buys"
  /\ picture' = [picture EXCEPT ![sweep].buy = MarketDataOf[buys[sweep]]]
  /\ pc' = "sells"
  /\ UNCHANGED <<books, changed, sweep, packet, sent, sessions>>

CopySells ==
  /\ pc = "sells"
  /\ picture' = [picture EXCEPT ![sweep].sell = MarketDataOf[sells[sweep]]]
  /\ pc' = "clear"
  /\ UNCHANGED <<books, changed, sweep, packet, sent, sessions>>

Full(p) == Len(p) = MaxRecs

Clear ==
  /\ pc = "clear"
  /\ changed' = [changed EXCEPT ![sweep] = FALSE]
  /\ packet' = Append(packet, [book |-> sweep, depth |-> picture[sweep]])
  /\ pc' = IF Full(packet') THEN "send" ELSE "look"
  /\ sweep' = sweep - 1
  /\ UNCHANGED <<books, picture, sent, sessions>>

(* Mutant: a packet is sent only when it is full.                          *)
SweepEndsUnsent ==
  /\ pc = "look" /\ sweep = 0
  /\ pc' = "sleep"
  /\ UNCHANGED <<books, changed, picture, sweep, packet, sent, sessions>>

SweepEnds ==
  /\ pc = "look" /\ sweep = 0
  /\ pc' = IF packet # <<>> THEN "send" ELSE "sleep"
  /\ UNCHANGED <<books, changed, picture, sweep, packet, sent, sessions>>

(* MarketDataApplication::send(): the record of index i (from 0) is read   *)
(* at level i, in each of the passes over the levels.                      *)
Readable(levels) == IF sent < Levels THEN {levels[sent + 1]} ELSE Garbage

Entries(level) ==
  IF level.price # 0 /\ level.qty # 0 THEN [k \in 1 .. Levels |-> level] ELSE <<>>

(* The set of sessions is locked while a record is sent to all of them.    *)
SendRecord ==
  /\ pc = "send" /\ sent < Len(packet)
  /\ LET r == packet[sent + 1] IN
     \E bid \in Readable(r.depth.buy), offer \in Readable(r.depth.sell) :
       seen' = [c \in Clients |->
                  IF c \notin logged THEN seen[c]
                  ELSE [book |-> r.book, bids |-> Entries(bid), offers |-> Entries(offer)]]
  /\ sent' = sent + 1
  /\ UNCHANGED <<books, changed, picture, sweep, pc, packet, logged>>

SendEnds ==
  /\ pc = "send" /\ sent = Len(packet)
  /\ packet' = <<>> /\ sent' = 0 /\ pc' = "look"
  /\ UNCHANGED <<books, changed, picture, sweep, sessions>>

onLogon(c) ==
  /\ c \notin logged /\ logged' = logged \cup {c}
  /\ UNCHANGED <<books, changed, publisher, seen>>

onLogout(c) ==
  /\ c \in logged /\ logged' = logged \ {c}
  /\ UNCHANGED <<books, changed, publisher, seen>>

-----------------------------------------------------------------------------
Publish ==
  \/ SweepBegins \/ Skip \/ Take \/ CopyBuys \/ CopySells \/ Clear
  \/ SweepEnds \/ SendRecord \/ SendEnds

Next ==
  \/ \E w \in Writers : AddBook(w) \/ Write(w) \/ Flag(w)
  \/ Publish
  \/ \E c \in Clients : onLogon(c) \/ onLogout(c)

Spec == Init /\ [][Next]_vars

(* The publisher thread keeps running, and a request that changed a book   *)
(* comes to its end.                                                       *)
FairSpec == Spec /\ WF_vars(Publish) /\ \A w \in Writers : WF_vars(Flag(w))

-----------------------------------------------------------------------------
(* Every variable has its type; the loop index stays in the vector.        *)
Depth == [buy : [1 .. Levels -> Level], sell : [1 .. Levels -> Level]]

TypeOK ==
  /\ count \in 0 .. MaxBooks
  /\ buys \in [AllBooks -> BuyLists] /\ sells \in [AllBooks -> SellLists]
  /\ changed \in [AllBooks -> BOOLEAN]
  /\ writing \in [Writers -> 0 .. count]
  /\ picture \in [AllBooks -> Depth]
  /\ sweep \in 0 .. count
  /\ pc \in {"sleep", "look", "buys", "sells", "clear", "send"}
  /\ pc \in {"buys", "sells", "clear"} => sweep > 0
  /\ packet \in Seq([book : AllBooks, depth : Depth])
  /\ sent \in 0 .. Len(packet)
  /\ logged \subseteq Clients

(* A picture has the best prices of the list, best first and each once,    *)
(* with all that is shown at each of them, and no more than Levels prices. *)
TopLevels ==
  [list \in BuyLists \cup SellLists |->
     LET firsts == {i \in DOMAIN list : \A j \in 1 .. i - 1 : list[j].price # list[i].price}
         same(i) == {j \in DOMAIN list : list[j].price = list[i].price}
         nth(k) == {i \in firsts : Cardinality({j \in firsts : j <= i}) = k}
     IN [k \in 1 .. Levels |->
           IF nth(k) = {} THEN NoLevel
           ELSE LET i == CHOOSE i \in nth(k) : TRUE IN
                [price |-> list[i].price,
                 qty |-> FoldSet(LAMBDA j, sum : list[j].qty + sum, 0, same(i))]]]

DepthIsTopLevels ==
  \A b \in AllBooks : \A list \in {buys[b], sells[b]} : MarketDataOf[list] = TopLevels[list]

(* A packet never takes more records than it has room for, has one record  *)
(* of a book at most, and none is left behind when a sweep is over.        *)
PacketsAreComplete ==
  /\ Len(packet) <= MaxRecs
  /\ \A i, j \in DOMAIN packet : packet[i].book = packet[j].book => i = j
  /\ pc = "sleep" => packet = <<>>

(* A book that is flagged is sent at some later time, however often it and *)
(* the other books change meanwhile.                                       *)
ToBeSent(b) == \E k \in DOMAIN packet : packet[k].book = b

ChangesArePublished == \A b \in AllBooks : changed[b] ~> ToBeSent(b)

-----------------------------------------------------------------------------
(* What the comments of the code promise and the code does not keep.       *)

(* orderBook.h:106-107: _hasChanged tells whether the book has changed     *)
(* since the last picture, so a book without it looks like its picture     *)
(* unless a request or the publisher is at work on it.                     *)
PicturesAreCurrent ==
  \A b \in 1 .. count :
    \/ changed[b] \/ \E w \in Writers : writing[w] = b
    \/ sweep = b /\ pc \in {"sells", "clear"}
    \/ picture[b] = [buy |-> MarketDataOf[buys[b]], sell |-> MarketDataOf[sells[b]]]

(* fixMarketDataHandler.h:55: send() sends the snapshot, that is           *)
(* every bid and every offer it holds.                                     *)
Filled(levels) == SelectSeq(levels, LAMBDA l : l.price # 0 /\ l.qty # 0)

SnapshotsShowThePicture ==
  [][SendRecord =>
       LET r == packet[sent + 1] IN
       \A c \in logged : seen'[c] =
         [book |-> r.book, bids |-> Filled(r.depth.buy), offers |-> Filled(r.depth.sell)]]_vars
=============================================================================
