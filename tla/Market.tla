------------------------------- MODULE Market -------------------------------
(***************************************************************************)
(* The Market of esm/market.cpp: one order book per security, created by   *)
(* the first new order for it, and the console that stops and starts them. *)
(*                                                                         *)
(* Session threads look books up in an unordered_map without a lock; only  *)
(* the creation of a book is under _mutexForNewBook.  A lookup that runs   *)
(* while another thread inserts into the map is a data race: it may miss   *)
(* an entry that is there.  Of an OrderBook only _isActive and the set of  *)
(* resting orders are kept; OrderBook.tla has the rest.                    *)
(***************************************************************************)
EXTENDS Naturals, Sequences, SequencesExt

CONSTANTS
  Securities,   \* security ids in requests
  Numeric,      \* those among them that are numbers
  Books,        \* the OrderBook objects that can be allocated
  Ids,          \* ids of new orders
  Sessions,     \* threads that deliver FIX requests
  Free, None    \* an unlocked mutex; no book, no security

ASSUME NumericAssumption == Numeric \subseteq Securities
ASSUME NamesAssumption == Free \notin Sessions /\ None \notin Books \cup Securities

VARIABLES
  bookOf,      \* _orderBooks
  shown,       \* _orderBooksForMarketPicture
  mutex,       \* owner of _mutexForNewBook
  at,          \* what each session thread executes next, and its locals
  securityOf,  \* the security an order was sent for
  active,      \* _isActive of each book
  resting,     \* the orders resting in each book
  console,     \* what the console thread executes
  todo         \* the books its iterator has yet to visit

vars == <<bookOf, shown, mutex, at, securityOf, active, resting, console, todo>>

(* book is the local iOrderBooks->second, or newOrderBook while it is      *)
(* being entered.                                                          *)
Frames ==
       [pc : {"idle"}, sec : {None}, id : {None}, book : {None}]
  \cup [pc : {"lock"}, sec : Securities, id : Ids, book : {None}]
  \cup [pc : {"link", "push", "insert", "rest"}, sec : Securities, id : Ids, book : Books]
  \cup [pc : {"change"}, sec : Securities, id : {None}, book : Books]

Frame(pc, sec, id, book) == [pc |-> pc, sec |-> sec, id |-> id, book |-> book]
IdleFrame == Frame("idle", None, None, None)

Idle(t)    == at[t].pc = "idle"
Goto(t, f) == at' = [at EXCEPT ![t] = f]
Return(t)  == Goto(t, IdleFrame)

(* IntConvertor::convert() of a security id returns; otherwise it throws.  *)
Converts(sec) == sec \in Numeric

Used == {bookOf[s] : s \in Securities} \cup {at[t].book : t \in Sessions}

(* Another thread is inside _orderBooks.insert().                          *)
Racing(t) == \E u \in Sessions \ {t} : at[u].pc = "link"

Init ==
  /\ bookOf = [s \in Securities |-> None]
  /\ shown = <<>>
  /\ mutex = Free
  /\ at = [t \in Sessions |-> IdleFrame]
  /\ securityOf = [id \in Ids |-> None]
  /\ active = [b \in Books |-> TRUE]
  /\ resting = [b \in Books |-> {}]
  /\ console = "idle" /\ todo = {}

-----------------------------------------------------------------------------
(* insert(): the first, unlocked lookup.                                   *)
InsertFound(t, sec, id) ==
  /\ Idle(t) /\ securityOf[id] = None /\ bookOf[sec] # None
  /\ securityOf' = [securityOf EXCEPT ![id] = sec]
  /\ Goto(t, Frame("insert", sec, id, bookOf[sec]))
  /\ UNCHANGED <<bookOf, shown, mutex, active, resting, console, todo>>

InsertMissed(t, sec, id) ==
  /\ Idle(t) /\ securityOf[id] = None /\ (bookOf[sec] = None \/ Racing(t))
  /\ securityOf' = [securityOf EXCEPT ![id] = sec]
  /\ Goto(t, Frame("lock", sec, id, None))
  /\ UNCHANGED <<bookOf, shown, mutex, active, resting, console, todo>>

(* Mutant: the iterator of the first lookup is used.                       *)
StaleIterator(t) ==
  /\ at[t].pc = "lock" /\ mutex = Free /\ bookOf[at[t].sec] # None
  /\ Goto(t, Frame("insert", at[t].sec, at[t].id, None))
  /\ UNCHANGED <<bookOf, shown, mutex, securityOf, active, resting, console, todo>>

(* The second lookup, under the lock: another thread created the book.     *)
LockFound(t) ==
  /\ at[t].pc = "lock" /\ mutex = Free /\ bookOf[at[t].sec] # None
  /\ Goto(t, Frame("insert", at[t].sec, at[t].id, bookOf[at[t].sec]))
  /\ UNCHANGED <<bookOf, shown, mutex, securityOf, active, resting, console, todo>>

(* Mutant: no second lookup.                                               *)
LockCreates(t) ==
  /\ at[t].pc = "lock" /\ mutex = Free
  /\ mutex' = t
  /\ \E b \in Books \ Used : Goto(t, Frame("link", at[t].sec, at[t].id, b))
  /\ UNCHANGED <<bookOf, shown, securityOf, active, resting, console, todo>>

LockMissed(t) ==
  /\ at[t].pc = "lock" /\ mutex = Free /\ bookOf[at[t].sec] = None
  /\ Converts(at[t].sec)
  /\ mutex' = t
  /\ \E b \in Books \ Used : Goto(t, Frame("link", at[t].sec, at[t].id, b))
  /\ UNCHANGED <<bookOf, shown, securityOf, active, resting, console, todo>>

(* The constructor of OrderBook converts the security id to a number and    *)
(* throws: the scoped lock is released, no book is entered, and fromApp()  *)
(* answers with a Reject.                                                  *)
LockThrows(t) ==
  /\ at[t].pc = "lock" /\ mutex = Free /\ bookOf[at[t].sec] = None
  /\ ~Converts(at[t].sec)
  /\ Return(t)
  /\ UNCHANGED <<bookOf, shown, mutex, securityOf, active, resting, console, todo>>

(* _orderBooks.insert() keeps an entry that is there.  A rehash leaves the *)
(* console's iterator invalid: it may miss or meet any book.               *)
Link(t) ==
  LET f == at[t] IN
  /\ f.pc = "link"
  /\ bookOf' = [bookOf EXCEPT ![f.sec] = IF @ = None THEN f.book ELSE @]
  /\ todo' \in IF console = "idle" THEN {{}} ELSE SUBSET (todo \cup {f.sec})
  /\ Goto(t, Frame("push", f.sec, f.id, f.book))
  /\ UNCHANGED <<shown, mutex, securityOf, active, resting, console>>

(* Mutant: the order goes into a book of its own.                          *)
PushToNewBook(t) ==
  LET f == at[t] IN
  /\ f.pc = "push"
  /\ shown' = Append(shown, f.book)
  /\ mutex' = Free
  /\ \E b \in Books \ Used : Goto(t, Frame("insert", f.sec, f.id, b))
  /\ UNCHANGED <<bookOf, securityOf, active, resting, console, todo>>

(* Mutant: the lock is kept.                                               *)
PushKeepsLock(t) ==
  LET f == at[t] IN
  /\ f.pc = "push"
  /\ shown' = Append(shown, f.book)
  /\ Goto(t, Frame("insert", f.sec, f.id, bookOf[f.sec]))
  /\ UNCHANGED <<bookOf, mutex, securityOf, active, resting, console, todo>>

(* The new book goes into the vector, the order into the map's book.       *)
Push(t) ==
  LET f == at[t] IN
  /\ f.pc = "push"
  /\ shown' = Append(shown, f.book)
  /\ mutex' = Free
  /\ Goto(t, Frame("insert", f.sec, f.id, bookOf[f.sec]))
  /\ UNCHANGED <<bookOf, securityOf, active, resting, console, todo>>

(* OrderBook::insert() answers by _isActive, and then matches the order:   *)
(* any of the resting orders and the new one may be filled.                *)
Accept(t) ==
  LET f == at[t] IN
  /\ f.pc = "insert" /\ active[f.book]
  /\ Goto(t, Frame("rest", f.sec, f.id, f.book))
  /\ UNCHANGED <<bookOf, shown, mutex, securityOf, active, resting, console, todo>>

Refuse(t) ==
  /\ at[t].pc = "insert" /\ ~active[at[t].book]
  /\ Return(t)
  /\ UNCHANGED <<bookOf, shown, mutex, securityOf, active, resting, console, todo>>

Rest(t) ==
  LET b == at[t].book IN
  /\ at[t].pc = "rest"
  /\ \E left \in SUBSET (resting[b] \cup {at[t].id}) : resting' = [resting EXCEPT ![b] = left]
  /\ Return(t)
  /\ UNCHANGED <<bookOf, shown, mutex, securityOf, active, console, todo>>

(* replace() and cancel(); SecurityIdNotFound changes nothing.             *)
ChangeFound(t, sec) ==
  /\ Idle(t) /\ bookOf[sec] # None
  /\ Goto(t, Frame("change", sec, None, bookOf[sec]))
  /\ UNCHANGED <<bookOf, shown, mutex, securityOf, active, resting, console, todo>>

Change(t) ==
  LET b == at[t].book IN
  /\ at[t].pc = "change"
  /\ \E left \in SUBSET resting[b] : resting' = [resting EXCEPT ![b] = left]
  /\ Return(t)
  /\ UNCHANGED <<bookOf, shown, mutex, securityOf, active, console, todo>>

-----------------------------------------------------------------------------
(* executeCommand(): "stop" and "q", and "quit", after which readCommands  *)
(* returns; "start".                                                       *)
Known == {s \in Securities : bookOf[s] # None}

Command(c) ==
  /\ console = "idle" /\ console' = c
  /\ todo' = Known
  /\ UNCHANGED <<bookOf, shown, mutex, at, securityOf, active, resting>>

(* OrderBook::stop() and OrderBook::start() of the iterator's book.        *)
StopBook ==
  /\ console \in {"stop", "quit"}
  /\ \E s \in todo :
       /\ active' = [active EXCEPT ![bookOf[s]] = FALSE]
       /\ resting' = [resting EXCEPT ![bookOf[s]] = {}]
       /\ todo' = todo \ {s}
  /\ UNCHANGED <<bookOf, shown, mutex, at, securityOf, console>>

StartBook ==
  /\ console = "start"
  /\ \E s \in todo :
       /\ active' = [active EXCEPT ![bookOf[s]] = TRUE]
       /\ todo' = todo \ {s}
  /\ UNCHANGED <<bookOf, shown, mutex, at, securityOf, resting, console>>

CommandEnds ==
  /\ console \in {"stop", "start", "quit"} /\ todo = {}
  /\ console' = IF console = "quit" THEN "ended" ELSE "idle"
  /\ UNCHANGED <<bookOf, shown, mutex, at, securityOf, active, resting, todo>>

-----------------------------------------------------------------------------
Request(t) ==
  \E sec \in Securities :
    \/ \E id \in Ids : InsertFound(t, sec, id) \/ InsertMissed(t, sec, id)
    \/ ChangeFound(t, sec)

Continue(t) ==
  \/ LockFound(t) \/ LockMissed(t) \/ LockThrows(t) \/ Link(t) \/ Push(t)
  \/ Accept(t) \/ Refuse(t) \/ Rest(t) \/ Change(t)

Console ==
  \/ \E c \in {"stop", "start", "quit"} : Command(c)
  \/ StopBook \/ StartBook \/ CommandEnds

Next == (\E t \in Sessions : Request(t) \/ Continue(t)) \/ Console

Spec == Init /\ [][Next]_vars

(* The operating system keeps running every thread that can run.           *)
FairSpec == Spec /\ \A t \in Sessions : WF_vars(Continue(t))

-----------------------------------------------------------------------------
(* Every variable has its type; past the lookups a thread has a book.      *)
TypeOK ==
  /\ bookOf \in [Securities -> Books \cup {None}]
  /\ shown \in Seq(Books)
  /\ mutex \in Sessions \cup {Free}
  /\ at \in [Sessions -> Frames]
  /\ securityOf \in [Ids -> Securities \cup {None}]
  /\ active \in [Books -> BOOLEAN]
  /\ resting \in [Books -> SUBSET Ids]
  /\ console \in {"idle", "stop", "start", "quit", "ended"}
  /\ todo \subseteq Securities

(* However the lookups race with the creation of books, all orders of a    *)
(* security meet in one book: an order rests only in the book that later   *)
(* requests for its security find, and no book serves two securities.      *)
BooksAreShared ==
  /\ \A b \in Books : \A id \in resting[b] :
       securityOf[id] \in Securities /\ bookOf[securityOf[id]] = b
  /\ \A s, r \in Known : bookOf[s] = bookOf[r] => s = r

(* While no book is being created, the publisher's vector names each book  *)
(* of the map once and no other book.                                      *)
EveryBookIsShown ==
  mutex = Free =>
    /\ \A i, j \in DOMAIN shown : shown[i] = shown[j] => i = j
    /\ Range(shown) = {bookOf[s] : s \in Known}

(* Every request that reaches the market ends, however many threads race   *)
(* to create the same book.                                                *)
EveryRequestEnds == \A t \in Sessions : ~Idle(t) ~> Idle(t)
=============================================================================
