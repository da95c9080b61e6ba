---------------------------- MODULE MarketProof ----------------------------
(***************************************************************************)
(* Theorems about Market, for every set of securities, books, orders and   *)
(* sessions.                                                               *)
(***************************************************************************)
EXTENDS Market, DataLemmas, TLAPS

(* A thread is creating a book.                                            *)
Creating(t) == at[t].pc \in {"link", "push"}

(* The frame f holds a book that the map has for its security, or that it  *)
(* is about to enter where the map has none.                               *)
FrameInv(f) ==
  /\ f.pc \in {"lock", "link", "push", "insert", "rest"} => securityOf[f.id] = f.sec
  /\ f.pc = "link" => bookOf[f.sec] = None /\ \A s \in Securities : bookOf[s] # f.book
  /\ f.pc \in {"push", "insert", "rest"} => bookOf[f.sec] = f.book

(* The creation of books is under the mutex.                               *)
MutexInv == \A t \in Sessions : Creating(t) <=> mutex = t

(* The vector has the books of the map, but for the one being pushed.      *)
InVector(b) == \E i \in DOMAIN shown : shown[i] = b
InMap(b)    == \E s \in Securities : bookOf[s] = b
Pushed(b)   == \E t \in Sessions : at[t].pc = "push" /\ at[t].book = b

VectorInv ==
  /\ \A i, j \in DOMAIN shown : shown[i] = shown[j] => i = j
  /\ \A b \in Books : InVector(b) <=> InMap(b) /\ ~Pushed(b)

SharedInv ==
  /\ BooksAreShared
  /\ \A t \in Sessions : FrameInv(at[t])
  /\ MutexInv

-----------------------------------------------------------------------------
(* What the frame of a thread holds at each place.                         *)
LEMMA FrameTypes ==
  ASSUME TypeOK, NEW t \in Sessions
  PROVE  /\ at[t].pc # "idle" => at[t].sec \in Securities
         /\ at[t].pc \in {"lock", "link", "push", "insert", "rest"} => at[t].id \in Ids
         /\ at[t].pc = "lock" => at[t] = Frame("lock", at[t].sec, at[t].id, None)
         /\ at[t].pc \in {"link", "push", "insert", "rest"} =>
              at[t] = Frame(at[t].pc, at[t].sec, at[t].id, at[t].book)
         /\ at[t].pc \in {"link", "push", "insert", "rest", "change"} => at[t].book \in Books
<1>1. at[t] \in Frames
  BY DEF TypeOK
<1> QED BY <1>1 DEF Frames, Frame

LEMMA NewFrames ==
  ASSUME NEW sec \in Securities, NEW id \in Ids, NEW b \in Books
  PROVE  /\ IdleFrame \in Frames
         /\ Frame("lock", sec, id, None) \in Frames
         /\ \A pc \in {"link", "push", "insert", "rest"} : Frame(pc, sec, id, b) \in Frames
         /\ Frame("change", sec, None, b) \in Frames
BY DEF IdleFrame, Frames, Frame

LEMMA IdleFrameType == IdleFrame \in Frames
BY DEF IdleFrame, Frames, Frame

LEMMA GotoType ==
  ASSUME TypeOK, NEW t \in Sessions, NEW f \in Frames, Goto(t, f)
  PROVE  at' \in [Sessions -> Frames]
BY DEF TypeOK, Goto

-----------------------------------------------------------------------------
LEMMA InitTypes == Init => TypeOK
BY IdleFrameType, ShortSequences DEF Init, TypeOK

LEMMA NextTypes == TypeOK /\ SharedInv /\ [Next]_vars => TypeOK'
<1> SUFFICES ASSUME TypeOK, SharedInv, [Next]_vars PROVE TypeOK'
  OBVIOUS
<1>b. ASSUME NEW s \in Securities, bookOf[s] # None PROVE bookOf[s] \in Books
  BY <1>b DEF TypeOK
<1>1. ASSUME NEW t \in Sessions, NEW sec \in Securities, NEW id \in Ids, InsertFound(t, sec, id)
      PROVE  TypeOK'
  <2>1. Frame("insert", sec, id, bookOf[sec]) \in Frames
    BY <1>1, <1>b, NewFrames DEF InsertFound
  <2>2. at' \in [Sessions -> Frames]
    BY <1>1, <2>1, GotoType DEF InsertFound
  <2> QED BY <1>1, <2>2 DEF InsertFound, TypeOK
<1>2. ASSUME NEW t \in Sessions, NEW sec \in Securities, NEW id \in Ids, InsertMissed(t, sec, id)
      PROVE  TypeOK'
  <2>1. Frame("lock", sec, id, None) \in Frames
    BY DEF Frames, Frame
  <2>2. at' \in [Sessions -> Frames]
    BY <1>2, <2>1, GotoType DEF InsertMissed
  <2> QED BY <1>2, <2>2 DEF InsertMissed, TypeOK
<1>3. ASSUME NEW t \in Sessions, NEW sec \in Securities, ChangeFound(t, sec)
      PROVE  TypeOK'
  <2>1. Frame("change", sec, None, bookOf[sec]) \in Frames
    BY <1>3, <1>b DEF ChangeFound, Frames, Frame
  <2>2. at' \in [Sessions -> Frames]
    BY <1>3, <2>1, GotoType DEF ChangeFound
  <2> QED BY <1>3, <2>2 DEF ChangeFound, TypeOK
<1>4. ASSUME NEW t \in Sessions, Continue(t)
      PROVE  TypeOK'
  <2>1. CASE LockFound(t)
    <3>1. Frame("insert", at[t].sec, at[t].id, bookOf[at[t].sec]) \in Frames
      BY <2>1, <1>b, FrameTypes, NewFrames DEF LockFound
    <3>2. at' \in [Sessions -> Frames]
      BY <2>1, <3>1, GotoType DEF LockFound
    <3> QED BY <2>1, <3>2 DEF LockFound, TypeOK
  <2>2. CASE LockMissed(t)
    <3>1. PICK b \in Books \ Used : Goto(t, Frame("link", at[t].sec, at[t].id, b))
      BY <2>2 DEF LockMissed
    <3>2. Frame("link", at[t].sec, at[t].id, b) \in Frames
      BY <2>2, FrameTypes, NewFrames DEF LockMissed
    <3>3. at' \in [Sessions -> Frames]
      BY <3>1, <3>2, GotoType
    <3> QED BY <2>2, <3>3 DEF LockMissed, TypeOK
  <2>3. CASE Link(t)
    <3>1. at[t].sec \in Securities /\ at[t].book \in Books /\ at[t].id \in Ids
      BY <2>3, FrameTypes DEF Link
    <3>2. Frame("push", at[t].sec, at[t].id, at[t].book) \in Frames
      BY <3>1, NewFrames
    <3>3. at' \in [Sessions -> Frames]
      BY <2>3, <3>2, GotoType DEF Link
    <3>4. bookOf' \in [Securities -> Books \cup {None}]
      BY <2>3, <3>1 DEF Link, TypeOK
    <3>5. todo' \subseteq Securities
      BY <2>3, <3>1 DEF Link, TypeOK
    <3> QED BY <2>3, <3>3, <3>4, <3>5 DEF Link, TypeOK
  <2>4. CASE Push(t)
    <3>1. at[t].sec \in Securities /\ at[t].id \in Ids /\ at[t].book \in Books
          /\ bookOf[at[t].sec] = at[t].book
      BY <2>4, FrameTypes DEF Push, SharedInv, FrameInv
    <3>2. Append(shown, at[t].book) \in Seq(Books)
      BY <3>1, AppendElements DEF TypeOK
    <3>3. Frame("insert", at[t].sec, at[t].id, bookOf[at[t].sec]) \in Frames
      BY <3>1, NewFrames
    <3>4. at' \in [Sessions -> Frames]
      BY <2>4, <3>3, GotoType DEF Push
    <3> QED BY <2>4, <3>2, <3>4 DEF Push, TypeOK
  <2>5. CASE Accept(t)
    <3>1. Frame("rest", at[t].sec, at[t].id, at[t].book) \in Frames /\ at[t].id \in Ids
      BY <2>5, FrameTypes, NewFrames DEF Accept
    <3>2. at' \in [Sessions -> Frames]
      BY <2>5, <3>1, GotoType DEF Accept
    <3> QED BY <2>5, <3>1, <3>2 DEF Accept, TypeOK
  <2>6. CASE Refuse(t)
    BY <2>6, IdleFrameType, GotoType DEF Refuse, Return, TypeOK
  <2>7. CASE Rest(t)
    <3>1. at[t].id \in Ids /\ at[t].book \in Books
      BY <2>7, FrameTypes DEF Rest
    <3>2. at' \in [Sessions -> Frames]
      BY <2>7, IdleFrameType, GotoType DEF Rest, Return
    <3> QED BY <2>7, <3>1, <3>2 DEF Rest, TypeOK
  <2>8. CASE Change(t)
    <3>1. at' \in [Sessions -> Frames]
      BY <2>8, IdleFrameType, GotoType DEF Change, Return
    <3> QED BY <2>8, <3>1, FrameTypes DEF Change, TypeOK
  <2>9. CASE LockThrows(t)
    BY <2>9, IdleFrameType, GotoType DEF LockThrows, Return, TypeOK
  <2> QED BY <1>4, <2>1, <2>2, <2>3, <2>4, <2>5, <2>6, <2>7, <2>8, <2>9 DEF Continue
<1>5. ASSUME NEW c \in {"stop", "start", "quit"}, Command(c) PROVE TypeOK'
  BY <1>5 DEF Command, Known, TypeOK
<1>6. CASE StopBook
  BY <1>6 DEF StopBook, TypeOK
<1>7. CASE StartBook
  BY <1>7 DEF StartBook, TypeOK
<1>8. CASE CommandEnds
  BY <1>8 DEF CommandEnds, TypeOK
<1>9. CASE UNCHANGED vars
  BY <1>9 DEF vars, TypeOK
<1> QED BY <1>1, <1>2, <1>3, <1>4, <1>5, <1>6, <1>7, <1>8, <1>9 DEF Next, Request, Console

-----------------------------------------------------------------------------
(* A step of one thread that changes neither map nor securityOf keeps the  *)
(* frames of the others.                                                   *)
LEMMA GotoFrames ==
  ASSUME TypeOK, SharedInv, NEW t \in Sessions, NEW f, FrameInv(f), Goto(t, f),
         UNCHANGED <<bookOf, securityOf>>
  PROVE  \A u \in Sessions : FrameInv(at[u])'
<1>1. \A u \in Sessions : at'[u] = IF u = t THEN f ELSE at[u]
  BY DEF Goto, TypeOK
<1> QED BY <1>1 DEF SharedInv, FrameInv

(* A step by which no thread enters or leaves the creation of a book.      *)
LEMMA GotoMutex ==
  ASSUME TypeOK, SharedInv, NEW t \in Sessions, NEW f, Goto(t, f),
         f.pc \in {"link", "push"} <=> Creating(t), mutex' = mutex
  PROVE  MutexInv'
<1>1. \A u \in Sessions : at'[u] = IF u = t THEN f ELSE at[u]
  BY DEF Goto, TypeOK
<1> QED BY <1>1 DEF SharedInv, MutexInv, Creating

LEMMA SameBooks ==
  ASSUME BooksAreShared, UNCHANGED <<bookOf, securityOf>>,
         \A b \in Books : resting'[b] \subseteq resting[b]
  PROVE  BooksAreShared'
BY DEF BooksAreShared, Known

(* A step that changes only the frame of its thread.                       *)
LEMMA GotoShared ==
  ASSUME TypeOK, SharedInv, NEW t \in Sessions, NEW f, FrameInv(f), Goto(t, f),
         f.pc \notin {"link", "push"}, ~Creating(t),
         UNCHANGED <<bookOf, securityOf, mutex>>,
         \A b \in Books : resting'[b] \subseteq resting[b]
  PROVE  SharedInv'
BY GotoFrames, GotoMutex, SameBooks DEF SharedInv

(* A new order: no thread and no book has one of its id.                   *)
LEMMA SendShared ==
  ASSUME TypeOK, SharedInv, NEW t \in Sessions, NEW sec \in Securities, NEW id \in Ids,
         Idle(t), securityOf[id] = None, securityOf' = [securityOf EXCEPT ![id] = sec],
         NEW f, Goto(t, f), f.pc \in {"lock", "insert"}, f.id = id, f.sec = sec,
         f.pc = "insert" => f.book = bookOf[sec],
         UNCHANGED <<bookOf, mutex, resting>>
  PROVE  SharedInv'
<1>1. \A u \in Sessions : at'[u] = IF u = t THEN f ELSE at[u]
  BY DEF Goto, TypeOK
<1>2. /\ securityOf'[id] = sec
      /\ \A i \in Ids : securityOf[i] # None => securityOf'[i] = securityOf[i]
  BY DEF TypeOK
<1>3. \A u \in Sessions : FrameInv(at[u])'
  <2> SUFFICES ASSUME NEW u \in Sessions PROVE FrameInv(at[u])'
    OBVIOUS
  <2>1. CASE u = t
    BY <1>1, <1>2, <2>1 DEF FrameInv
  <2>2. CASE u # t
    <3>1. at'[u] = at[u] /\ FrameInv(at[u])
      BY <1>1, <2>2 DEF SharedInv
    <3>2. at[u].pc \in {"lock", "link", "push", "insert", "rest"} =>
            securityOf'[at[u].id] = at[u].sec
      <4> HAVE at[u].pc \in {"lock", "link", "push", "insert", "rest"}
      <4>1. at[u].id \in Ids /\ at[u].sec \in Securities /\ securityOf[at[u].id] = at[u].sec
        BY <3>1, FrameTypes DEF FrameInv
      <4> QED BY <4>1, <1>2, NamesAssumption
    <3> QED BY <3>1, <3>2 DEF FrameInv
  <2> QED BY <2>1, <2>2
<1>4. MutexInv'
  BY GotoMutex DEF Idle, Creating
<1>5. BooksAreShared'
  <2>1. ASSUME NEW b \in Books, NEW i \in resting[b]
        PROVE  securityOf'[i] = securityOf[i]
    BY <1>2, <2>1, NamesAssumption DEF SharedInv, BooksAreShared, TypeOK
  <2> QED BY <2>1 DEF SharedInv, BooksAreShared, Known
<1> QED BY <1>3, <1>4, <1>5 DEF SharedInv

(* The new entry of the map.                                               *)
LEMMA LinkShared ==
  ASSUME TypeOK, SharedInv, NEW t \in Sessions, Link(t)
  PROVE  /\ SharedInv'
         /\ bookOf' = [bookOf EXCEPT ![at[t].sec] = at[t].book]
<1> DEFINE sec == at[t].sec
           new == at[t].book
           f == Frame("push", sec, at[t].id, new)
<1>1. /\ sec \in Securities /\ new \in Books /\ at[t].id \in Ids
      /\ bookOf[sec] = None /\ securityOf[at[t].id] = sec
      /\ \A s \in Securities : bookOf[s] # new
  BY FrameTypes DEF Link, SharedInv, FrameInv
<1>2. /\ bookOf' = [bookOf EXCEPT ![sec] = new]
      /\ Goto(t, f) /\ UNCHANGED <<mutex, securityOf, resting>>
  BY <1>1 DEF Link, TypeOK
<1>3. \A u \in Sessions : at'[u] = IF u = t THEN f ELSE at[u]
  BY <1>2 DEF Goto, TypeOK
<1>4. bookOf'[sec] = new /\ \A s \in Securities : s # sec => bookOf'[s] = bookOf[s]
  BY <1>1, <1>2 DEF TypeOK
<1>5. f.pc = "push" /\ f.sec = sec /\ f.id = at[t].id /\ f.book = new
  BY DEF Frame
<1>6. \A u \in Sessions : FrameInv(at[u])'
  <2> SUFFICES ASSUME NEW u \in Sessions PROVE FrameInv(at[u])'
    OBVIOUS
  <2>1. CASE u = t
    BY <1>1, <1>2, <1>3, <1>4, <1>5, <2>1 DEF FrameInv
  <2>2. CASE u # t
    <3>1. at'[u] = at[u] /\ FrameInv(at[u])
      BY <1>3, <2>2 DEF SharedInv
    <3>2. at[u].pc # "link"
      BY <2>2 DEF Link, SharedInv, MutexInv, Creating
    <3>3. at[u].pc \in {"push", "insert", "rest"} =>
            at[u].sec \in Securities /\ bookOf'[at[u].sec] = at[u].book
      <4> HAVE at[u].pc \in {"push", "insert", "rest"}
      <4>1. at[u].sec \in Securities /\ at[u].book \in Books /\ bookOf[at[u].sec] = at[u].book
        BY <3>1, FrameTypes DEF FrameInv
      <4> QED BY <4>1, <1>1, <1>4, NamesAssumption
    <3> QED BY <1>2, <3>1, <3>2, <3>3 DEF FrameInv
  <2> QED BY <2>1, <2>2
<1>7. MutexInv'
  BY <1>2, <1>5, GotoMutex DEF Link, Creating
<1>8. BooksAreShared'
  <2>1. ASSUME NEW b \in Books, NEW i \in resting[b]
        PROVE  securityOf'[i] \in Securities /\ bookOf'[securityOf'[i]] = b
    BY <1>1, <1>2, <1>4, <2>1, NamesAssumption DEF SharedInv, BooksAreShared
  <2>2. ASSUME NEW s \in Securities, NEW r \in Securities,
               bookOf'[s] # None, bookOf'[s] = bookOf'[r]
        PROVE  s = r
    BY <1>1, <1>4, <2>2 DEF SharedInv, BooksAreShared, Known
  <2> QED BY <1>2, <2>1, <2>2 DEF BooksAreShared, Known
<1> QED BY <1>2, <1>6, <1>7, <1>8 DEF SharedInv

LEMMA ContinueShared ==
  ASSUME TypeOK, SharedInv, NEW t \in Sessions, Continue(t)
  PROVE  SharedInv'
<1> DEFINE f == at[t]
<1>0. f.pc # "idle" => f.sec \in Securities
  BY FrameTypes
<1>a. FrameInv(f)
  BY DEF SharedInv
<1>i. IdleFrame.pc = "idle" /\ FrameInv(IdleFrame)
  BY DEF IdleFrame, Frame, FrameInv
<1>1. CASE LockFound(t)
  <2> DEFINE g == Frame("insert", f.sec, f.id, bookOf[f.sec])
  <2>1. FrameInv(g) /\ g.pc = "insert"
    BY <1>1, <1>a DEF LockFound, FrameInv, Frame
  <2> HIDE DEF g
  <2> QED BY <1>1, <2>1, GotoShared DEF LockFound, Creating, g
<1>2. CASE LockMissed(t)
  <2>1. PICK b \in Books \ Used : Goto(t, Frame("link", f.sec, f.id, b))
    BY <1>2 DEF LockMissed
  <2> DEFINE g == Frame("link", f.sec, f.id, b)
  <2>2. g.pc = "link" /\ FrameInv(g)
    BY <1>2, <1>a DEF LockMissed, FrameInv, Frame, Used
  <2>3. \A u \in Sessions : at'[u] = IF u = t THEN g ELSE at[u]
    BY <2>1 DEF Goto, TypeOK
  <2> HIDE DEF g
  <2>4. UNCHANGED <<bookOf, securityOf, resting>>
    BY <1>2 DEF LockMissed
  <2>5. \A u \in Sessions : FrameInv(at[u])'
    BY <2>1, <2>2, <2>4, GotoFrames DEF g
  <2>6. MutexInv'
    BY <1>2, <2>2, <2>3, NamesAssumption DEF LockMissed, SharedInv, MutexInv, Creating
  <2>7. BooksAreShared'
    BY <2>4, SameBooks DEF SharedInv
  <2> QED BY <2>5, <2>6, <2>7 DEF SharedInv
<1>3. CASE Link(t)
  BY <1>3, LinkShared
<1>4. CASE Push(t)
  <2> DEFINE g == Frame("insert", f.sec, f.id, bookOf[f.sec])
  <2>1. FrameInv(g) /\ g.pc = "insert"
    BY <1>4, <1>a DEF Push, FrameInv, Frame
  <2>2. \A u \in Sessions : at'[u] = IF u = t THEN g ELSE at[u]
    BY <1>4 DEF Push, Goto, TypeOK
  <2>3. UNCHANGED <<bookOf, securityOf, resting>> /\ mutex' = Free /\ Goto(t, g)
    BY <1>4 DEF Push
  <2> HIDE DEF g
  <2>4. \A u \in Sessions : FrameInv(at[u])'
    BY <2>1, <2>3, GotoFrames
  <2>5. MutexInv'
    BY <1>4, <2>1, <2>2, <2>3, NamesAssumption DEF Push, SharedInv, MutexInv, Creating
  <2>6. BooksAreShared'
    BY <2>3, SameBooks DEF SharedInv
  <2> QED BY <2>4, <2>5, <2>6 DEF SharedInv
<1>5. CASE Accept(t)
  <2> DEFINE g == Frame("rest", f.sec, f.id, f.book)
  <2>1. FrameInv(g) /\ g.pc = "rest"
    BY <1>5, <1>a DEF Accept, FrameInv, Frame
  <2> HIDE DEF g
  <2> QED BY <1>5, <2>1, GotoShared DEF Accept, Creating, g
<1>6. CASE Refuse(t)
  BY <1>6, <1>i, GotoShared DEF Refuse, Return, Creating
<1>7. CASE Rest(t)
  <2>1. /\ f.id \in Ids /\ f.book \in Books /\ f.sec \in Securities
        /\ securityOf[f.id] = f.sec /\ bookOf[f.sec] = f.book
    BY <1>7, <1>a, FrameTypes DEF Rest, FrameInv
  <2>2. \A u \in Sessions : FrameInv(at[u])'
    BY <1>7, <1>i, GotoFrames DEF Rest, Return
  <2>3. MutexInv'
    BY <1>7, <1>i, GotoMutex DEF Rest, Return, Creating
  <2>4. \A b \in Books : \A i \in resting'[b] : i \in resting[b] \/ (i = f.id /\ b = f.book)
    BY <1>7 DEF Rest, TypeOK
  <2>5. UNCHANGED <<bookOf, securityOf>>
    BY <1>7 DEF Rest
  <2>6. BooksAreShared'
    BY <2>1, <2>4, <2>5 DEF SharedInv, BooksAreShared, Known
  <2> QED BY <2>2, <2>3, <2>6 DEF SharedInv
<1>8. CASE Change(t)
  <2>1. \A b \in Books : resting'[b] \subseteq resting[b]
    BY <1>8 DEF Change, TypeOK
  <2> QED BY <1>8, <1>i, <2>1, GotoShared DEF Change, Return, Creating
<1>9. CASE LockThrows(t)
  BY <1>9, <1>i, GotoShared DEF LockThrows, Return, Creating
<1> QED BY <1>1, <1>2, <1>3, <1>4, <1>5, <1>6, <1>7, <1>8, <1>9 DEF Continue

LEMMA NextShared == TypeOK /\ SharedInv /\ [Next]_vars => SharedInv'
<1> SUFFICES ASSUME TypeOK, SharedInv, [Next]_vars PROVE SharedInv'
  OBVIOUS
<1>k. ASSUME UNCHANGED <<bookOf, securityOf, at, mutex>>,
             \A b \in Books : resting'[b] \subseteq resting[b]
      PROVE  SharedInv'
  <2>1. BooksAreShared'
    BY <1>k, SameBooks DEF SharedInv
  <2> QED BY <1>k, <2>1 DEF SharedInv, FrameInv, MutexInv, Creating
<1>1. ASSUME NEW t \in Sessions, NEW sec \in Securities, NEW id \in Ids, InsertFound(t, sec, id)
      PROVE  SharedInv'
  <2> DEFINE g == Frame("insert", sec, id, bookOf[sec])
  <2>1. g.pc = "insert" /\ g.id = id /\ g.sec = sec /\ g.book = bookOf[sec]
    BY DEF Frame
  <2>2. Goto(t, g)
    BY <1>1 DEF InsertFound
  <2> HIDE DEF g
  <2> QED BY <1>1, <2>1, <2>2, SendShared DEF InsertFound
<1>2. ASSUME NEW t \in Sessions, NEW sec \in Securities, NEW id \in Ids, InsertMissed(t, sec, id)
      PROVE  SharedInv'
  <2> DEFINE g == Frame("lock", sec, id, None)
  <2>1. g.pc = "lock" /\ g.id = id /\ g.sec = sec
    BY DEF Frame
  <2>2. Goto(t, g)
    BY <1>2 DEF InsertMissed
  <2> HIDE DEF g
  <2> QED BY <1>2, <2>1, <2>2, SendShared DEF InsertMissed
<1>3. ASSUME NEW t \in Sessions, NEW sec \in Securities, ChangeFound(t, sec)
      PROVE  SharedInv'
  <2> DEFINE g == Frame("change", sec, None, bookOf[sec])
  <2>1. g.pc = "change" /\ FrameInv(g)
    BY DEF Frame, FrameInv
  <2> HIDE DEF g
  <2> QED BY <1>3, <2>1, GotoShared DEF ChangeFound, Idle, Creating, g
<1>4. ASSUME NEW t \in Sessions, Continue(t)
      PROVE  SharedInv'
  BY <1>4, ContinueShared
<1>5. ASSUME NEW c \in {"stop", "start", "quit"}, Command(c) PROVE SharedInv'
  BY <1>5, <1>k DEF Command
<1>6. CASE StopBook
  <2>1. \A b \in Books : resting'[b] \subseteq resting[b]
    BY <1>6 DEF StopBook, TypeOK
  <2> QED BY <1>6, <1>k, <2>1 DEF StopBook
<1>7. CASE StartBook
  BY <1>7, <1>k DEF StartBook
<1>8. CASE CommandEnds
  BY <1>8, <1>k DEF CommandEnds
<1>9. CASE UNCHANGED vars
  BY <1>9, <1>k DEF vars
<1> QED BY <1>1, <1>2, <1>3, <1>4, <1>5, <1>6, <1>7, <1>8, <1>9 DEF Next, Request, Console

LEMMA InitShared == Init => SharedInv
BY NamesAssumption DEF Init, SharedInv, BooksAreShared, Known, FrameInv, MutexInv, Creating,
   IdleFrame, Frame

(* However many sessions race to create books, the map and the frames stay *)
(* well typed: a thread that has passed the lookups holds a real book.     *)
THEOREM TypeCorrect == Spec => []TypeOK
<1> QED BY InitTypes, InitShared, NextTypes, NextShared, PTL DEF Spec

(* For any number of sessions, securities and books: the unlocked first    *)
(* lookup of Market::insert never splits a security's orders over two      *)
(* books, because the second lookup is under _mutexForNewBook and the map  *)
(* is read again after the insertion.                                      *)
THEOREM SharedBooks == Spec => []BooksAreShared
<1>1. SharedInv => BooksAreShared
  BY DEF SharedInv
<1> QED BY <1>1, InitTypes, InitShared, NextTypes, NextShared, PTL DEF Spec

-----------------------------------------------------------------------------
(* Only Link changes the books of the map, and only Push the vector.       *)
LEMMA SameVector ==
  ASSUME VectorInv, UNCHANGED <<shown, bookOf>>,
         \A u \in Sessions : \/ at'[u] = at[u]
                             \/ at'[u].pc # "push" /\ at[u].pc # "push"
  PROVE  VectorInv'
<1>1. ASSUME NEW b \in Books
      PROVE  /\ InVector(b)' <=> InVector(b)
             /\ InMap(b)' <=> InMap(b)
             /\ Pushed(b)' <=> Pushed(b)
  BY DEF InVector, InMap, Pushed
<1> QED BY <1>1 DEF VectorInv

LEMMA LinkVector ==
  ASSUME TypeOK, SharedInv, VectorInv, NEW t \in Sessions, Link(t)
  PROVE  VectorInv'
<1> DEFINE sec == at[t].sec
           new == at[t].book
<1>1. /\ sec \in Securities /\ new \in Books /\ bookOf[sec] = None /\ ~InMap(new)
  BY FrameTypes DEF Link, SharedInv, FrameInv, InMap
<1>2. /\ bookOf'[sec] = new
      /\ \A s \in Securities : s # sec => bookOf'[s] = bookOf[s]
  BY <1>1, LinkShared DEF TypeOK
<1>3. /\ at'[t].pc = "push" /\ at'[t].book = new /\ at[t].pc = "link"
      /\ \A u \in Sessions : u # t => at'[u] = at[u]
  BY DEF Link, Goto, TypeOK, Frame
<1>4. UNCHANGED shown
  BY DEF Link
<1>5. ASSUME NEW b \in Books
      PROVE  /\ InVector(b)' <=> InVector(b)
             /\ InMap(b)' <=> InMap(b) \/ b = new
             /\ Pushed(b)' <=> Pushed(b) \/ b = new
  <2>1. InMap(b)' <=> InMap(b) \/ b = new
    BY <1>1, <1>2, NamesAssumption DEF InMap
  <2>2. Pushed(b)' <=> Pushed(b) \/ b = new
    BY <1>3 DEF Pushed
  <2> QED BY <1>4, <2>1, <2>2 DEF InVector
<1> QED BY <1>1, <1>4, <1>5 DEF VectorInv

LEMMA PushVector ==
  ASSUME TypeOK, SharedInv, VectorInv, NEW t \in Sessions, Push(t)
  PROVE  VectorInv'
<1> DEFINE new == at[t].book
<1>1. new \in Books /\ at[t].sec \in Securities /\ InMap(new) /\ Pushed(new)
  BY FrameTypes DEF Push, SharedInv, FrameInv, InMap, Pushed
<1>2. ~InVector(new)
  BY <1>1 DEF VectorInv
<1>3. /\ Len(shown) \in Nat /\ DOMAIN shown = 1 .. Len(shown)
      /\ DOMAIN shown' = 1 .. Len(shown) + 1
      /\ \A i \in 1 .. Len(shown) : shown'[i] = shown[i]
      /\ shown'[Len(shown) + 1] = new
  <2>1. shown \in Seq(Books) /\ shown' = Append(shown, new)
    BY DEF TypeOK, Push
  <2> QED BY <1>1, <2>1, AppendElements, LenProperties
<1>4. at'[t].pc = "insert" /\ \A u \in Sessions : u # t => at'[u] = at[u] /\ at[u].pc # "push"
  <2>1. \A u \in Sessions : u # t => at[u].pc # "push"
    BY DEF Push, SharedInv, MutexInv, Creating
  <2> QED BY <2>1 DEF Push, Goto, TypeOK, Frame
<1>5. ASSUME NEW b \in Books
      PROVE  /\ InVector(b)' <=> InVector(b) \/ b = new
             /\ InMap(b)' <=> InMap(b)
             /\ ~Pushed(b)' /\ (Pushed(b) <=> b = new)
  <2>1. InVector(b)' <=> InVector(b) \/ b = new
    BY <1>3 DEF InVector
  <2>2. InMap(b)' <=> InMap(b)
    BY DEF Push, InMap
  <2>3. ~Pushed(b)' /\ (Pushed(b) <=> b = new)
    BY <1>4 DEF Pushed, Push
  <2> QED BY <2>1, <2>2, <2>3
<1>6. ASSUME NEW i \in DOMAIN shown', NEW j \in DOMAIN shown', shown'[i] = shown'[j]
      PROVE  i = j
  BY <1>2, <1>3, <1>6 DEF VectorInv, InVector
<1> QED BY <1>1, <1>5, <1>6 DEF VectorInv

LEMMA NextVector == TypeOK /\ SharedInv /\ VectorInv /\ [Next]_vars => VectorInv'
<1> SUFFICES ASSUME TypeOK, SharedInv, VectorInv, [Next]_vars PROVE VectorInv'
  OBVIOUS
<1>g. ASSUME NEW t \in Sessions, NEW f, Goto(t, f), f.pc # "push", at[t].pc # "push",
             UNCHANGED <<shown, bookOf>>
      PROVE  VectorInv'
  <2>1. \A u \in Sessions : at'[u] = IF u = t THEN f ELSE at[u]
    BY <1>g DEF Goto, TypeOK
  <2> QED BY <1>g, <2>1, SameVector
<1>f. ASSUME NEW pc, NEW sec, NEW id, NEW b PROVE Frame(pc, sec, id, b).pc = pc
  BY DEF Frame
<1>1. ASSUME NEW t \in Sessions, Request(t) PROVE VectorInv'
  BY <1>1, <1>f, <1>g DEF Request, InsertFound, InsertMissed, ChangeFound, Idle
<1>2. ASSUME NEW t \in Sessions, Continue(t) PROVE VectorInv'
  <2>1. CASE LockFound(t)
    BY <2>1, <1>f, <1>g DEF LockFound
  <2>2. CASE LockMissed(t)
    BY <2>2, <1>f, <1>g DEF LockMissed
  <2>3. CASE Link(t)
    BY <2>3, LinkVector
  <2>4. CASE Push(t)
    BY <2>4, PushVector
  <2>5. CASE Accept(t)
    BY <2>5, <1>f, <1>g DEF Accept
  <2>6. CASE Refuse(t) \/ Rest(t) \/ Change(t) \/ LockThrows(t)
    BY <2>6, <1>f, <1>g DEF Refuse, Rest, Change, LockThrows, Return, IdleFrame
  <2> QED BY <1>2, <2>1, <2>2, <2>3, <2>4, <2>5, <2>6 DEF Continue
<1>3. CASE Console \/ UNCHANGED vars
  <2>1. UNCHANGED <<shown, bookOf, at>>
    BY <1>3 DEF Console, Command, StopBook, StartBook, CommandEnds, vars
  <2> QED BY <2>1, SameVector
<1> QED BY <1>1, <1>2, <1>3 DEF Next

LEMMA InitVector == Init => VectorInv
<1> SUFFICES ASSUME Init PROVE VectorInv
  OBVIOUS
<1>1. DOMAIN shown = {}
  BY DEF Init
<1>2. \A b \in Books : ~InMap(b) /\ ~InVector(b)
  BY <1>1, NamesAssumption DEF Init, InMap, InVector
<1> QED BY <1>1, <1>2 DEF VectorInv

(* For any number of sessions, securities and books: outside the critical  *)
(* section of Market::insert the publisher's vector names every book of    *)
(* the map, once, and nothing else.                                        *)
THEOREM ShownBooks == Spec => []EveryBookIsShown
<1>1. TypeOK /\ SharedInv /\ VectorInv => EveryBookIsShown
  <2> SUFFICES ASSUME TypeOK, SharedInv, VectorInv, mutex = Free
               PROVE  Range(shown) = {bookOf[s] : s \in Known}
    BY DEF EveryBookIsShown, VectorInv
  <2>1. ASSUME NEW b \in Books PROVE ~Pushed(b)
    BY NamesAssumption DEF SharedInv, MutexInv, Creating, Pushed
  <2>2. \A b \in Books : InVector(b) <=> InMap(b)
    BY <2>1 DEF VectorInv
  <2>3. \A b \in Range(shown) : b \in Books /\ InVector(b)
    <3>1. \A i \in DOMAIN shown : shown[i] \in Books
      BY LenProperties, ElementOfSeq DEF TypeOK
    <3> QED BY <3>1 DEF Range, InVector
  <2>4. \A s \in Known : bookOf[s] \in Books /\ InMap(bookOf[s])
    BY DEF TypeOK, Known, InMap
  <2>5. \A b \in Books : InVector(b) => b \in Range(shown)
    BY DEF InVector, Range
  <2>6. \A b \in Books : InMap(b) => b \in {bookOf[s] : s \in Known}
    BY NamesAssumption DEF InMap, Known
  <2> QED BY <2>2, <2>3, <2>4, <2>5, <2>6
<1> QED BY <1>1, InitTypes, InitShared, InitVector, NextTypes, NextShared, NextVector, PTL DEF Spec
=============================================================================
