-------------------------- MODULE MarketDataProof --------------------------
(***************************************************************************)
(* MarketData for every number of books, writers and clients, every number *)
(* of levels and every size of a packet: what the pass over a list leaves  *)
(* in a picture, the types, and what a packet holds.                       *)
(***************************************************************************)
EXTENDS MarketData, DataLemmas, TLAPS

-----------------------------------------------------------------------------
(* The pass over a list: what an entry does to the levels.                 *)
Acc == [levels : [1 .. Levels -> Level], n : 0 .. Levels, over : BOOLEAN]
NoAcc == [levels |-> NoLevels, n |-> 0, over |-> FALSE]

LEMMA NoAccType == NoAcc \in Acc
<1>1. Levels \in Nat \ {0}
  BY SizesAssumption
<1>2. NoLevels \in [1 .. Levels -> Level]
  BY DEF NoLevels, NoLevel, Level
<1> QED BY <1>1, <1>2 DEF NoAcc, Acc

LEMMA EntryMerges ==
  ASSUME NEW a \in Acc, NEW e \in Level, ~a.over, Merges(a, e)
  PROVE  /\ AddEntry(a, e) \in Acc
         /\ AddEntry(a, e).n = a.n /\ ~AddEntry(a, e).over
         /\ a.n \in 1 .. Levels
         /\ AddEntry(a, e).levels[a.n].price = a.levels[a.n].price
         /\ AddEntry(a, e).levels[a.n].qty = a.levels[a.n].qty + e.qty
         /\ \A k \in 1 .. Levels : k # a.n => AddEntry(a, e).levels[k] = a.levels[k]
<1>1. PICK r : r = AddEntry(a, e)
  OBVIOUS
<1>2. r = [a EXCEPT !.levels[a.n].qty = @ + e.qty]
  BY <1>1 DEF AddEntry
<1>3. a.n \in 1 .. Levels /\ a.levels \in [1 .. Levels -> Level] /\ a.levels[a.n] \in Level
  BY SizesAssumption DEF Acc, Merges
<1>4. PICK x : x = [a.levels[a.n] EXCEPT !.qty = @ + e.qty]
  OBVIOUS
<1>5. x \in Level /\ x.price = a.levels[a.n].price /\ x.qty = a.levels[a.n].qty + e.qty
  BY <1>3, <1>4 DEF Level
<1>6. PICK ls : ls = [a.levels EXCEPT ![a.n] = x]
  OBVIOUS
<1>7. ls \in [1 .. Levels -> Level] /\ ls[a.n] = x /\ \A k \in 1 .. Levels : k # a.n => ls[k] = a.levels[k]
  BY <1>3, <1>5, <1>6
<1>8. r = [a EXCEPT !.levels = ls]
  BY <1>2, <1>4, <1>6
<1>9. r \in Acc /\ r.levels = ls /\ r.n = a.n /\ r.over = a.over
  BY <1>7, <1>8 DEF Acc
<1> QED BY <1>1, <1>3, <1>5, <1>7, <1>9

LEMMA EntryOpens ==
  ASSUME NEW a \in Acc, NEW e \in Level, ~a.over, ~Merges(a, e), HasRoom(a)
  PROVE  /\ AddEntry(a, e) \in Acc
         /\ AddEntry(a, e).n = a.n + 1 /\ ~AddEntry(a, e).over
         /\ a.n + 1 \in 1 .. Levels
         /\ AddEntry(a, e).levels[a.n + 1] = e
         /\ \A k \in 1 .. Levels : k # a.n + 1 => AddEntry(a, e).levels[k] = a.levels[k]
<1>1. PICK r : r = AddEntry(a, e)
  OBVIOUS
<1>2. r = [a EXCEPT !.n = @ + 1, !.levels[a.n + 1] = e]
  BY <1>1 DEF AddEntry
<1>3. a.n + 1 \in 1 .. Levels /\ a.levels \in [1 .. Levels -> Level]
  BY SizesAssumption DEF Acc, HasRoom
<1>6. PICK ls : ls = [a.levels EXCEPT ![a.n + 1] = e]
  OBVIOUS
<1>7. ls \in [1 .. Levels -> Level] /\ ls[a.n + 1] = e
      /\ \A k \in 1 .. Levels : k # a.n + 1 => ls[k] = a.levels[k]
  BY <1>3, <1>6
<1>4. PICK b : b = [a EXCEPT !.n = @ + 1]
  OBVIOUS
<1>5. b \in Acc /\ b.n = a.n + 1 /\ b.over = a.over
  BY <1>3, <1>4 DEF Acc
<1>8. r = [b EXCEPT !.levels = ls]
  BY <1>2, <1>3, <1>4, <1>6 DEF Acc
<1>9. r \in Acc /\ r.levels = ls /\ r.n = b.n /\ r.over = b.over
  BY <1>5, <1>7, <1>8 DEF Acc
<1> QED BY <1>1, <1>3, <1>5, <1>7, <1>9

LEMMA EntryEnds ==
  ASSUME NEW a \in Acc, NEW e \in Level, ~a.over, ~Merges(a, e), ~HasRoom(a)
  PROVE  /\ AddEntry(a, e) \in Acc /\ AddEntry(a, e).over
         /\ AddEntry(a, e).n = a.n /\ AddEntry(a, e).levels = a.levels
BY DEF AddEntry, Acc

LEMMA EntryIgnored ==
  ASSUME NEW a \in Acc, NEW e \in Level, a.over
  PROVE  AddEntry(a, e) = a
BY DEF AddEntry

LEMMA EntryType ==
  ASSUME NEW a \in Acc, NEW e \in Level
  PROVE  AddEntry(a, e) \in Acc
BY EntryMerges, EntryOpens, EntryEnds, EntryIgnored

(* The pass exists and runs through the list entry by entry.               *)
Passes(p, l, n) ==
  p = [i \in 0 .. n |-> IF i = 0 THEN NoAcc ELSE AddEntry(p[i - 1], l[i])]

PassOf(l) == CHOOSE p : Passes(p, l, Len(l))

LEMMA PassExists == ASSUME NEW l, NEW n \in Nat PROVE \E p : Passes(p, l, n)
<1> DEFINE S == {k \in Nat : \E p : Passes(p, l, k)}
<1>1. 0 \in S
  <2> DEFINE p == [i \in 0 .. 0 |-> NoAcc]
  <2>1. p = [i \in 0 .. 0 |-> IF i = 0 THEN NoAcc ELSE AddEntry(p[i - 1], l[i])]
    OBVIOUS
  <2> QED BY <2>1 DEF Passes
<1>2. ASSUME NEW k \in S PROVE k + 1 \in S
  <2>1. PICK p : Passes(p, l, k)
    OBVIOUS
  <2> DEFINE q == [i \in 0 .. k + 1 |-> IF i <= k THEN p[i] ELSE AddEntry(p[k], l[k + 1])]
  <2>2. \A i \in 0 .. k : p[i] = IF i = 0 THEN NoAcc ELSE AddEntry(p[i - 1], l[i])
    BY <2>1 DEF Passes
  <2>3. \A i \in 0 .. k + 1 : q[i] = IF i = 0 THEN NoAcc ELSE AddEntry(q[i - 1], l[i])
    <3> SUFFICES ASSUME NEW i \in 0 .. k + 1
                 PROVE  q[i] = IF i = 0 THEN NoAcc ELSE AddEntry(q[i - 1], l[i])
      OBVIOUS
    <3>1. CASE i = 0
      BY <2>2, <3>1
    <3>2. CASE i # 0 /\ i <= k
      <4>1. q[i] = p[i] /\ q[i - 1] = p[i - 1]
        BY <3>2
      <4> QED BY <2>2, <3>2, <4>1
    <3>3. CASE i = k + 1
      <4>1. q[i] = AddEntry(p[k], l[k + 1]) /\ q[i - 1] = p[k] /\ i # 0
        BY <3>3
      <4> QED BY <3>3, <4>1
    <3> QED BY <3>1, <3>2, <3>3
  <2>4. q = [i \in 0 .. k + 1 |-> q[i]]
    OBVIOUS
  <2> HIDE DEF q
  <2>5. Passes(q, l, k + 1)
    BY <2>3, <2>4 DEF Passes
  <2> QED BY <2>5
<1>3. S \in SUBSET Nat
  OBVIOUS
<1> HIDE DEF S
<1>4. S = Nat
  BY <1>1, <1>2, <1>3, Induct
<1> QED BY <1>4 DEF S

LEMMA PassSteps ==
  ASSUME NEW l \in BuyLists \cup SellLists
  PROVE  /\ MarketDataOf[l] = PassOf(l)[Len(l)].levels
         /\ PassOf(l)[0] = NoAcc
         /\ \A i \in 1 .. Len(l) : PassOf(l)[i] = AddEntry(PassOf(l)[i - 1], l[i])
<1>1. Len(l) \in Nat
  BY ListsAssumption, LenProperties
<1>2. MarketDataOf[l] = PassOf(l)[Len(l)].levels
  BY DEF MarketDataOf, PassOf, Passes, NoAcc
<1>3. Passes(PassOf(l), l, Len(l))
  BY <1>1, PassExists DEF PassOf
<1>4. PICK p : p = PassOf(l)
  OBVIOUS
<1>5. \A i \in 0 .. Len(l) : p[i] = IF i = 0 THEN NoAcc ELSE AddEntry(p[i - 1], l[i])
  BY <1>3, <1>4 DEF Passes
<1> QED BY <1>1, <1>2, <1>4, <1>5

-----------------------------------------------------------------------------
(* The entries of a list by price: an entry's rank is the number of prices *)
(* up to it, and equal prices have the same rank.                          *)
Grouped(l) ==
  \A i, j, k \in DOMAIN l :
    i <= j /\ j <= k /\ l[i].price = l[k].price => l[j].price = l[i].price

Firsts(l)  == {i \in DOMAIN l : \A j \in 1 .. i - 1 : l[j].price # l[i].price}
Rank(l, i) == Cardinality({j \in Firsts(l) : j <= i})
Group(l, i, k) == {j \in 1 .. i : Rank(l, j) = k}
Quantities(l)  == [j \in DOMAIN l |-> l[j].qty]

LEMMA ListType ==
  ASSUME NEW l \in BuyLists \cup SellLists
  PROVE  /\ Len(l) \in Nat /\ DOMAIN l = 1 .. Len(l)
         /\ \A i \in 1 .. Len(l) : l[i] \in Level /\ l[i].price \in Int /\ l[i].qty \in Int
         /\ Grouped(l)
<1>1. l \in Seq(Level)
  BY ListsAssumption
<1>2. Len(l) \in Nat /\ DOMAIN l = 1 .. Len(l) /\ \A i \in 1 .. Len(l) : l[i] \in Level
  BY <1>1, LenProperties, ElementOfSeq
<1>3. \A i \in 1 .. Len(l) : l[i].price \in Int /\ l[i].qty \in Int
  BY <1>2 DEF Level
<1>4. Grouped(l)
  <2> SUFFICES ASSUME NEW i \in DOMAIN l, NEW j \in DOMAIN l, NEW k \in DOMAIN l,
                      i < j, j < k, l[i].price = l[k].price
               PROVE  l[j].price = l[i].price
    BY <1>2 DEF Grouped
  <2>1. CASE l \in BuyLists
    <3>1. l[i].price >= l[j].price /\ l[j].price >= l[k].price
      BY <2>1, ListsAssumption
    <3> QED BY <1>2, <1>3, <3>1
  <2>2. CASE l \in SellLists
    <3>1. l[i].price <= l[j].price /\ l[j].price <= l[k].price
      BY <2>2, ListsAssumption
    <3> QED BY <1>2, <1>3, <3>1
  <2> QED BY <2>1, <2>2
<1> QED BY <1>2, <1>3, <1>4

LEMMA FirstOfPrice ==
  ASSUME NEW l \in BuyLists \cup SellLists, NEW j \in DOMAIN l
  PROVE  \E m \in Firsts(l) : m <= j /\ l[m].price = l[j].price
<1> DEFINE same == {i \in DOMAIN l : l[i].price = l[j].price}
<1>1. same \in SUBSET Nat /\ same # {}
  BY ListType
<1>2. PICK m \in same : \A i \in same : m <= i
  BY <1>1, Least
<1>3. ASSUME NEW i \in 1 .. m - 1 PROVE l[i].price # l[m].price
  BY <1>2, ListType
<1> QED BY <1>2, <1>3 DEF Firsts

LEMMA RankType ==
  ASSUME NEW l \in BuyLists \cup SellLists
  PROVE  /\ Rank(l, 0) = 0
         /\ \A i \in 0 .. Len(l) : Rank(l, i) \in Nat
         /\ \A i \in 0 .. Len(l) - 1 :
              Rank(l, i + 1) = IF i + 1 \in Firsts(l) THEN Rank(l, i) + 1 ELSE Rank(l, i)
         /\ \A i, j \in 0 .. Len(l) : i <= j => Rank(l, i) <= Rank(l, j)
         /\ \A i, j \in 0 .. Len(l) :
              i <= j => (Rank(l, i) = Rank(l, j) <=> \A m \in Firsts(l) : m <= j => m <= i)
<1> DEFINE upTo(i) == {j \in Firsts(l) : j <= i}
<1>1. Len(l) \in Nat /\ Firsts(l) \in SUBSET (1 .. Len(l)) /\ IsFiniteSet(Firsts(l))
  <2>1. Len(l) \in Nat /\ Firsts(l) \in SUBSET (1 .. Len(l))
    BY ListType DEF Firsts
  <2>2. IsFiniteSet(1 .. Len(l))
    BY <2>1, FS_Interval
  <2> QED BY <2>1, <2>2, FS_Subset
<1>2. ASSUME NEW i \in 0 .. Len(l) PROVE IsFiniteSet(upTo(i)) /\ Cardinality(upTo(i)) \in Nat
  <2>1. upTo(i) \in SUBSET Firsts(l)
    OBVIOUS
  <2> QED BY <1>1, <2>1, FS_Subset, FS_CardinalityType
<1>3. Rank(l, 0) = 0
  <2>1. upTo(0) = {}
    BY <1>1
  <2> QED BY <2>1, FS_EmptySet DEF Rank
<1>4. ASSUME NEW i \in 0 .. Len(l) - 1
      PROVE  Rank(l, i + 1) = IF i + 1 \in Firsts(l) THEN Rank(l, i) + 1 ELSE Rank(l, i)
  <2>1. PICK S, T : S = upTo(i) /\ T = upTo(i + 1)
    OBVIOUS
  <2>2. CASE i + 1 \in Firsts(l)
    <3>1. T = S \cup {i + 1} /\ i + 1 \notin S
      BY <1>1, <2>1, <2>2
    <3>2. Cardinality(T) = Cardinality(S) + 1
      <4>1. IsFiniteSet(S)
        BY <1>2, <2>1
      <4> HIDE DEF upTo
      <4> QED BY <3>1, <4>1, FS_AddElement
    <3> QED BY <2>1, <2>2, <3>2 DEF Rank
  <2>3. CASE i + 1 \notin Firsts(l)
    <3>1. T = S
      BY <1>1, <2>1, <2>3
    <3> QED BY <2>1, <2>3, <3>1 DEF Rank
  <2> QED BY <2>2, <2>3
<1>5. ASSUME NEW i \in 0 .. Len(l), NEW j \in 0 .. Len(l), i <= j
      PROVE  /\ Rank(l, i) <= Rank(l, j)
             /\ Rank(l, i) = Rank(l, j) <=> \A m \in Firsts(l) : m <= j => m <= i
  <2>1. PICK S, T : S = upTo(i) /\ T = upTo(j)
    OBVIOUS
  <2>2. S \in SUBSET T
    BY <1>1, <1>5, <2>1
  <2>3. Cardinality(S) <= Cardinality(T) /\ (Cardinality(T) = Cardinality(S) <=> T = S)
    BY <1>2, <2>1, <2>2, FS_Subset
  <2>4. T = S <=> \A m \in Firsts(l) : m <= j => m <= i
    BY <1>1, <1>5, <2>1, <2>2
  <2>5. Rank(l, i) = Cardinality(S) /\ Rank(l, j) = Cardinality(T)
    BY <2>1 DEF Rank
  <2> HIDE DEF upTo
  <2> QED BY <2>3, <2>4, <2>5
<1>6. \A i \in 0 .. Len(l) : Rank(l, i) \in Nat
  BY <1>2 DEF Rank
<1> QED BY <1>3, <1>4, <1>5, <1>6

LEMMA SameRank ==
  ASSUME NEW l \in BuyLists \cup SellLists, NEW i \in DOMAIN l, NEW j \in DOMAIN l
  PROVE  Rank(l, i) = Rank(l, j) <=> l[i].price = l[j].price
<1>1. ASSUME NEW a \in DOMAIN l, NEW b \in DOMAIN l, a <= b
      PROVE  Rank(l, a) = Rank(l, b) <=> l[a].price = l[b].price
  <2>1. /\ Len(l) \in Nat /\ DOMAIN l = 1 .. Len(l)
        /\ a \in 0 .. Len(l) /\ b \in 0 .. Len(l) /\ Grouped(l) /\ Firsts(l) \subseteq DOMAIN l
    BY ListType DEF Firsts
  <2>2. Rank(l, a) = Rank(l, b) <=> \A m \in Firsts(l) : m <= b => m <= a
    BY <1>1, <2>1, RankType
  <2>3. ASSUME \A m \in Firsts(l) : m <= b => m <= a PROVE l[a].price = l[b].price
    <3>1. PICK m \in Firsts(l) : m <= b /\ l[m].price = l[b].price
      BY FirstOfPrice
    <3>2. m \in DOMAIN l /\ m <= a
      BY <2>1, <2>3, <3>1
    <3> QED BY <1>1, <2>1, <3>1, <3>2 DEF Grouped
  <2>4. ASSUME l[a].price = l[b].price, NEW m \in Firsts(l), m <= b PROVE m <= a
    <3>1. m \in DOMAIN l /\ \A k \in 1 .. m - 1 : l[k].price # l[m].price
      BY DEF Firsts
    <3>2. ASSUME a < m PROVE FALSE
      <4>1. l[m].price = l[a].price
        BY <2>1, <2>4, <3>1, <3>2 DEF Grouped
      <4> QED BY <2>1, <3>1, <3>2, <4>1
    <3> QED BY <2>1, <3>1, <3>2
  <2> QED BY <2>2, <2>3, <2>4
<1>2. i <= j \/ j <= i
  BY ListType
<1> QED BY <1>1, <1>2

(* What the pass has collected after i entries.                            *)
Collected(l, i, a) ==
  /\ a \in Acc
  /\ a.over <=> Rank(l, i) > Levels
  /\ ~a.over => a.n = Rank(l, i)
  /\ \A k \in 1 .. Levels :
       /\ Group(l, i, k) = {} => a.levels[k] = NoLevel
       /\ \A j \in Group(l, i, k) : a.levels[k].price = l[j].price
       /\ a.levels[k].qty = Total(Quantities(l), Group(l, i, k))

LEMMA CollectsNothing ==
  ASSUME NEW l \in BuyLists \cup SellLists
  PROVE  Collected(l, 0, NoAcc)
<1>1. Levels \in Nat \ {0} /\ NoAcc \in Acc /\ NoAcc.n = 0 /\ ~NoAcc.over
  BY SizesAssumption, NoAccType DEF NoAcc
<1>2. Rank(l, 0) = 0
  BY RankType
<1>3. \A k \in 1 .. Levels : Group(l, 0, k) = {}
  BY DEF Group
<1>4. \A k \in 1 .. Levels : NoAcc.levels[k] = NoLevel /\ NoLevel.qty = 0
  BY DEF NoAcc, NoLevels, NoLevel
<1> QED BY <1>1, <1>2, <1>3, <1>4, TotalEmpty DEF Collected

LEMMA GroupGrows ==
  ASSUME NEW l \in BuyLists \cup SellLists, NEW i \in 0 .. Len(l) - 1, NEW k
  PROVE  /\ IsFiniteSet(Group(l, i, k)) /\ IsFiniteSet(Group(l, i + 1, k))
         /\ i + 1 \notin Group(l, i, k)
         /\ Group(l, i, k) \subseteq DOMAIN l /\ Group(l, i + 1, k) \subseteq DOMAIN l
         /\ Rank(l, i + 1) # k => Group(l, i + 1, k) = Group(l, i, k)
         /\ Rank(l, i + 1) = k => Group(l, i + 1, k) = Group(l, i, k) \cup {i + 1}
<1>1. Len(l) \in Nat /\ DOMAIN l = 1 .. Len(l)
  BY ListType
<1>2. IsFiniteSet(1 .. i) /\ IsFiniteSet(1 .. i + 1)
  BY <1>1, FS_Interval
<1>3. IsFiniteSet(Group(l, i, k)) /\ IsFiniteSet(Group(l, i + 1, k))
  <2>1. Group(l, i, k) \in SUBSET (1 .. i) /\ Group(l, i + 1, k) \in SUBSET (1 .. i + 1)
    BY DEF Group
  <2> QED BY <1>2, <2>1, FS_Subset
<1> QED BY <1>1, <1>3 DEF Group

(* One more entry of the level k.                                          *)
LEMMA GroupTotal ==
  ASSUME NEW l \in BuyLists \cup SellLists, NEW i \in 0 .. Len(l) - 1, NEW k, Rank(l, i + 1) = k
  PROVE  /\ Total(Quantities(l), Group(l, i, k)) \in Int
         /\ Total(Quantities(l), Group(l, i + 1, k))
              = l[i + 1].qty + Total(Quantities(l), Group(l, i, k))
<1>1. PICK S, T, g, y : S = Group(l, i, k) /\ T = Group(l, i + 1, k) /\ g = Quantities(l) /\ y = i + 1
  OBVIOUS
<1>2. IsFiniteSet(S) /\ IsFiniteSet(T) /\ S \subseteq DOMAIN l /\ T \subseteq DOMAIN l
      /\ T = S \cup {y} /\ y \notin S
  BY <1>1, GroupGrows
<1>3. y \in DOMAIN l /\ \A x \in DOMAIN l : g[x] = l[x].qty /\ g[x] \in Int
  BY <1>1, ListType DEF Quantities
<1>4. Total(g, T) = g[y] + Total(g, T \ {y})
  BY <1>2, <1>3, TotalRemove
<1>5. T \ {y} = S
  BY <1>2
<1>6. Total(g, S) \in Int
  BY <1>2, <1>3, TotalType
<1> QED BY <1>1, <1>3, <1>4, <1>5, <1>6

(* A level whose group gets no entry stays as it is.                       *)
LEMMA LevelKept ==
  ASSUME NEW l \in BuyLists \cup SellLists, NEW i \in 0 .. Len(l) - 1, NEW a, Collected(l, i, a),
         NEW k \in 1 .. Levels, Rank(l, i + 1) # k, NEW b, b.levels[k] = a.levels[k]
  PROVE  /\ Group(l, i + 1, k) = {} => b.levels[k] = NoLevel
         /\ \A j \in Group(l, i + 1, k) : b.levels[k].price = l[j].price
         /\ b.levels[k].qty = Total(Quantities(l), Group(l, i + 1, k))
<1>1. Group(l, i + 1, k) = Group(l, i, k)
  BY GroupGrows
<1> QED BY <1>1 DEF Collected

LEMMA CollectsOneMore ==
  ASSUME NEW l \in BuyLists \cup SellLists, NEW i \in 0 .. Len(l) - 1, NEW a, Collected(l, i, a)
  PROVE  Collected(l, i + 1, AddEntry(a, l[i + 1]))
<1>1. PICK e, b : e = l[i + 1] /\ b = AddEntry(a, e)
  OBVIOUS
<1>2. PICK r, s : r = Rank(l, i) /\ s = Rank(l, i + 1)
  OBVIOUS
<1>3. /\ Len(l) \in Nat /\ DOMAIN l = 1 .. Len(l) /\ Levels \in Nat \ {0}
      /\ i + 1 \in DOMAIN l /\ e \in Level /\ e.price \in Int /\ e.qty \in Int
  BY <1>1, ListType, SizesAssumption
<1>4. /\ r \in Nat /\ s \in Nat /\ (r = 0 <=> i = 0)
      /\ s = IF i + 1 \in Firsts(l) THEN r + 1 ELSE r
  <2>1. r \in Nat /\ s \in Nat /\ s = IF i + 1 \in Firsts(l) THEN r + 1 ELSE r
    BY <1>2, <1>3, RankType
  <2>2. i = 0 => r = 0
    BY <1>2, RankType
  <2>3. ASSUME i # 0 PROVE r # 0
    <3>1. 1 \in Firsts(l)
      BY <1>3 DEF Firsts
    <3>2. 0 \in 0 .. Len(l) /\ i \in 0 .. Len(l) /\ 0 <= i
      BY <1>3
    <3>3. Rank(l, 0) = Rank(l, i) => 1 <= 0
      BY <2>3, <3>1, <3>2, RankType
    <3> QED BY <1>2, <3>3, RankType
  <2> QED BY <2>1, <2>2, <2>3
<1>5. a \in Acc /\ (a.over <=> r > Levels) /\ (~a.over => a.n = r) /\ a.n \in 0 .. Levels
  BY <1>2 DEF Collected, Acc
<1>6. ASSUME ~a.over PROVE Merges(a, e) <=> s = r
  <2>1. CASE i = 0
    <3>1. i + 1 \in Firsts(l)
      BY <1>3, <2>1 DEF Firsts
    <3> QED BY <1>4, <1>5, <1>6, <2>1, <3>1 DEF Merges
  <2>2. CASE i # 0
    <3>1. i \in DOMAIN l /\ i \in Group(l, i, r) /\ r \in 1 .. Levels /\ a.n = r /\ a.n > 0
      BY <1>2, <1>3, <1>4, <1>5, <1>6, <2>2 DEF Group
    <3>2. a.levels[r].price = l[i].price
      BY <3>1 DEF Collected
    <3>3. r = s <=> l[i].price = l[i + 1].price
      BY <1>2, <1>3, <3>1, SameRank
    <3> QED BY <1>1, <3>1, <3>2, <3>3 DEF Merges
  <2> QED BY <2>1, <2>2
<1>7. CASE a.over
  <2>1. b = a /\ s > Levels
    BY <1>1, <1>3, <1>4, <1>5, <1>7, EntryIgnored
  <2>2. \A k \in 1 .. Levels : s # k
    BY <1>3, <1>4, <2>1
  <2>3. ASSUME NEW k \in 1 .. Levels
        PROVE  /\ Group(l, i + 1, k) = {} => b.levels[k] = NoLevel
               /\ \A j \in Group(l, i + 1, k) : b.levels[k].price = l[j].price
               /\ b.levels[k].qty = Total(Quantities(l), Group(l, i + 1, k))
    BY <1>2, <2>1, <2>2, LevelKept
  <2> QED BY <1>1, <1>2, <1>5, <1>7, <2>1, <2>3 DEF Collected
<1>8. CASE ~a.over /\ Merges(a, e)
  <2>1. /\ b \in Acc /\ b.n = a.n /\ ~b.over /\ a.n \in 1 .. Levels
        /\ b.levels[a.n].price = a.levels[a.n].price
        /\ b.levels[a.n].qty = a.levels[a.n].qty + e.qty
        /\ \A k \in 1 .. Levels : k # a.n => b.levels[k] = a.levels[k]
    BY <1>1, <1>3, <1>5, <1>8, EntryMerges
  <2>2. s = r /\ a.n = r /\ i # 0
    BY <1>4, <1>5, <1>6, <1>8, <2>1
  <2>3. ASSUME NEW k \in 1 .. Levels
        PROVE  /\ Group(l, i + 1, k) = {} => b.levels[k] = NoLevel
               /\ \A j \in Group(l, i + 1, k) : b.levels[k].price = l[j].price
               /\ b.levels[k].qty = Total(Quantities(l), Group(l, i + 1, k))
    <3>1. CASE k # s
      BY <1>2, <2>1, <2>2, <3>1, LevelKept
    <3>2. CASE k = s
      <4>1. Group(l, i + 1, k) = Group(l, i, k) \cup {i + 1}
        BY <1>2, <3>2, GroupGrows
      <4>2. b.levels[k].price = l[i + 1].price
        BY <1>1, <1>8, <2>1, <2>2, <3>2 DEF Merges
      <4>3. \A j \in Group(l, i, k) : b.levels[k].price = l[j].price
        BY <2>1, <2>2, <3>2 DEF Collected
      <4>4. b.levels[k].qty = Total(Quantities(l), Group(l, i + 1, k))
        <5>1. b.levels[k].qty = Total(Quantities(l), Group(l, i, k)) + e.qty
          BY <2>1, <2>2, <3>2 DEF Collected
        <5>2. /\ Total(Quantities(l), Group(l, i, k)) \in Int
              /\ Total(Quantities(l), Group(l, i + 1, k)) = e.qty + Total(Quantities(l), Group(l, i, k))
          BY <1>1, <1>2, <3>2, GroupTotal
        <5> QED BY <1>3, <5>1, <5>2
      <4> QED BY <4>1, <4>2, <4>3, <4>4
    <3> QED BY <3>1, <3>2
  <2> QED BY <1>1, <1>2, <1>3, <1>4, <1>5, <1>8, <2>1, <2>2, <2>3 DEF Collected
<1>9. CASE ~a.over /\ ~Merges(a, e) /\ HasRoom(a)
  <2>1. /\ b \in Acc /\ b.n = a.n + 1 /\ ~b.over /\ a.n + 1 \in 1 .. Levels
        /\ b.levels[a.n + 1] = e
        /\ \A k \in 1 .. Levels : k # a.n + 1 => b.levels[k] = a.levels[k]
    BY <1>1, <1>3, <1>5, <1>9, EntryOpens
  <2>2. s = r + 1 /\ a.n = r
    BY <1>4, <1>5, <1>6, <1>9
  <2>3. ASSUME NEW k \in 1 .. Levels
        PROVE  /\ Group(l, i + 1, k) = {} => b.levels[k] = NoLevel
               /\ \A j \in Group(l, i + 1, k) : b.levels[k].price = l[j].price
               /\ b.levels[k].qty = Total(Quantities(l), Group(l, i + 1, k))
    <3>1. CASE k # s
      BY <1>2, <2>1, <2>2, <3>1, LevelKept
    <3>2. CASE k = s
      <4>1. Group(l, i + 1, k) = Group(l, i, k) \cup {i + 1}
        BY <1>2, <3>2, GroupGrows
      <4>2. Group(l, i, k) = {}
        <5> SUFFICES ASSUME NEW j \in 1 .. i, Rank(l, j) = k PROVE FALSE
          BY DEF Group
        <5>1. Rank(l, j) <= r
          BY <1>2, <1>3, RankType
        <5> QED BY <1>4, <2>2, <3>2, <5>1
      <4>3. b.levels[k] = e
        BY <2>1, <2>2, <3>2
      <4>4. Total(Quantities(l), Group(l, i + 1, k)) = e.qty + Total(Quantities(l), Group(l, i, k))
        BY <1>1, <1>2, <3>2, GroupTotal
      <4>5. Total(Quantities(l), Group(l, i, k)) = 0
        BY <4>2, TotalEmpty
      <4>6. Group(l, i + 1, k) = {i + 1}
        BY <4>1, <4>2
      <4>7. b.levels[k].qty = Total(Quantities(l), Group(l, i + 1, k))
        BY <1>3, <4>3, <4>4, <4>5
      <4> QED BY <1>1, <4>3, <4>6, <4>7
    <3> QED BY <3>1, <3>2
  <2> QED BY <1>1, <1>2, <1>3, <1>4, <1>5, <1>9, <2>1, <2>2, <2>3 DEF Collected
<1>10. CASE ~a.over /\ ~Merges(a, e) /\ ~HasRoom(a)
  <2>1. b \in Acc /\ b.over /\ b.levels = a.levels
    BY <1>1, <1>3, <1>5, <1>10, EntryEnds
  <2>2. s = r + 1 /\ s > Levels
    BY <1>3, <1>4, <1>5, <1>6, <1>10 DEF HasRoom
  <2>3. \A k \in 1 .. Levels : s # k
    BY <1>3, <1>4, <2>2
  <2>4. ASSUME NEW k \in 1 .. Levels
        PROVE  /\ Group(l, i + 1, k) = {} => b.levels[k] = NoLevel
               /\ \A j \in Group(l, i + 1, k) : b.levels[k].price = l[j].price
               /\ b.levels[k].qty = Total(Quantities(l), Group(l, i + 1, k))
    BY <1>2, <2>1, <2>3, LevelKept
  <2> QED BY <1>1, <1>2, <2>1, <2>2, <2>4 DEF Collected
<1> QED BY <1>7, <1>8, <1>9, <1>10

LEMMA PassCollects ==
  ASSUME NEW l \in BuyLists \cup SellLists
  PROVE  Collected(l, Len(l), PassOf(l)[Len(l)])
<1> DEFINE S == {i \in Nat : i <= Len(l) => Collected(l, i, PassOf(l)[i])}
<1>1. 0 \in S
  BY CollectsNothing, PassSteps
<1>2. ASSUME NEW i \in S PROVE i + 1 \in S
  <2> SUFFICES ASSUME i + 1 <= Len(l) PROVE Collected(l, i + 1, PassOf(l)[i + 1])
    OBVIOUS
  <2>1. i \in 0 .. Len(l) - 1 /\ i + 1 \in 1 .. Len(l) /\ i + 1 - 1 = i
    BY ListType
  <2>2. Collected(l, i, PassOf(l)[i])
    BY <2>1, ListType
  <2>3. PassOf(l)[i + 1] = AddEntry(PassOf(l)[i], l[i + 1])
    BY <2>1, PassSteps
  <2> QED BY <2>1, <2>2, <2>3, CollectsOneMore
<1>3. S \in SUBSET Nat
  OBVIOUS
<1> HIDE DEF S
<1>4. S = Nat
  BY <1>1, <1>2, <1>3, Induct
<1>5. Len(l) \in S
  BY <1>4, ListType
<1> QED BY <1>5, ListType DEF S

-----------------------------------------------------------------------------
(* The reference definition, in the same terms.                            *)
Nth(l, k) == {i \in Firsts(l) : Rank(l, i) = k}
SamePrice(l, i) == {j \in DOMAIN l : l[j].price = l[i].price}
Shown(l, S) == FoldSet(LAMBDA j, sum : l[j].qty + sum, 0, S)

LEMMA ShownTotal ==
  ASSUME NEW l \in BuyLists \cup SellLists, NEW S \in SUBSET DOMAIN l
  PROVE  Shown(l, S) = Total(Quantities(l), S)
<1> DEFINE Folds(it) ==
             it = [s \in SUBSET S |->
                     IF s = {} THEN 0
                     ELSE LET x == CHOOSE x \in s : TRUE
                          IN  l[x].qty + it[s \ {x}]]
           i == CHOOSE it : Folds(it)
           j == CHOOSE it : Counts(it, Quantities(l), S)
<1>1. IsFiniteSet(S)
  <2>1. IsFiniteSet(DOMAIN l)
    BY ListType, FS_Interval
  <2> QED BY <2>1, FS_Subset
<1>2. Shown(l, S) = i[S]
  BY DEF Shown, FoldSet, MapThenFoldSet
<1>3. ASSUME NEW it PROVE Folds(it) <=> Counts(it, Quantities(l), S)
  <2>1. \A s \in SUBSET S : s # {} => Quantities(l)[Pick(s)] = l[Pick(s)].qty
    BY Picked DEF Quantities
  <2>2. \A s \in SUBSET S :
          (IF s = {} THEN 0
           ELSE LET x == CHOOSE x \in s : TRUE IN l[x].qty + it[s \ {x}])
          = IF s = {} THEN 0 ELSE Quantities(l)[Pick(s)] + it[s \ {Pick(s)}]
    BY <2>1 DEF Pick
  <2> QED BY <2>2 DEF Counts
<1>4. Counts(j, Quantities(l), S)
  BY <1>1, CountsExist
<1> HIDE DEF Folds, j
<1>5. Counts(i, Quantities(l), S)
  BY <1>3, <1>4
<1> HIDE DEF i
<1>6. i[S] = j[S]
  BY <1>1, <1>4, <1>5, CountsAgree
<1> QED BY <1>2, <1>6 DEF j, Total

LEMMA TopLevelsOf ==
  ASSUME NEW l \in BuyLists \cup SellLists
  PROVE  /\ TopLevels[l] \in [1 .. Levels -> {TopLevels[l][k] : k \in 1 .. Levels}]
         /\ \A k \in 1 .. Levels :
              /\ Nth(l, k) = {} => TopLevels[l][k] = NoLevel
              /\ Nth(l, k) # {} =>
                   \E i \in Nth(l, k) :
                     TopLevels[l][k] = [price |-> l[i].price, qty |-> Shown(l, SamePrice(l, i))]
<1> DEFINE of(k) == IF Nth(l, k) = {} THEN NoLevel
                    ELSE LET i == CHOOSE i \in Nth(l, k) : TRUE IN
                         [price |-> l[i].price, qty |-> Shown(l, SamePrice(l, i))]
<1>1. TopLevels[l] = [k \in 1 .. Levels |-> of(k)]
  BY DEF TopLevels, Nth, Firsts, Rank, SamePrice, Shown
<1>2. ASSUME NEW k, Nth(l, k) # {}
      PROVE  \E i \in Nth(l, k) : of(k) = [price |-> l[i].price, qty |-> Shown(l, SamePrice(l, i))]
  <2> DEFINE i == CHOOSE i \in Nth(l, k) : TRUE
  <2>1. i \in Nth(l, k)
    BY <1>2
  <2>2. of(k) = [price |-> l[i].price, qty |-> Shown(l, SamePrice(l, i))]
    BY <1>2
  <2> QED BY <2>1, <2>2
<1>3. ASSUME NEW k, Nth(l, k) = {} PROVE of(k) = NoLevel
  BY <1>3
<1> HIDE DEF of
<1> QED BY <1>1, <1>2, <1>3

(* The pass over a list, which breaks off when the levels are used up,     *)
(* collects the best prices and all that rests at each of them.            *)
LEMMA PassIsTopLevels ==
  ASSUME NEW l \in BuyLists \cup SellLists
  PROVE  MarketDataOf[l] = TopLevels[l] /\ MarketDataOf[l] \in [1 .. Levels -> Level]
<1>1. PICK a, d, t, n : a = PassOf(l)[Len(l)] /\ d = MarketDataOf[l] /\ t = TopLevels[l] /\ n = Len(l)
  OBVIOUS
<1>2. Collected(l, n, a) /\ d = a.levels /\ d \in [1 .. Levels -> Level]
  BY <1>1, PassCollects, PassSteps DEF Collected, Acc
<1>3. /\ n \in Nat /\ DOMAIN l = 1 .. n /\ Firsts(l) \subseteq DOMAIN l
      /\ \A i \in DOMAIN l : l[i].price \in Int /\ l[i].qty \in Int
  BY <1>1, ListType DEF Firsts
<1>4. ASSUME NEW k \in 1 .. Levels PROVE d[k] = t[k]
  <2>1. CASE Nth(l, k) = {}
    <3>1. Group(l, n, k) = {}
      <4> SUFFICES ASSUME NEW j \in DOMAIN l, Rank(l, j) = k PROVE FALSE
        BY <1>3 DEF Group
      <4>1. PICK m \in Firsts(l) : l[m].price = l[j].price
        BY FirstOfPrice
      <4>2. Rank(l, m) = k
        BY <1>3, <4>1, SameRank
      <4> QED BY <2>1, <4>2 DEF Nth
    <3> QED BY <1>1, <1>2, <2>1, <3>1, TopLevelsOf DEF Collected
  <2>2. CASE Nth(l, k) # {}
    <3>1. PICK i \in Nth(l, k) : t[k] = [price |-> l[i].price, qty |-> Shown(l, SamePrice(l, i))]
      BY <1>1, <2>2, TopLevelsOf
    <3>2. i \in DOMAIN l /\ Rank(l, i) = k
      BY <1>3 DEF Nth
    <3>3. SamePrice(l, i) = Group(l, n, k)
      BY <1>3, <3>2, SameRank DEF SamePrice, Group
    <3>4. d[k].price = l[i].price
      BY <1>2, <1>3, <3>2 DEF Collected, Group
    <3>5. d[k].qty = Total(Quantities(l), SamePrice(l, i))
      BY <1>2, <3>3 DEF Collected
    <3>6. Total(Quantities(l), SamePrice(l, i)) = Shown(l, SamePrice(l, i))
      BY ShownTotal DEF SamePrice
    <3>7. d[k] \in Level
      BY <1>2
    <3>8. d[k] = [price |-> d[k].price, qty |-> d[k].qty]
      BY <3>7 DEF Level
    <3> QED BY <3>1, <3>4, <3>5, <3>6, <3>8
  <2> QED BY <2>1, <2>2
<1>5. DOMAIN t = 1 .. Levels /\ t = [k \in 1 .. Levels |-> t[k]]
  BY <1>1, TopLevelsOf
<1>6. d = [k \in 1 .. Levels |-> d[k]]
  BY <1>2
<1>7. d = t
  BY <1>4, <1>5, <1>6
<1> QED BY <1>1, <1>2, <1>7

-----------------------------------------------------------------------------
LEMMA InitTypes == Init => TypeOK
<1> SUFFICES ASSUME Init PROVE TypeOK
  OBVIOUS
<1>1. NoLevels \in [1 .. Levels -> Level]
  BY DEF NoLevels, NoLevel, Level
<1>2. picture \in [AllBooks -> Depth]
  BY <1>1 DEF Init, Depth
<1> QED BY <1>2, SizesAssumption DEF Init, TypeOK

LEMMA NextTypes == TypeOK /\ [Next]_vars => TypeOK'
<1> SUFFICES ASSUME TypeOK, [Next]_vars PROVE TypeOK'
  OBVIOUS
<1>0. /\ Len(packet) \in Nat /\ MaxBooks \in Nat \ {0} /\ count \in Nat /\ sweep \in Nat
      /\ \A b \in 1 .. count : b \in AllBooks
  BY SizesAssumption DEF TypeOK, AllBooks
<1>1. CASE SweepBegins
  BY <1>0, <1>1 DEF SweepBegins, books, sessions, TypeOK
<1>2. CASE Skip \/ Take \/ SweepEnds
  BY <1>0, <1>2 DEF Skip, Take, SweepEnds, books, sessions, TypeOK
<1>3. CASE CopyBuys \/ CopySells
  <2>1. sweep \in AllBooks
    BY <1>0, <1>3 DEF CopyBuys, CopySells, TypeOK
  <2>2. PICK p : p = picture[sweep]
    OBVIOUS
  <2>3. p \in Depth
    BY <2>1, <2>2 DEF TypeOK
  <2>4. picture' \in [AllBooks -> Depth]
    <3>1. CASE CopyBuys
      <4>1. PICK d : d = MarketDataOf[buys[sweep]]
        OBVIOUS
      <4>2. d \in [1 .. Levels -> Level]
        BY <2>1, <4>1, PassIsTopLevels DEF TypeOK
      <4>3. [p EXCEPT !.buy = d] \in Depth
        BY <2>3, <4>2 DEF Depth
      <4>4. picture' = [picture EXCEPT ![sweep] = [p EXCEPT !.buy = d]]
        BY <2>1, <2>2, <3>1, <4>1 DEF CopyBuys, TypeOK
      <4> QED BY <4>3, <4>4 DEF TypeOK
    <3>2. CASE CopySells
      <4>1. PICK d : d = MarketDataOf[sells[sweep]]
        OBVIOUS
      <4>2. d \in [1 .. Levels -> Level]
        BY <2>1, <4>1, PassIsTopLevels DEF TypeOK
      <4>3. [p EXCEPT !.sell = d] \in Depth
        BY <2>3, <4>2 DEF Depth
      <4>4. picture' = [picture EXCEPT ![sweep] = [p EXCEPT !.sell = d]]
        BY <2>1, <2>2, <3>2, <4>1 DEF CopySells, TypeOK
      <4> QED BY <4>3, <4>4 DEF TypeOK
    <3> QED BY <1>3, <3>1, <3>2
  <2> QED BY <1>3, <2>4 DEF CopyBuys, CopySells, books, sessions, TypeOK
<1>4. CASE Clear
  <2>1. sweep \in AllBooks /\ sweep > 0
    BY <1>0, <1>4 DEF Clear, TypeOK
  <2>2. PICK r : r = [book |-> sweep, depth |-> picture[sweep]]
    OBVIOUS
  <2>3. r \in [book : AllBooks, depth : Depth]
    BY <2>1, <2>2 DEF TypeOK
  <2>4. packet' = Append(packet, r)
    BY <1>4, <2>2 DEF Clear
  <2>5. packet' \in Seq([book : AllBooks, depth : Depth]) /\ Len(packet') = Len(packet) + 1
    BY <2>3, <2>4, AppendElements DEF TypeOK
  <2>6. sweep' = sweep - 1 /\ sent' = sent /\ count' = count /\ pc' \in {"send", "look"}
    BY <1>4 DEF Clear, books
  <2>7. sent' \in 0 .. Len(packet') /\ sweep' \in 0 .. count'
    BY <1>0, <2>1, <2>5, <2>6 DEF TypeOK
  <2>8. changed' \in [AllBooks -> BOOLEAN]
    BY <1>4 DEF Clear, TypeOK
  <2> QED BY <1>4, <2>5, <2>6, <2>7, <2>8 DEF Clear, books, sessions, TypeOK
<1>5. CASE SendRecord
  BY <1>0, <1>5 DEF SendRecord, books, TypeOK
<1>6. CASE SendEnds
  <2>1. <<>> \in Seq([book : AllBooks, depth : Depth]) /\ Len(<<>>) = 0
    OBVIOUS
  <2> QED BY <1>6, <2>1 DEF SendEnds, books, sessions, TypeOK
<1>7. ASSUME NEW w \in Writers, AddBook(w) PROVE TypeOK'
  <2>1. count' = count + 1 /\ count' \in 0 .. MaxBooks
    BY <1>0, <1>7 DEF AddBook, TypeOK
  <2>2. sweep' \in 0 .. count' /\ writing' \in [Writers -> 0 .. count']
    BY <1>0, <1>7, <2>1 DEF AddBook, publisher, TypeOK
  <2> QED BY <1>7, <2>1, <2>2 DEF AddBook, publisher, sessions, TypeOK
<1>8. ASSUME NEW w \in Writers, Write(w) PROVE TypeOK'
  <2>1. PICK b \in 1 .. count :
          /\ writing' = [writing EXCEPT ![w] = b]
          /\ \/ \E l \in BuyLists : buys' = [buys EXCEPT ![b] = l] /\ sells' = sells
             \/ \E l \in SellLists : sells' = [sells EXCEPT ![b] = l] /\ buys' = buys
    BY <1>8 DEF Write
  <2>2. writing' \in [Writers -> 0 .. count]
    BY <1>0, <2>1 DEF TypeOK
  <2>3. buys' \in [AllBooks -> BuyLists] /\ sells' \in [AllBooks -> SellLists]
    BY <2>1 DEF TypeOK
  <2> QED BY <1>8, <2>2, <2>3 DEF Write, publisher, sessions, TypeOK
<1>9. ASSUME NEW w \in Writers, Flag(w) PROVE TypeOK'
  <2>1. writing' \in [Writers -> 0 .. count] /\ changed' \in [AllBooks -> BOOLEAN]
    BY <1>0, <1>9 DEF Flag, TypeOK
  <2> QED BY <1>9, <2>1 DEF Flag, publisher, sessions, TypeOK
<1>10. ASSUME NEW c \in Clients, onLogon(c) \/ onLogout(c) PROVE TypeOK'
  BY <1>10 DEF onLogon, onLogout, publisher, books, TypeOK
<1>11. CASE UNCHANGED vars
  BY <1>11 DEF vars, publisher, books, sessions, TypeOK
<1> QED BY <1>1, <1>2, <1>3, <1>4, <1>5, <1>6, <1>7, <1>8, <1>9, <1>10, <1>11 DEF Next, Publish

(* Every variable keeps its type, and the loop of sendMarketPicture stays  *)
(* within the vector of books although that grows under it.                *)
THEOREM TypeCorrect == Spec => []TypeOK
BY InitTypes, NextTypes, PTL DEF Spec

(* For every list that is sorted by price and every number of levels, what *)
(* getMarketData() leaves in a picture is the best prices of the list and  *)
(* all that rests at each, although it breaks off at the first price that  *)
(* has no level.                                                           *)
THEOREM PicturesAreTopLevels == Spec => []DepthIsTopLevels
<1>1. TypeOK => DepthIsTopLevels
  <2> SUFFICES ASSUME TypeOK, NEW b \in AllBooks, NEW l \in {buys[b], sells[b]}
               PROVE  MarketDataOf[l] = TopLevels[l]
    BY DEF DepthIsTopLevels
  <2>1. l \in BuyLists \cup SellLists
    BY DEF TypeOK
  <2> QED BY <2>1, PassIsTopLevels
<1> QED BY <1>1, TypeCorrect, PTL

-----------------------------------------------------------------------------
(* The books of a packet are those the sweep has passed, so the one it is  *)
(* at is not among them; and a packet that is not being sent has room.     *)
PacketInv ==
  /\ packet \in Seq(Range(packet))
  /\ count \in Int /\ sweep \in Int
  /\ Len(packet) <= MaxRecs
  /\ pc # "send" => Len(packet) < MaxRecs
  /\ pc = "sleep" => packet = <<>>
  /\ \A i \in DOMAIN packet : packet[i].book \in Int /\ packet[i].book > sweep
  /\ \A i, j \in DOMAIN packet : packet[i].book = packet[j].book => i = j

LEMMA EmptyPacket == <<>> \in Seq(Range(<<>>)) /\ Len(<<>>) = 0 /\ DOMAIN <<>> = {}
OBVIOUS

LEMMA AppendToPacket ==
  ASSUME NEW s, s \in Seq(Range(s)), NEW e
  PROVE  /\ Append(s, e) \in Seq(Range(Append(s, e)))
         /\ Len(s) \in Nat /\ DOMAIN s = 1 .. Len(s)
         /\ Len(Append(s, e)) = Len(s) + 1 /\ DOMAIN Append(s, e) = 1 .. Len(s) + 1
         /\ \A i \in 1 .. Len(s) : Append(s, e)[i] = s[i]
         /\ Append(s, e)[Len(s) + 1] = e
<1> DEFINE S == Range(s) \cup {e}
           a == Append(s, e)
<1>1. s \in Seq(S) /\ e \in S
  <2>1. \A T : Range(s) \subseteq T => s \in Seq(T)
    BY LenProperties, ElementOfSeq, SeqDef
  <2> QED BY <2>1
<1>2. /\ a \in Seq(S) /\ Len(a) = Len(s) + 1
      /\ \A i \in 1 .. Len(s) : a[i] = s[i]
      /\ a[Len(s) + 1] = e
  BY <1>1, AppendElements
<1>3. Len(s) \in Nat /\ DOMAIN s = 1 .. Len(s) /\ DOMAIN a = 1 .. Len(s) + 1
  BY <1>1, <1>2, LenProperties
<1> HIDE DEF a, S
<1>4. a \in Seq(Range(a))
  <2>1. \A i \in 1 .. Len(a) : a[i] \in Range(a)
    BY <1>2, <1>3 DEF Range
  <2>2. a = [i \in 1 .. Len(a) |-> a[i]] /\ Len(a) \in Nat
    BY <1>2, LenProperties
  <2> QED BY <2>1, <2>2, SeqDef
<1> QED BY <1>2, <1>3, <1>4 DEF a

LEMMA InitPackets == Init => PacketInv
BY EmptyPacket, SizesAssumption DEF Init, PacketInv

LEMMA NextPackets == PacketInv /\ [Next]_vars => PacketInv'
<1> SUFFICES ASSUME PacketInv, [Next]_vars PROVE PacketInv'
  OBVIOUS
<1>0. Len(packet) \in Nat /\ DOMAIN packet = 1 .. Len(packet) /\ MaxRecs \in Nat \ {0}
  BY LenProperties, SizesAssumption DEF PacketInv
<1>1. CASE SweepBegins
  BY <1>1, EmptyPacket DEF SweepBegins, books, PacketInv
<1>2. CASE Skip
  BY <1>2 DEF Skip, books, PacketInv
<1>3. CASE Take \/ CopyBuys \/ CopySells
  BY <1>3 DEF Take, CopyBuys, CopySells, books, PacketInv
<1>4. CASE Clear
  <2> DEFINE e == [book |-> sweep, depth |-> picture[sweep]]
  <2>1. packet' = Append(packet, e) /\ sweep' = sweep - 1 /\ count' = count
        /\ pc = "clear" /\ pc' = IF Len(packet') = MaxRecs THEN "send" ELSE "look"
    BY <1>4 DEF Clear, books, Full
  <2>2. e.book = sweep
    OBVIOUS
  <2> HIDE DEF e
  <2>3. /\ packet' \in Seq(Range(packet'))
        /\ Len(packet') = Len(packet) + 1 /\ DOMAIN packet' = 1 .. Len(packet) + 1
        /\ \A i \in 1 .. Len(packet) : packet'[i] = packet[i]
        /\ packet'[Len(packet) + 1] = e
    BY <2>1, AppendToPacket DEF PacketInv
  <2>4. Len(packet) < MaxRecs
    BY <2>1 DEF PacketInv
  <2>5. Len(packet') <= MaxRecs /\ (pc' # "send" => Len(packet') < MaxRecs) /\ pc' # "sleep"
    BY <1>0, <2>1, <2>3, <2>4
  <2>6. ASSUME NEW i \in DOMAIN packet'
        PROVE  packet'[i].book \in Int /\ packet'[i].book > sweep'
    BY <1>0, <2>1, <2>2, <2>3 DEF PacketInv
  <2>7. ASSUME NEW i \in DOMAIN packet', NEW j \in DOMAIN packet',
               packet'[i].book = packet'[j].book
        PROVE  i = j
    BY <1>0, <2>2, <2>3, <2>7 DEF PacketInv
  <2> QED BY <2>1, <2>3, <2>5, <2>6, <2>7 DEF PacketInv
<1>5. CASE SweepEnds
  BY <1>5 DEF SweepEnds, books, PacketInv
<1>6. CASE SendRecord
  BY <1>6 DEF SendRecord, books, PacketInv
<1>7. CASE SendEnds
  BY <1>0, <1>7, EmptyPacket DEF SendEnds, books, PacketInv
<1>8. ASSUME NEW w \in Writers, AddBook(w) \/ Write(w) \/ Flag(w) PROVE PacketInv'
  BY <1>8 DEF AddBook, Write, Flag, publisher, books, PacketInv
<1>9. ASSUME NEW c \in Clients, onLogon(c) \/ onLogout(c) PROVE PacketInv'
  BY <1>9 DEF onLogon, onLogout, publisher, books, PacketInv
<1>10. CASE UNCHANGED vars
  BY <1>10 DEF vars, publisher, books, PacketInv
<1> QED BY <1>1, <1>2, <1>3, <1>4, <1>5, <1>6, <1>7, <1>8, <1>9, <1>10 DEF Next, Publish

(* For any number of books and any room in a packet: addRecord() never     *)
(* writes behind the array, a packet has no book twice, and                *)
(* sendMarketPicture() leaves no record behind when its sweep is over.     *)
THEOREM PacketsFit == Spec => []PacketsAreComplete
<1>1. PacketInv => PacketsAreComplete
  BY DEF PacketInv, PacketsAreComplete
<1> QED BY <1>1, InitPackets, NextPackets, PTL DEF Spec
=============================================================================
