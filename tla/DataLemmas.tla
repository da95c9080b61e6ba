---------------------------- MODULE DataLemmas ----------------------------
(***************************************************************************)
(* Elements and lengths of the sequence operators that the book and the    *)
(* call stacks are built from, and what the operators of Order return.     *)
(***************************************************************************)
EXTENDS Order, Sequences, SequencesExt, SequenceTheorems, FiniteSetTheorems,
        WellFoundedInduction, TLAPS

LEMMA ShortSequences ==
  ASSUME NEW S
  PROVE  /\ <<>> \in Seq(S)
         /\ \A a \in S : <<a>> \in Seq(S)
         /\ \A a \in S, b \in S : <<a, b>> \in Seq(S)
OBVIOUS

LEMMA FrontElements ==
  ASSUME NEW S, NEW s \in Seq(S), s # <<>>
  PROVE  /\ Len(s) \in Nat \ {0} /\ DOMAIN s = 1 .. Len(s)
         /\ s[Len(s)] \in S
         /\ Front(s) \in Seq(S)
         /\ Len(Front(s)) = Len(s) - 1
         /\ \A i \in 1 .. Len(s) - 1 : Front(s)[i] = s[i]
<1>1. Len(s) \in Nat \ {0} /\ DOMAIN s = 1 .. Len(s)
  BY EmptySeq, LenProperties
<1>2. \A i \in 1 .. Len(s) : s[i] \in S
  BY ElementOfSeq
<1>3. /\ SubSeq(s, 1, Len(s) - 1) \in Seq(S)
      /\ Len(SubSeq(s, 1, Len(s) - 1)) = IF 1 <= Len(s) - 1 THEN Len(s) - 1 - 1 + 1 ELSE 0
      /\ \A i \in 1 .. Len(s) - 1 - 1 + 1 : SubSeq(s, 1, Len(s) - 1)[i] = s[1 + i - 1]
  <2>1. 1 \in Int /\ Len(s) - 1 \in Int /\ \A i \in 1 .. Len(s) - 1 : s[i] \in S
    BY <1>1, <1>2
  <2> QED BY <2>1, SubSeqProperties
<1> QED BY <1>1, <1>2, <1>3 DEF Front

LEMMA AppendElements ==
  ASSUME NEW S, NEW s \in Seq(S), NEW e \in S
  PROVE  /\ Append(s, e) \in Seq(S)
         /\ Len(Append(s, e)) = Len(s) + 1
         /\ \A i \in 1 .. Len(s) : Append(s, e)[i] = s[i]
         /\ Append(s, e)[Len(s) + 1] = e
  OBVIOUS

(* Goto: the last element is replaced.                                     *)
LEMMA ReplaceLastElements ==
  ASSUME NEW S, NEW s \in Seq(S), s # <<>>, NEW e \in S
  PROVE  /\ Append(Front(s), e) \in Seq(S)
         /\ Len(Append(Front(s), e)) = Len(s)
         /\ \A i \in 1 .. Len(s) - 1 : Append(Front(s), e)[i] = s[i]
         /\ Append(Front(s), e)[Len(s)] = e
<1>1. /\ Front(s) \in Seq(S) /\ Len(Front(s)) = Len(s) - 1 /\ Len(s) \in Nat \ {0}
      /\ \A i \in 1 .. Len(s) - 1 : Front(s)[i] = s[i]
  BY FrontElements
<1> QED BY <1>1, AppendElements

(* The last element gives way to two new ones.                             *)
LEMMA ReplaceLastByTwoElements ==
  ASSUME NEW S, NEW s \in Seq(S), s # <<>>, NEW d \in S, NEW e \in S
  PROVE  /\ Front(s) \o <<d, e>> \in Seq(S)
         /\ Len(Front(s) \o <<d, e>>) = Len(s) + 1
         /\ \A i \in 1 .. Len(s) - 1 : (Front(s) \o <<d, e>>)[i] = s[i]
         /\ (Front(s) \o <<d, e>>)[Len(s)] = d
         /\ (Front(s) \o <<d, e>>)[Len(s) + 1] = e
<1>1. /\ Front(s) \in Seq(S) /\ Len(Front(s)) = Len(s) - 1 /\ Len(s) \in Nat \ {0}
      /\ \A i \in 1 .. Len(s) - 1 : Front(s)[i] = s[i]
  BY FrontElements
<1>2. <<d, e>> \in Seq(S) /\ Len(<<d, e>>) = 2 /\ <<d, e>>[1] = d /\ <<d, e>>[2] = e
  OBVIOUS
<1> QED BY <1>1, <1>2, ConcatProperties

LEMMA TailElements ==
  ASSUME NEW S, NEW s \in Seq(S), s # <<>>
  PROVE  /\ Head(s) \in S /\ Head(s) = s[1] /\ Len(s) \in Nat \ {0}
         /\ Tail(s) \in Seq(S)
         /\ Len(Tail(s)) = Len(s) - 1
         /\ \A i \in 1 .. Len(s) - 1 : Tail(s)[i] = s[i + 1]
<1>1. Len(s) \in Nat \ {0}
  BY EmptySeq
<1> QED BY <1>1, HeadTailProperties

LEMMA InsertAtElements ==
  ASSUME NEW S, NEW s \in Seq(S), NEW p \in 1 .. Len(s) + 1, NEW e \in S
  PROVE  /\ InsertAt(s, p, e) \in Seq(S)
         /\ Len(InsertAt(s, p, e)) = Len(s) + 1
         /\ \A i \in 1 .. Len(s) + 1 :
              InsertAt(s, p, e)[i] = IF i < p THEN s[i] ELSE IF i = p THEN e ELSE s[i - 1]
<1> DEFINE a == SubSeq(s, 1, p - 1)
           c == SubSeq(s, p, Len(s))
<1>0. Len(s) \in Nat /\ p \in Nat /\ \A i \in 1 .. Len(s) : s[i] \in S
  BY LenProperties, ElementOfSeq
<1>1. a \in Seq(S) /\ Len(a) = p - 1 /\ \A i \in 1 .. p - 1 : a[i] = s[i]
  <2>1. 1 \in Int /\ p - 1 \in Int /\ \A i \in 1 .. p - 1 : s[i] \in S
    BY <1>0
  <2>2. /\ a \in Seq(S)
        /\ Len(a) = IF 1 <= p - 1 THEN p - 1 - 1 + 1 ELSE 0
        /\ \A i \in 1 .. p - 1 - 1 + 1 : a[i] = s[1 + i - 1]
    BY <2>1, SubSeqProperties
  <2> QED BY <2>2, <1>0
<1>2. c \in Seq(S) /\ Len(c) = Len(s) - p + 1 /\ \A i \in 1 .. Len(s) - p + 1 : c[i] = s[p + i - 1]
  <2>1. p \in Int /\ Len(s) \in Int /\ \A i \in p .. Len(s) : s[i] \in S
    BY <1>0
  <2>2. /\ c \in Seq(S)
        /\ Len(c) = IF p <= Len(s) THEN Len(s) - p + 1 ELSE 0
        /\ \A i \in 1 .. Len(s) - p + 1 : c[i] = s[p + i - 1]
    BY <2>1, SubSeqProperties
  <2> QED BY <2>2, <1>0
<1> HIDE DEF a, c
<1>3. /\ a \o <<e>> \in Seq(S) /\ Len(a \o <<e>>) = p
      /\ \A i \in 1 .. p : (a \o <<e>>)[i] = IF i < p THEN s[i] ELSE e
  <2>1. <<e>> \in Seq(S) /\ Len(<<e>>) = 1 /\ <<e>>[1] = e
    OBVIOUS
  <2>2. /\ a \o <<e>> \in Seq(S) /\ Len(a \o <<e>>) = Len(a) + Len(<<e>>)
        /\ \A i \in 1 .. Len(a) + Len(<<e>>) :
             (a \o <<e>>)[i] = IF i <= Len(a) THEN a[i] ELSE <<e>>[i - Len(a)]
    BY <1>1, <2>1, ConcatProperties
  <2> QED BY <2>1, <2>2, <1>0, <1>1
<1>4. /\ (a \o <<e>>) \o c \in Seq(S)
      /\ Len((a \o <<e>>) \o c) = p + Len(c)
      /\ \A i \in 1 .. p + Len(c) :
           ((a \o <<e>>) \o c)[i] = IF i <= p THEN (a \o <<e>>)[i] ELSE c[i - p]
  <2> DEFINE d == a \o <<e>>
  <2>1. d \in Seq(S) /\ c \in Seq(S) /\ Len(d) = p
    BY <1>2, <1>3
  <2> HIDE DEF d
  <2>2. /\ d \o c \in Seq(S)
        /\ Len(d \o c) = p + Len(c)
        /\ \A i \in 1 .. p + Len(c) : (d \o c)[i] = IF i <= p THEN d[i] ELSE c[i - p]
    <3>1. /\ d \o c \in Seq(S) /\ Len(d \o c) = Len(d) + Len(c)
          /\ \A i \in 1 .. Len(d) + Len(c) :
               (d \o c)[i] = IF i <= Len(d) THEN d[i] ELSE c[i - Len(d)]
      BY <2>1, ConcatProperties
    <3> QED BY <2>1, <3>1
  <2> QED BY <2>2 DEF d
<1>5. InsertAt(s, p, e) = (a \o <<e>>) \o c
  BY DEF InsertAt, a, c
<1>6. PICK v, w : v = a \o <<e>> /\ w = v \o c
  OBVIOUS
<1>7. w \in Seq(S) /\ Len(w) = Len(s) + 1
  BY <1>0, <1>2, <1>4, <1>6
<1>8. \A i \in 1 .. Len(s) + 1 : w[i] = IF i < p THEN s[i] ELSE IF i = p THEN e ELSE s[i - 1]
  <2>1. \A i \in 1 .. p : v[i] = IF i < p THEN s[i] ELSE e
    BY <1>3, <1>6
  <2>2. \A i \in 1 .. Len(s) + 1 : w[i] = IF i <= p THEN v[i] ELSE c[i - p]
    BY <1>0, <1>2, <1>4, <1>6
  <2>3. ASSUME NEW i \in 1 .. Len(s) + 1, p < i PROVE c[i - p] = s[i - 1]
    <3>1. PICK k : k = i - p
      OBVIOUS
    <3> QED BY <1>0, <1>2, <2>3, <3>1
  <2> QED BY <1>0, <2>1, <2>2, <2>3
<1> QED BY <1>5, <1>6, <1>7, <1>8

LEMMA RemoveAtElements ==
  ASSUME NEW S, NEW s \in Seq(S), NEW p \in 1 .. Len(s)
  PROVE  /\ RemoveAt(s, p) \in Seq(S)
         /\ Len(RemoveAt(s, p)) = Len(s) - 1
         /\ \A i \in 1 .. Len(s) - 1 :
              RemoveAt(s, p)[i] = IF i < p THEN s[i] ELSE s[i + 1]
<1> DEFINE a == SubSeq(s, 1, p - 1)
           c == SubSeq(s, p + 1, Len(s))
<1>0. Len(s) \in Nat /\ p \in Nat /\ \A i \in 1 .. Len(s) : s[i] \in S
  BY LenProperties, ElementOfSeq
<1>1. a \in Seq(S) /\ Len(a) = p - 1 /\ \A i \in 1 .. p - 1 : a[i] = s[i]
  <2>1. 1 \in Int /\ p - 1 \in Int /\ \A i \in 1 .. p - 1 : s[i] \in S
    BY <1>0
  <2>2. /\ a \in Seq(S)
        /\ Len(a) = IF 1 <= p - 1 THEN p - 1 - 1 + 1 ELSE 0
        /\ \A i \in 1 .. p - 1 - 1 + 1 : a[i] = s[1 + i - 1]
    BY <2>1, SubSeqProperties
  <2> QED BY <2>2, <1>0
<1>2. c \in Seq(S) /\ Len(c) = Len(s) - p /\ \A i \in 1 .. Len(s) - p : c[i] = s[p + i]
  <2>1. p + 1 \in Int /\ Len(s) \in Int /\ \A i \in p + 1 .. Len(s) : s[i] \in S
    BY <1>0
  <2>2. /\ c \in Seq(S)
        /\ Len(c) = IF p + 1 <= Len(s) THEN Len(s) - (p + 1) + 1 ELSE 0
        /\ \A i \in 1 .. Len(s) - (p + 1) + 1 : c[i] = s[(p + 1) + i - 1]
    BY <2>1, SubSeqProperties
  <2> QED BY <2>2, <1>0
<1> HIDE DEF a, c
<1>3. /\ a \o c \in Seq(S)
      /\ Len(a \o c) = Len(a) + Len(c)
      /\ \A i \in 1 .. Len(a) + Len(c) : (a \o c)[i] = IF i <= Len(a) THEN a[i] ELSE c[i - Len(a)]
  BY <1>1, <1>2, ConcatProperties
<1>4. RemoveAt(s, p) = a \o c
  BY DEF RemoveAt, a, c
<1>5. Len(a) + Len(c) = Len(s) - 1
  BY <1>0, <1>1, <1>2
<1>6. ASSUME NEW i \in 1 .. Len(s) - 1
      PROVE  (a \o c)[i] = IF i < p THEN s[i] ELSE s[i + 1]
  <2>1. (a \o c)[i] = IF i <= Len(a) THEN a[i] ELSE c[i - Len(a)]
    BY <1>3, <1>5
  <2>2. CASE i < p
    BY <2>1, <2>2, <1>0, <1>1
  <2>3. CASE ~(i < p)
    <3>1. i - Len(a) = i - p + 1 /\ i - p + 1 \in 1 .. Len(s) - p /\ p + (i - p + 1) = i + 1
      BY <2>3, <1>0, <1>1
    <3> QED BY <2>1, <2>3, <3>1, <1>0, <1>1, <1>2
  <2> QED BY <2>2, <2>3
<1> QED BY <1>3, <1>4, <1>5, <1>6

-----------------------------------------------------------------------------
(* What the operators of Order return.                                     *)
LEMMA OrderOperatorTypes ==
  ASSUME NEW o \in OrderRecord
  PROVE  /\ WithPending(o) \in OrderRecord
         /\ TriggerOrder(o) \in OrderRecord
         /\ \A q \in Int : FillOrder(o, q) \in OrderRecord
         /\ \A p \in Int : MarketToLimit(o, p) \in OrderRecord
         /\ \A n \in OrderRecord : ReplacedOrder(o, n) \in OrderRecord
<1>1. ASSUME NEW r \in OrderRecord PROVE WithPending(r) \in OrderRecord
  BY DEF WithPending, ActualPending, OrderRecord
<1>2. TriggerOrder(o) \in OrderRecord
  BY DEF TriggerOrder, OrderRecord, OrderType
<1>3. ASSUME NEW q \in Int PROVE FillOrder(o, q) \in OrderRecord
  <2>1. [o EXCEPT !.filled = @ + q] \in OrderRecord
    BY DEF OrderRecord
  <2> QED BY <1>1, <2>1 DEF FillOrder
<1>4. ASSUME NEW p \in Int PROVE MarketToLimit(o, p) \in OrderRecord
  BY DEF MarketToLimit, OrderRecord, OrderType
<1>5. ASSUME NEW n \in OrderRecord PROVE ReplacedOrder(o, n) \in OrderRecord
  <2>1. [o EXCEPT !.qty = n.qty, !.disclosed = n.disclosed,
           !.tif = n.tif, !.type = n.type, !.stop = n.stop,
           !.price = IF n.type \in {"MARKET", "STOP"} THEN @ ELSE n.price] \in OrderRecord
    BY DEF OrderRecord
  <2> QED BY <1>1, <2>1 DEF ReplacedOrder
<1> QED BY <1>1, <1>2, <1>3, <1>4, <1>5

(* What they do to the fields that quantities depend on.                   *)
LEMMA WithPendingFields ==
  ASSUME NEW o \in OrderRecord
  PROVE  /\ \A f \in {"qty", "filled", "disclosed", "type"} : WithPending(o)[f] = o[f]
         /\ ActualPending(WithPending(o)) = ActualPending(o)
         /\ WithPending(o).pending =
              IF o.disclosed > 0 /\ o.disclosed < ActualPending(o)
                THEN o.disclosed ELSE ActualPending(o)
         /\ WithPending(WithPending(o)) = WithPending(o)
BY DEF WithPending, ActualPending, OrderRecord

-----------------------------------------------------------------------------
(* Induction, with the claim as the set of what it holds for: over the     *)
(* numbers, and over the subsets of a finite set.                          *)
LEMMA Least ==
  ASSUME NEW N \in SUBSET Nat, N # {}
  PROVE  \E n \in N : \A m \in N : n <= m
<1>1. PICK n \in N : \A m \in N : ~(<<m, n>> \in OpToRel(<, Nat))
  BY NatLessThanWellFounded, WFMin
<1>2. ASSUME NEW m \in N, m < n PROVE FALSE
  <2>1. <<m, n>> \in OpToRel(<, Nat)
    BY <1>2 DEF OpToRel
  <2> QED BY <1>1, <2>1
<1> QED BY <1>2

LEMMA Induct ==
  ASSUME NEW N \in SUBSET Nat, 0 \in N, \A n \in N : n + 1 \in N
  PROVE  N = Nat
<1>1. SUFFICES ASSUME Nat \ N # {} PROVE FALSE
  OBVIOUS
<1>2. PICK n \in Nat \ N : \A m \in Nat \ N : n <= m
  BY <1>1, Least
<1>3. n # 0 /\ n - 1 \in Nat /\ n - 1 \notin Nat \ N
  BY <1>2
<1>4. n - 1 + 1 \in N
  BY <1>3
<1> QED BY <1>2, <1>4

LEMMA SubsetInduction ==
  ASSUME NEW S, IsFiniteSet(S), NEW W \in SUBSET SUBSET S,
         \A t \in SUBSET S : (\A u \in SUBSET t : u # t => u \in W) => t \in W
  PROVE  S \in W
<1> DEFINE Left == (SUBSET S) \ W
           sizes == {Cardinality(t) : t \in Left}
<1> SUFFICES ASSUME Left # {} PROVE FALSE
  OBVIOUS
<1>1. \A t \in SUBSET S : IsFiniteSet(t) /\ Cardinality(t) \in Nat
  BY FS_Subset, FS_CardinalityType
<1>2. PICK t \in Left : \A u \in Left : Cardinality(t) <= Cardinality(u)
  <2>1. sizes \in SUBSET Nat /\ sizes # {}
    BY <1>1
  <2>2. PICK n \in sizes : \A m \in sizes : n <= m
    BY <2>1, Least
  <2> QED BY <2>2
<1>3. ASSUME NEW u \in SUBSET t, u # t PROVE u \in W
  <2>1. Cardinality(u) <= Cardinality(t) /\ Cardinality(u) # Cardinality(t)
    BY <1>1, <1>3, FS_Subset
  <2>2. Cardinality(u) \in Nat /\ Cardinality(t) \in Nat
    BY <1>1
  <2>3. u \in SUBSET S
    OBVIOUS
  <2> QED BY <1>2, <2>1, <2>2, <2>3
<1> QED BY <1>2, <1>3

(* The sum of g over a finite set, as FoldSet forms it: one chosen element *)
(* at a time.                                                              *)
Pick(t) == CHOOSE x \in t : TRUE

Counts(it, g, S) ==
  it = [t \in SUBSET S |-> IF t = {} THEN 0 ELSE g[Pick(t)] + it[t \ {Pick(t)}]]

Total(g, S) == (CHOOSE it : Counts(it, g, S))[S]

Unfolds(g, S) == Total(g, S) = IF S = {} THEN 0 ELSE g[Pick(S)] + Total(g, S \ {Pick(S)})

LEMMA Picked == ASSUME NEW t, t # {} PROVE Pick(t) \in t
BY DEF Pick

LEMMA CountsAgree ==
  ASSUME NEW g, NEW S, NEW T \in SUBSET S, IsFiniteSet(T), NEW i, NEW j,
         Counts(i, g, S), Counts(j, g, T)
  PROVE  i[T] = j[T]
<1> DEFINE W == {t \in SUBSET T : i[t] = j[t]}
<1>1. ASSUME NEW t \in SUBSET T, \A u \in SUBSET t : u # t => u \in W PROVE t \in W
  <2>1. i[t] = IF t = {} THEN 0 ELSE g[Pick(t)] + i[t \ {Pick(t)}]
    BY DEF Counts
  <2>2. j[t] = IF t = {} THEN 0 ELSE g[Pick(t)] + j[t \ {Pick(t)}]
    BY DEF Counts
  <2>3. ASSUME t # {} PROVE i[t \ {Pick(t)}] = j[t \ {Pick(t)}]
    <3>1. t \ {Pick(t)} \in SUBSET t /\ t \ {Pick(t)} # t
      BY <2>3, Picked
    <3> QED BY <1>1, <3>1
  <2> QED BY <2>1, <2>2, <2>3
<1>2. W \in SUBSET SUBSET T
  OBVIOUS
<1> HIDE DEF W
<1>3. T \in W
  BY <1>1, <1>2, SubsetInduction
<1> QED BY <1>3 DEF W

LEMMA CountsUnfold ==
  ASSUME NEW g, NEW S, IsFiniteSet(S),
         \E it : Counts(it, g, S), \E it : Counts(it, g, S \ {Pick(S)})
  PROVE  Unfolds(g, S)
<1> DEFINE i == CHOOSE it : Counts(it, g, S)
           j == CHOOSE it : Counts(it, g, S \ {Pick(S)})
<1>1. Counts(i, g, S) /\ Counts(j, g, S \ {Pick(S)})
  OBVIOUS
<1>2. i[S] = IF S = {} THEN 0 ELSE g[Pick(S)] + i[S \ {Pick(S)}]
  BY <1>1 DEF Counts
<1>3. IsFiniteSet(S \ {Pick(S)})
  BY FS_RemoveElement
<1> HIDE DEF i, j
<1>4. i[S \ {Pick(S)}] = j[S \ {Pick(S)}]
  BY <1>1, <1>3, CountsAgree
<1> QED BY <1>2, <1>4 DEF i, j, Total, Unfolds

LEMMA CountsExist ==
  ASSUME NEW g, NEW S, IsFiniteSet(S)
  PROVE  \E it : Counts(it, g, S)
<1> DEFINE W == {t \in SUBSET S : \E it : Counts(it, g, t)}
<1>1. ASSUME NEW t \in SUBSET S, \A u \in SUBSET t : u # t => u \in W PROVE t \in W
  <2> DEFINE new == [u \in SUBSET t |-> IF u = {} THEN 0 ELSE g[Pick(u)] + Total(g, u \ {Pick(u)})]
  <2>1. ASSUME NEW u \in SUBSET t, u # t PROVE Unfolds(g, u)
    <3>1. u \ {Pick(u)} \in SUBSET t /\ u \ {Pick(u)} # t
      BY <2>1
    <3>2. IsFiniteSet(u)
      BY FS_Subset
    <3>3. (\E it : Counts(it, g, u)) /\ \E it : Counts(it, g, u \ {Pick(u)})
      BY <1>1, <2>1, <3>1
    <3> QED BY <3>2, <3>3, CountsUnfold
  <2>2. ASSUME NEW u \in SUBSET t, u # {}
        PROVE  new[u \ {Pick(u)}] = Total(g, u \ {Pick(u)})
    <3>1. PICK v : v = u \ {Pick(u)}
      OBVIOUS
    <3>2. v \in SUBSET t /\ v # t
      BY <2>2, <3>1, Picked
    <3>3. Unfolds(g, v)
      BY <2>1, <3>2
    <3> QED BY <3>1, <3>2, <3>3 DEF Unfolds
  <2>3. new = [u \in SUBSET t |-> IF u = {} THEN 0 ELSE g[Pick(u)] + new[u \ {Pick(u)}]]
    <3> HIDE DEF new
    <3>1. \A u \in SUBSET t : (IF u = {} THEN 0 ELSE g[Pick(u)] + Total(g, u \ {Pick(u)}))
                  = IF u = {} THEN 0 ELSE g[Pick(u)] + new[u \ {Pick(u)}]
      BY <2>2
    <3> QED BY <3>1 DEF new
  <2>4. Counts(new, g, t)
    BY <2>3 DEF Counts
  <2> QED BY <2>4
<1>2. W \in SUBSET SUBSET S
  OBVIOUS
<1> HIDE DEF W
<1>3. S \in W
  BY <1>1, <1>2, SubsetInduction
<1> QED BY <1>3 DEF W

LEMMA TotalUnfolds ==
  ASSUME NEW g, NEW S, IsFiniteSet(S)
  PROVE  Unfolds(g, S)
<1>1. IsFiniteSet(S \ {Pick(S)})
  BY FS_RemoveElement
<1> QED BY <1>1, CountsExist, CountsUnfold

LEMMA TotalEmpty == ASSUME NEW g PROVE Total(g, {}) = 0
BY TotalUnfolds, FS_EmptySet DEF Unfolds

LEMMA TotalType ==
  ASSUME NEW g, NEW S, IsFiniteSet(S), \A x \in S : g[x] \in Int
  PROVE  Total(g, S) \in Int
<1> DEFINE W == {t \in SUBSET S : Total(g, t) \in Int}
<1>1. ASSUME NEW t \in SUBSET S, \A u \in SUBSET t : u # t => u \in W PROVE t \in W
  <2>1. IsFiniteSet(t)
    BY FS_Subset
  <2>2. CASE t = {}
    BY <2>2, TotalEmpty
  <2>3. CASE t # {}
    <3>1. PICK x, u : x = Pick(t) /\ u = t \ {x}
      OBVIOUS
    <3>2. x \in t /\ u \in SUBSET t /\ u # t
      BY <2>3, <3>1, Picked
    <3>3. g[x] \in Int /\ Total(g, u) \in Int
      BY <1>1, <3>2
    <3>4. Total(g, t) = g[x] + Total(g, u)
      BY <2>1, <2>3, <3>1, TotalUnfolds DEF Unfolds
    <3> QED BY <3>3, <3>4
  <2> QED BY <2>2, <2>3
<1>2. W \in SUBSET SUBSET S
  OBVIOUS
<1> HIDE DEF W
<1>3. S \in W
  BY <1>1, <1>2, SubsetInduction
<1> QED BY <1>3 DEF W

(* Any element may be taken out of a sum first.                            *)
LEMMA TotalRemove ==
  ASSUME NEW g, NEW S, IsFiniteSet(S), \A x \in S : g[x] \in Int, NEW y \in S
  PROVE  Total(g, S) = g[y] + Total(g, S \ {y})
<1> DEFINE W == {t \in SUBSET S : \A z \in t : Total(g, t) = g[z] + Total(g, t \ {z})}
<1>1. ASSUME NEW t \in SUBSET S, \A u \in SUBSET t : u # t => u \in W PROVE t \in W
  <2> SUFFICES ASSUME NEW z \in t PROVE Total(g, t) = g[z] + Total(g, t \ {z})
    OBVIOUS
  <2>1. IsFiniteSet(t) /\ IsFiniteSet(t \ {z})
    BY FS_Subset, FS_RemoveElement
  <2>2. PICK x, u : x = Pick(t) /\ u = t \ {x}
    OBVIOUS
  <2>3. x \in t /\ u \in SUBSET t /\ u # t
    BY <2>2, Picked
  <2>4. Total(g, t) = g[x] + Total(g, u)
    BY <2>1, <2>2, TotalUnfolds DEF Unfolds
  <2>5. CASE z = x
    BY <2>2, <2>4, <2>5
  <2>6. CASE z # x
    <3>1. PICK v, w : v = t \ {z} /\ w = t \ {x, z}
      OBVIOUS
    <3>2. v \in SUBSET t /\ v # t /\ x \in v /\ z \in u /\ w = v \ {x} /\ w = u \ {z}
      BY <2>2, <2>3, <2>6, <3>1
    <3>3. Total(g, u) = g[z] + Total(g, w)
      BY <1>1, <2>3, <3>2
    <3>4. Total(g, v) = g[x] + Total(g, w)
      BY <1>1, <3>2
    <3>5. g[x] \in Int /\ g[z] \in Int
      BY <2>3
    <3>6. Total(g, w) \in Int
      <4>1. IsFiniteSet(w) /\ \A a \in w : g[a] \in Int
        BY <3>1, FS_Subset
      <4> QED BY <4>1, TotalType
    <3> QED BY <2>4, <3>1, <3>3, <3>4, <3>5, <3>6
  <2> QED BY <2>5, <2>6
<1>2. W \in SUBSET SUBSET S
  OBVIOUS
<1> HIDE DEF W
<1>3. S \in W
  BY <1>1, <1>2, SubsetInduction
<1> QED BY <1>3 DEF W

LEMMA TotalSame ==
  ASSUME NEW g, NEW h, NEW S, IsFiniteSet(S), \A x \in S : h[x] = g[x]
  PROVE  Total(h, S) = Total(g, S)
<1> DEFINE W == {t \in SUBSET S : Total(h, t) = Total(g, t)}
<1>1. ASSUME NEW t \in SUBSET S, \A u \in SUBSET t : u # t => u \in W PROVE t \in W
  <2>1. IsFiniteSet(t)
    BY FS_Subset
  <2>2. CASE t = {}
    BY <2>2, TotalEmpty
  <2>3. CASE t # {}
    <3>1. PICK x, u : x = Pick(t) /\ u = t \ {x}
      OBVIOUS
    <3>2. x \in t /\ u \in SUBSET t /\ u # t
      BY <2>3, <3>1, Picked
    <3>3. g[x] = h[x] /\ Total(g, u) = Total(h, u)
      BY <1>1, <3>2
    <3>4. Total(g, t) = g[x] + Total(g, u) /\ Total(h, t) = h[x] + Total(h, u)
      BY <2>1, <2>3, <3>1, TotalUnfolds DEF Unfolds
    <3> QED BY <3>3, <3>4
  <2> QED BY <2>2, <2>3
<1>2. W \in SUBSET SUBSET S
  OBVIOUS
<1> HIDE DEF W
<1>3. S \in W
  BY <1>1, <1>2, SubsetInduction
<1> QED BY <1>3 DEF W

(* One summand grows, and the sum grows by as much.                        *)
LEMMA TotalGrows ==
  ASSUME NEW g, NEW h, NEW S, IsFiniteSet(S), \A x \in S : g[x] \in Int /\ h[x] \in Int,
         NEW y \in S, NEW q \in Int, h[y] = g[y] + q, \A x \in S \ {y} : h[x] = g[x]
  PROVE  Total(h, S) = Total(g, S) + q
<1>1. PICK T : T = S \ {y}
  OBVIOUS
<1>2. IsFiniteSet(T)
  BY <1>1, FS_RemoveElement
<1>3. Total(h, T) = Total(g, T)
  BY <1>1, <1>2, TotalSame
<1>4. Total(g, T) \in Int
  BY <1>1, <1>2, TotalType
<1>5. Total(g, S) = g[y] + Total(g, T)
  BY <1>1, TotalRemove
<1>6. Total(h, S) = h[y] + Total(h, T)
  BY <1>1, TotalRemove
<1> QED BY <1>3, <1>4, <1>5, <1>6

(* Elements that count nothing may be left out.                            *)
LEMMA TotalPart ==
  ASSUME NEW g, NEW S, IsFiniteSet(S), \A x \in S : g[x] \in Int,
         NEW T \in SUBSET S, \A x \in S \ T : g[x] = 0
  PROVE  Total(g, S) = Total(g, T)
<1> DEFINE W == {t \in SUBSET S : T \subseteq t => Total(g, t) = Total(g, T)}
<1>1. ASSUME NEW t \in SUBSET S, \A u \in SUBSET t : u # t => u \in W PROVE t \in W
  <2> SUFFICES ASSUME T \subseteq t, t # T PROVE Total(g, t) = Total(g, T)
    OBVIOUS
  <2>1. PICK x \in t : x \notin T
    OBVIOUS
  <2>2. PICK u : u = t \ {x}
    OBVIOUS
  <2>3. u \in SUBSET t /\ u # t /\ T \subseteq u
    BY <2>1, <2>2
  <2>4. Total(g, u) = Total(g, T)
    BY <1>1, <2>3
  <2>5. IsFiniteSet(t) /\ IsFiniteSet(T) /\ (\A a \in t : g[a] \in Int) /\ (\A a \in T : g[a] \in Int)
    BY FS_Subset
  <2>6. Total(g, t) = g[x] + Total(g, u)
    BY <2>2, <2>5, TotalRemove
  <2>7. Total(g, T) \in Int
    BY <2>5, TotalType
  <2> QED BY <2>1, <2>4, <2>6, <2>7
<1>2. W \in SUBSET SUBSET S
  OBVIOUS
<1> HIDE DEF W
<1>3. S \in W
  BY <1>1, <1>2, SubsetInduction
<1> QED BY <1>3 DEF W

LEMMA TotalOfEither ==
  ASSUME NEW g, NEW S, NEW T, IsFiniteSet(S), IsFiniteSet(T),
         \A x \in S \cup T : g[x] \in Int,
         \A x \in (S \ T) \cup (T \ S) : g[x] = 0
  PROVE  Total(g, S) = Total(g, T)
<1>1. PICK B : B = S \cap T
  OBVIOUS
<1>2. B \in SUBSET S /\ B \in SUBSET T
  BY <1>1
<1>3. Total(g, S) = Total(g, B)
  BY <1>1, <1>2, TotalPart
<1>4. Total(g, T) = Total(g, B)
  BY <1>1, <1>2, TotalPart
<1> QED BY <1>3, <1>4
=============================================================================
