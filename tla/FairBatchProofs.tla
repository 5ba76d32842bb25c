-------------------------- MODULE FairBatchProofs --------------------------
(***************************************************************************)
(* The loop of peekFairBatch computes FairPick, for every set of types,    *)
(* every limit, every window size and every backlog.                       *)
(*                                                                         *)
(* The argument is the usual one of a loop: after r rounds and a part of   *)
(* the next one, each group has given its r * weight oldest records, or    *)
(* all it has, so the records picked are always an initial segment of the  *)
(* order ServedBefore; at the end there are as many as the batch may hold. *)
(***************************************************************************)
EXTENDS FairBatch, FiniteSetTheorems, WellFoundedInduction, TLAPS

Rank(b) == Cardinality(SameTypeBefore(window, b))
Size(type) == Cardinality(Group(type))

AtMost(n, m) == IF n <= m THEN n ELSE m

\* No record is picked before one that the round-robin serves earlier.
InitialSegment == \A b \in Picked, c \in window : ServedBefore(window, c, b) => c \in Picked

\* The groups after r rounds: those before the turn had one turn more.
Shares(r) ==
    \A i \in 1 .. 7 :
        LET type == LexOrder[i]
        IN  /\ i < turn => taken[type] = AtMost(Size(type), (r + 1) * WeightOf(type))
            /\ i = turn => /\ taken[type] = AtMost(Size(type), r * WeightOf(type)) + used
                           /\ taken[type] <= Size(type)
                           /\ used <= WeightOf(type)
            /\ i > turn => taken[type] = AtMost(Size(type), r * WeightOf(type))

\* A round that took nothing has found every group so far used up.
NoProgress == ~progress => /\ used = 0
                           /\ \A i \in 1 .. turn - 1 : taken[LexOrder[i]] = Size(LexOrder[i])

LoopInv ==
    pc = "picking" =>
        /\ BatchLimit < Cardinality(window)
        /\ Picked = {b \in window : Rank(b) < taken[b.dataType]}
        /\ \A type \in DataTypes : taken[type] <= Len(out)
        /\ \E r \in Nat : Shares(r)
        /\ NoProgress

BatchInv ==
    pc = "sending" => \/ Cardinality(Picked) = BatchLimit
                      \/ Cardinality(Picked) <= BatchLimit /\ Picked = window

IInv == /\ TypeOK
        /\ IsFiniteSet(window)
        /\ Len(out) = Cardinality(Picked)
        /\ InitialSegment
        /\ LoopInv
        /\ BatchInv

------------------------------------------------------------------------------
(* The order of service.                                                    *)

LEMMA Types == /\ \A i \in 1 .. 7 : LexOrder[i] \in DataTypes /\ TypeRank(LexOrder[i]) = i
               /\ \A t \in DataTypes : TypeRank(t) \in 1 .. 7 /\ LexOrder[TypeRank(t)] = t
<1>1. \A i, k \in 1 .. 7 : LexOrder[i] = LexOrder[k] => i = k
  BY DEF LexOrder
<1> QED
  BY <1>1 DEF DataTypes, TypeRank

LEMMA Limits == BatchLimit \in Nat \ {0} /\ Scan \in Nat \ {0} /\ MaxBacklog \in Nat \ {0}
BY LimitAssumption

LEMMA Weights == \A t : WeightOf(t) \in {1, 2, 3}
BY DEF WeightOf

LEMMA Rounds == ASSUME NEW n \in Nat, NEW w \in {1, 2, 3}
                PROVE  /\ n \div w \in Nat
                       /\ \A r \in Nat : n \div w < r <=> n < r * w
<1>1. CASE w = 1
  BY <1>1
<1>2. CASE w = 2
  BY <1>2
<1>3. CASE w = 3
  BY <1>3
<1> QED
  BY <1>1, <1>2, <1>3

\* The rank of a record in its group, for a finite window.
LEMMA RankType ==
    ASSUME NEW W, IsFiniteSet(W), NEW b \in W
    PROVE  /\ Cardinality(SameTypeBefore(W, b)) \in Nat
           /\ RoundOf(W, b) \in Nat
           /\ \A r \in Nat : RoundOf(W, b) < r
                  <=> Cardinality(SameTypeBefore(W, b)) < r * WeightOf(b.dataType)
<1>1. Cardinality(SameTypeBefore(W, b)) \in Nat
  BY FS_Subset, FS_CardinalityType DEF SameTypeBefore
<1> QED
  BY <1>1, Weights, Rounds DEF RoundOf

\* An older record of a group has a smaller rank.
LEMMA RankGrows ==
    ASSUME NEW W \in SUBSET Entry, IsFiniteSet(W), NEW b \in W, NEW c \in W,
           c.dataType = b.dataType, c.key < b.key
    PROVE  Cardinality(SameTypeBefore(W, c)) < Cardinality(SameTypeBefore(W, b))
<1> DEFINE B == SameTypeBefore(W, b)
           C == SameTypeBefore(W, c)
<1>1. \A e \in W : e.key \in Int
  BY Limits DEF Entry
<1>2. C \in SUBSET B /\ c \in B /\ c \notin C
  BY <1>1 DEF SameTypeBefore
<1>3. IsFiniteSet(B) /\ IsFiniteSet(C)
  BY FS_Subset DEF SameTypeBefore
<1> HIDE DEF B, C
<1>4. Cardinality(C) <= Cardinality(B) /\ Cardinality(C) # Cardinality(B)
  BY <1>2, <1>3, FS_Subset
<1>5. Cardinality(C) < Cardinality(B)
  BY <1>3, <1>4, FS_CardinalityType
<1> QED
  BY <1>5 DEF B, C

\* So the rank tells the records of a group apart.
LEMMA RankInjective ==
    ASSUME NEW W \in SUBSET Entry, IsFiniteSet(W), NEW b \in W, NEW c \in W,
           c.dataType = b.dataType,
           Cardinality(SameTypeBefore(W, c)) = Cardinality(SameTypeBefore(W, b))
    PROVE  c = b
<1>1. Cardinality(SameTypeBefore(W, c)) \in Nat
  BY RankType
<1>2. ~(c.key < b.key) /\ ~(b.key < c.key)
  BY <1>1, RankGrows
<1>3. c.key \in Int /\ b.key \in Int
  BY Limits DEF Entry
<1>4. c.key = b.key
  BY <1>2, <1>3
<1> QED
  BY <1>4 DEF Entry

LEMMA ServedOnce ==
    ASSUME NEW W \in SUBSET Entry, IsFiniteSet(W), NEW b \in W
    PROVE  ~ServedBefore(W, b, b)
<1>1. RoundOf(W, b) \in Nat /\ b.key \in Int
  BY RankType, Limits DEF Entry
<1>2. TypeRank(b.dataType) \in 1 .. 7
  BY Types, TypeAssumption DEF Entry
<1> QED
  BY <1>1, <1>2 DEF ServedBefore

\* The order is total on a window.
LEMMA ServedTotal ==
    ASSUME NEW W \in SUBSET Entry, IsFiniteSet(W), NEW b \in W, NEW c \in W, b # c
    PROVE  ServedBefore(W, b, c) \/ ServedBefore(W, c, b)
<1>1. RoundOf(W, b) \in Nat /\ RoundOf(W, c) \in Nat
  BY RankType
<1>2. /\ TypeRank(b.dataType) \in 1 .. 7 /\ TypeRank(c.dataType) \in 1 .. 7
      /\ TypeRank(b.dataType) = TypeRank(c.dataType) => b.dataType = c.dataType
  BY Types, TypeAssumption DEF Entry
<1>3. b.key \in Int /\ c.key \in Int /\ (b.dataType # c.dataType \/ b.key # c.key)
  BY Limits DEF Entry
<1> QED
  BY <1>1, <1>2, <1>3 DEF ServedBefore

\* An initial segment of the order that has `limit` records, or all of them when
\* they are no more, is the pick.
LEMMA SegmentIsPick ==
    ASSUME NEW W \in SUBSET Entry, IsFiniteSet(W), NEW P \in SUBSET W, NEW limit \in Nat,
           \A b \in P, c \in W : ServedBefore(W, c, b) => c \in P,
           Cardinality(P) = limit \/ (Cardinality(P) <= limit /\ P = W)
    PROVE  P = FairPick(W, limit)
<1> DEFINE Before(b) == {c \in W : ServedBefore(W, c, b)}
<1>1. IsFiniteSet(P) /\ Cardinality(P) \in Nat
  BY FS_Subset, FS_CardinalityType
<1>2. ASSUME NEW b \in P PROVE Cardinality(Before(b)) < limit
  <2>1. Before(b) \in SUBSET (P \ {b})
    BY ServedOnce
  <2>2. IsFiniteSet(P \ {b}) /\ Cardinality(P \ {b}) = Cardinality(P) - 1
    BY <1>1, FS_RemoveElement
  <2>3. IsFiniteSet(Before(b)) /\ Cardinality(Before(b)) <= Cardinality(P) - 1
    BY <2>1, <2>2, FS_Subset
  <2>4. Cardinality(Before(b)) \in Nat
    BY <2>3, FS_CardinalityType
  <2> QED
    BY <1>1, <2>3, <2>4
<1>3. ASSUME NEW b \in W, b \notin P PROVE ~(Cardinality(Before(b)) < limit)
  <2>1. Cardinality(P) = limit
    BY <1>3
  <2>2. P \in SUBSET Before(b)
    BY <1>3, ServedTotal
  <2>3. IsFiniteSet(Before(b))
    BY FS_Subset
  <2>4. Cardinality(P) <= Cardinality(Before(b)) /\ Cardinality(Before(b)) \in Nat
    BY <2>2, <2>3, FS_Subset, FS_CardinalityType
  <2> QED
    BY <2>1, <2>4
<1> QED
  BY <1>2, <1>3 DEF FairPick

------------------------------------------------------------------------------
(* Keys in order: what is left of the backlog after a batch is deleted.     *)

LEMMA LeastKey == ASSUME NEW S \in SUBSET Nat, S # {}
                  PROVE  \E k \in S : \A i \in S : ~(i < k)
<1>1. \E k \in S : \A i \in S : ~(<< i, k >> \in OpToRel(<, Nat))
  BY NatLessThanWellFounded, WFMin
<1> QED
  BY <1>1 DEF OpToRel

KeysBelow(S, k) == {c \in S : c < k}

LEMMA BelowGrows ==
    ASSUME NEW S \in SUBSET Nat, IsFiniteSet(S), NEW a \in S, NEW b \in S, a < b
    PROVE  Cardinality(KeysBelow(S, a)) # Cardinality(KeysBelow(S, b))
<1>1. \A c \in S : c \in Nat
  OBVIOUS
<1>2. ASSUME NEW c \in S, c < a PROVE c < b
  BY <1>1, <1>2
<1>3. KeysBelow(S, a) \subseteq KeysBelow(S, b)
  BY <1>2 DEF KeysBelow
<1>4. a \in KeysBelow(S, b) /\ a \notin KeysBelow(S, a)
  BY <1>1 DEF KeysBelow
<1>5. IsFiniteSet(KeysBelow(S, b))
  BY FS_Subset DEF KeysBelow
<1> QED
  BY <1>3, <1>4, <1>5, FS_Subset

\* At most i keys of a set have fewer than i keys below them.
LEMMA FewLowKeys ==
    ASSUME NEW S \in SUBSET Nat, IsFiniteSet(S), NEW i \in Nat
    PROVE  LET low == {k \in S : Cardinality(KeysBelow(S, k)) < i}
           IN  IsFiniteSet(low) /\ Cardinality(low) <= i
<1> DEFINE low == {k \in S : Cardinality(KeysBelow(S, k)) < i}
           f == [k \in low |-> Cardinality(KeysBelow(S, k))]
<1>1. \A k \in S : Cardinality(KeysBelow(S, k)) \in Nat
  BY FS_Subset, FS_CardinalityType DEF KeysBelow
<1>2. f \in [low -> 0 .. i - 1]
  <2>1. \A k \in low : Cardinality(KeysBelow(S, k)) \in 0 .. i - 1
    BY <1>1
  <2> QED
    BY <2>1
<1>3. \A a, b \in low : a < b => f[a] # f[b]
  BY BelowGrows
<1>4. \A a, b \in low : f[a] = f[b] => a = b
  <2> SUFFICES ASSUME NEW a \in low, NEW b \in low, a # b PROVE f[a] # f[b]
    OBVIOUS
  <2>1. a \in Nat /\ b \in Nat
    OBVIOUS
  <2>2. a < b \/ b < a
    BY <2>1
  <2> QED
    BY <1>3, <2>2
<1> HIDE DEF f, low
<1>5. f \in Injection(low, 0 .. i - 1)
  BY <1>2, <1>4 DEF Injection, IsInjective
<1>6. IsFiniteSet(0 .. i - 1) /\ Cardinality(0 .. i - 1) = i
  BY FS_Interval
<1>7. IsFiniteSet(low) /\ Cardinality(low) <= i
  BY <1>5, <1>6, FS_Injection
<1> QED
  BY <1>7 DEF low

\* A finite set of keys has an i-th key for every i below its size: the least of
\* those that have at least i keys below them.
LEMMA NthExists ==
    ASSUME NEW S \in SUBSET Nat, IsFiniteSet(S), NEW i \in Nat, i < Cardinality(S)
    PROVE  Nth(S, i) \in S
<1> DEFINE low == {k \in S : Cardinality(KeysBelow(S, k)) < i}
<1>1. IsFiniteSet(low) /\ Cardinality(low) <= i /\ Cardinality(low) \in Nat
  BY FewLowKeys, FS_CardinalityType
<1>2. Cardinality(S) \in Nat
  BY FS_CardinalityType
<1>3. low # S
  BY <1>1, <1>2
<1>4. PICK k \in S \ low : \A n \in S \ low : ~(n < k)
  <2>1. S \ low \in SUBSET Nat /\ S \ low # {}
    BY <1>3
  <2> QED
    BY <2>1, LeastKey
<1>5. Cardinality(KeysBelow(S, k)) \in Nat /\ ~(Cardinality(KeysBelow(S, k)) < i)
  BY <1>4, FS_Subset, FS_CardinalityType DEF KeysBelow
<1>6. KeysBelow(S, k) \in SUBSET low
  BY <1>4 DEF KeysBelow
<1>7. Cardinality(KeysBelow(S, k)) <= Cardinality(low)
  BY <1>1, <1>6, FS_Subset
<1>8. Cardinality(KeysBelow(S, k)) = i
  BY <1>1, <1>5, <1>7
<1> QED
  BY <1>4, <1>8 DEF Nth, KeysBelow

------------------------------------------------------------------------------
(* Sequences.                                                               *)

LEMMA BoundedIs ==
    ASSUME NEW S, NEW n \in Nat
    PROVE  \A s : s \in BoundedSeq(S, n) <=> s \in Seq(S) /\ Len(s) <= n
<1>1. ASSUME NEW s, s \in BoundedSeq(S, n) PROVE s \in Seq(S) /\ Len(s) <= n
  <2>1. PICK m \in 0 .. n : s \in [1 .. m -> S]
    BY <1>1 DEF BoundedSeq, SeqOf
  <2>2. s \in Seq(S) /\ Len(s) = m
    BY <2>1
  <2> QED
    BY <2>2
<1>2. ASSUME NEW s \in Seq(S), Len(s) <= n PROVE s \in BoundedSeq(S, n)
  <2>1. s \in [1 .. Len(s) -> S] /\ Len(s) \in 0 .. n
    BY <1>2
  <2> QED
    BY <2>1 DEF BoundedSeq, SeqOf
<1> QED
  BY <1>1, <1>2

LEMMA BoundedIf ==
    ASSUME NEW S, NEW n \in Nat, NEW s \in Seq(S), Len(s) <= n
    PROVE  s \in BoundedSeq(S, n)
BY BoundedIs

LEMMA EmptyBounded == ASSUME NEW S, NEW n \in Nat PROVE << >> \in BoundedSeq(S, n)
<1>1. << >> \in Seq(S) /\ Len(<< >>) <= n
  OBVIOUS
<1> QED
  BY <1>1, BoundedIf

LEMMA FreshTyped == ASSUME Fresh
                    PROVE  /\ taken' \in [DataTypes -> 0 .. BatchLimit] /\ turn' \in 1 .. 7
                           /\ used' \in 0 .. 3 /\ progress' \in BOOLEAN
<1>1. 0 \in 0 .. BatchLimit
  BY Limits
<1>2. taken' \in [DataTypes -> 0 .. BatchLimit]
  BY <1>1 DEF Fresh
<1>3. turn' \in 1 .. 7 /\ used' \in 0 .. 3
  BY DEF Fresh
<1>4. progress' \in BOOLEAN
  BY Zenon DEF Fresh
<1> QED
  BY <1>2, <1>3, <1>4

LEMMA Appended ==
    ASSUME NEW S, NEW s \in Seq(S), NEW e \in S
    PROVE  /\ Append(s, e) \in Seq(S) /\ Len(Append(s, e)) = Len(s) + 1
           /\ ToSet(Append(s, e)) = ToSet(s) \cup {e}
<1>1. DOMAIN Append(s, e) = (DOMAIN s) \cup {Len(s) + 1}
  OBVIOUS
<1>2. Append(s, e)[Len(s) + 1] = e /\ \A i \in DOMAIN s : Append(s, e)[i] = s[i]
  OBVIOUS
<1> QED
  BY <1>1, <1>2 DEF ToSet

\* The window of a PeekBatch: as many entries as it has keys.
LEMMA PeekedIsWindow ==
    ASSUME TypeOK
    PROVE  /\ Peeked \in Seq(Entry) /\ Len(Peeked) \in Nat
           /\ ToSet(Peeked) \in SUBSET Entry
           /\ IsFiniteSet(ToSet(Peeked)) /\ Cardinality(ToSet(Peeked)) = Len(Peeked)
<1> DEFINE n == IF Len(backlog) > Scan THEN Scan ELSE Len(backlog)
           f == [i \in 1 .. n |-> [key |-> i, dataType |-> backlog[i]]]
<1>1. backlog \in Seq(Type) /\ Len(backlog) <= MaxBacklog
  BY BoundedIs, Limits DEF TypeOK
<1>2. n \in Nat /\ \A i \in 1 .. n : i \in DOMAIN backlog /\ i \in 1 .. MaxBacklog
  BY <1>1, Limits
<1>3. \A i \in 1 .. n : [key |-> i, dataType |-> backlog[i]] \in Entry
  BY <1>1, <1>2 DEF Entry
<1> HIDE DEF n
<1>4. Peeked = f
  BY DEF Peeked, n
<1>5. f \in [1 .. n -> Entry] /\ \A i, k \in 1 .. n : f[i] = f[k] => i = k
  BY <1>3
<1> HIDE DEF f
<1>6. f \in Seq(Entry) /\ Len(f) = n /\ ToSet(f) = {f[i] : i \in 1 .. n}
  BY <1>2, <1>5 DEF ToSet
<1>7. f \in Bijection(1 .. n, ToSet(f))
  BY <1>5, <1>6 DEF Bijection, Injection, Surjection, IsInjective
<1>8. IsFiniteSet(1 .. n) /\ Cardinality(1 .. n) = n
  BY <1>2, FS_Interval
<1>9. IsFiniteSet(ToSet(f)) /\ Cardinality(ToSet(f)) = n
  BY <1>7, <1>8, FS_Bijection DEF ExistsBijection
<1>10. ToSet(f) \in SUBSET Entry
  BY <1>5, <1>6
<1> QED
  BY <1>2, <1>4, <1>6, <1>9, <1>10

\* What is left of the backlog is a shorter sequence of types.
LEMMA WithoutTyped ==
    ASSUME TypeOK, NEW sent
    PROVE  Without(sent) \in BoundedSeq(Type, MaxBacklog)
<1> DEFINE rest == DOMAIN backlog \ sent
           m == Cardinality(rest)
<1>1. backlog \in Seq(Type) /\ Len(backlog) \in Nat /\ Len(backlog) <= MaxBacklog
  BY BoundedIs, Limits DEF TypeOK
<1>2. DOMAIN backlog = 1 .. Len(backlog)
  BY <1>1
<1>3. IsFiniteSet(1 .. Len(backlog)) /\ Cardinality(1 .. Len(backlog)) = Len(backlog)
  BY <1>1, FS_Interval
<1>4. rest \in SUBSET (1 .. Len(backlog)) /\ rest \in SUBSET Nat
  BY <1>2
<1> HIDE DEF rest
<1>5. IsFiniteSet(rest) /\ m \in Nat /\ m <= Len(backlog)
  BY <1>3, <1>4, FS_Subset, FS_CardinalityType
<1>6. ASSUME NEW i \in 1 .. m PROVE Nth(rest, i - 1) \in rest
  <2>1. i - 1 \in Nat /\ i - 1 < m
    BY <1>5
  <2> QED
    BY <2>1, <1>4, <1>5, NthExists
<1>7. ASSUME NEW i \in 1 .. m PROVE backlog[Nth(rest, i - 1)] \in Type
  <2>1. Nth(rest, i - 1) \in 1 .. Len(backlog)
    BY <1>4, <1>6
  <2> QED
    BY <1>1, <2>1
<1> HIDE DEF m
<1> DEFINE f == [i \in 1 .. m |-> backlog[Nth(rest, i - 1)]]
<1>8. f \in [1 .. m -> Type]
  BY <1>7
<1>9. m \in 0 .. MaxBacklog
  BY <1>1, <1>5, Limits
<1>10. Without(sent) = f
  BY DEF Without, m, rest
<1> QED
  BY <1>8, <1>9, <1>10 DEF BoundedSeq, SeqOf

------------------------------------------------------------------------------
(* The arithmetic of a turn: of a group of n records, with weight w, r * w  *)
(* or all have been taken in earlier rounds and u in this one.              *)

LEMMA InsideTurn ==
    ASSUME NEW n \in Nat, NEW w \in {1, 2, 3}, NEW r \in Nat, NEW u \in Nat,
           AtMost(n, r * w) + u < n, u < w
    PROVE  /\ AtMost(n, r * w) + u < (r + 1) * w
           /\ ~(AtMost(n, r * w) + u < r * w)
<1>1. CASE w = 1
  BY <1>1 DEF AtMost
<1>2. CASE w = 2
  BY <1>2 DEF AtMost
<1>3. CASE w = 3
  BY <1>3 DEF AtMost
<1> QED
  BY <1>1, <1>2, <1>3

LEMMA AfterTurn ==
    ASSUME NEW n \in Nat, NEW w \in {1, 2, 3}, NEW r \in Nat, NEW u \in Nat, u <= w,
           AtMost(n, r * w) + u <= n, ~(u < w /\ AtMost(n, r * w) + u < n)
    PROVE  AtMost(n, r * w) + u = AtMost(n, (r + 1) * w)
<1>1. CASE w = 1
  BY <1>1 DEF AtMost
<1>2. CASE w = 2
  BY <1>2 DEF AtMost
<1>3. CASE w = 3
  BY <1>3 DEF AtMost
<1> QED
  BY <1>1, <1>2, <1>3

LEMMA ShareGrows ==
    ASSUME NEW n \in Nat, NEW w \in {1, 2, 3}, NEW r \in Nat
    PROVE  /\ AtMost(n, r * w) \in Nat /\ r * w \in Nat
           /\ AtMost(n, r * w) <= AtMost(n, (r + 1) * w)
<1>1. CASE w = 1
  BY <1>1 DEF AtMost
<1>2. CASE w = 2
  BY <1>2 DEF AtMost
<1>3. CASE w = 3
  BY <1>3 DEF AtMost
<1> QED
  BY <1>1, <1>2, <1>3

LEMMA SizeType ==
    ASSUME IInv
    PROVE  /\ \A type : Size(type) \in Nat
           /\ \A b \in window : Rank(b) \in Nat /\ Rank(b) < Size(b.dataType)
<1>1. \A type : IsFiniteSet(Group(type)) /\ Size(type) \in Nat
  BY FS_Subset, FS_CardinalityType DEF IInv, Group, Size
<1>2. ASSUME NEW b \in window PROVE Rank(b) \in Nat /\ Rank(b) < Size(b.dataType)
  <2>1. b.key \in Int
    BY Limits DEF IInv, TypeOK, Entry
  <2>2. SameTypeBefore(window, b) \in SUBSET (Group(b.dataType) \ {b}) /\ b \in Group(b.dataType)
    BY <2>1 DEF SameTypeBefore, Group
  <2>3. /\ IsFiniteSet(Group(b.dataType) \ {b})
        /\ Cardinality(Group(b.dataType) \ {b}) = Size(b.dataType) - 1
    BY <1>1, <2>2, FS_RemoveElement DEF Size
  <2>4. Rank(b) <= Size(b.dataType) - 1 /\ Rank(b) \in Nat
    BY <2>2, <2>3, FS_Subset, FS_CardinalityType DEF Rank
  <2> QED
    BY <1>1, <2>4
<1> QED
  BY <1>1, <1>2

\* A group has at least what r rounds give it.
LEMMA EarlierRounds ==
    ASSUME IInv, NEW r \in Nat, Shares(r), NEW type \in DataTypes
    PROVE  /\ AtMost(Size(type), r * WeightOf(type)) <= taken[type]
           /\ TypeRank(type) < turn =>
                 taken[type] = AtMost(Size(type), (r + 1) * WeightOf(type))
<1> DEFINE i == TypeRank(type)
<1>1. i \in 1 .. 7 /\ LexOrder[i] = type
  BY Types
<1>2. Size(type) \in Nat /\ WeightOf(type) \in {1, 2, 3} /\ used \in Nat /\ turn \in 1 .. 7
  BY SizeType, Weights DEF IInv, TypeOK
<1>3. i < turn \/ i = turn \/ i > turn
  BY <1>1, <1>2
<1>4. AtMost(Size(type), r * WeightOf(type)) \in Nat
  BY <1>2, ShareGrows
<1>5. CASE i < turn
  <2>1. taken[type] = AtMost(Size(type), (r + 1) * WeightOf(type))
    BY <1>1, <1>5 DEF Shares
  <2>2. AtMost(Size(type), r * WeightOf(type)) <= AtMost(Size(type), (r + 1) * WeightOf(type))
    BY <1>2, ShareGrows
  <2> QED
    BY <2>1, <2>2
<1>6. CASE i = turn
  BY <1>1, <1>2, <1>4, <1>6 DEF Shares
<1>7. CASE i > turn
  BY <1>1, <1>2, <1>4, <1>7 DEF Shares
<1> QED
  BY <1>3, <1>5, <1>6, <1>7

------------------------------------------------------------------------------
(* A record that is taken is the next one in the order of service.          *)

LEMMA CurrentType == ASSUME TypeOK
                     PROVE  Current \in DataTypes /\ TypeRank(Current) = turn
BY Types DEF TypeOK, Current

LEMMA NextIsServedNext ==
    ASSUME IInv, pc = "picking", InTurn, NEW b \in window, IsNext(b)
    PROVE  /\ b \notin Picked
           /\ \A c \in window : ServedBefore(window, c, b) => c \in Picked
           /\ \A c \in window : c.dataType = Current /\ Rank(c) = taken[Current] => c = b
<1> DEFINE w == WeightOf(Current)
           n == Size(Current)
<1>1. /\ Picked = {c \in window : Rank(c) < taken[c.dataType]}
      /\ window \in SUBSET Entry /\ IsFiniteSet(window)
      /\ turn \in 1 .. 7 /\ used \in Nat
  BY DEF IInv, LoopInv, TypeOK
<1>2. PICK r \in Nat : Shares(r)
  BY DEF IInv, LoopInv
<1>3. b.dataType = Current /\ Rank(b) = taken[Current] /\ Rank(b) \in Nat
  BY SizeType DEF IsNext, Group, Rank
<1>4. Current \in DataTypes /\ TypeRank(Current) = turn
  BY CurrentType DEF IInv
<1>5. n \in Nat /\ w \in {1, 2, 3}
  BY SizeType, Weights
<1>6. taken[Current] = AtMost(n, r * w) + used /\ taken[Current] < n /\ used < w
  BY <1>1, <1>2 DEF Shares, Current, InTurn, Size
<1>7. taken[Current] < (r + 1) * w /\ ~(taken[Current] < r * w)
  BY <1>1, <1>5, <1>6, InsideTurn
<1>8. RoundOf(window, b) = r
  <2>1. RoundOf(window, b) \in Nat
    BY <1>1, RankType
  <2>2. RoundOf(window, b) < r + 1 /\ ~(RoundOf(window, b) < r)
    BY <1>1, <1>3, <1>7, RankType DEF Rank
  <2> QED
    BY <2>1, <2>2
<1>9. ASSUME NEW c \in window, ServedBefore(window, c, b) PROVE c \in Picked
  <2> DEFINE nc == Size(c.dataType)
             wc == WeightOf(c.dataType)
  <2>1. c.dataType \in DataTypes
    BY <1>1, TypeAssumption DEF Entry
  <2>2. Rank(c) \in Nat /\ Rank(c) < nc /\ nc \in Nat /\ wc \in {1, 2, 3}
    BY SizeType, Weights
  <2>3. /\ AtMost(nc, r * wc) <= taken[c.dataType]
        /\ TypeRank(c.dataType) < turn => taken[c.dataType] = AtMost(nc, (r + 1) * wc)
    BY <1>2, <2>1, EarlierRounds
  <2>4. CASE RoundOf(window, c) < r
    <3>1. Rank(c) < r * wc
      BY <1>1, <2>4, RankType DEF Rank
    <3>2. Rank(c) < AtMost(nc, r * wc) /\ AtMost(nc, r * wc) \in Nat
      BY <2>2, <3>1, ShareGrows DEF AtMost
    <3>3. taken[c.dataType] \in Nat
      BY <2>1, Limits DEF IInv, TypeOK
    <3> QED
      BY <1>1, <2>2, <2>3, <3>2, <3>3
  <2>5. CASE RoundOf(window, c) = r /\ TypeRank(c.dataType) < turn
    <3>1. RoundOf(window, c) < r + 1
      BY <2>5
    <3>2. Rank(c) < (r + 1) * wc
      BY <1>1, <3>1, RankType DEF Rank
    <3>3. Rank(c) < AtMost(nc, (r + 1) * wc)
      BY <2>2, <3>2 DEF AtMost
    <3> QED
      BY <1>1, <2>3, <2>5, <3>3
  <2>6. CASE c.dataType = b.dataType /\ c.key < b.key
    <3>1. Rank(c) < Rank(b)
      BY <1>1, <2>6, RankGrows DEF Rank
    <3> QED
      BY <1>1, <1>3, <2>6, <3>1
  <2> QED
    BY <1>3, <1>4, <1>8, <1>9, <2>4, <2>5, <2>6 DEF ServedBefore
<1>10. b \notin Picked
  BY <1>1, <1>3
<1>11. ASSUME NEW c \in window, c.dataType = Current, Rank(c) = taken[Current] PROVE c = b
  BY <1>1, <1>3, <1>11, RankInjective DEF Rank
<1> QED
  BY <1>9, <1>10, <1>11

------------------------------------------------------------------------------
(* Every step keeps the invariant.                                          *)

LEMMA NothingPicked == ToSet(<< >>) = {} /\ Cardinality({}) = 0
BY FS_EmptySet DEF ToSet

LEMMA IInvInit == Init => IInv
<1> SUFFICES ASSUME Init PROVE IInv
  OBVIOUS
<1>1. backlog \in BoundedSeq(Type, MaxBacklog) /\ out \in BoundedSeq(window, BatchLimit)
  BY EmptyBounded, Limits DEF Init
<1>2. Picked = {} /\ Len(out) = Cardinality(Picked) /\ IsFiniteSet(window)
  BY NothingPicked, FS_EmptySet DEF Init, Picked
<1>3. TypeOK
  <2>1. taken \in [DataTypes -> 0 .. BatchLimit] /\ turn \in 1 .. 7 /\ used \in 0 .. 3
    BY Limits DEF Init
  <2>2. /\ served \subseteq Type /\ pc \in {"waiting", "picking", "sending"}
        /\ window \subseteq Entry
    BY DEF Init
  <2>3. progress \in BOOLEAN
    BY Zenon DEF Init
  <2> QED
    BY <1>1, <2>1, <2>2, <2>3 DEF TypeOK
<1> QED
  BY <1>2, <1>3 DEF Init, IInv, InitialSegment, LoopInv, BatchInv

LEMMA SaveStep == ASSUME IInv, NEW type \in Type, Save(type) PROVE IInv'
<1>1. backlog' \in BoundedSeq(Type, MaxBacklog)
  <2>1. backlog \in Seq(Type)
    BY BoundedIs, Limits DEF IInv, TypeOK
  <2>2. backlog' \in Seq(Type) /\ Len(backlog') = Len(backlog) + 1 /\ Len(backlog) \in Nat
    BY <2>1, Appended DEF Save
  <2>3. Len(backlog') <= MaxBacklog
    BY <2>2, Limits DEF Save
  <2> QED
    BY <2>2, <2>3, BoundedIf, Limits
<1>2. TypeOK'
  BY <1>1 DEF Save, loop, IInv, TypeOK
<1>3. UNCHANGED << Picked, InitialSegment, LoopInv, BatchInv, IsFiniteSet(window),
                   Cardinality(Picked), Len(out) >>
  BY DEF Save, loop, Picked, InitialSegment, LoopInv, BatchInv, Rank, Size, Group, Shares,
         NoProgress
<1> QED
  BY <1>2, <1>3 DEF IInv

LEMMA PeekStep == ASSUME IInv, Peek PROVE IInv'
<1>1. /\ Peeked \in Seq(Entry) /\ Len(Peeked) \in Nat
      /\ window' \in SUBSET Entry /\ window' = ToSet(Peeked)
      /\ IsFiniteSet(window') /\ Cardinality(window') = Len(Peeked)
  BY PeekedIsWindow DEF IInv, Peek
<1>2. UNCHANGED << backlog, served >> /\ Fresh
  BY DEF Peek
<1>3. CASE Len(Peeked) <= BatchLimit
  <2>1. out' = Peeked /\ pc' = "sending" /\ Picked' = window'
    BY <1>1, <1>3 DEF Peek, Picked
  <2>2. Peeked \in Seq(ToSet(Peeked))
    BY <1>1 DEF ToSet
  <2>3. out' \in BoundedSeq(window', BatchLimit)
    BY <1>1, <1>3, <2>1, <2>2, BoundedIs, Limits
  <2>4. TypeOK'
    BY <1>1, <1>2, <2>1, <2>3, FreshTyped DEF IInv, TypeOK
  <2>5. InitialSegment' /\ LoopInv' /\ BatchInv'
    BY <1>1, <1>3, <2>1 DEF InitialSegment, LoopInv, BatchInv
  <2> QED
    BY <1>1, <2>1, <2>4, <2>5 DEF IInv
<1>4. CASE ~(Len(Peeked) <= BatchLimit)
  <2>1. out' = << >> /\ pc' = "picking" /\ Picked' = {}
    BY <1>4, NothingPicked DEF Peek, Picked
  <2>2. out' \in BoundedSeq(window', BatchLimit)
    BY <2>1, EmptyBounded, Limits
  <2>3. TypeOK'
    BY <1>1, <1>2, <2>1, <2>2, FreshTyped DEF IInv, TypeOK
  <2>4. \A type : Size(type)' \in Nat
    BY <1>1, FS_Subset, FS_CardinalityType DEF Size, Group
  <2>5. \A b \in window' : Rank(b)' \in Nat
    BY <1>1, RankType DEF Rank
  <2>6. Picked' = {b \in window' : Rank(b)' < taken'[b.dataType]}
    <3>1. \A b \in window' : taken'[b.dataType] = 0
      BY <1>1, <1>2, TypeAssumption DEF Fresh, Entry
    <3> QED
      BY <2>1, <2>5, <3>1
  <2>7. Shares(0)'
    <3> SUFFICES ASSUME NEW i \in 1 .. 7
                 PROVE  /\ taken'[LexOrder[i]] = 0 /\ turn' = 1 /\ used' = 0
                        /\ AtMost(Size(LexOrder[i])', 0 * WeightOf(LexOrder[i])) = 0
                        /\ 0 <= Size(LexOrder[i])' /\ 0 <= WeightOf(LexOrder[i])
      BY DEF Shares
    <3>1. taken'[LexOrder[i]] = 0 /\ turn' = 1 /\ used' = 0
      BY <1>2, Types DEF Fresh
    <3>2. WeightOf(LexOrder[i]) \in {1, 2, 3}
      BY Weights
    <3> QED
      BY <2>4, <3>1, <3>2 DEF AtMost
  <2>8. NoProgress'
    BY <1>2 DEF NoProgress, Fresh
  <2>9. \A type \in DataTypes : taken'[type] <= Len(out')
    BY <1>2, <2>1 DEF Fresh
  <2>10. BatchLimit < Cardinality(window')
    BY <1>1, <1>4, Limits
  <2>11. LoopInv'
    BY <2>6, <2>7, <2>8, <2>9, <2>10 DEF LoopInv
  <2>12. InitialSegment' /\ BatchInv' /\ Len(out') = Cardinality(Picked')
    BY <2>1, NothingPicked DEF InitialSegment, BatchInv
  <2> QED
    BY <1>1, <2>3, <2>11, <2>12 DEF IInv
<1> QED
  BY <1>3, <1>4

LEMMA TakeStep == ASSUME IInv, TakeRecord PROVE IInv'
<1>1. PICK b \in window : IsNext(b) /\ out' = Append(out, b)
  BY DEF TakeRecord
<1>2. /\ pc = "picking" /\ pc' = "picking" /\ InTurn /\ Len(out) < BatchLimit
      /\ taken' = [taken EXCEPT ![Current] = @ + 1] /\ used' = used + 1 /\ progress'
      /\ UNCHANGED << backlog, served, window, turn >>
  BY DEF TakeRecord
<1>3. /\ out \in Seq(window) /\ taken \in [DataTypes -> 0 .. BatchLimit]
      /\ used \in Nat /\ turn \in 1 .. 7 /\ IsFiniteSet(window) /\ window \in SUBSET Entry
      /\ Len(out) \in Nat /\ BatchLimit \in Nat
  BY BoundedIs, Limits DEF IInv, TypeOK
<1>4. Picked' = Picked \cup {b} /\ out' \in Seq(window) /\ Len(out') = Len(out) + 1
  BY <1>1, <1>3, Appended DEF Picked
<1>5. /\ b \notin Picked
      /\ \A c \in window : ServedBefore(window, c, b) => c \in Picked
      /\ \A c \in window : c.dataType = Current /\ Rank(c) = taken[Current] => c = b
  BY <1>1, <1>2, NextIsServedNext
<1>6. Current \in DataTypes
  BY CurrentType DEF IInv
<1>7. /\ taken'[Current] = taken[Current] + 1
      /\ \A type \in DataTypes : type # Current => taken'[type] = taken[type]
  BY <1>2, <1>3, <1>6
<1>8. (\A c \in window : Rank(c)' = Rank(c)) /\ \A type : Size(type)' = Size(type)
  BY <1>2 DEF Rank, Size, Group
<1>9. TypeOK'
  <2>1. out' \in BoundedSeq(window', BatchLimit)
    BY <1>2, <1>3, <1>4, BoundedIf
  <2>2. taken' \in [DataTypes -> 0 .. BatchLimit]
    <3>1. taken[Current] <= Len(out)
      BY <1>2, <1>6 DEF IInv, LoopInv
    <3>2. taken[Current] + 1 \in 0 .. BatchLimit
      BY <1>2, <1>3, <1>6, <3>1
    <3> QED
      BY <1>2, <1>3, <3>2
  <2>3. used' \in 0 .. 3
    BY <1>2, <1>3, Weights DEF InTurn
  <2>4. progress' \in BOOLEAN
    BY DEF TakeRecord
  <2> QED
    BY <1>2, <2>1, <2>2, <2>3, <2>4 DEF IInv, TypeOK
<1>10. Len(out') = Cardinality(Picked')
  <2>1. IsFiniteSet(Picked)
    BY <1>3, FS_Subset DEF Picked, ToSet
  <2> QED
    BY <1>4, <1>5, <2>1, FS_AddElement DEF IInv
<1>11. InitialSegment'
  BY <1>2, <1>4, <1>5 DEF IInv, InitialSegment
<1>12. Picked' = {c \in window' : Rank(c)' < taken'[c.dataType]}
  <2> SUFFICES ASSUME NEW c \in window
               PROVE  c \in Picked' <=> Rank(c) < taken'[c.dataType]
    BY <1>2, <1>3, <1>4, <1>8, <1>1 DEF Picked, ToSet
  <2>1. c \in Picked <=> Rank(c) < taken[c.dataType]
    BY <1>2 DEF IInv, LoopInv
  <2>2. Rank(c) \in Nat /\ taken[Current] \in Nat
    BY <1>3, <1>6, SizeType
  <2>3. CASE c.dataType = Current
    BY <1>1, <1>4, <1>5, <1>7, <2>1, <2>2, <2>3 DEF IsNext, Group, Rank
  <2>4. CASE c.dataType # Current
    <3>1. c.dataType \in DataTypes /\ c # b
      BY <1>1, <1>3, <2>4, TypeAssumption DEF Entry, IsNext, Group
    <3> QED
      BY <1>4, <1>7, <2>1, <2>4, <3>1
  <2> QED
    BY <2>3, <2>4
<1>13. \A type \in DataTypes : taken'[type] <= Len(out')
  <2>1. \A type \in DataTypes : taken[type] <= Len(out) /\ taken[type] \in Nat
    BY <1>2, <1>3 DEF IInv, LoopInv
  <2> QED
    BY <1>3, <1>4, <1>6, <1>7, <2>1
<1>14. \E r \in Nat : Shares(r)'
  <2>1. PICK r \in Nat : Shares(r)
    BY <1>2 DEF IInv, LoopInv
  <2>2. ASSUME NEW i \in 1 .. 7, i # turn PROVE taken'[LexOrder[i]] = taken[LexOrder[i]]
    <3>1. LexOrder[i] # Current /\ LexOrder[i] \in DataTypes
      BY <1>3, <2>2, Types DEF Current
    <3> QED
      BY <1>7, <3>1
  <2>3. /\ taken[Current] = AtMost(Size(Current), r * WeightOf(Current)) + used
        /\ taken[Current] < Size(Current) /\ used < WeightOf(Current)
    BY <1>2, <1>3, <2>1 DEF Shares, Current, InTurn, Size
  <2>4. /\ Size(Current) \in Nat /\ WeightOf(Current) \in {1, 2, 3}
        /\ AtMost(Size(Current), r * WeightOf(Current)) \in Nat
    BY SizeType, Weights, ShareGrows
  <2>5. /\ taken'[Current] = AtMost(Size(Current), r * WeightOf(Current)) + used'
        /\ taken'[Current] <= Size(Current) /\ used' <= WeightOf(Current)
    BY <1>2, <1>3, <1>7, <2>3, <2>4
  <2>6. Shares(r)'
    <3> SUFFICES ASSUME NEW i \in 1 .. 7
                 PROVE  LET type == LexOrder[i]
                        IN  /\ i < turn => taken'[type] = AtMost(Size(type), (r + 1) * WeightOf(type))
                            /\ i = turn => /\ taken'[type] = AtMost(Size(type), r * WeightOf(type)) + used'
                                           /\ taken'[type] <= Size(type)
                                           /\ used' <= WeightOf(type)
                            /\ i > turn => taken'[type] = AtMost(Size(type), r * WeightOf(type))
      BY <1>2, <1>8 DEF Shares
    <3>1. CASE i = turn
      BY <1>3, <2>5, <3>1 DEF Current
    <3>2. CASE i # turn
      BY <1>3, <2>1, <2>2, <3>2 DEF Shares
    <3> QED
      BY <3>1, <3>2
  <2> QED
    BY <2>6
<1>15. LoopInv'
  BY <1>2, <1>12, <1>13, <1>14 DEF IInv, LoopInv, NoProgress
<1>16. BatchInv'
  BY <1>2 DEF BatchInv
<1> QED
  BY <1>2, <1>9, <1>10, <1>11, <1>15, <1>16 DEF IInv

\* The type whose turn is over has what r + 1 rounds give it.
LEMMA TurnIsOver ==
    ASSUME IInv, pc = "picking", ~InTurn, NEW r \in Nat, Shares(r)
    PROVE  /\ taken[Current] = AtMost(Size(Current), (r + 1) * WeightOf(Current))
           /\ ~progress => taken[Current] = Size(Current)
<1>1. turn \in 1 .. 7 /\ used \in Nat
  BY DEF IInv, TypeOK
<1>2. /\ Size(Current) \in Nat /\ WeightOf(Current) \in {1, 2, 3}
      /\ AtMost(Size(Current), r * WeightOf(Current)) \in Nat
  BY SizeType, Weights, ShareGrows
<1>3. /\ taken[Current] = AtMost(Size(Current), r * WeightOf(Current)) + used
      /\ taken[Current] <= Size(Current) /\ used <= WeightOf(Current)
  BY <1>1 DEF Shares, Current
<1>4. ~(used < WeightOf(Current) /\ taken[Current] < Size(Current))
  BY DEF InTurn, Size
<1>5. taken[Current] = AtMost(Size(Current), (r + 1) * WeightOf(Current))
  BY <1>1, <1>2, <1>3, <1>4, AfterTurn
<1>6. ASSUME ~progress PROVE taken[Current] = Size(Current)
  <2>1. used = 0
    BY <1>6 DEF IInv, LoopInv, NoProgress
  <2> QED
    BY <1>2, <1>3, <1>4, <2>1
<1> QED
  BY <1>5, <1>6

\* What a step that takes no record leaves as it is.
LEMMA NothingTaken ==
    ASSUME IInv, pc = "picking", UNCHANGED << window, out, taken >>
    PROVE  /\ (\A c \in window : Rank(c)' = Rank(c)) /\ \A type : Size(type)' = Size(type)
           /\ IsFiniteSet(window)' /\ Picked' = Picked /\ InitialSegment'
           /\ Len(out') = Cardinality(Picked')
           /\ BatchLimit < Cardinality(window')
           /\ Picked' = {c \in window' : Rank(c)' < taken'[c.dataType]}
           /\ \A type \in DataTypes : taken'[type] <= Len(out')
<1>1. (\A c \in window : Rank(c)' = Rank(c)) /\ \A type : Size(type)' = Size(type)
  BY DEF Rank, Size, Group
<1>2. IsFiniteSet(window)' /\ Picked' = Picked /\ InitialSegment' /\ Len(out') = Cardinality(Picked')
  BY DEF IInv, Picked, InitialSegment
<1> QED
  BY <1>1, <1>2 DEF IInv, LoopInv

LEMMA EndTurnStep == ASSUME IInv, EndTurn PROVE IInv'
<1>1. /\ pc = "picking" /\ ~InTurn /\ turn < 7 /\ turn' = turn + 1 /\ used' = 0
      /\ UNCHANGED << backlog, served, pc, window, out, taken, progress >>
  BY DEF EndTurn
<1>2. turn \in 1 .. 7 /\ used \in Nat
  BY DEF IInv, TypeOK
<1>3. TypeOK'
  <2>1. turn' \in 1 .. 7 /\ used' \in 0 .. 3
    BY <1>1, <1>2
  <2> QED
    BY <1>1, <2>1 DEF IInv, TypeOK
<1>4. PICK r \in Nat : Shares(r)
  BY <1>1 DEF IInv, LoopInv
<1>5. /\ taken[Current] = AtMost(Size(Current), (r + 1) * WeightOf(Current))
      /\ ~progress => taken[Current] = Size(Current)
  BY <1>1, <1>4, TurnIsOver
<1>6. \A type : Size(type)' = Size(type)
  BY <1>1, NothingTaken
<1>7. Shares(r)'
  <2> SUFFICES ASSUME NEW i \in 1 .. 7
               PROVE  LET type == LexOrder[i]
                      IN  /\ i < turn' => taken[type] = AtMost(Size(type), (r + 1) * WeightOf(type))
                          /\ i = turn' => /\ taken[type] = AtMost(Size(type), r * WeightOf(type)) + 0
                                          /\ taken[type] <= Size(type)
                                          /\ 0 <= WeightOf(type)
                          /\ i > turn' => taken[type] = AtMost(Size(type), r * WeightOf(type))
    BY <1>1, <1>6 DEF Shares
  <2>1. /\ Size(LexOrder[i]) \in Nat /\ WeightOf(LexOrder[i]) \in {1, 2, 3}
        /\ AtMost(Size(LexOrder[i]), r * WeightOf(LexOrder[i])) \in Nat
    BY SizeType, Weights, ShareGrows
  <2>2. CASE i = turn
    BY <1>1, <1>2, <1>5, <2>2 DEF Current
  <2>3. CASE i < turn
    BY <1>1, <1>2, <1>4, <2>3 DEF Shares
  <2>4. CASE i > turn
    <3>1. taken[LexOrder[i]] = AtMost(Size(LexOrder[i]), r * WeightOf(LexOrder[i]))
      BY <1>2, <1>4, <2>4 DEF Shares
    <3>2. AtMost(Size(LexOrder[i]), r * WeightOf(LexOrder[i])) <= Size(LexOrder[i])
      BY <2>1, ShareGrows DEF AtMost
    <3> QED
      BY <1>1, <1>2, <2>1, <2>4, <3>1, <3>2
  <2> QED
    BY <1>2, <2>2, <2>3, <2>4
<1>8. NoProgress'
  <2>1. ~progress => \A i \in 1 .. turn - 1 : taken[LexOrder[i]] = Size(LexOrder[i])
    BY <1>1 DEF IInv, LoopInv, NoProgress
  <2>2. ~progress => \A i \in 1 .. turn : taken[LexOrder[i]] = Size(LexOrder[i])
    BY <1>2, <1>5, <2>1 DEF Current
  <2>3. turn' - 1 = turn
    BY <1>1, <1>2
  <2> QED
    BY <1>1, <1>6, <2>2, <2>3 DEF NoProgress
<1>9. LoopInv'
  BY <1>1, <1>4, <1>7, <1>8, NothingTaken DEF LoopInv
<1> QED
  BY <1>1, <1>3, <1>9, NothingTaken DEF IInv, BatchInv

LEMMA EndRoundStep == ASSUME IInv, EndRound PROVE IInv'
<1>1. /\ pc = "picking" /\ ~InTurn /\ turn = 7 /\ turn' = 1 /\ used' = 0 /\ progress' = FALSE
      /\ UNCHANGED << backlog, served, pc, window, out, taken >>
  BY DEF EndRound, RoundIsOver
<1>2. TypeOK'
  <2>1. turn' \in 1 .. 7 /\ used' \in 0 .. 3
    BY <1>1
  <2>2. progress' \in BOOLEAN
    BY Zenon, <1>1
  <2> QED
    BY <1>1, <2>1, <2>2 DEF IInv, TypeOK
<1>3. PICK r \in Nat : Shares(r)
  BY <1>1 DEF IInv, LoopInv
<1>4. taken[Current] = AtMost(Size(Current), (r + 1) * WeightOf(Current))
  BY <1>1, <1>3, TurnIsOver
<1>5. \A type : Size(type)' = Size(type)
  BY <1>1, NothingTaken
<1>6. Shares(r + 1)'
  <2> SUFFICES ASSUME NEW i \in 1 .. 7
               PROVE  LET type == LexOrder[i]
                      IN  /\ taken[type] = AtMost(Size(type), (r + 1) * WeightOf(type)) + 0
                          /\ taken[type] = AtMost(Size(type), (r + 1) * WeightOf(type))
                          /\ taken[type] <= Size(type)
                          /\ 0 <= WeightOf(type)
    BY <1>1, <1>5 DEF Shares
  <2>1. r + 1 \in Nat /\ Size(LexOrder[i]) \in Nat /\ WeightOf(LexOrder[i]) \in {1, 2, 3}
    BY SizeType, Weights
  <2>2. /\ AtMost(Size(LexOrder[i]), (r + 1) * WeightOf(LexOrder[i])) \in Nat
        /\ AtMost(Size(LexOrder[i]), (r + 1) * WeightOf(LexOrder[i])) <= Size(LexOrder[i])
    BY <2>1, ShareGrows DEF AtMost
  <2>3. taken[LexOrder[i]] = AtMost(Size(LexOrder[i]), (r + 1) * WeightOf(LexOrder[i]))
    BY <1>1, <1>3, <1>4 DEF Shares, Current
  <2> QED
    BY <2>1, <2>2, <2>3
<1>7. LoopInv'
  BY <1>1, <1>3, <1>6, NothingTaken DEF LoopInv, NoProgress
<1> QED
  BY <1>1, <1>2, <1>7, NothingTaken DEF IInv, BatchInv

\* A round without progress would have picked the whole window, which is larger
\* than a batch.
LEMMA ProgressIsMade == IInv => (pc = "picking" => ~GaveUp)
<1> SUFFICES ASSUME IInv, pc = "picking", GaveUp PROVE FALSE
  OBVIOUS
<1>1. turn = 7 /\ ~InTurn /\ ~progress
  BY DEF GaveUp, RoundIsOver
<1>2. PICK r \in Nat : Shares(r)
  BY DEF IInv, LoopInv
<1>3. taken[Current] = Size(Current)
  BY <1>1, <1>2, TurnIsOver
<1>4. \A i \in 1 .. 7 : taken[LexOrder[i]] = Size(LexOrder[i])
  <2>1. \A i \in 1 .. 6 : taken[LexOrder[i]] = Size(LexOrder[i])
    BY <1>1 DEF IInv, LoopInv, NoProgress
  <2> QED
    BY <1>1, <1>3, <2>1 DEF Current
<1>5. ASSUME NEW b \in window PROVE Rank(b) < taken[b.dataType]
  <2>1. b.dataType \in DataTypes
    BY TypeAssumption DEF IInv, TypeOK, Entry
  <2>2. taken[b.dataType] = Size(b.dataType)
    BY <1>4, <2>1, Types
  <2> QED
    BY <2>2, SizeType
<1>6. Picked = window
  BY <1>5 DEF IInv, LoopInv
<1>7. Len(out) <= BatchLimit /\ Len(out) \in Nat
  BY BoundedIs, Limits DEF IInv, TypeOK
<1> QED
  BY <1>6, <1>7, Limits DEF IInv, LoopInv

LEMMA LeaveStep == ASSUME IInv, LeaveLoop PROVE IInv'
<1>1. /\ pc = "picking" /\ pc' = "sending" /\ UNCHANGED << backlog, served, loop >>
      /\ Len(out) = BatchLimit
  BY ProgressIsMade DEF LeaveLoop
<1>2. TypeOK'
  BY <1>1 DEF IInv, TypeOK, loop
<1>3. BatchInv'
  BY <1>1 DEF IInv, BatchInv, loop, Picked
<1>4. IsFiniteSet(window)' /\ InitialSegment' /\ Len(out') = Cardinality(Picked')
  BY <1>1, NothingTaken DEF loop
<1>5. LoopInv'
  BY <1>1 DEF LoopInv
<1> QED
  BY <1>2, <1>3, <1>4, <1>5 DEF IInv

LEMMA DispatchBatchStep == ASSUME IInv, DispatchBatch PROVE IInv'
<1>1. /\ backlog' = Without({b.key : b \in Picked}) /\ served' = {b.dataType : b \in Picked}
      /\ pc' = "waiting" /\ window' = {} /\ out' = << >> /\ Fresh
  BY DEF DispatchBatch
<1>2. TypeOK'
  <2>1. backlog' \in BoundedSeq(Type, MaxBacklog)
    BY <1>1, WithoutTyped DEF IInv
  <2>2. Picked \subseteq window
    BY BoundedIs, Limits DEF IInv, TypeOK, Picked, ToSet
  <2>3. served' \subseteq Type
    BY <1>1, <2>2 DEF IInv, TypeOK, Entry
  <2>4. out' \in BoundedSeq(window', BatchLimit)
    BY <1>1, EmptyBounded, Limits
  <2> QED
    BY <1>1, <2>1, <2>3, <2>4, FreshTyped DEF TypeOK
<1>3. Picked' = {} /\ Len(out') = Cardinality(Picked') /\ IsFiniteSet(window')
  BY <1>1, NothingPicked, FS_EmptySet DEF Picked
<1> QED
  BY <1>1, <1>2, <1>3 DEF IInv, InitialSegment, LoopInv, BatchInv

LEMMA IInvStep == IInv /\ [Next]_vars => IInv'
<1> SUFFICES ASSUME IInv, [Next]_vars PROVE IInv'
  OBVIOUS
<1>1. CASE \E type \in Type : Save(type)
  BY <1>1, SaveStep
<1>2. CASE Dispatch
  BY <1>2, PeekStep, TakeStep, EndTurnStep, EndRoundStep, LeaveStep, DispatchBatchStep
  DEF Dispatch
<1>3. CASE UNCHANGED vars
  BY <1>3 DEF vars, loop, IInv, TypeOK, Picked, InitialSegment, LoopInv, BatchInv, Rank, Size,
              Group, Shares, NoProgress
<1> QED
  BY <1>1, <1>2, <1>3 DEF Next

LEMMA IInvHolds == Spec => []IInv
<1> QED
  BY IInvInit, IInvStep, PTL DEF Spec

------------------------------------------------------------------------------
(* Every variable of the loop keeps its type; the index of a group and the *)
(* batch never exceed the limit (data_dispatcher.go:239-258).              *)
THEOREM TypeCorrect == Spec => []TypeOK
<1>1. IInv => TypeOK
  BY DEF IInv
<1> QED
  BY <1>1, IInvHolds, PTL

(* The loop picks what the weighted round-robin promises, each record once *)
(* (data_dispatcher.go:176-182 and 239-258), whatever the limit, the size  *)
(* of the window and the backlog are.                                      *)
THEOREM LoopIsCorrect == Spec => []LoopIsFairPick
<1>1. IInv => LoopIsFairPick
  <2> SUFFICES ASSUME IInv, pc = "sending"
               PROVE  Picked = FairPick(window, BatchLimit) /\ Len(out) = Cardinality(Picked)
    BY DEF LoopIsFairPick
  <2>1. Picked \in SUBSET window
    BY BoundedIs, Limits DEF IInv, TypeOK, Picked, ToSet
  <2> QED
    BY <2>1, SegmentIsPick, Limits DEF IInv, TypeOK, InitialSegment, BatchInv
<1> QED
  BY <1>1, IInvHolds, PTL

(* No record overtakes an older one of its type, and a batch is as large as *)
(* the window and the limit allow (data_dispatcher.go:182).                *)
THEOREM OldestFirst == Spec => []OldestFirstWithinType
<1>1. IInv => OldestFirstWithinType
  <2> SUFFICES ASSUME IInv, pc = "sending" PROVE OldestFirstWithinType
    BY DEF OldestFirstWithinType
  <2>1. Picked \in SUBSET window /\ window \in SUBSET Entry /\ IsFiniteSet(window)
    BY BoundedIs, Limits DEF IInv, TypeOK, Picked, ToSet
  <2>2. ASSUME NEW b \in Picked, NEW c \in window, c.dataType = b.dataType, c.key < b.key
        PROVE  c \in Picked
    <3>1. RoundOf(window, b) \in Nat /\ RoundOf(window, c) \in Nat
      BY <2>1, RankType
    <3>2. Cardinality(SameTypeBefore(window, c)) < Cardinality(SameTypeBefore(window, b))
      BY <2>1, <2>2, RankGrows
    <3>3. ~(RoundOf(window, b) < RoundOf(window, c))
      <4> DEFINE k == RoundOf(window, c)
                 w == WeightOf(b.dataType)
      <4> SUFFICES ASSUME RoundOf(window, b) < k PROVE FALSE
        OBVIOUS
      <4>1. Cardinality(SameTypeBefore(window, b)) < k * w
        BY <2>1, <3>1, RankType
      <4>2. ~(Cardinality(SameTypeBefore(window, c)) < k * w)
        BY <2>1, <2>2, <3>1, RankType
      <4>3. /\ Cardinality(SameTypeBefore(window, b)) \in Nat
            /\ Cardinality(SameTypeBefore(window, c)) \in Nat /\ k * w \in Nat
        BY <2>1, <3>1, RankType, Weights, ShareGrows
      <4> QED
        BY <3>2, <4>1, <4>2, <4>3
    <3>4. ServedBefore(window, c, b)
      BY <2>2, <3>1, <3>3 DEF ServedBefore
    <3> QED
      BY <3>4 DEF IInv, InitialSegment
  <2>3. \/ Cardinality(Picked) = BatchLimit
        \/ Cardinality(Picked) < BatchLimit /\ Picked = window
    <3>1. Cardinality(Picked) \in Nat
      BY <2>1, FS_Subset, FS_CardinalityType
    <3> QED
      BY <3>1, Limits DEF IInv, BatchInv
  <2> QED
    BY <2>2, <2>3 DEF OldestFirstWithinType
<1> QED
  BY <1>1, IInvHolds, PTL

LEMMA PlacesFinite == TypeOK => IsFiniteSet(PlacesOfRound)
<1> SUFFICES ASSUME TypeOK PROVE IsFiniteSet(PlacesOfRound)
  OBVIOUS
<1> DEFINE f == [t \in DataTypes |-> TypeRank(t)]
<1>1. f \in [DataTypes -> 1 .. 7] /\ \A s, t \in DataTypes : f[s] = f[t] => s = t
  BY Types
<1> HIDE DEF f
<1>2. f \in Injection(DataTypes, 1 .. 7)
  BY <1>1 DEF Injection, IsInjective
<1>3. IsFiniteSet(1 .. 7) /\ IsFiniteSet(0 .. 2)
  <2>1. 1 \in Int /\ 7 \in Int /\ 0 \in Int /\ 2 \in Int
    OBVIOUS
  <2> QED
    BY ONLY <2>1, FS_Interval
<1>4. IsFiniteSet(DataTypes)
  BY <1>2, <1>3, FS_Injection
<1>5. IsFiniteSet(DataTypes \X (0 .. 2))
  BY <1>3, <1>4, FS_Product
<1>6. PlacesOfRound \in SUBSET (DataTypes \X (0 .. 2))
  BY TypeAssumption DEF PlacesOfRound, OneRound, TypeOK, Entry
<1> QED
  BY <1>5, <1>6, FS_Subset

\* The oldest record of a type has rank 0.
LEMMA FirstOfType ==
    ASSUME IInv, NEW c \in window
    PROVE  \E b \in window : b.dataType = c.dataType /\ Rank(b) = 0
<1> DEFINE keys == {b.key : b \in Group(c.dataType)}
<1>1. \A b \in window : b.key \in Nat
  BY Limits DEF IInv, TypeOK, Entry
<1>2. keys \in SUBSET Nat /\ keys # {}
  BY <1>1 DEF Group
<1> HIDE DEF keys
<1>3. PICK k \in keys : \A i \in keys : ~(i < k)
  BY <1>2, LeastKey
<1>4. PICK b \in Group(c.dataType) : b.key = k
  BY <1>3 DEF keys
<1>5. SameTypeBefore(window, b) = {}
  BY <1>3, <1>4 DEF SameTypeBefore, Group, keys
<1>6. Rank(b) = 0
  BY <1>5, FS_EmptySet DEF Rank
<1> QED
  BY <1>4, <1>6 DEF Group

(* A batch that holds one round has a record of every type of the window   *)
(* (data_dispatcher.go:182): were one left out, the records picked would   *)
(* all be of the first round, and there are fewer places for them than     *)
(* the batch has.                                                          *)
THEOREM AirtimeForAll == Spec => []EveryTypeGetsAirtime
<1>1. IInv => EveryTypeGetsAirtime
  <2> SUFFICES ASSUME IInv, pc = "sending", Cardinality(PlacesOfRound) <= BatchLimit,
                      NEW c \in window, \A b \in Picked : b.dataType # c.dataType
               PROVE  FALSE
    BY DEF EveryTypeGetsAirtime
  <2>1. /\ Picked \in SUBSET window /\ window \in SUBSET Entry /\ IsFiniteSet(window)
        /\ IsFiniteSet(Picked)
    BY BoundedIs, Limits, FS_Subset DEF IInv, TypeOK, Picked, ToSet
  <2>2. Cardinality(Picked) = BatchLimit
    BY DEF IInv, BatchInv
  <2>3. PICK e \in window : e.dataType = c.dataType /\ Rank(e) = 0
    BY FirstOfType
  <2>4. RoundOf(window, e) = 0
    <3>1. RoundOf(window, e) \in Nat /\ (RoundOf(window, e) < 1 <=> Rank(e) < 1 * WeightOf(e.dataType))
      BY <2>1, RankType DEF Rank
    <3>2. Rank(e) < 1 * WeightOf(e.dataType)
      BY <2>3, Weights
    <3> QED
      BY <3>1, <3>2
  <2>5. ASSUME NEW b \in Picked PROVE Rank(b) \in Nat /\ Rank(b) < WeightOf(b.dataType)
    <3>1. b \in window /\ b # e /\ ~ServedBefore(window, e, b)
      BY <2>1, <2>3 DEF IInv, InitialSegment
    <3>2. ServedBefore(window, b, e)
      BY <2>1, <3>1, ServedTotal
    <3>3. RoundOf(window, b) \in Nat /\ RoundOf(window, b) <= 0
      BY <2>1, <2>4, <3>1, <3>2, RankType DEF ServedBefore
    <3>4. RoundOf(window, b) < 1
      BY <3>3
    <3>5. Rank(b) < 1 * WeightOf(b.dataType)
      BY <2>1, <3>1, <3>4, RankType DEF Rank
    <3> QED
      BY <2>1, <3>1, <3>5, SizeType, Weights
  <2> DEFINE place == << c.dataType, 0 >>
             rest == PlacesOfRound \ {place}
             f == [b \in Picked |-> << b.dataType, Rank(b) >>]
  <2>6. place \in PlacesOfRound
    BY Weights DEF PlacesOfRound, OneRound
  <2>7. \A b \in Picked : << b.dataType, Rank(b) >> \in rest
    <3> SUFFICES ASSUME NEW b \in Picked PROVE << b.dataType, Rank(b) >> \in rest
      OBVIOUS
    <3>1. b \in window /\ Rank(b) \in 0 .. 2
      BY <2>1, <2>5, Weights
    <3>2. << b.dataType, Rank(b) >> \in PlacesOfRound
      BY <2>5, <3>1 DEF PlacesOfRound, OneRound
    <3> QED
      BY <3>2
  <2>8. \A a, b \in Picked : f[a] = f[b] => a = b
    BY <2>1, RankInjective DEF Rank
  <2>9. f \in [Picked -> rest]
    BY <2>7
  <2> HIDE DEF f, rest
  <2>10. f \in Injection(Picked, rest)
    BY <2>8, <2>9 DEF Injection, IsInjective
  <2>11. IsFiniteSet(PlacesOfRound) /\ Cardinality(PlacesOfRound) \in Nat
    BY PlacesFinite, FS_CardinalityType DEF IInv
  <2>12. IsFiniteSet(rest) /\ Cardinality(rest) = Cardinality(PlacesOfRound) - 1
    BY <2>6, <2>11, FS_RemoveElement DEF rest
  <2>13. Cardinality(Picked) <= Cardinality(rest)
    BY <2>10, <2>12, FS_Injection
  <2> QED
    BY <2>2, <2>11, <2>12, <2>13, Limits
<1> QED
  BY <1>1, IInvHolds, PTL

(* The exit `if !progress { break }` (data_dispatcher.go:254-256) is never *)
(* taken: a window that enters the loop is larger than the batch.          *)
THEOREM LoopAlwaysProgresses == Spec => [](pc = "picking" => ~GaveUp)
<1> QED
  BY IInvHolds, ProgressIsMade, PTL

============================================================================
