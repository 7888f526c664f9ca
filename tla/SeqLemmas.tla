------------------------------ MODULE SeqLemmas ------------------------------
(***************************************************************************)
(* What the list operations of nlist.c do to a list without repetitions:   *)
(* nlist_append adds an element at the end, nlist_unlink takes one out and *)
(* leaves the order of the others.  A queue, such as the backlog of a      *)
(* socket, loses its first element.  Some facts about Min and Max.         *)
(***************************************************************************)
EXTENDS Integers, SequencesExt, Order, SequenceTheorems, FiniteSetTheorems,
        FunctionTheorems, WellFoundedInduction, TLAPS

\* What is in a sequence over S is in S.
LEMMA ToSetType ==
  ASSUME NEW S, NEW s \in Seq(S)
  PROVE  /\ ToSet(s) \subseteq S
         /\ \A i \in 1..Len(s) : s[i] \in ToSet(s)
         /\ \A x \in ToSet(s) : \E i \in 1..Len(s) : s[i] = x
BY ElementOfSeq, LenProperties DEF ToSet

\* The empty list has no elements.
LEMMA ToSetEmpty == ToSet(<<>>) = {}
BY DEF ToSet

\* Append adds one element, and keeps a list free of repetitions if the
\* element is new.
LEMMA AppendFacts ==
  ASSUME NEW S, NEW s \in Seq(S), NEW x \in S
  PROVE  /\ Append(s, x) \in Seq(S)
         /\ ToSet(Append(s, x)) = ToSet(s) \cup {x}
         /\ IsInjective(s) /\ x \notin ToSet(s) => IsInjective(Append(s, x))
<1> DEFINE t == Append(s, x)
<1>1. /\ t \in Seq(S) /\ Len(t) = Len(s) + 1 /\ Len(s) \in Nat
      /\ \A i \in 1..Len(s) : t[i] = s[i]
      /\ t[Len(s) + 1] = x
      /\ DOMAIN t = 1..(Len(s) + 1) /\ DOMAIN s = 1..Len(s)
  BY AppendProperties, LenProperties
<1> HIDE DEF t
<1>2. ToSet(t) = ToSet(s) \cup {x}
  BY <1>1 DEF ToSet
<1>3. ASSUME IsInjective(s), x \notin ToSet(s)
      PROVE  IsInjective(t)
  BY <1>1, <1>3 DEF IsInjective, ToSet
<1>4. QED
  BY <1>1, <1>2, <1>3 DEF t

\* RemoveAt takes one element out of a list and shifts those after it.
LEMMA RemoveAtElements ==
  ASSUME NEW S, NEW s \in Seq(S), NEW i \in 1..Len(s)
  PROVE  /\ RemoveAt(s, i) \in Seq(S)
         /\ Len(RemoveAt(s, i)) = Len(s) - 1
         /\ \A j \in 1..(Len(s) - 1) :
              RemoveAt(s, i)[j] = IF j < i THEN s[j] ELSE s[j + 1]
<1> DEFINE front == SubSeq(s, 1, i - 1)
           back == SubSeq(s, i + 1, Len(s))
<1>1. Len(s) \in Nat /\ i \in Nat /\ i >= 1 /\ i <= Len(s)
  BY LenProperties
<1>2. \A j \in 1..Len(s) : s[j] \in S
  BY ElementOfSeq
<1>3. /\ front \in Seq(S) /\ Len(front) = i - 1
      /\ \A j \in 1..(i - 1) : front[j] = s[j]
  <2>1. \A j \in 1..(i - 1) : s[j] \in S
    BY <1>1, <1>2
  <2>2. 1 \in Int /\ i - 1 \in Int
    BY <1>1
  <2>3. /\ front \in Seq(S)
        /\ Len(front) = IF 1 <= i - 1 THEN i - 1 - 1 + 1 ELSE 0
        /\ \A j \in 1..(i - 1 - 1 + 1) : front[j] = s[1 + j - 1]
    BY <2>1, <2>2, SubSeqProperties
  <2>4. QED
    BY <1>1, <2>3
<1>4. /\ back \in Seq(S) /\ Len(back) = Len(s) - i
      /\ \A j \in 1..(Len(s) - i) : back[j] = s[i + j]
  <2>1. \A j \in (i + 1)..Len(s) : s[j] \in S
    BY <1>1, <1>2
  <2>2. i + 1 \in Int /\ Len(s) \in Int
    BY <1>1
  <2>3. /\ back \in Seq(S)
        /\ Len(back) = IF i + 1 <= Len(s) THEN Len(s) - (i + 1) + 1 ELSE 0
        /\ \A j \in 1..(Len(s) - (i + 1) + 1) : back[j] = s[i + 1 + j - 1]
    BY <2>1, <2>2, SubSeqProperties
  <2>4. QED
    BY <1>1, <2>3
<1> HIDE DEF front, back
<1>5. /\ front \o back \in Seq(S)
      /\ Len(front \o back) = Len(front) + Len(back)
      /\ \A j \in 1..(Len(front) + Len(back)) :
           (front \o back)[j] = IF j <= Len(front) THEN front[j]
                                ELSE back[j - Len(front)]
  BY <1>3, <1>4, ConcatProperties
<1>6. ASSUME NEW j \in 1..(Len(s) - 1)
      PROVE  (front \o back)[j] = IF j < i THEN s[j] ELSE s[j + 1]
  <2>1. CASE j < i
    BY <1>1, <1>3, <1>4, <1>5, <2>1
  <2>2. CASE ~(j < i)
    <3>1. j - (i - 1) \in 1..(Len(s) - i) /\ i + (j - (i - 1)) = j + 1
      BY <1>1, <2>2
    <3>2. (front \o back)[j] = back[j - (i - 1)]
      BY <1>1, <1>3, <1>4, <1>5, <2>2
    <3>3. QED
      BY <1>4, <2>2, <3>1, <3>2
  <2>3. QED
    BY <2>1, <2>2
<1>7. RemoveAt(s, i) = front \o back
  BY DEF RemoveAt, front, back
<1>8. Len(RemoveAt(s, i)) = Len(s) - 1
  <2>1. Len(front \o back) = (i - 1) + (Len(s) - i)
    BY <1>3, <1>4, <1>5
  <2>2. QED
    BY <1>1, <1>7, <2>1
<1>9. RemoveAt(s, i) \in Seq(S)
  BY <1>5, <1>7
<1>10. \A j \in 1..(Len(s) - 1) :
         RemoveAt(s, i)[j] = IF j < i THEN s[j] ELSE s[j + 1]
  BY <1>6, <1>7
<1>11. QED
  BY <1>8, <1>9, <1>10

\* What is left has lost that one element and still has no repetitions.
LEMMA RemoveAtFacts ==
  ASSUME NEW S, NEW s \in Seq(S), NEW i \in 1..Len(s), IsInjective(s)
  PROVE  /\ RemoveAt(s, i) \in Seq(S)
         /\ ToSet(RemoveAt(s, i)) = ToSet(s) \ {s[i]}
         /\ IsInjective(RemoveAt(s, i))
<1> DEFINE t == RemoveAt(s, i)
<1>1. /\ t \in Seq(S) /\ Len(t) = Len(s) - 1 /\ Len(s) \in Nat /\ Len(s) >= 1
      /\ \A j \in 1..(Len(s) - 1) : t[j] = IF j < i THEN s[j] ELSE s[j + 1]
      /\ DOMAIN t = 1..(Len(s) - 1) /\ DOMAIN s = 1..Len(s)
  BY RemoveAtElements, LenProperties
<1> HIDE DEF t
<1>2. \A j, k \in 1..Len(s) : s[j] = s[k] => j = k
  BY <1>1 DEF IsInjective
<1>3. ToSet(t) \subseteq ToSet(s) \ {s[i]}
  BY <1>1, <1>2 DEF ToSet
<1>4. ASSUME NEW k \in 1..Len(s), s[k] # s[i]
      PROVE  s[k] \in ToSet(t)
  <2>1. CASE k < i
    <3>1. k \in 1..(Len(s) - 1) /\ t[k] = s[k]
      BY <1>1, <2>1
    <3>2. QED
      BY <1>1, <3>1 DEF ToSet
  <2>2. CASE k > i
    <3>1. k - 1 \in 1..(Len(s) - 1) /\ t[k - 1] = s[k]
      BY <1>1, <2>2
    <3>2. QED
      BY <1>1, <3>1 DEF ToSet
  <2>3. QED
    BY <1>1, <1>4, <2>1, <2>2
<1>5. ToSet(t) = ToSet(s) \ {s[i]}
  BY <1>1, <1>3, <1>4 DEF ToSet
<1>6. IsInjective(t)
  BY <1>1, <1>2 DEF IsInjective
<1>7. QED
  BY <1>1, <1>5, <1>6 DEF t

\* A queue without repetitions loses its first element, and only that.
LEMMA TailFacts ==
  ASSUME NEW S, NEW s \in Seq(S), IsInjective(s), s # <<>>
  PROVE  /\ Head(s) \in S /\ Head(s) \in ToSet(s)
         /\ Tail(s) \in Seq(S)
         /\ ToSet(Tail(s)) = ToSet(s) \ {Head(s)}
         /\ IsInjective(Tail(s))
<1> DEFINE t == Tail(s)
<1>1. /\ Len(s) \in Nat \ {0} /\ Head(s) \in S /\ t \in Seq(S) /\ Len(t) = Len(s) - 1
      /\ \A i \in 1..(Len(s) - 1) : t[i] = s[i + 1]
      /\ DOMAIN t = 1..(Len(s) - 1) /\ DOMAIN s = 1..Len(s)
  BY HeadTailProperties, LenProperties, EmptySeq
<1>2. Head(s) = s[1]
  OBVIOUS
<1> HIDE DEF t
<1>3. \A j, k \in 1..Len(s) : s[j] = s[k] => j = k
  BY <1>1 DEF IsInjective
<1>4. ToSet(t) \subseteq ToSet(s) \ {s[1]}
  BY <1>1, <1>3 DEF ToSet
<1>5. ASSUME NEW k \in 1..Len(s), s[k] # s[1]
      PROVE  s[k] \in ToSet(t)
  <2>1. k - 1 \in 1..(Len(s) - 1) /\ t[k - 1] = s[k]
    BY <1>1, <1>5
  <2>2. QED
    BY <1>1, <2>1 DEF ToSet
<1>6. ToSet(t) = ToSet(s) \ {s[1]}
  <2>1. \A x \in ToSet(s) : \E k \in 1..Len(s) : x = s[k]
    BY <1>1 DEF ToSet
  <2>2. QED
    BY <1>4, <1>5, <2>1
<1>7. s[1] \in ToSet(s)
  BY <1>1 DEF ToSet
<1>8. IsInjective(t)
  BY <1>1, <1>3 DEF IsInjective
<1>9. QED
  BY <1>1, <1>2, <1>6, <1>7, <1>8 DEF t

-----------------------------------------------------------------------------
\* A set of natural numbers has a least element, and Min is that.
Less == {pair \in Nat \X Nat : pair[1] < pair[2]}

LEMMA LessWellFounded == IsWellFoundedOn(Less, Nat)
BY NatLessThanWellFounded DEF OpToRel, Less

LEMMA MinFacts ==
  ASSUME NEW S \in SUBSET Nat, S # {}
  PROVE  Min(S) \in S /\ \A y \in S : Min(S) <= y
<1>1. PICK x \in S : \A y \in S : ~(<<y, x>> \in Less)
  BY LessWellFounded, WFMin
<1>2. ASSUME NEW y \in S PROVE x <= y
  <2>1. x \in Nat /\ y \in Nat
    OBVIOUS
  <2>2. y < x => <<y, x>> \in Less
    BY <2>1 DEF Less
  <2>3. QED
    BY <1>1, <2>1, <2>2
<1>3. QED
  BY <1>2 DEF Min

LEMMA MaxFacts ==
  ASSUME NEW S \in SUBSET Nat, S # {}, NEW n \in Nat, \A y \in S : y <= n
  PROVE  Max(S) \in S /\ \A y \in S : y <= Max(S)
<1> DEFINE T == {n - y : y \in S}
<1>1. T \in SUBSET Nat /\ T # {}
  <2>1. \A y \in S : n - y \in Nat
    OBVIOUS
  <2>2. QED
    BY <2>1
<1>2. Min(T) \in T /\ \A z \in T : Min(T) <= z
  BY <1>1, MinFacts
<1>3. PICK x \in S : Min(T) = n - x
  BY <1>2
<1>4. ASSUME NEW y \in S PROVE y <= x
  <2>1. Min(T) <= n - y
    BY <1>2
  <2>2. QED
    BY <1>3, <2>1
<1>5. QED
  BY <1>4 DEF Max

LEMMA MinOfTwo ==
  ASSUME NEW a \in Int, NEW b \in Int
  PROVE  Min({a, b}) = IF a <= b THEN a ELSE b
<1> DEFINE m == IF a <= b THEN a ELSE b
<1>1. m \in {a, b} /\ \A y \in {a, b} : m <= y
  OBVIOUS
<1>2. \A x \in {a, b} : (\A y \in {a, b} : x <= y) => x = m
  OBVIOUS
<1> HIDE DEF m
<1>3. Min({a, b}) = m
  BY <1>1, <1>2 DEF Min
<1>4. QED
  BY <1>3 DEF m

LEMMA MaxOfTwo ==
  ASSUME NEW a \in Int, NEW b \in Int
  PROVE  Max({a, b}) = IF a >= b THEN a ELSE b
<1> DEFINE m == IF a >= b THEN a ELSE b
<1>1. m \in {a, b} /\ \A y \in {a, b} : m >= y
  OBVIOUS
<1>2. \A x \in {a, b} : (\A y \in {a, b} : x >= y) => x = m
  OBVIOUS
<1> HIDE DEF m
<1>3. Max({a, b}) = m
  BY <1>1, <1>2 DEF Max
<1>4. QED
  BY <1>3 DEF m

-----------------------------------------------------------------------------
\* What read and write do to a stream of bytes: the first k are cut off.
LEMMA CutFacts ==
  ASSUME NEW S, NEW s \in Seq(S), NEW k \in 0..Len(s)
  PROVE  /\ SubSeq(s, 1, k) \in Seq(S) /\ Len(SubSeq(s, 1, k)) = k
         /\ SubSeq(s, k + 1, Len(s)) \in Seq(S)
         /\ Len(SubSeq(s, k + 1, Len(s))) = Len(s) - k
         /\ SubSeq(s, 1, k) \o SubSeq(s, k + 1, Len(s)) = s
<1>1. Len(s) \in Nat /\ \A i \in 1..Len(s) : s[i] \in S
  BY LenProperties, ElementOfSeq
<1>2. /\ SubSeq(s, 1, k) \in Seq(S)
      /\ Len(SubSeq(s, 1, k)) = IF 1 <= k THEN k - 1 + 1 ELSE 0
  <2>1. \A i \in 1..k : s[i] \in S
    BY <1>1
  <2>2. 1 \in Int /\ k \in Int
    BY <1>1
  <2>3. QED
    BY <2>1, <2>2, SubSeqProperties
<1>3. /\ SubSeq(s, k + 1, Len(s)) \in Seq(S)
      /\ Len(SubSeq(s, k + 1, Len(s))) =
           IF k + 1 <= Len(s) THEN Len(s) - (k + 1) + 1 ELSE 0
  <2>1. \A i \in (k + 1)..Len(s) : s[i] \in S
    BY <1>1
  <2>2. k + 1 \in Int /\ Len(s) \in Int
    BY <1>1
  <2>3. QED
    BY <2>1, <2>2, SubSeqProperties
<1>4. SubSeq(s, 1, k) \o SubSeq(s, k + 1, Len(s)) = s
  <2>1. 1 \in 1..(Len(s) + 1) /\ k \in (1 - 1)..Len(s) /\ Len(s) \in k..Len(s)
    BY <1>1
  <2>2. SubSeq(s, 1, k) \o SubSeq(s, k + 1, Len(s)) = SubSeq(s, 1, Len(s))
    BY <2>1, ConcatAdjacentSubSeq
  <2>3. QED
    BY <2>2, SubSeqFull
<1>5. /\ Len(SubSeq(s, 1, k)) = k
      /\ Len(SubSeq(s, k + 1, Len(s))) = Len(s) - k
  <2>1. /\ (IF 1 <= k THEN k - 1 + 1 ELSE 0) = k
        /\ (IF k + 1 <= Len(s) THEN Len(s) - (k + 1) + 1 ELSE 0) = Len(s) - k
    BY <1>1
  <2>2. QED
    BY <1>2, <1>3, <2>1
<1>6. QED
  BY <1>2, <1>3, <1>4, <1>5

\* The same of what lies behind the first c.
LEMMA CutBehind ==
  ASSUME NEW S, NEW s \in Seq(S), NEW c \in 0..Len(s), NEW k \in 0..(Len(s) - c)
  PROVE  /\ SubSeq(s, c + 1, c + k) \in Seq(S)
         /\ SubSeq(s, c + k + 1, Len(s)) \in Seq(S)
         /\ SubSeq(s, c + 1, c + k) \o SubSeq(s, c + k + 1, Len(s))
              = SubSeq(s, c + 1, Len(s))
<1>1. Len(s) \in Nat /\ \A i \in 1..Len(s) : s[i] \in S
  BY LenProperties, ElementOfSeq
<1>2. SubSeq(s, c + 1, c + k) \in Seq(S)
  <2>1. \A i \in (c + 1)..(c + k) : s[i] \in S
    BY <1>1
  <2>2. c + 1 \in Int /\ c + k \in Int
    BY <1>1
  <2>3. QED
    BY <2>1, <2>2, SubSeqProperties
<1>3. SubSeq(s, c + k + 1, Len(s)) \in Seq(S)
  <2>1. c + k \in 0..Len(s)
    BY <1>1
  <2>2. QED
    BY <2>1, CutFacts
<1>4. c + 1 \in 1..(Len(s) + 1) /\ c + k \in (c + 1 - 1)..Len(s)
      /\ Len(s) \in (c + k)..Len(s)
  BY <1>1
<1>5. SubSeq(s, c + 1, c + k) \o SubSeq(s, c + k + 1, Len(s))
        = SubSeq(s, c + 1, Len(s))
  <2> DEFINE m == c + 1
             j == c + k
  <2>1. m \in 1..(Len(s) + 1) /\ j \in (m - 1)..Len(s) /\ Len(s) \in j..Len(s)
    BY <1>4
  <2> HIDE DEF m, j
  <2>2. SubSeq(s, m, j) \o SubSeq(s, j + 1, Len(s)) = SubSeq(s, m, Len(s))
    BY <2>1, ConcatAdjacentSubSeq
  <2>3. QED
    BY <2>2 DEF m, j
<1>6. QED
  BY <1>2, <1>3, <1>5

-----------------------------------------------------------------------------
\* More elements are up to the greater of two.
LEMMA RankMonotone ==
  ASSUME NEW S \in SUBSET Int, IsFiniteSet(S), NEW x \in S, NEW y \in S, x < y
  PROVE  Cardinality(UpTo(S, x)) < Cardinality(UpTo(S, y))
<1> DEFINE A == UpTo(S, x)
           B == UpTo(S, y)
<1>1. A \subseteq S /\ B \subseteq S /\ y \in B /\ A \subseteq B \ {y}
  <2>1. x \in Int /\ y \in Int /\ \A z \in S : z \in Int
    OBVIOUS
  <2>2. \A z \in S : z <= x => z <= y /\ z # y
    BY <2>1
  <2>3. y \in B /\ A \subseteq S /\ B \subseteq S
    BY <2>1 DEF UpTo
  <2>4. \A z \in A : z \in B /\ z # y
    BY <2>2 DEF UpTo
  <2>5. QED
    BY <2>3, <2>4
<1> HIDE DEF A, B
<1>2. IsFiniteSet(B) /\ IsFiniteSet(B \ {y})
  BY <1>1, FS_Subset, FS_RemoveElement
<1>3. Cardinality(B \ {y}) = Cardinality(B) - 1
  BY <1>1, <1>2, FS_RemoveElement
<1>4. /\ Cardinality(A) <= Cardinality(B \ {y})
      /\ Cardinality(A) \in Nat /\ Cardinality(B) \in Nat
  BY <1>1, <1>2, FS_Subset, FS_CardinalityType
<1>5. QED
  BY <1>3, <1>4 DEF A, B

\* As many numbers are there, so many elements have as many up to them.
LEMMA RankExists ==
  ASSUME NEW S \in SUBSET Int, IsFiniteSet(S)
  PROVE  /\ Cardinality(S) \in Nat
         /\ \A x \in S : Cardinality(UpTo(S, x)) \in 1..Cardinality(S)
         /\ \A i \in 1..Cardinality(S) : \E x \in S : Cardinality(UpTo(S, x)) = i
<1> DEFINE n == Cardinality(S)
           f == [x \in S |-> Cardinality(UpTo(S, x))]
<1>1. n \in Nat
  BY FS_CardinalityType
<1>2. ASSUME NEW x \in S PROVE f[x] \in 1..n
  <2>1. UpTo(S, x) \subseteq S /\ x \in UpTo(S, x)
    BY DEF UpTo
  <2>2. /\ IsFiniteSet(UpTo(S, x)) /\ Cardinality(UpTo(S, x)) <= n
        /\ Cardinality(UpTo(S, x)) \in Nat
    BY <2>1, FS_Subset, FS_CardinalityType
  <2>3. Cardinality(UpTo(S, x)) # 0
    BY <2>1, <2>2, FS_EmptySet
  <2>4. QED
    BY <1>1, <2>2, <2>3
<1>3. ASSUME NEW x \in S, NEW y \in S, f[x] = f[y] PROVE x = y
  <2>1. x \in Int /\ y \in Int
    OBVIOUS
  <2>2. ~(x < y) /\ ~(y < x)
    BY <1>1, <1>2, <1>3, RankMonotone
  <2>3. QED
    BY <2>1, <2>2
<1>4. f \in Injection(S, 1..n)
  BY <1>2, <1>3 DEF Injection, IsInjective
<1>5. IsFiniteSet(1..n) /\ Cardinality(1..n) = n
  BY <1>1, FS_Interval
<1>6. f \in Surjection(S, 1..n)
  BY <1>4, <1>5, FS_Injection
<1>7. \A i \in 1..n : \E x \in S : f[x] = i
  BY <1>6 DEF Surjection
<1>8. QED
  BY <1>1, <1>2, <1>7

\* InOrder(S) has each element of S once, the smaller ones first.
LEMMA InOrderFacts ==
  ASSUME NEW S \in SUBSET Int, IsFiniteSet(S)
  PROVE  LET q == InOrder(S)
             n == Cardinality(S)
         IN /\ n \in Nat /\ q \in Seq(S) /\ Len(q) = n
            /\ \A i \in 1..n : q[i] \in S /\ Cardinality(UpTo(S, q[i])) = i
            /\ \A x \in S : \E i \in 1..n : q[i] = x
            /\ \A i, j \in 1..n : i < j => q[i] < q[j]
            /\ \A i, j \in 1..n : q[i] = q[j] => i = j
<1> DEFINE q == InOrder(S)
           n == Cardinality(S)
<1>1. /\ n \in Nat
      /\ \A x \in S : Cardinality(UpTo(S, x)) \in 1..n
      /\ \A i \in 1..n : \E x \in S : Cardinality(UpTo(S, x)) = i
  BY RankExists
<1>2. q = [i \in 1..n |-> CHOOSE x \in S : Cardinality(UpTo(S, x)) = i]
  BY DEF InOrder
<1>3. ASSUME NEW i \in 1..n
      PROVE  q[i] \in S /\ Cardinality(UpTo(S, q[i])) = i
  BY <1>1, <1>2
<1> HIDE DEF q, n
<1>4. q \in Seq(S) /\ Len(q) = n
  BY <1>1, <1>2, <1>3, SeqDef
<1>5. ASSUME NEW x \in S, NEW y \in S, Cardinality(UpTo(S, x)) = Cardinality(UpTo(S, y))
      PROVE  x = y
  <2>1. ~(x < y) /\ ~(y < x)
    BY <1>1, <1>5, RankMonotone
  <2>2. x \in Int /\ y \in Int
    OBVIOUS
  <2>3. QED
    BY <2>1, <2>2
<1>6. ASSUME NEW x \in S PROVE \E i \in 1..n : q[i] = x
  <2>1. Cardinality(UpTo(S, x)) \in 1..n
    BY <1>1
  <2>2. QED
    BY <1>3, <1>5, <2>1
<1>7. ASSUME NEW i \in 1..n, NEW j \in 1..n, i < j
      PROVE  q[i] < q[j]
  <2>1. q[i] # q[j] /\ q[i] \in S /\ q[j] \in S
    BY <1>1, <1>3, <1>7
  <2>2. ~(q[j] < q[i])
    <3>1. SUFFICES ASSUME q[j] < q[i] PROVE FALSE
      OBVIOUS
    <3>2. Cardinality(UpTo(S, q[j])) < Cardinality(UpTo(S, q[i]))
      BY <2>1, <3>1, RankMonotone
    <3>3. QED
      BY <1>1, <1>3, <1>7, <3>2
  <2>3. q[i] \in Int /\ q[j] \in Int
    BY <2>1
  <2>4. QED
    BY <2>1, <2>2, <2>3
<1>8. ASSUME NEW i \in 1..n, NEW j \in 1..n, q[i] = q[j]
      PROVE  i = j
  BY <1>3, <1>8
<1>9. QED
  BY <1>1, <1>3, <1>4, <1>6, <1>7, <1>8 DEF q, n

-----------------------------------------------------------------------------
(***************************************************************************)
(* Recursive functions.  G says what the value at x is, given the function *)
(* itself, of which it looks only at arguments of smaller rank.  Then      *)
(* there is such a function.                                               *)
(***************************************************************************)
Smaller(r, x, f, g) == \A y \in DOMAIN r : r[y] < r[x] => f[y] = g[y]

Recursive(D, V, N, r, G) ==
  /\ N \in Nat /\ r \in [D -> 0..N] /\ G \in [D -> [[D -> V] -> V]]
  /\ \A x \in D : \A f, g \in [D -> V] : Smaller(r, x, f, g) => G[x][f] = G[x][g]

LEMMA RecursionExists ==
  ASSUME NEW D, NEW V, V # {}, NEW N, NEW r, NEW G, Recursive(D, V, N, r, G)
  PROVE  \E f \in [D -> V] : \A x \in D : f[x] = G[x][f]
<1> USE DEF Recursive
<1> DEFINE Upto(n, f) == \A x \in D : r[x] < n => f[x] = G[x][f]
           Bad == {n \in Nat : ~\E f \in [D -> V] : Upto(n, f)}
<1>1. Bad = {}
  <2>1. SUFFICES ASSUME Bad # {} PROVE FALSE
    OBVIOUS
  <2>2. PICK n \in Bad : \A m \in Bad : ~(<<m, n>> \in Less)
    BY <2>1, LessWellFounded, WFMin
  <2>3. n # 0
    <3> PICK v \in V : TRUE
      OBVIOUS
    <3>1. [x \in D |-> v] \in [D -> V] /\ Upto(0, [x \in D |-> v])
      OBVIOUS
    <3>2. QED
      BY <3>1
  <2>4. n \in Nat /\ n - 1 \in Nat /\ <<n - 1, n>> \in Less
    BY <2>3 DEF Less
  <2>5. PICK f \in [D -> V] : Upto(n - 1, f)
    BY <2>2, <2>4
  <2> DEFINE g == [x \in D |-> IF r[x] < n - 1 THEN f[x] ELSE G[x][f]]
  <2>6. g \in [D -> V]
    OBVIOUS
  <2>7. ASSUME NEW x \in D, r[x] < n
        PROVE  g[x] = G[x][f] /\ G[x][f] = G[x][g]
    <3>1. g[x] = G[x][f]
      BY <2>5
    <3>2. Smaller(r, x, f, g)
      <4>1. ASSUME NEW y \in D, r[y] < r[x] PROVE f[y] = g[y]
        BY <2>4, <2>7, <4>1
      <4>2. QED
        BY <4>1 DEF Smaller
    <3>3. QED
      BY <2>6, <3>1, <3>2
  <2>8. Upto(n, g)
    BY <2>7
  <2>9. QED
    BY <2>2, <2>6, <2>8
<1>2. \A n \in Nat : n \in Bad <=> ~\E f \in [D -> V] : Upto(n, f)
  OBVIOUS
<1> HIDE DEF Bad, Upto
<1>3. N + 1 \in Nat /\ N + 1 \notin Bad
  BY <1>1
<1>4. PICK f \in [D -> V] : Upto(N + 1, f)
  BY <1>2, <1>3
<1> USE DEF Upto
<1>5. ASSUME NEW x \in D PROVE f[x] = G[x][f]
  <2>1. r[x] < N + 1
    OBVIOUS
  <2>2. QED
    BY <1>4, <2>1
<1>6. QED
  BY <1>5

\* Induction downwards: what holds at x if it does at all after x, holds.
LEMMA InductionDown ==
  ASSUME NEW n \in Nat, NEW A,
         \A x \in 1..n : (\A y \in x + 1..n : y \in A) => x \in A
  PROVE  1..n \subseteq A
<1> DEFINE Bad == {k \in Nat : \E x \in 1..n : k = n - x /\ x \notin A}
<1>1. SUFFICES ASSUME Bad # {} PROVE FALSE
  <2>1. ASSUME NEW x \in 1..n, x \notin A PROVE n - x \in Bad
    BY <2>1
  <2>2. QED
    BY <2>1
<1>2. PICK k \in Bad : \A j \in Bad : ~(<<j, k>> \in Less)
  BY <1>1, LessWellFounded, WFMin
<1>3. PICK x \in 1..n : k = n - x /\ x \notin A
  OBVIOUS
<1>4. ASSUME NEW y \in x + 1..n PROVE y \in A
  <2>1. y \in 1..n /\ n - y \in Nat /\ n - x \in Nat /\ n - y < n - x
    OBVIOUS
  <2>2. <<n - y, k>> \in Less
    BY <1>3, <2>1 DEF Less
  <2>3. n - y \notin Bad
    BY <1>2, <2>2
  <2>4. QED
    BY <2>1, <2>3
<1>5. QED
  BY <1>3, <1>4

\* ... and upwards.
LEMMA InductionUp ==
  ASSUME NEW A, \A n \in Nat : (\A m \in 0..n - 1 : m \in A) => n \in A
  PROVE  Nat \subseteq A
<1> DEFINE Bad == Nat \ A
<1>1. SUFFICES ASSUME Bad # {} PROVE FALSE
  OBVIOUS
<1>2. PICK n \in Bad : \A m \in Bad : ~(<<m, n>> \in Less)
  BY <1>1, LessWellFounded, WFMin
<1>3. ASSUME NEW m \in 0..n - 1 PROVE m \in A
  <2>1. <<m, n>> \in Less
    BY DEF Less
  <2>2. QED
    BY <1>2, <2>1
<1>4. QED
  BY <1>2, <1>3

=============================================================================
