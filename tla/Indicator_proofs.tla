--------------------------- MODULE Indicator_proofs ---------------------------
(***************************************************************************)
(* Theorems about Indicator and ConfigFile: the four functions that walk   *)
(* over an indicator string agree on it, for every string.                 *)
(***************************************************************************)
EXTENDS Indicator, ConfigFile, SeqLemmas

Bytes == Seq(STRING)

-----------------------------------------------------------------------------
(***************************************************************************)
(* The functions of the C library.                                         *)
(***************************************************************************)

\* What is left of a string from a position on.
LEMMA FromFacts ==
  ASSUME NEW s \in Bytes, NEW p \in 1..Len(s) + 1
  PROVE  /\ From(s, p) \in Bytes /\ Len(From(s, p)) = Len(s) - p + 1
         /\ \A i \in 1..Len(s) - p + 1 : From(s, p)[i] = s[p + i - 1]
<1>1. Len(s) \in Nat /\ p \in Int /\ \A i \in p..Len(s) : s[i] \in STRING
  BY LenProperties, ElementOfSeq DEF Bytes
<1>2. /\ SubSeq(s, p, Len(s)) \in Seq(STRING)
      /\ Len(SubSeq(s, p, Len(s))) = IF p <= Len(s) THEN Len(s) - p + 1 ELSE 0
      /\ \A i \in 1..Len(s) - p + 1 : SubSeq(s, p, Len(s))[i] = s[p + i - 1]
  BY <1>1, SubSeqProperties
<1>3. QED
  BY <1>1, <1>2 DEF From, Bytes

\* strchr finds the first one.
LEMMA StrchrFacts ==
  ASSUME NEW s \in Bytes, NEW p \in 1..Len(s) + 1, NEW c
  PROVE  \/ strchr(s, p, c) = 0 /\ \A q \in p..Len(s) : s[q] # c
         \/ /\ strchr(s, p, c) \in p..Len(s)
            /\ s[strchr(s, p, c)] = c
            /\ \A q \in p..strchr(s, p, c) - 1 : s[q] # c
<1> DEFINE t == From(s, p)
           I == {i \in 1..Len(t) : t[i] = c}
           at == SelectInSeq(t, LAMBDA b : b = c)
<1>1. /\ t \in Bytes /\ Len(t) = Len(s) - p + 1 /\ Len(s) \in Nat
      /\ \A i \in 1..Len(s) - p + 1 : t[i] = s[p + i - 1]
  BY FromFacts, LenProperties DEF Bytes
<1>2. at = IF I # {} THEN Min(I) ELSE 0
  BY DEF SelectInSeq
<1>3. strchr(s, p, c) = IF at = 0 THEN 0 ELSE p + at - 1
  BY DEF strchr
<1>4. I \in SUBSET Nat /\ \A i \in I : i > 0
  BY <1>1
<1> HIDE DEF t, at
<1>5. CASE I = {}
  <2>1. \A q \in p..Len(s) : s[q] # c
    <3>1. ASSUME NEW q \in p..Len(s), s[q] = c PROVE FALSE
      <4>1. q - p + 1 \in 1..Len(t) /\ t[q - p + 1] = s[q]
        BY <1>1
      <4>2. QED
        BY <1>5, <3>1, <4>1
    <3>2. QED
      BY <3>1
  <2>2. QED
    BY <1>2, <1>3, <1>5, <2>1
<1>6. CASE I # {}
  <2> DEFINE m == Min(I)
  <2>1. m \in I /\ \A i \in I : m <= i
    BY <1>4, <1>6, MinFacts
  <2> HIDE DEF m
  <2>2. at = m /\ m \in 1..Len(t) /\ t[m] = c
    BY <1>2, <1>6, <2>1 DEF m
  <2>3. strchr(s, p, c) = p + m - 1
    BY <1>3, <2>2
  <2>4. p + m - 1 \in p..Len(s) /\ s[p + m - 1] = c
    BY <1>1, <2>2
  <2>5. ASSUME NEW q \in p..strchr(s, p, c) - 1, s[q] = c PROVE FALSE
    <3>1. q - p + 1 \in 1..Len(t) /\ t[q - p + 1] = s[q] /\ q - p + 1 < m
      BY <1>1, <2>2, <2>3
    <3>2. q - p + 1 \in I
      BY <2>5, <3>1
    <3>3. QED
      BY <1>1, <2>1, <2>2, <3>1, <3>2
  <2>6. \A q \in p..strchr(s, p, c) - 1 : s[q] # c
    BY <2>5
  <2>7. strchr(s, p, c) \in p..Len(s) /\ s[strchr(s, p, c)] = c
    BY <2>3, <2>4
  <2>8. QED
    BY <2>6, <2>7
<1>7. QED
  BY <1>5, <1>6

-----------------------------------------------------------------------------
\* The loop of indicator_validate_cust_str, one turn.
LEMMA WalkStep ==
  ASSUME NEW s \in Bytes, NEW beg \in 1..Len(s)
  PROVE  Walk(s)[beg] = LET end == strchr(s, beg + 1, s[1])
                        IN IF end = 0 THEN beg # 1
                           ELSE end # beg + 1 /\ Walk(s)[end]
<1> DEFINE D == 1..Len(s)
           end(x) == strchr(s, x + 1, s[1])
           body(f, x) == IF end(x) = 0 THEN x # 1
                         ELSE end(x) # x + 1 /\ f[end(x)]
           r == [x \in D |-> Len(s) - x]
           G == [x \in D |-> [f \in [D -> BOOLEAN] |-> body(f, x)]]
<1>1. Len(s) \in Nat
  BY LenProperties DEF Bytes
<1>2. \A x \in D : end(x) = 0 \/ end(x) \in x + 1..Len(s)
  BY <1>1, StrchrFacts
<1> HIDE DEF end
<1>3. r \in [D -> 0..Len(s)]
  BY <1>1
<1>4. \A x \in D : \A f \in [D -> BOOLEAN] : body(f, x) \in BOOLEAN
  BY <1>1, <1>2
<1>5. G \in [D -> [[D -> BOOLEAN] -> BOOLEAN]]
  BY <1>4
<1>6. ASSUME NEW x \in D, NEW f \in [D -> BOOLEAN], NEW g \in [D -> BOOLEAN],
             Smaller(r, x, f, g)
      PROVE  G[x][f] = G[x][g]
  <2>1. end(x) # 0 => end(x) \in D /\ r[end(x)] < r[x]
    BY <1>1, <1>2
  <2>2. end(x) # 0 => f[end(x)] = g[end(x)]
    BY <1>3, <1>6, <2>1 DEF Smaller
  <2>3. body(f, x) = body(g, x)
    BY <2>2
  <2>4. QED
    BY <2>3
<1> HIDE DEF r
<1>7. \E f \in [D -> BOOLEAN] : \A x \in D : f[x] = G[x][f]
  <2> HIDE DEF G, D
  <2>1. BOOLEAN # {}
    OBVIOUS
  <2>2. Recursive(D, BOOLEAN, Len(s), r, G)
    BY <1>1, <1>3, <1>5, <1>6 DEF Recursive
  <2>3. QED
    BY <2>1, <2>2, RecursionExists
<1>8. PICK f \in [D -> BOOLEAN] : f = [x \in D |-> body(f, x)]
  <2>1. PICK f \in [D -> BOOLEAN] : \A x \in D : f[x] = G[x][f]
    BY <1>7
  <2>2. \A x \in D : f[x] = body(f, x)
    BY <2>1
  <2>3. QED
    BY <2>2
<1>9. Walk(s) = [x \in D |-> body(Walk(s), x)]
  BY <1>8 DEF Walk, end
<1>10. QED
  BY <1>9 DEF end

\* A valid string has a second delimiter, and no frame is empty.
LEMMA ValidFacts ==
  ASSUME NEW s \in Bytes, ValidateCustStr(s)
  PROVE  /\ Len(s) \in Nat /\ Len(s) >= 2
         /\ \E q \in 2..Len(s) : s[q] = s[1]
         /\ \A p \in 1..Len(s) - 1 : s[p] = s[1] => s[p + 1] # s[1]
<1> DEFINE n == Len(s)
           Apart(x) == \A p \in x..n - 1 : s[p] = s[1] => s[p + 1] # s[1]
           A == {x \in 1..n : s[x] = s[1] /\ Walk(s)[x] => Apart(x)}
<1>1. n \in Nat /\ n >= 1 /\ Walk(s)[1]
  BY LenProperties, EmptySeq DEF Bytes, ValidateCustStr
<1> HIDE DEF n
<1>2. \E q \in 2..n : s[q] = s[1]
  <2>1. strchr(s, 2, s[1]) # 0
    <3>1. 1 \in 1..Len(s) /\ 1 + 1 = 2
      BY <1>1 DEF n
    <3>2. Walk(s)[1] = IF strchr(s, 1 + 1, s[1]) = 0 THEN 1 # 1
                       ELSE /\ strchr(s, 1 + 1, s[1]) # 1 + 1
                            /\ Walk(s)[strchr(s, 1 + 1, s[1])]
      BY <3>1, WalkStep
    <3>3. QED
      BY <1>1, <3>1, <3>2
  <2>2. strchr(s, 2, s[1]) \in 2..n /\ s[strchr(s, 2, s[1])] = s[1]
    BY <1>1, <2>1, StrchrFacts DEF n
  <2>3. QED
    BY <2>2
<1>3. ASSUME NEW x \in 1..n, \A y \in x + 1..n : y \in A
      PROVE  x \in A
  <2> DEFINE end == strchr(s, x + 1, s[1])
  <2>1. SUFFICES ASSUME s[x] = s[1], Walk(s)[x], NEW p \in x..n - 1, s[p] = s[1]
                 PROVE  s[p + 1] # s[1]
    OBVIOUS
  <2>2. \/ end = 0 /\ \A q \in x + 1..n : s[q] # s[1]
        \/ end \in x + 1..n /\ s[end] = s[1] /\ \A q \in x + 1..end - 1 : s[q] # s[1]
    BY <1>1, StrchrFacts DEF n
  <2>3. end # 0 => end # x + 1 /\ Walk(s)[end]
    BY <2>1, WalkStep DEF n
  <2> HIDE DEF end
  <2>4. p + 1 \in x + 1..n
    BY <1>1
  <2>5. CASE end = 0
    BY <2>2, <2>4, <2>5
  <2>6. CASE end # 0 /\ p < end
    <3>1. p = x
      BY <1>1, <2>1, <2>2, <2>6
    <3>2. p + 1 \in x + 1..end - 1
      BY <1>1, <2>2, <2>3, <2>6, <3>1
    <3>3. QED
      BY <2>2, <2>6, <3>2
  <2>7. CASE end # 0 /\ p >= end
    <3>1. Apart(end)
      BY <1>3, <2>2, <2>3, <2>7
    <3>2. p \in end..n - 1
      BY <1>1, <2>2, <2>7
    <3>3. QED
      BY <2>1, <3>1, <3>2
  <2>8. QED
    BY <1>1, <2>2, <2>5, <2>6, <2>7
<1>4. 1..n \subseteq A
  <2> HIDE DEF A
  <2>1. QED
    BY <1>1, <1>3, InductionDown
<1>5. Apart(1)
  BY <1>1, <1>4
<1>6. QED
  BY <1>1, <1>2, <1>5 DEF n

-----------------------------------------------------------------------------
\* mbtowc does not go beyond the NUL.
LEMMA MbtowcFacts ==
  ASSUME NEW s \in Bytes, NEW p \in 1..Len(s) + 1
  PROVE  /\ mbtowc(s, p) \in {-1, 0, 1, 2}
         /\ mbtowc(s, p) > 0 => /\ p \in 1..Len(s)
                                /\ p + mbtowc(s, p) \in p + 1..Len(s) + 1
<1>1. Len(s) \in Nat
  BY LenProperties DEF Bytes
<1>2. QED
  BY <1>1 DEF mbtowc

\* The loop of indicator_init_str, one turn.
LEMMA LoopStep ==
  ASSUME NEW s \in Bytes, NEW p \in 1..Len(s) + 1
  PROVE  LET q == p + mbtowc(s, p)
             l == Loop(s)
         IN /\ mbtowc(s, p) > 0 /\ (q > Len(s) \/ s[q] # s[1]) => l[p] = l[q]
            /\ mbtowc(s, p) > 0 /\ q <= Len(s) /\ s[q] = s[1] =>
                 l[p] = IF strchr(s, q + 1, s[1]) = 0
                        THEN [frames |-> 1, end |-> q + 1]
                        ELSE [l[q + 1] EXCEPT
                                !.frames = IF @ = -1 THEN -1 ELSE @ + 1]
<1> DEFINE D == 1..Len(s) + 1
           V == [frames : Int, end : Int]
           n(x) == mbtowc(s, x)
           GoesOn(q) == q > Len(s) \/ s[q] # s[1]
           Ends(q) == strchr(s, q + 1, s[1]) = 0
           Val(c, q) == [frames |-> c, end |-> q]
           More(v) == [v EXCEPT !.frames = IF @ = -1 THEN -1 ELSE @ + 1]
           body(f, x) ==
             IF n(x) <= 0 THEN Val(-1, x)
             ELSE IF GoesOn(x + n(x)) THEN f[x + n(x)]
             ELSE IF Ends(x + n(x)) THEN Val(1, x + n(x) + 1)
             ELSE More(f[x + n(x) + 1])
           r == [x \in D |-> Len(s) + 1 - x]
           G == [x \in D |-> [f \in [D -> V] |-> body(f, x)]]
<1>1. Len(s) \in Nat
  BY LenProperties DEF Bytes
<1>2. \A x \in D : /\ n(x) \in {-1, 0, 1, 2}
                   /\ n(x) > 0 => x \in 1..Len(s) /\ x + n(x) \in x + 1..Len(s) + 1
  BY MbtowcFacts
<1>3. r \in [D -> 0..Len(s) + 1]
  BY <1>1
<1>4. /\ \A c, q \in Int : Val(c, q) \in V
      /\ \A v \in V : More(v) \in V
  OBVIOUS
<1>5. V # {}
  <2>1. 0 \in Int
    OBVIOUS
  <2> HIDE DEF V, Value
  <2>2. QED
    BY <1>4, <2>1
<1>6. Loop(s) = CHOOSE f : f = [x \in D |-> body(f, x)]
  BY DEF Loop
<1> HIDE DEF n, V, Val, More, GoesOn, Ends, r
<1>7. ASSUME NEW x \in D
      PROVE  /\ x \in Int /\ n(x) \in Int
             /\ n(x) > 0 => x + n(x) \in D /\ r[x + n(x)] < r[x]
             /\ n(x) > 0 /\ ~GoesOn(x + n(x)) =>
                  x + n(x) + 1 \in D /\ r[x + n(x) + 1] < r[x]
  BY <1>1, <1>2 DEF GoesOn, r
<1>8. ASSUME NEW x \in D, NEW f \in [D -> V]
      PROVE  body(f, x) \in V
  <2>1. CASE n(x) <= 0
    BY <1>4, <1>7, <2>1
  <2>2. CASE ~(n(x) <= 0)
    <3>1. n(x) > 0 /\ x + n(x) + 1 \in Int
      BY <1>7, <2>2
    <3>2. QED
      BY <1>4, <1>7, <2>2, <3>1
  <2>3. QED
    BY <2>1, <2>2
<1>9. G \in [D -> [[D -> V] -> V]]
  BY <1>8
<1>10. ASSUME NEW x \in D, NEW f \in [D -> V], NEW g \in [D -> V],
              Smaller(r, x, f, g)
       PROVE  G[x][f] = G[x][g]
  <2>1. \A y \in D : r[y] < r[x] => f[y] = g[y]
    BY <1>3, <1>10 DEF Smaller
  <2>2. n(x) <= 0 \/ n(x) > 0
    BY <1>7
  <2>3. body(f, x) = body(g, x)
    BY <1>7, <2>1, <2>2
  <2>4. QED
    BY <2>3
<1>11. \E f \in [D -> V] : \A x \in D : f[x] = G[x][f]
  <2> HIDE DEF G, D
  <2> DEFINE N == Len(s) + 1
  <2>1. N \in Nat /\ r \in [D -> 0..N]
    BY <1>1, <1>3
  <2> HIDE DEF N
  <2>2. Recursive(D, V, N, r, G)
    BY <1>9, <1>10, <2>1 DEF Recursive
  <2>3. QED
    BY <1>5, <2>2, RecursionExists
<1>12. PICK f \in [D -> V] : f = [x \in D |-> body(f, x)]
  <2>1. PICK f \in [D -> V] : \A x \in D : f[x] = G[x][f]
    BY <1>11
  <2>2. \A x \in D : f[x] = body(f, x)
    BY <2>1
  <2> HIDE DEF body
  <2>3. QED
    BY <2>2
<1>13. Loop(s) = [x \in D |-> body(Loop(s), x)]
  BY <1>6, <1>12
<1>14. Loop(s)[p] = body(Loop(s), p)
  BY <1>13
<1>15. n(p) \in Int /\ p \in Int /\ Len(s) \in Int /\ (n(p) > 0 => ~(n(p) <= 0))
  BY <1>1, <1>7
<1>16. n(p) > 0 => p + n(p) \in Int
  BY <1>15
<1>17. QED
  BY <1>14, <1>15, <1>16 DEF n, GoesOn, Ends, Val, More

-----------------------------------------------------------------------------
\* The delimiters of a valid string, from the first byte to the last one:
\* strchr takes each of them to the next.
LEMMA DelimiterFacts ==
  ASSUME NEW s \in Bytes, ValidateCustStr(s)
  PROVE  LET at == Delimiters(s)
             n == Cardinality(DelimiterSet(s))
         IN /\ n \in Nat /\ n >= 2 /\ Len(at) = n /\ at[1] = 1
            /\ at \in Seq(1..Len(s))
            /\ \A i \in 1..n : at[i] \in 1..Len(s) /\ s[at[i]] = s[1]
            /\ \A q \in 1..Len(s) : s[q] = s[1] => \E i \in 1..n : at[i] = q
            /\ \A i, j \in 1..n : i < j => at[i] < at[j]
            /\ \A i, j \in 1..n : at[i] = at[j] => i = j
            /\ \A i \in 1..n - 1 : /\ at[i + 1] > at[i] + 1
                                   /\ strchr(s, at[i] + 1, s[1]) = at[i + 1]
            /\ strchr(s, at[n] + 1, s[1]) = 0
<1> DEFINE S == DelimiterSet(s)
           at == Delimiters(s)
           n == Cardinality(S)
<1>1. /\ Len(s) \in Nat /\ Len(s) >= 2
      /\ \E q \in 2..Len(s) : s[q] = s[1]
      /\ \A p \in 1..Len(s) - 1 : s[p] = s[1] => s[p + 1] # s[1]
  BY ValidFacts
<1>2. /\ S \in SUBSET Int /\ S \subseteq 1..Len(s) /\ 1 \in S
      /\ \A q \in 1..Len(s) : q \in S <=> s[q] = s[1]
  BY <1>1 DEF DelimiterSet
<1>3. IsFiniteSet(S)
  <2>1. IsFiniteSet(1..Len(s))
    BY <1>1, FS_Interval
  <2>2. QED
    BY <1>2, <2>1, FS_Subset
<1>4. /\ n \in Nat /\ at \in Seq(S) /\ Len(at) = n
      /\ \A i \in 1..n : at[i] \in S
      /\ \A x \in S : \E i \in 1..n : at[i] = x
      /\ \A i, j \in 1..n : i < j => at[i] < at[j]
      /\ \A i, j \in 1..n : at[i] = at[j] => i = j
  BY <1>2, <1>3, InOrderFacts DEF Delimiters
<1> HIDE DEF S, at, n
<1>5. \A i \in 1..n : at[i] \in 1..Len(s) /\ s[at[i]] = s[1]
  BY <1>2, <1>4
<1>6. \A q \in 1..Len(s) : s[q] = s[1] => \E i \in 1..n : at[i] = q
  BY <1>2, <1>4
<1>7. at \in Seq(1..Len(s))
  <2>1. at = [i \in 1..n |-> at[i]]
    BY <1>4, LenProperties
  <2>2. at \in [1..n -> 1..Len(s)]
    BY <1>5, <2>1
  <2>3. QED
    BY <1>4, <2>2, SeqDef
<1>8. at[1] = 1 /\ n >= 2
  <2>1. PICK i \in 1..n : at[i] = 1
    BY <1>1, <1>6
  <2>2. i = 1
    <3>1. SUFFICES ASSUME i # 1 PROVE FALSE
      OBVIOUS
    <3>2. 1 \in 1..n /\ 1 < i
      BY <1>4, <3>1
    <3>3. at[1] < 1 /\ at[1] \in 1..Len(s)
      BY <1>4, <1>5, <2>1, <3>2
    <3>4. QED
      BY <1>1, <3>3
  <2>3. PICK q \in 2..Len(s) : s[q] = s[1]
    BY <1>1
  <2>4. PICK j \in 1..n : at[j] = q
    BY <1>1, <1>6, <2>3
  <2>5. QED
    BY <1>4, <2>1, <2>2, <2>3, <2>4
<1>9. ASSUME NEW i \in 1..n
      PROVE  LET p == strchr(s, at[i] + 1, s[1])
             IN \/ p = 0 /\ \A q \in at[i] + 1..Len(s) : s[q] # s[1]
                \/ /\ p \in at[i] + 1..Len(s) /\ s[p] = s[1]
                   /\ \A q \in at[i] + 1..p - 1 : s[q] # s[1]
  <2>1. at[i] + 1 \in 1..Len(s) + 1
    BY <1>1, <1>5
  <2>2. QED
    BY <2>1, StrchrFacts
<1>10. ASSUME NEW i \in 1..n - 1
       PROVE  /\ at[i + 1] > at[i] + 1
              /\ strchr(s, at[i] + 1, s[1]) = at[i + 1]
  <2> DEFINE p == strchr(s, at[i] + 1, s[1])
  <2>1. i \in 1..n /\ i + 1 \in 1..n /\ i < i + 1
    BY <1>4
  <2>2. /\ at[i] \in 1..Len(s) /\ at[i + 1] \in 1..Len(s) /\ at[i] < at[i + 1]
        /\ s[at[i]] = s[1] /\ s[at[i + 1]] = s[1]
    BY <1>4, <1>5, <2>1
  <2>3. at[i + 1] # at[i] + 1
    <3>1. at[i] \in 1..Len(s) - 1
      BY <1>1, <2>2
    <3>2. QED
      BY <1>1, <2>2, <3>1
  <2>4. at[i + 1] \in at[i] + 1..Len(s)
    BY <1>1, <2>2
  <2>5. p \in at[i] + 1..Len(s) /\ s[p] = s[1] /\ \A q \in at[i] + 1..p - 1 : s[q] # s[1]
    BY <1>9, <2>1, <2>2, <2>4
  <2> HIDE DEF p
  <2>6. PICK j \in 1..n : at[j] = p
    BY <1>1, <1>6, <2>2, <2>5
  <2>7. i < j
    <3>1. j # i /\ ~(j < i)
      BY <1>1, <1>4, <2>1, <2>2, <2>5, <2>6
    <3>2. QED
      BY <1>4, <2>1, <3>1
  <2>8. ~(i + 1 < j)
    <3>1. SUFFICES ASSUME i + 1 < j PROVE FALSE
      OBVIOUS
    <3>2. at[i + 1] < p
      BY <1>4, <2>1, <2>6, <3>1
    <3>3. at[i + 1] \in at[i] + 1..p - 1
      BY <1>1, <2>2, <2>4, <2>5, <3>2
    <3>4. QED
      BY <2>2, <2>5, <3>3
  <2>9. j = i + 1
    BY <1>4, <2>1, <2>7, <2>8
  <2>10. p = at[i + 1] /\ at[i + 1] > at[i] + 1
    BY <1>1, <2>2, <2>3, <2>6, <2>9
  <2>11. QED
    BY <2>10 DEF p
<1>11. strchr(s, at[n] + 1, s[1]) = 0
  <2> DEFINE p == strchr(s, at[n] + 1, s[1])
  <2>1. n \in 1..n /\ at[n] \in 1..Len(s)
    BY <1>4, <1>5, <1>8
  <2>2. \/ p = 0
        \/ p \in at[n] + 1..Len(s) /\ s[p] = s[1]
    BY <1>9, <2>1
  <2> HIDE DEF p
  <2>3. SUFFICES ASSUME p \in at[n] + 1..Len(s), s[p] = s[1] PROVE FALSE
    BY <2>2 DEF p
  <2>4. PICK j \in 1..n : at[j] = p
    BY <1>1, <1>6, <2>1, <2>3
  <2>5. at[n] < at[j]
    BY <1>1, <2>1, <2>3, <2>4
  <2>6. j = n \/ j < n
    BY <1>4
  <2>7. QED
    BY <1>4, <1>5, <2>1, <2>5, <2>6
<1>12. QED
  BY <1>4, <1>5, <1>6, <1>7, <1>8, <1>10, <1>11 DEF S, at, n

\* The frames of a valid string: one less than delimiters, and none empty.
LEMMA FramesFacts ==
  ASSUME NEW s \in Bytes, ValidateCustStr(s)
  PROVE  LET at == Delimiters(s)
             n == Cardinality(DelimiterSet(s))
             fs == Frames(s)
         IN /\ fs \in Seq(Bytes) /\ Len(fs) = n - 1 /\ fs # <<>>
            /\ \A i \in 1..n - 1 : /\ fs[i] = SubSeq(s, at[i] + 1, at[i + 1] - 1)
                                   /\ fs[i] # <<>>
<1> DEFINE at == Delimiters(s)
           n == Cardinality(DelimiterSet(s))
           fs == Frames(s)
<1>1. /\ n \in Nat /\ n >= 2 /\ Len(at) = n
      /\ \A i \in 1..n : at[i] \in 1..Len(s)
      /\ \A i \in 1..n - 1 : at[i + 1] > at[i] + 1
  BY DelimiterFacts
<1>2. fs = [i \in 1..n - 1 |-> SubSeq(s, at[i] + 1, at[i + 1] - 1)]
  BY <1>1 DEF Frames
<1>3. Len(s) \in Nat /\ \A i \in 1..Len(s) : s[i] \in STRING
  BY LenProperties, ElementOfSeq DEF Bytes
<1> HIDE DEF at, n, fs
<1>4. ASSUME NEW i \in 1..n - 1
      PROVE  fs[i] \in Bytes /\ fs[i] # <<>>
  <2> DEFINE a == at[i] + 1
             b == at[i + 1] - 1
  <2>1. i \in 1..n /\ i + 1 \in 1..n
    BY <1>1
  <2>2. a \in Int /\ b \in Int /\ 1 <= a /\ a <= b /\ b <= Len(s)
    BY <1>1, <1>3, <2>1
  <2>3. fs[i] = SubSeq(s, a, b)
    BY <1>2
  <2> HIDE DEF a, b
  <2>4. \A j \in a..b : s[j] \in STRING
    BY <1>3, <2>2
  <2>5. SubSeq(s, a, b) \in Seq(STRING) /\ Len(SubSeq(s, a, b)) = b - a + 1
    BY <2>2, <2>4, SubSeqProperties
  <2>6. QED
    BY <2>2, <2>3, <2>5, EmptySeq DEF Bytes
<1>5. n - 1 \in Nat
  BY <1>1
<1>6. fs \in Seq(Bytes) /\ Len(fs) = n - 1
  <2>1. fs = [i \in 1..n - 1 |-> fs[i]]
    BY <1>2
  <2>2. fs \in [1..n - 1 -> Bytes]
    BY <1>4, <2>1
  <2>3. fs \in Seq(Bytes)
    BY <1>5, <2>2, SeqDef
  <2>4. QED
    BY <1>5, <2>2, <2>3, LenProperties
<1>7. fs # <<>>
  BY <1>1, <1>5, <1>6, EmptySeq
<1>8. QED
  BY <1>2, <1>4, <1>6, <1>7 DEF at, n, fs

-----------------------------------------------------------------------------
\* In a well-formed string, mbtowc goes from character to character.
LEMMA CharacterFacts ==
  ASSUME NEW s \in Bytes, WellFormed(s), NEW p \in 1..Len(s) - 1, s[p] # "C"
  PROVE  LET q == p + mbtowc(s, p)
         IN /\ \/ q = p + 1
               \/ q = p + 2 /\ s[p + 1] = "C"
            /\ q \in 1..Len(s) => s[q] # "C"
<1>1. Len(s) \in Nat /\ p \in 1..Len(s) /\ p + 1 \in 1..Len(s) /\ p # Len(s)
  BY LenProperties DEF Bytes
<1>2. /\ s[p] = "L" => s[p + 1] = "C"
      /\ \A q \in 2..Len(s) : s[q] = "C" => s[q - 1] = "L"
  BY <1>1 DEF WellFormed
<1>3. CASE s[p] = "L"
  <2>1. mbtowc(s, p) = 2 /\ s[p + 1] = "C"
    BY <1>1, <1>2, <1>3 DEF mbtowc
  <2>2. p + 2 \in 1..Len(s) => p + 2 \in 2..Len(s) /\ (p + 2) - 1 = p + 1
    BY <1>1
  <2>3. QED
    BY <1>2, <2>1, <2>2
<1>4. CASE s[p] # "L"
  <2>1. mbtowc(s, p) = 1
    BY <1>1, <1>4 DEF mbtowc
  <2>2. p + 1 \in 2..Len(s) /\ (p + 1) - 1 = p
    BY <1>1
  <2>3. QED
    BY <1>2, <1>4, <2>1, <2>2
<1>5. QED
  BY <1>3, <1>4

\* What the loop of indicator_init_str counts from within a frame on: this
\* frame and those that follow, to the last delimiter.
LEMMA LoopFacts ==
  ASSUME NEW s \in Bytes, ValidateCustStr(s), WellFormed(s)
  PROVE  LET at == Delimiters(s)
             n == Cardinality(DelimiterSet(s))
         IN \A i \in 1..n - 1 : \A p \in at[i] + 1..at[i + 1] - 1 :
              s[p] # "C" => Loop(s)[p] = [frames |-> n - i, end |-> at[n] + 1]
<1> DEFINE at == Delimiters(s)
           n == Cardinality(DelimiterSet(s))
           Val(c, q) == [frames |-> c, end |-> q]
           l == Loop(s)
           Counts(p) == \A i \in 1..n - 1 : at[i] < p /\ p < at[i + 1] /\ s[p] # "C" =>
                          l[p] = Val(n - i, at[n] + 1)
           A == {p \in 1..Len(s) : Counts(p)}
<1>1. /\ n \in Nat /\ n >= 2
      /\ \A i \in 1..n : at[i] \in 1..Len(s) /\ s[at[i]] = s[1]
      /\ \A q \in 1..Len(s) : s[q] = s[1] => \E i \in 1..n : at[i] = q
      /\ \A i, j \in 1..n : i < j => at[i] < at[j]
      /\ \A i \in 1..n - 1 : /\ at[i + 1] > at[i] + 1
                             /\ strchr(s, at[i] + 1, s[1]) = at[i + 1]
      /\ strchr(s, at[n] + 1, s[1]) = 0
  BY DelimiterFacts
<1>2. Len(s) \in Nat
  BY LenProperties DEF Bytes
<1> HIDE DEF at, n
<1>3. /\ s[1] # "C" /\ s[1] # "L"
      /\ \A q \in 2..Len(s) : s[q] = "C" => s[q - 1] = "L"
  <2>1. 1 \in 1..Len(s)
    BY <1>1, <1>2
  <2>2. QED
    BY <2>1 DEF WellFormed
<1>4. ASSUME NEW p \in 1..Len(s), NEW i \in 1..n - 1, at[i] < p, p < at[i + 1]
      PROVE  s[p] # s[1]
  <2>1. SUFFICES ASSUME NEW j \in 1..n, at[j] = p PROVE FALSE
    BY <1>1
  <2>2. i \in 1..n /\ i + 1 \in 1..n /\ (j < i \/ j = i \/ j = i + 1 \/ i + 1 < j)
    BY <1>1
  <2>3. at[i] \in Int /\ at[i + 1] \in Int
    BY <1>1, <2>2
  <2>4. QED
    BY <1>1, <1>4, <2>1, <2>2, <2>3
<1>5. ASSUME NEW p \in 1..Len(s), \A y \in p + 1..Len(s) : y \in A
      PROVE  p \in A
  <2>1. SUFFICES ASSUME NEW i \in 1..n - 1, at[i] < p, p < at[i + 1], s[p] # "C"
                 PROVE  l[p] = Val(n - i, at[n] + 1)
    OBVIOUS
  <2> DEFINE m == mbtowc(s, p)
             q == p + m
  <2>2. /\ i \in 1..n /\ i + 1 \in 1..n
        /\ at[i] \in 1..Len(s) /\ at[i + 1] \in 1..Len(s) /\ s[at[i + 1]] = s[1]
    BY <1>1
  <2>3. p \in 1..Len(s) - 1 /\ p \in 1..Len(s) + 1
    BY <1>2, <2>1, <2>2
  <2>4. /\ q = p + 1 \/ (q = p + 2 /\ s[p + 1] = "C")
        /\ q \in 1..Len(s) => s[q] # "C"
    BY <2>1, <2>3, CharacterFacts
  <2>5. m > 0 /\ q \in Int
    <3>1. m \in Int
      BY <2>3, MbtowcFacts
    <3>2. QED
      BY <2>3, <2>4, <3>1
  <2> HIDE DEF m, q
  <2>6. q <= at[i + 1]
    <3>1. q = p + 2 => p + 1 # at[i + 1]
      BY <1>3, <2>2, <2>4
    <3>2. QED
      BY <2>1, <2>2, <2>4, <3>1
  <2>7. q \in p + 1..Len(s)
    BY <1>2, <2>2, <2>4, <2>6
  <2>8. /\ s[q] # s[1] => l[p] = l[q]
        /\ s[q] = s[1] => l[p] = IF strchr(s, q + 1, s[1]) = 0 THEN Val(1, q + 1)
                                 ELSE [l[q + 1] EXCEPT
                                         !.frames = IF @ = -1 THEN -1 ELSE @ + 1]
    <3>1. q <= Len(s)
      BY <1>2, <2>7
    <3>2. QED
      BY <2>3, <2>5, <3>1, LoopStep DEF m, q
  <2>9. CASE q < at[i + 1]
    <3>1. s[q] # s[1] /\ s[q] # "C" /\ at[i] < q
      BY <1>2, <1>4, <2>1, <2>2, <2>4, <2>7, <2>9
    <3>2. Counts(q)
      BY <1>5, <2>7
    <3>3. l[q] = Val(n - i, at[n] + 1)
      BY <2>9, <3>1, <3>2
    <3>4. QED
      BY <2>8, <3>1, <3>3
  <2>10. CASE q = at[i + 1] /\ i + 1 = n
    <3>1. s[q] = s[1] /\ strchr(s, q + 1, s[1]) = 0 /\ n - i = 1
      BY <1>1, <2>2, <2>10
    <3>2. QED
      BY <2>8, <2>10, <3>1
  <2>11. CASE q = at[i + 1] /\ i + 1 # n
    <3>1. i + 1 \in 1..n - 1 /\ (i + 1) + 1 \in 1..n
      BY <1>1, <2>2, <2>11
    <3>2. /\ s[q] = s[1] /\ at[(i + 1) + 1] \in 1..Len(s) /\ at[(i + 1) + 1] > q + 1
          /\ strchr(s, q + 1, s[1]) # 0
      BY <1>1, <2>2, <2>11, <3>1
    <3>3. q + 1 \in p + 1..Len(s) /\ q + 1 \in 2..Len(s) /\ (q + 1) - 1 = q
      BY <1>2, <2>7, <3>2
    <3>4. s[q + 1] # "C"
      BY <1>3, <3>2, <3>3
    <3>5. Counts(q + 1)
      BY <1>5, <3>3
    <3>6. l[q + 1] = Val(n - (i + 1), at[n] + 1)
      <4>1. at[i + 1] < q + 1
        BY <2>11, <3>3
      <4>2. q + 1 < at[(i + 1) + 1]
        BY <3>2, <3>3
      <4>3. QED
        BY <3>1, <3>4, <3>5, <4>1, <4>2
    <3>7. l[p] = [l[q + 1] EXCEPT !.frames = IF @ = -1 THEN -1 ELSE @ + 1]
      BY <2>8, <3>2
    <3>8. n - (i + 1) # -1 /\ n - (i + 1) + 1 = n - i
      BY <1>1, <2>2
    <3>9. QED
      BY <3>6, <3>7, <3>8
  <2>12. QED
    BY <2>2, <2>5, <2>6, <2>9, <2>10, <2>11
<1>6. 1..Len(s) \subseteq A
  <2> HIDE DEF A
  <2>1. QED
    BY <1>2, <1>5, InductionDown
<1>7. ASSUME NEW i \in 1..n - 1, NEW p \in at[i] + 1..at[i + 1] - 1, s[p] # "C"
      PROVE  l[p] = Val(n - i, at[n] + 1)
  <2>1. i \in 1..n /\ i + 1 \in 1..n /\ at[i] \in 1..Len(s) /\ at[i + 1] \in 1..Len(s)
    BY <1>1
  <2>2. p \in 1..Len(s) /\ at[i] < p /\ p < at[i + 1]
    BY <1>2, <2>1
  <2>3. Counts(p)
    BY <1>6, <2>2
  <2>4. QED
    BY <1>7, <2>2, <2>3
<1>8. QED
  BY <1>7 DEF at, n

\* What indicator_init_str counts are the frames, and the hints are what
\* follows the last delimiter.
LEMMA CountFacts ==
  ASSUME NEW s \in Bytes, ValidateCustStr(s), WellFormed(s)
  PROVE  CountFrames(s) = [frames |-> Len(Frames(s)), end |-> Last(Delimiters(s)) + 1]
<1> DEFINE at == Delimiters(s)
           n == Cardinality(DelimiterSet(s))
<1>1. /\ n \in Nat /\ n >= 2 /\ Len(at) = n /\ at[1] = 1
      /\ \A i \in 1..n : at[i] \in 1..Len(s)
      /\ \A i \in 1..n - 1 : at[i + 1] > at[i] + 1
  BY DelimiterFacts
<1>2. \A i \in 1..n - 1 : \A p \in at[i] + 1..at[i + 1] - 1 :
        s[p] # "C" => Loop(s)[p] = [frames |-> n - i, end |-> at[n] + 1]
  BY LoopFacts
<1>3. Len(Frames(s)) = n - 1
  BY FramesFacts
<1>4. Len(s) \in Nat
  BY LenProperties DEF Bytes
<1> HIDE DEF at, n
<1>5. s[2] # "C"
  <2>1. 2 \in 1..Len(s) /\ 1 \in 1..Len(s) /\ 2 - 1 = 1
    BY <1>1, <1>4
  <2>2. QED
    BY <2>1 DEF WellFormed
<1>6. 1 \in 1..n - 1 /\ 2 \in at[1] + 1..at[1 + 1] - 1
  BY <1>1
<1>7. Loop(s)[2] = [frames |-> n - 1, end |-> at[n] + 1]
  BY <1>2, <1>5, <1>6
<1>8. Last(at) = at[n]
  BY <1>1 DEF Last
<1>9. QED
  BY <1>3, <1>7, <1>8 DEF at, CountFrames

-----------------------------------------------------------------------------
(***************************************************************************)
(* The state of an indicator.                                              *)
(***************************************************************************)

\* Frame i of a string, with what indicator_init_str has counted.
Showing(s, i, c) ==
  [str |-> s, frame |-> Delimiters(s)[i] + 1,
   frame_size |-> Delimiters(s)[i + 1] - (Delimiters(s)[i] + 1), frame_count |-> c]

FrameNumbers(s) == 1..Cardinality(DelimiterSet(s)) - 1

\* The hints of the message.
AfterName(h) == h # <<>> /\ \E s \in Strings : \E p \in 4..Len(s) - 1 :
                              s[p] = s[1] /\ s[p + 1] = s[1] /\ h = From(s, p + 2)

\* The inductive invariant: the pointers are at a frame of a valid string.
IndInv ==
  ind # Unset =>
    /\ ind.str \in Bytes /\ ValidateCustStr(ind.str)
    /\ \E i \in FrameNumbers(ind.str) :
         ind = Showing(ind.str, i, CountFrames(ind.str).frames)
    /\ hints = From(ind.str, CountFrames(ind.str).end) \/ AfterName(hints)

\* The indicators of the configuration are valid.
KnownValid ==
  \A i \in 1..Len(indicators) :
    indicators[i].str \in Bytes /\ ValidateCustStr(indicators[i].str)

\* They are made of characters, as those of messages are.  That is up to who
\* writes the file.
KnownWellFormed == \A i \in 1..Len(indicators) : WellFormed(indicators[i].str)

\* There is a first frame; from each frame strchr leads to the next one, and
\* from the last to the first.
LEMMA ShowingFacts ==
  ASSUME NEW s \in Bytes, ValidateCustStr(s), NEW i \in FrameNumbers(s), NEW c
  PROVE  LET at == Delimiters(s)
             n == Cardinality(DelimiterSet(s))
         IN /\ 1 \in FrameNumbers(s) /\ FrameAt(s, 2, c) = Showing(s, 1, c)
            /\ LET next == IF i = n - 1 THEN 1 ELSE i + 1
               IN /\ next \in FrameNumbers(s)
                  /\ FrameAt(s, NextFrame(s, at[i] + 1), c) = Showing(s, next, c)
<1> DEFINE at == Delimiters(s)
           n == Cardinality(DelimiterSet(s))
<1>1. /\ n \in Nat /\ n >= 2 /\ at[1] = 1
      /\ \A j \in 1..n : at[j] \in 1..Len(s)
      /\ \A j \in 1..n - 1 : strchr(s, at[j] + 1, s[1]) = at[j + 1]
      /\ strchr(s, at[n] + 1, s[1]) = 0
  BY DelimiterFacts
<1>2. i \in 1..n - 1 /\ FrameNumbers(s) = 1..n - 1
  BY DEF FrameNumbers
<1>3. \A k : \A j \in 1..n - 1 : Showing(s, j, k) = FrameAt(s, at[j] + 1, k)
  BY <1>1 DEF Showing, FrameAt
<1> HIDE DEF at, n
<1>4. 1 \in 1..n - 1 /\ at[1] + 1 = 2
  BY <1>1
<1>5. FrameAt(s, 2, c) = Showing(s, 1, c)
  BY <1>3, <1>4
<1>6. CASE i = n - 1
  <2>1. i + 1 = n /\ strchr(s, at[i] + 1, s[1]) = at[n] /\ n \in 1..n
    BY <1>1, <1>2, <1>6
  <2>2. NextFrame(s, at[i] + 1) = 2
    BY <1>1, <2>1 DEF NextFrame
  <2>3. QED
    BY <1>2, <1>4, <1>5, <1>6, <2>2 DEF at, n
<1>7. CASE i # n - 1
  <2>1. i + 1 \in 1..n - 1 /\ (i + 1) + 1 \in 1..n
    BY <1>1, <1>2, <1>7
  <2>2. strchr(s, at[i + 1] + 1, s[1]) # 0
    BY <1>1, <2>1
  <2>3. strchr(s, at[i] + 1, s[1]) = at[i + 1]
    BY <1>1, <1>2
  <2>4. NextFrame(s, at[i] + 1) = at[i + 1] + 1
    BY <2>2, <2>3 DEF NextFrame
  <2>5. FrameAt(s, NextFrame(s, at[i] + 1), c) = Showing(s, i + 1, c)
    BY <1>3, <2>1, <2>4
  <2>6. QED
    BY <1>2, <1>4, <1>5, <1>7, <2>1, <2>5 DEF at, n
<1>8. QED
  BY <1>6, <1>7

\* What a name stands for is an indicator of the configuration.
LEMMA ResolveFacts ==
  ASSUME NEW s, ResolveName(s) # <<>>
  PROVE  \E i \in 1..Len(indicators) : ResolveName(s) = indicators[i].str
<1> DEFINE I == {i \in 1..Len(indicators) : indicators[i].name = NamedBy(s)}
           i == SelectInSeq(indicators, LAMBDA e : e.name = NamedBy(s))
<1>1. i = IF I # {} THEN Min(I) ELSE 0
  BY DEF SelectInSeq
<1>2. ResolveName(s) = IF i = 0 THEN <<>> ELSE indicators[i].str
  BY DEF ResolveName
<1>3. I \in SUBSET Nat
  OBVIOUS
<1>4. I # {} => Min(I) \in I
  BY <1>3, MinFacts
<1> HIDE DEF i
<1>5. i \in I
  BY <1>1, <1>2, <1>4
<1>6. QED
  BY <1>2, <1>5

\* The hints after a name follow a delimiter that is doubled.
LEMMA NameHintsFacts ==
  ASSUME NEW s \in Strings, ValidateNameStr(s), NameHints(s) # <<>>
  PROVE  AfterName(NameHints(s))
<1> DEFINE p == NameEnd(s)
           c == <<s[1], s[1]>>
           hits == {q \in 3..Len(s) - Len(c) + 1 : SubSeq(s, q, q + Len(c) - 1) = c}
<1>1. s \in Seq(STRING) /\ Len(s) \in Nat /\ \A j \in 1..Len(s) : s[j] \in STRING
  BY IndicatorAssumption, LenProperties, ElementOfSeq
<1>2. p = IF hits = {} THEN 0 ELSE Min(hits)
  BY DEF NameEnd, strstr
<1>3. p > 3
  BY DEF ValidateNameStr
<1>4. Len(c) = 2 /\ c[1] = s[1] /\ c[2] = s[1]
  OBVIOUS
<1>5. hits \in SUBSET Nat
  BY <1>1
<1>6. p \in hits
  BY <1>2, <1>3, <1>5, MinFacts
<1>7. p \in 4..Len(s) - 1 /\ SubSeq(s, p, p + 1) = c
  BY <1>1, <1>3, <1>4, <1>6
<1> HIDE DEF p, hits, c
<1>8. SubSeq(s, p, p + 1)[1] = s[p] /\ SubSeq(s, p, p + 1)[2] = s[p + 1]
  <2>1. p \in Int /\ p + 1 \in Int /\ \A j \in p..p + 1 : s[j] \in STRING
    BY <1>1, <1>7
  <2>2. \A j \in 1..(p + 1) - p + 1 : SubSeq(s, p, p + 1)[j] = s[p + j - 1]
    BY <2>1, SubSeqProperties
  <2>3. 1 \in 1..(p + 1) - p + 1 /\ 2 \in 1..(p + 1) - p + 1
        /\ p + 1 - 1 = p /\ p + 2 - 1 = p + 1
    BY <2>1
  <2>4. SubSeq(s, p, p + 1)[1] = s[p + 1 - 1] /\ SubSeq(s, p, p + 1)[2] = s[p + 2 - 1]
    BY <2>2, <2>3
  <2>5. QED
    BY <2>3, <2>4
<1>9. s[p] = s[1] /\ s[p + 1] = s[1]
  BY <1>4, <1>7, <1>8
<1>10. NameHints(s) = From(s, p + 2)
  BY DEF p, NameHints
<1>11. QED
  BY <1>7, <1>9, <1>10 DEF AfterName

\* indicator_init_str puts the pointers at the first frame.
LEMMA SetStrInv ==
  ASSUME NEW s \in Bytes, ValidateCustStr(s), NEW h, h # <<>> => AfterName(h),
         SetStr(s, h)
  PROVE  IndInv'
<1> DEFINE ct == CountFrames(s)
<1>1. ind' = FrameAt(s, 2, ct.frames) /\ hints' = Hints(From(s, ct.end), h)
  BY DEF SetStr
<1>2. ind'.str = s
  BY <1>1 DEF FrameAt
<1>3. 1 \in FrameNumbers(s) /\ ind' = Showing(s, 1, ct.frames)
  <2>1. Cardinality(DelimiterSet(s)) \in Nat /\ Cardinality(DelimiterSet(s)) >= 2
    BY DelimiterFacts
  <2>2. 1 \in FrameNumbers(s)
    BY <2>1 DEF FrameNumbers
  <2>3. QED
    BY <1>1, <2>2, ShowingFacts
<1>4. hints' = From(s, ct.end) \/ (h # <<>> /\ hints' = h)
  BY <1>1 DEF Hints
<1>5. hints' = From(s, ct.end) \/ AfterName(hints')
  BY <1>4
<1>6. QED
  BY <1>2, <1>3, <1>5 DEF IndInv, AfterName

LEMMA IndInvInit == IndicatorInit => IndInv
BY DEF IndicatorInit, IndInv

LEMMA IndInvStep ==
  ASSUME IndInv, KnownValid, [IndicatorNext]_indicator
  PROVE  IndInv'
<1>1. ASSUME NEW s \in Strings, InitCustom(s)
      PROVE  IndInv'
  BY <1>1, IndicatorAssumption, SetStrInv DEF InitCustom, Bytes
<1>2. ASSUME NEW s \in Strings, InitNamed(s)
      PROVE  IndInv'
  <2>1. /\ ValidateNameStr(s) /\ ResolveName(s) # <<>>
        /\ SetStr(ResolveName(s), NameHints(s))
    BY <1>2 DEF InitNamed
  <2>2. ResolveName(s) \in Bytes /\ ValidateCustStr(ResolveName(s))
    BY <2>1, ResolveFacts DEF KnownValid
  <2>3. NameHints(s) # <<>> => AfterName(NameHints(s))
    BY <2>1, NameHintsFacts
  <2>4. QED
    BY <2>1, <2>2, <2>3, SetStrInv
<1>3. ASSUME NEW s \in Strings, Refuse(s)
      PROVE  IndInv'
  BY <1>3 DEF Refuse, indicator, IndInv, AfterName
<1>4. CASE FreeStr
  BY <1>4 DEF FreeStr, IndInv
<1>5. CASE StepFrame
  <2> DEFINE s == ind.str
             at == Delimiters(s)
             c == CountFrames(s).frames
  <2>1. /\ ind' = FrameAt(s, NextFrame(s, ind.frame), ind.frame_count)
        /\ hints' = hints /\ ind # Unset
    BY <1>5 DEF StepFrame
  <2>2. /\ s \in Bytes /\ ValidateCustStr(s)
        /\ hints = From(s, CountFrames(s).end) \/ AfterName(hints)
    BY <2>1 DEF IndInv
  <2>3. PICK i \in FrameNumbers(s) : ind = Showing(s, i, c)
    BY <2>1 DEF IndInv
  <2>4. ind.frame = at[i] + 1 /\ ind.frame_count = c
    BY <2>3 DEF Showing
  <2>5. ind' = FrameAt(s, NextFrame(s, at[i] + 1), c)
    BY <2>1, <2>4
  <2>6. PICK j \in FrameNumbers(s) : ind' = Showing(s, j, c)
    BY <2>2, <2>5, ShowingFacts
  <2>7. ind'.str = s
    BY <2>5 DEF FrameAt
  <2>8. hints' = From(s, CountFrames(s).end) \/ AfterName(hints')
    BY <2>1, <2>2 DEF AfterName
  <2>9. QED
    BY <2>2, <2>6, <2>7, <2>8 DEF IndInv, AfterName
<1>6. CASE UNCHANGED indicator
  BY <1>6 DEF indicator, IndInv, AfterName
<1>7. QED
  BY <1>1, <1>2, <1>3, <1>4, <1>5, <1>6 DEF IndicatorNext

LEMMA IndicatorInductive == IndicatorSpec /\ []KnownValid => []IndInv
BY IndInvInit, IndInvStep, PTL DEF IndicatorSpec

-----------------------------------------------------------------------------
(***************************************************************************)
(* The properties of an indicator.                                         *)
(***************************************************************************)

\* The invariant says what ReadAsWritten says, if the string is one of
\* characters.
LEMMA IndInvReadAsWritten ==
  ASSUME IndInv, ind # Unset, WellFormed(ind.str)
  PROVE  ReadAsWritten
<1> DEFINE s == ind.str
           at == Delimiters(s)
           fs == Frames(s)
<1>1. s \in Bytes /\ ValidateCustStr(s)
  BY DEF IndInv
<1>2. PICK i \in FrameNumbers(s) : ind = Showing(s, i, CountFrames(s).frames)
  BY DEF IndInv
<1>3. CountFrames(s) = [frames |-> Len(fs), end |-> Last(at) + 1]
  BY <1>1, CountFacts
<1>4. ind.frame_count = Len(fs)
  BY <1>2, <1>3 DEF Showing
<1>5. hints = From(s, Last(at) + 1) \/ AfterName(hints)
  <2>1. hints = From(s, CountFrames(s).end) \/ AfterName(hints)
    BY DEF IndInv
  <2>2. CountFrames(s).end = Last(at) + 1
    BY <1>3
  <2>3. QED
    BY <2>1, <2>2
<1>6. /\ fs[i] = SubSeq(s, at[i] + 1, at[i + 1] - 1)
      /\ i \in DOMAIN fs
  <2>1. fs \in Seq(Bytes) /\ Len(fs) = Cardinality(DelimiterSet(s)) - 1
    BY <1>1, FramesFacts
  <2>2. DOMAIN fs = FrameNumbers(s)
    BY <2>1, LenProperties DEF FrameNumbers
  <2>3. QED
    BY <1>1, <2>2, FramesFacts DEF FrameNumbers
<1>7. ind.frame + ind.frame_size - 1 = at[i + 1] - 1 /\ ind.frame = at[i] + 1
  <2>1. at[i] \in Int /\ at[i + 1] \in Int
    <3>1. /\ Cardinality(DelimiterSet(s)) \in Nat
          /\ \A j \in 1..Cardinality(DelimiterSet(s)) : at[j] \in 1..Len(s)
      BY <1>1, DelimiterFacts
    <3>2. QED
      BY <1>2, <3>1 DEF FrameNumbers
  <2>2. ind.frame = at[i] + 1 /\ ind.frame_size = at[i + 1] - (at[i] + 1)
    BY <1>2 DEF Showing
  <2>3. QED
    BY <2>1, <2>2
<1>8. SubSeq(s, ind.frame, ind.frame + ind.frame_size - 1) \in Range(fs)
  BY <1>6, <1>7 DEF Range
<1>9. QED
  BY <1>4, <1>5, <1>8 DEF ReadAsWritten, AfterName

\* The string of an indicator is one of a message, or one of the
\* configuration as it was then.
IndWellFormed == ind # Unset => WellFormed(ind.str)

LEMMA IndWellFormedStep ==
  ASSUME IndWellFormed, KnownWellFormed, [IndicatorNext]_indicator
  PROVE  IndWellFormed'
<1>1. ASSUME NEW s \in Strings, InitCustom(s) PROVE IndWellFormed'
  <2>1. ind'.str = s
    BY <1>1 DEF InitCustom, SetStr, FrameAt
  <2>2. QED
    BY <2>1, IndicatorAssumption DEF IndWellFormed, WellFormed
<1>2. ASSUME NEW s \in Strings, InitNamed(s) PROVE IndWellFormed'
  <2>1. ind'.str = ResolveName(s) /\ ResolveName(s) # <<>>
    BY <1>2 DEF InitNamed, SetStr, FrameAt
  <2>2. WellFormed(ResolveName(s))
    BY <2>1, ResolveFacts DEF KnownWellFormed
  <2>3. QED
    BY <2>1, <2>2 DEF IndWellFormed, WellFormed
<1>3. ASSUME NEW s \in Strings, Refuse(s) PROVE IndWellFormed'
  BY <1>3 DEF Refuse, indicator, IndWellFormed, WellFormed
<1>4. CASE FreeStr
  BY <1>4 DEF FreeStr, IndWellFormed
<1>5. CASE StepFrame
  BY <1>5 DEF StepFrame, FrameAt, IndWellFormed, WellFormed
<1>6. CASE UNCHANGED indicator
  BY <1>6 DEF indicator, IndWellFormed, WellFormed
<1>7. QED
  BY <1>1, <1>2, <1>3, <1>4, <1>5, <1>6 DEF IndicatorNext

\* The four functions of indicator.c that walk over a string agree on it, so
\* what is drawn is always one frame of those that the documents define, and
\* the hints are what is behind them: for strings of any length, if the
\* indicators of the configuration are valid and made of characters.
THEOREM FramesReadAsWritten ==
  IndicatorSpec /\ []KnownValid /\ []KnownWellFormed => []ReadAsWritten
<1>1. IndicatorInit => IndWellFormed
  BY DEF IndicatorInit, IndWellFormed
<1>2. IndicatorSpec /\ []KnownWellFormed => []IndWellFormed
  BY <1>1, IndWellFormedStep, PTL DEF IndicatorSpec
<1>3. IndInv /\ IndWellFormed => ReadAsWritten
  <2>1. ind = Unset => ReadAsWritten
    BY DEF ReadAsWritten
  <2>2. QED
    BY <2>1, IndInvReadAsWritten DEF IndWellFormed
<1>4. QED
  BY <1>2, <1>3, IndicatorInductive, PTL

\* The position of the refinement: which frame the pointers are at.
FramesOf(d) == IF d = Unset THEN <<>> ELSE Frames(d.str)
PosOf(d) == IF d = Unset THEN 0
            ELSE SelectInSeq(Delimiters(d.str), LAMBDA p : p = d.frame - 1)

LEMMA PosFacts ==
  ASSUME NEW s \in Bytes, ValidateCustStr(s), NEW i \in FrameNumbers(s), NEW c
  PROVE  LET d == Showing(s, i, c)
         IN d # Unset /\ FramesOf(d) = Frames(s) /\ PosOf(d) = i
<1> DEFINE d == Showing(s, i, c)
           at == Delimiters(s)
           n == Cardinality(DelimiterSet(s))
           I == {j \in 1..Len(at) : at[j] = d.frame - 1}
<1>1. /\ n \in Nat /\ n >= 2 /\ Len(at) = n
      /\ \A j \in 1..n : at[j] \in 1..Len(s)
      /\ \A j, k \in 1..n : at[j] = at[k] => j = k
  BY DelimiterFacts
<1>2. d.str = s /\ d.frame = at[i] + 1 /\ d # Unset
  BY DEF Showing, Unset, ValidateCustStr
<1>3. i \in 1..n
  BY <1>1 DEF FrameNumbers
<1>4. PosOf(d) = IF I # {} THEN Min(I) ELSE 0
  BY <1>2 DEF PosOf, SelectInSeq
<1> HIDE DEF at, n, d
<1>5. I = {i}
  <2>1. d.frame - 1 = at[i]
    BY <1>1, <1>2, <1>3
  <2>2. QED
    BY <1>1, <1>3, <2>1
<1>6. Min(I) = i
  <2>1. I \in SUBSET Nat /\ I # {}
    BY <1>1, <1>5
  <2> HIDE DEF I
  <2>2. QED
    BY <1>5, <2>1, MinFacts
<1> HIDE DEF I
<1>7. PosOf(d) = i
  BY <1>4, <1>5, <1>6
<1>8. QED
  BY <1>2, <1>7 DEF d, FramesOf

\* A new indicator is at the first of its frames, none of which is empty.
LEMMA UseStep ==
  ASSUME NEW s \in Bytes, ValidateCustStr(s), NEW h, SetStr(s, h), ind = Unset
  PROVE  Cycle!Use
<1>1. PICK c : ind' = FrameAt(s, 2, c)
  BY DEF SetStr
<1>2. 1 \in FrameNumbers(s)
  <2>1. Cardinality(DelimiterSet(s)) \in Nat /\ Cardinality(DelimiterSet(s)) >= 2
    BY DelimiterFacts
  <2>2. QED
    BY <2>1 DEF FrameNumbers
<1>3. ind' = Showing(s, 1, c)
  BY <1>1, <1>2, ShowingFacts
<1>4. ind' # Unset /\ FramesOf(ind') = Frames(s) /\ PosOf(ind') = 1
  BY <1>2, <1>3, PosFacts
<1>5. Frames(s) # <<>> /\ \A i \in 1..Len(Frames(s)) : Frames(s)[i] # <<>>
  BY FramesFacts
<1>6. FramesOf(ind) = <<>>
  BY DEF FramesOf
<1>7. QED
  BY <1>4, <1>5, <1>6 DEF Cycle!Use, FramesOf, PosOf, SelectInSeq

\* From each frame to the next, and from the last to the first.
LEMMA TurnStep ==
  ASSUME IndInv, StepFrame
  PROVE  Cycle!Step
<1> DEFINE s == ind.str
           at == Delimiters(s)
           c == CountFrames(s).frames
           n == Cardinality(DelimiterSet(s))
<1>1. ind # Unset /\ ind' = FrameAt(s, NextFrame(s, ind.frame), ind.frame_count)
  BY DEF StepFrame
<1>2. s \in Bytes /\ ValidateCustStr(s)
  BY <1>1 DEF IndInv
<1>3. PICK i \in FrameNumbers(s) : ind = Showing(s, i, c)
  BY <1>1 DEF IndInv
<1> DEFINE next == IF i = n - 1 THEN 1 ELSE i + 1
<1>4. ind.frame = at[i] + 1 /\ ind.frame_count = c
  BY <1>3 DEF Showing
<1>5. next \in FrameNumbers(s) /\ ind' = Showing(s, next, c)
  <2>1. ind' = FrameAt(s, NextFrame(s, at[i] + 1), c)
    BY <1>1, <1>4
  <2>2. QED
    BY <1>2, <2>1, ShowingFacts
<1>6. FramesOf(ind) = Frames(s) /\ PosOf(ind) = i
  BY <1>2, <1>3, PosFacts
<1>7. ind' # Unset /\ FramesOf(ind') = Frames(s) /\ PosOf(ind') = next
  BY <1>2, <1>5, PosFacts
<1>8. Frames(s) # <<>> /\ Len(Frames(s)) = n - 1 /\ n \in Nat /\ n >= 2
  BY <1>2, FramesFacts, DelimiterFacts
<1>9. next = (i % (n - 1)) + 1
  <2>1. i \in 1..n - 1 /\ n - 1 \in Nat
    BY <1>8 DEF FrameNumbers
  <2> HIDE DEF n
  <2>2. CASE i = n - 1
    BY <2>1, <2>2
  <2>3. CASE i # n - 1
    BY <2>1, <2>3
  <2>4. QED
    BY <2>2, <2>3
<1>10. FramesOf(ind) # <<>> /\ FramesOf(ind') = FramesOf(ind)
       /\ PosOf(ind') = (PosOf(ind) % Len(FramesOf(ind))) + 1
  BY <1>6, <1>7, <1>8, <1>9
<1>11. QED
  BY <1>10 DEF Cycle!Step, FramesOf, PosOf, SelectInSeq

LEMMA CycleStep ==
  ASSUME IndInv, KnownValid, [IndicatorNext]_indicator
  PROVE  [Cycle!Next]_(Cycle!vars)
<1>1. ASSUME NEW s \in Strings, InitCustom(s) PROVE Cycle!Use
  BY <1>1, IndicatorAssumption, UseStep DEF InitCustom, Bytes
<1>2. ASSUME NEW s \in Strings, InitNamed(s) PROVE Cycle!Use
  <2>1. /\ ResolveName(s) # <<>> /\ ind = Unset
        /\ SetStr(ResolveName(s), NameHints(s))
    BY <1>2 DEF InitNamed
  <2>2. ResolveName(s) \in Bytes /\ ValidateCustStr(ResolveName(s))
    BY <2>1, ResolveFacts DEF KnownValid
  <2>3. QED
    BY <2>1, <2>2, UseStep
<1>3. ASSUME NEW s \in Strings, Refuse(s) PROVE UNCHANGED ind
  BY <1>3 DEF Refuse, indicator
<1>4. FreeStr => Cycle!Forget
  BY DEF FreeStr, Cycle!Forget
<1>5. StepFrame => Cycle!Step
  BY TurnStep
<1>6. UNCHANGED ind => UNCHANGED Cycle!vars
  BY DEF Cycle!vars, SelectInSeq
<1>7. QED
  BY <1>1, <1>2, <1>3, <1>4, <1>5, <1>6 DEF IndicatorNext, Cycle!Next, indicator

\* Every valid string is shown frame by frame and round again, whatever bytes
\* it is made of: the pointers into it implement FrameCycle.
THEOREM PointersImplementCycle ==
  IndicatorSpec /\ []KnownValid => ImplementsCycle
<1>1. IndicatorInit => Cycle!None
  BY DEF IndicatorInit, Cycle!None
<1>2. IndicatorSpec /\ []KnownValid => Cycle!None /\ [][Cycle!Next]_(Cycle!vars)
  BY <1>1, IndicatorInductive, CycleStep, PTL DEF IndicatorSpec
<1>3. QED
  BY <1>2 DEF ImplementsCycle, Cycle!Spec

-----------------------------------------------------------------------------
(***************************************************************************)
(* The configuration file.                                                 *)
(***************************************************************************)

\* Parts of a string are strings.
LEMMA PartFacts ==
  ASSUME NEW s \in Bytes, NEW p \in Nat \ {0}, NEW q \in 0..Len(s)
  PROVE  SubSeq(s, p, q) \in Bytes /\ From(s, p) \in Bytes
<1>1. Len(s) \in Nat /\ \A j \in 1..Len(s) : s[j] \in STRING
  BY LenProperties, ElementOfSeq DEF Bytes
<1>2. p \in Int /\ q \in Int /\ \A j \in p..q : s[j] \in STRING
  BY <1>1
<1>3. Len(s) \in Int /\ \A j \in p..Len(s) : s[j] \in STRING
  BY <1>1
<1>4. SubSeq(s, p, q) \in Seq(STRING) /\ SubSeq(s, p, Len(s)) \in Seq(STRING)
  BY <1>2, <1>3, SubSeqProperties
<1>5. QED
  BY <1>4 DEF From, Bytes

LEMMA FindFacts ==
  ASSUME NEW s \in Bytes, NEW c
  PROVE  Find(s, c) \in 0..Len(s)
<1> DEFINE I == {i \in 1..Len(s) : s[i] = c}
<1>1. Find(s, c) = IF I # {} THEN Min(I) ELSE 0
  BY DEF Find, SelectInSeq
<1>2. I \in SUBSET Nat /\ Len(s) \in Nat
  BY LenProperties DEF Bytes
<1>3. I # {} => Min(I) \in I
  BY <1>2, MinFacts
<1>4. QED
  BY <1>1, <1>2, <1>3

LEMMA TrimFacts ==
  ASSUME NEW s \in Bytes
  PROVE  Trim(s) \in Bytes
<1> DEFINE words == {i \in DOMAIN s : s[i] # " "}
<1>1. Len(s) \in Nat /\ DOMAIN s = 1..Len(s)
  BY LenProperties DEF Bytes
<1>2. <<>> \in Bytes
  BY EmptySeq DEF Bytes
<1>3. ASSUME words # {} PROVE SubSeq(s, Min(words), Max(words)) \in Bytes
  <2>1. words \subseteq 1..Len(s)
    BY <1>1
  <2> HIDE DEF words
  <2>2. words \in SUBSET Nat /\ \A i \in words : i <= Len(s) /\ i >= 1
    BY <1>1, <2>1
  <2>3. Min(words) \in words /\ Max(words) \in words
    BY <1>1, <1>3, <2>2, MinFacts, MaxFacts
  <2>4. Min(words) \in Nat \ {0} /\ Max(words) \in 0..Len(s)
    <3>1. Min(words) \in Nat /\ Max(words) \in Nat /\ Len(s) \in Nat
      BY <1>1, <2>2, <2>3
    <3>2. Min(words) >= 1 /\ Max(words) <= Len(s)
      BY <2>2, <2>3
    <3>3. QED
      BY <3>1, <3>2
  <2>5. QED
    BY <2>4, PartFacts
<1>4. QED
  BY <1>2, <1>3 DEF Trim

\* What the reader of the file keeps: parts of lines, and valid indicators.
FileInv ==
  /\ line = NoLine \/ line \in Bytes
  /\ left \in Bytes
  /\ indicators \in Seq([name : Bytes \ {<<>>}, str : Bytes])
  /\ \A i \in 1..Len(indicators) : ValidateCustStr(indicators[i].str)

\* The name and the string of an entry are parts of its line.
LEMMA EntryFacts ==
  ASSUME line \in Bytes, IsEntry
  PROVE  Key \in Bytes \ {<<>>} /\ Value \in Bytes
<1> DEFINE f == Find(start, "=")
<1>1. start \in Bytes
  BY TrimFacts DEF start
<1>2. f \in 1..Len(start) /\ Len(start) \in Nat /\ Key # <<>> /\ Behind # <<>>
  <2>1. f \in 0..Len(start) /\ Len(start) \in Nat
    BY <1>1, FindFacts, LenProperties DEF Bytes
  <2>2. f # 0 /\ Key # <<>> /\ Behind # <<>>
    BY DEF IsEntry
  <2> HIDE DEF f
  <2>3. f \in 1..Len(start)
    BY <2>1, <2>2
  <2>4. QED
    BY <2>1, <2>2, <2>3
<1> HIDE DEF f
<1>3. Key \in Bytes
  <2>1. SubSeq(start, 1, f - 1) \in Bytes
    <3>1. 1 \in Nat \ {0} /\ f - 1 \in 0..Len(start)
      BY <1>2
    <3>2. QED
      BY <1>1, <3>1, PartFacts
  <2>2. QED
    BY <2>1, TrimFacts DEF Key, f
<1>4. Behind \in Bytes
  <2>1. From(start, f + 1) \in Bytes
    <3>1. f + 1 \in Nat \ {0} /\ 0 \in 0..Len(start)
      BY <1>2
    <3>2. QED
      BY <1>1, <3>1, PartFacts
  <2>2. QED
    BY <2>1, TrimFacts DEF Behind, f
<1>5. CASE Quoted
  <2> DEFINE q == Find(From(Behind, 2), "\"")
  <2>1. Len(Behind) \in Nat /\ 2 \in 1..Len(Behind) + 1
    <3>1. Len(Behind) \in Nat /\ Len(Behind) # 0
      <4>1. Behind \in Seq(STRING) /\ Behind # <<>>
        BY <1>2, <1>4 DEF Bytes
      <4>2. QED
        BY <4>1, LenProperties, EmptySeq
    <3>2. QED
      BY <3>1
  <2>2. From(Behind, 2) \in Bytes /\ Len(From(Behind, 2)) = Len(Behind) - 2 + 1
    BY <1>4, <2>1, FromFacts
  <2>3. q \in 0..Len(From(Behind, 2))
    BY <2>2, FindFacts
  <2> HIDE DEF q
  <2>4. q \in 0..Len(Behind) /\ 2 \in Nat \ {0}
    BY <2>1, <2>2, <2>3
  <2>5. SubSeq(Behind, 2, q) \in Bytes
    BY <1>4, <2>4, PartFacts
  <2>6. QED
    BY <1>2, <1>3, <1>5, <2>5 DEF Value, q
<1>6. CASE ~Quoted
  BY <1>2, <1>3, <1>4, <1>6 DEF Value
<1>7. QED
  BY <1>5, <1>6

LEMMA FileInvInit == FileInit => FileInv
<1>1. <<>> \in Bytes /\ <<>> \in Seq([name : Bytes \ {<<>>}, str : Bytes])
      /\ \A i \in 1..Len(<<>>) : FALSE
  BY EmptySeq DEF Bytes
<1>2. QED
  BY <1>1 DEF FileInit, ReaderInit, FileInv

LEMMA FileInvStep ==
  ASSUME FileInv, [FileNext]_file
  PROVE  FileInv'
<1> DEFINE IND == [name : Bytes \ {<<>>}, str : Bytes]
<1> USE DEF FileInv
<1>1. CASE ReadLine
  <2>1. PICK l \in IF left # <<>> THEN {left} ELSE IF count < MaxLines THEN Lines ELSE {} :
          /\ line' = SubSeq(l, 1, Min({MaxRead, Len(l)}))
          /\ left' = From(l, MaxRead + 1)
    BY <1>1 DEF ReadLine
  <2>2. l \in Bytes
    BY ConfigAssumption DEF Bytes
  <2>3. Len(l) \in Nat /\ MaxRead \in Nat \ {0}
    BY <2>2, LenProperties, ConfigAssumption DEF Bytes
  <2>4. Min({MaxRead, Len(l)}) \in 0..Len(l)
    BY <2>3, MinOfTwo
  <2>5. line' \in Bytes /\ left' \in Bytes
    BY <2>1, <2>2, <2>3, <2>4, PartFacts
  <2>6. indicators' = indicators
    BY <1>1 DEF ReadLine
  <2>7. QED
    BY <2>5, <2>6
<1>2. CASE SkipLine \/ Header \/ IgnoredEntry \/ Setting \/ UnknownField \/ AssertionFails
  <2>1. line' = NoLine /\ left' = left /\ indicators' = indicators
    BY <1>2 DEF SkipLine, Header, IgnoredEntry, Setting, UnknownField,
                AssertionFails, Entry, HasLine
  <2>2. QED
    BY <2>1
<1>3. CASE IndicatorEntry
  <2>1. line' = NoLine /\ left' = left /\ line \in Bytes /\ IsEntry /\ AddIndicator
    BY <1>3 DEF IndicatorEntry, Entry, HasLine
  <2>2. Key \in Bytes \ {<<>>} /\ Value \in Bytes
    BY <2>1, EntryFacts
  <2> DEFINE e == [name |-> Key, str |-> Value]
  <2>3. e \in IND
    BY <2>2
  <2>4. e.str = Value
    OBVIOUS
  <2>5. indicators' = IF ValidateCustStr(Value) THEN Append(indicators, e) ELSE indicators
    BY <2>1 DEF AddIndicator
  <2> HIDE DEF e, IND
  <2>6. CASE ValidateCustStr(Value)
    <3>1. indicators \in Seq(IND)
      BY DEF IND
    <3>2. /\ Append(indicators, e) \in Seq(IND)
          /\ Len(Append(indicators, e)) = Len(indicators) + 1 /\ Len(indicators) \in Nat
          /\ \A i \in 1..Len(indicators) : Append(indicators, e)[i] = indicators[i]
          /\ Append(indicators, e)[Len(indicators) + 1] = e
      BY <2>3, <3>1, AppendProperties, LenProperties
    <3>3. indicators' \in Seq(IND)
      BY <2>5, <2>6, <3>2
    <3>4. ASSUME NEW i \in 1..Len(indicators') PROVE ValidateCustStr(indicators'[i].str)
      <4>1. CASE i = Len(indicators) + 1
        BY <2>4, <2>5, <2>6, <3>2, <4>1
      <4>2. CASE i # Len(indicators) + 1
        <5>1. i \in 1..Len(indicators) /\ indicators'[i] = indicators[i]
          BY <2>5, <2>6, <3>2, <4>2
        <5>2. QED
          BY <5>1
      <4>3. QED
        BY <4>1, <4>2
    <3>5. QED
      BY <2>1, <3>3, <3>4 DEF IND
  <2>7. CASE ~ValidateCustStr(Value)
    BY <2>1, <2>5, <2>7
  <2>8. QED
    BY <2>6, <2>7
<1>4. CASE UNCHANGED file
  BY <1>4 DEF file
<1>5. QED
  BY <1>1, <1>2, <1>3, <1>4 DEF FileNext

LEMMA FileInductive == FileSpec => []FileInv
BY FileInvInit, FileInvStep, PTL DEF FileSpec

\* Whatever the lines of the file are, what the daemon keeps of them passes
\* indicator_validate_cust_str, and is not looked at again.
THEOREM FileKeepsValid == FileSpec => []KnownValid
<1>1. FileInv => KnownValid
  <2>1. SUFFICES ASSUME FileInv, NEW i \in 1..Len(indicators)
                 PROVE  indicators[i].str \in Bytes
    BY DEF FileInv, KnownValid
  <2>2. indicators[i] \in [name : Bytes \ {<<>>}, str : Bytes]
    BY <2>1, ElementOfSeq DEF FileInv
  <2>3. QED
    BY <2>2
<1>2. QED
  BY <1>1, FileInductive, PTL

\* ... so each of them has frames to show, for files of any length.
THEOREM KnownIndicatorsHaveFrames == FileSpec => []IndicatorsHaveFrames
<1>1. ASSUME FileInv PROVE IndicatorsHaveFrames
  <2>1. DOMAIN indicators = 1..Len(indicators)
    BY <1>1, LenProperties DEF FileInv
  <2>2. ASSUME NEW i \in 1..Len(indicators)
        PROVE  LET s == indicators[i].str
               IN /\ indicators[i].name # <<>> /\ s # <<>>
                  /\ Frames(s) # <<>> /\ <<>> \notin Range(Frames(s))
    <3> DEFINE s == indicators[i].str
    <3>1. indicators[i] \in [name : Bytes \ {<<>>}, str : Bytes]
      BY <1>1, ElementOfSeq DEF FileInv
    <3>2. s \in Bytes /\ indicators[i].name # <<>> /\ ValidateCustStr(s)
      BY <1>1, <3>1 DEF FileInv
    <3> HIDE DEF s
    <3>3. /\ Frames(s) # <<>> /\ Frames(s) \in Seq(Bytes)
          /\ Len(Frames(s)) = Cardinality(DelimiterSet(s)) - 1
          /\ \A j \in 1..Cardinality(DelimiterSet(s)) - 1 : Frames(s)[j] # <<>>
      BY <3>2, FramesFacts
    <3>4. DOMAIN Frames(s) = 1..Cardinality(DelimiterSet(s)) - 1
      BY <3>3, LenProperties
    <3>5. <<>> \notin Range(Frames(s))
      BY <3>3, <3>4 DEF Range
    <3>6. s # <<>>
      BY <3>2 DEF ValidateCustStr
    <3>7. QED
      BY <3>2, <3>3, <3>5, <3>6 DEF s
  <2>3. QED
    BY <2>1, <2>2 DEF IndicatorsHaveFrames
<1>2. QED
  BY <1>1, FileInductive, PTL

\* A daemon that has read its configuration file shows the indicators of the
\* messages, its own and those of the file, frame by frame.
THEOREM FileAndPointersImplementCycle ==
  FileSpec /\ IndicatorSpec => ImplementsCycle
BY FileKeepsValid, PointersImplementCycle, PTL

\* ... and draws what they say, if those of the file are made of characters.
THEOREM FileAndFramesReadAsWritten ==
  FileSpec /\ IndicatorSpec /\ []KnownWellFormed => []ReadAsWritten
BY FileKeepsValid, FramesReadAsWritten, PTL

===============================================================================
