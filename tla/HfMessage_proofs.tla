--------------------------- MODULE HfMessage_proofs ---------------------------
(***************************************************************************)
(* Theorems about HfMessage: what is built is parsed as it was meant, for  *)
(* all values of the fields, all integers among them.                      *)
(***************************************************************************)
EXTENDS HfMessage, SeqLemmas

-----------------------------------------------------------------------------
(***************************************************************************)
(* Integers and their texts.                                               *)
(***************************************************************************)

\* Each digit has the value of its place.
LEMMA DigitFacts ==
  /\ \A j \in 0..9 : Digits[j + 1] \in ToSet(Digits) /\ DigitValue(Digits[j + 1]) = j
  /\ "-" \notin ToSet(Digits)
  /\ \A d : DigitValue(d) \in Int
<1>1. Len(Digits) = 10 /\ DOMAIN Digits = 1..10
  BY DEF Digits
<1>2. ToSet(Digits) = {"0", "1", "2", "3", "4", "5", "6", "7", "8", "9"}
  <2>1. \A i \in 1..10 : i = 1 \/ i = 2 \/ i = 3 \/ i = 4 \/ i = 5 \/ i = 6 \/ i = 7
                         \/ i = 8 \/ i = 9 \/ i = 10
    OBVIOUS
  <2>2. QED
    BY <1>1, <2>1 DEF Digits, ToSet
<1>3. \A i, j \in 1..10 : Digits[i] = Digits[j] => i = j
  BY DEF Digits
<1>4. ASSUME NEW d
      PROVE  LET I == {i \in 1..10 : Digits[i] = d}
             IN DigitValue(d) = (IF I # {} THEN Min(I) ELSE 0) - 1
  BY <1>1 DEF DigitValue, SelectInSeq
<1>5. ASSUME NEW d PROVE DigitValue(d) \in Int
  <2> DEFINE I == {i \in 1..10 : Digits[i] = d}
  <2>1. I \in SUBSET Nat
    OBVIOUS
  <2>2. I # {} => Min(I) \in Nat
    BY <2>1, MinFacts
  <2> HIDE DEF I
  <2>3. QED
    BY <1>4, <2>2 DEF I
<1>6. ASSUME NEW j \in 0..9 PROVE DigitValue(Digits[j + 1]) = j
  <2> DEFINE I == {i \in 1..10 : Digits[i] = Digits[j + 1]}
  <2>1. j + 1 \in 1..10
    OBVIOUS
  <2>2. I = {j + 1}
    BY <1>3, <2>1
  <2>3. I \in SUBSET Nat /\ I # {}
    BY <2>1, <2>2
  <2>4. DigitValue(Digits[j + 1]) = (IF I # {} THEN Min(I) ELSE 0) - 1
    BY <1>4
  <2> HIDE DEF I
  <2>5. Min(I) = j + 1
    BY <2>2, <2>3, MinFacts
  <2>6. QED
    BY <2>3, <2>4, <2>5
<1>7. \A j \in 0..9 : Digits[j + 1] \in ToSet(Digits)
  <2>1. \A j \in 0..9 : j + 1 \in 1..10
    OBVIOUS
  <2>2. QED
    BY <1>1, <2>1 DEF ToSet
<1>8. "-" \notin ToSet(Digits)
  BY <1>2, Zenon
<1>9. QED
  BY <1>5, <1>6, <1>7, <1>8

LEMMA SingleFacts ==
  ASSUME NEW S, NEW d \in S
  PROVE  <<d>> \in Seq(S) /\ Len(<<d>>) = 1 /\ <<d>>[1] = d
<1>1. <<d>> = [i \in 1..1 |-> d]
  OBVIOUS
<1>2. QED
  BY <1>1, SeqDef

\* The text of a number is that of its tenth, and one more digit.
LEMMA NumeralStep ==
  ASSUME NEW n \in Nat, NEW k \in 0..n
  PROVE  Numeral(n)[k] = IF k < 10 THEN <<Digits[k + 1]>>
                         ELSE Append(Numeral(n)[k \div 10], Digits[(k % 10) + 1])
<1> DEFINE D == 0..n
           V == Seq(ToSet(Digits))
           body(f, x) == IF x < 10 THEN <<Digits[x + 1]>>
                         ELSE Append(f[x \div 10], Digits[(x % 10) + 1])
           r == [x \in D |-> x]
           G == [x \in D |-> [f \in [D -> V] |-> body(f, x)]]
<1>1. /\ \A x \in D : x < 10 => Digits[x + 1] \in ToSet(Digits)
      /\ \A x \in D : x >= 10 => /\ x \div 10 \in D /\ x \div 10 < x
                                 /\ Digits[(x % 10) + 1] \in ToSet(Digits)
  <2>1. \A x \in D : x >= 10 => x \div 10 \in D /\ x \div 10 < x /\ x % 10 \in 0..9
    OBVIOUS
  <2>2. \A x \in D : x < 10 => x \in 0..9
    OBVIOUS
  <2>3. QED
    BY <2>1, <2>2, DigitFacts
<1>2. r \in [D -> 0..n]
  OBVIOUS
<1>3. V # {}
  BY EmptySeq
<1>4. ASSUME NEW x \in D, NEW f \in [D -> V]
      PROVE  body(f, x) \in V
  <2> HIDE DEF D
  <2>1. x \in Int
    BY DEF D
  <2>2. CASE x < 10
    BY <1>1, <2>2, SingleFacts
  <2>3. CASE x >= 10
    BY <1>1, <2>1, <2>3, AppendProperties
  <2>4. QED
    BY <2>1, <2>2, <2>3
<1>5. G \in [D -> [[D -> V] -> V]]
  BY <1>4
<1>6. ASSUME NEW x \in D, NEW f \in [D -> V], NEW g \in [D -> V],
             Smaller(r, x, f, g)
      PROVE  G[x][f] = G[x][g]
  <2>1. x >= 10 => f[x \div 10] = g[x \div 10]
    BY <1>1, <1>2, <1>6 DEF Smaller
  <2>2. body(f, x) = body(g, x)
    BY <2>1
  <2>3. QED
    BY <2>2
<1> HIDE DEF r, V
<1>7. \E f \in [D -> V] : \A x \in D : f[x] = G[x][f]
  <2> HIDE DEF G, D
  <2>1. Recursive(D, V, n, r, G)
    BY <1>2, <1>5, <1>6 DEF Recursive
  <2>2. QED
    BY <1>3, <2>1, RecursionExists
<1>8. PICK f \in [D -> V] : f = [x \in D |-> body(f, x)]
  <2>1. PICK f \in [D -> V] : \A x \in D : f[x] = G[x][f]
    BY <1>7
  <2>2. \A x \in D : f[x] = body(f, x)
    BY <2>1
  <2>3. QED
    BY <2>2
<1>9. Numeral(n) = [x \in D |-> body(Numeral(n), x)]
  BY <1>8 DEF Numeral
<1>10. QED
  BY <1>9

LEMMA NumeralType ==
  ASSUME NEW n \in Nat, NEW k \in 0..n
  PROVE  /\ Numeral(n)[k] \in Seq(ToSet(Digits))
         /\ Numeral(n)[k] # <<>> /\ Numeral(n)[k][1] \in ToSet(Digits)
<1> DEFINE V == Seq(ToSet(Digits))
           A == {x \in Nat : x <= n => Numeral(n)[x] \in V /\ Len(Numeral(n)[x]) >= 1}
<1>1. ASSUME NEW x \in Nat, \A y \in 0..x - 1 : y \in A
      PROVE  x \in A
  <2>1. SUFFICES ASSUME x <= n PROVE Numeral(n)[x] \in V /\ Len(Numeral(n)[x]) >= 1
    OBVIOUS
  <2>2. x \in 0..n
    BY <2>1
  <2> DEFINE w == Numeral(n)
  <2>3. w[x] = IF x < 10 THEN <<Digits[x + 1]>>
               ELSE Append(w[x \div 10], Digits[(x % 10) + 1])
    BY <2>2, NumeralStep
  <2> HIDE DEF w
  <2>4. CASE x < 10
    <3>1. w[x] = <<Digits[x + 1]>> /\ x \in 0..9
      BY <2>2, <2>3, <2>4
    <3>2. Digits[x + 1] \in ToSet(Digits)
      BY <3>1, DigitFacts
    <3>3. QED
      BY <3>1, <3>2, SingleFacts DEF w
  <2>5. CASE x >= 10
    <3> DEFINE u == w[x \div 10]
               d == Digits[(x % 10) + 1]
    <3>1. x \div 10 \in 0..x - 1 /\ x \div 10 <= n /\ x % 10 \in 0..9
      BY <2>1, <2>5
    <3>2. u \in V
      BY <1>1, <3>1 DEF w
    <3>3. d \in ToSet(Digits)
      BY <3>1, DigitFacts
    <3>4. w[x] = Append(u, d)
      BY <2>3, <2>5
    <3> HIDE DEF u, d
    <3>5. Append(u, d) \in V /\ Len(Append(u, d)) = Len(u) + 1 /\ Len(u) \in Nat
      BY <3>2, <3>3, AppendProperties, LenProperties
    <3>6. QED
      BY <3>4, <3>5 DEF w
  <2>6. QED
    BY <2>4, <2>5
<1>2. Nat \subseteq A
  <2> HIDE DEF A
  <2>1. QED
    BY <1>1, InductionUp
<1>3. k \in Nat /\ k <= n
  OBVIOUS
<1>4. Numeral(n)[k] \in V /\ Len(Numeral(n)[k]) >= 1
  BY <1>2, <1>3
<1> DEFINE t == Numeral(n)[k]
<1> HIDE DEF t
<1>5. t \in Seq(ToSet(Digits)) /\ Len(t) >= 1
  BY <1>4 DEF t
<1>6. Len(t) \in Nat /\ t # <<>>
  BY <1>5, LenProperties, EmptySeq
<1>7. t[1] \in ToSet(Digits)
  <2>1. 1 \in 1..Len(t)
    BY <1>5, <1>6
  <2>2. QED
    BY <1>5, <2>1, ElementOfSeq
<1>8. QED
  BY <1>5, <1>6, <1>7 DEF t

\* The value of a text is ten times that of what is before its last symbol,
\* and the last digit.
LEMMA NumberStep ==
  ASSUME NEW S, NEW t \in Seq(S), NEW k \in 0..Len(t)
  PROVE  Number(t)[k] = IF k = 0 THEN 0 ELSE 10 * Number(t)[k - 1] + DigitValue(t[k])
<1> DEFINE D == 0..Len(t)
           v(x) == DigitValue(t[x])
           body(f, x) == IF x = 0 THEN 0 ELSE 10 * f[x - 1] + v(x)
           r == [x \in D |-> x]
           G == [x \in D |-> [f \in [D -> Int] |-> body(f, x)]]
<1>1. Len(t) \in Nat
  BY LenProperties
<1>2. \A x \in D : v(x) \in Int
  BY DigitFacts
<1> HIDE DEF v
<1>3. r \in [D -> 0..Len(t)]
  OBVIOUS
<1>4. ASSUME NEW x \in D, NEW f \in [D -> Int]
      PROVE  body(f, x) \in Int
  <2>1. x # 0 => x - 1 \in D
    BY <1>1
  <2>2. x # 0 => f[x - 1] \in Int /\ v(x) \in Int
    BY <1>2, <2>1
  <2>3. QED
    BY <2>2
<1>5. G \in [D -> [[D -> Int] -> Int]]
  BY <1>4
<1>6. ASSUME NEW x \in D, NEW f \in [D -> Int], NEW g \in [D -> Int],
             Smaller(r, x, f, g)
      PROVE  G[x][f] = G[x][g]
  <2>1. x # 0 => x - 1 \in D /\ r[x - 1] < r[x]
    BY <1>1
  <2>2. x # 0 => f[x - 1] = g[x - 1]
    BY <1>3, <1>6, <2>1 DEF Smaller
  <2>3. body(f, x) = body(g, x)
    BY <2>2
  <2>4. QED
    BY <2>3
<1> HIDE DEF r
<1>7. \E f \in [D -> Int] : \A x \in D : f[x] = G[x][f]
  <2>1. Int # {}
    OBVIOUS
  <2> HIDE DEF G, D
  <2>2. Recursive(D, Int, Len(t), r, G)
    BY <1>1, <1>3, <1>5, <1>6 DEF Recursive
  <2>3. QED
    BY <2>1, <2>2, RecursionExists
<1>8. PICK f \in [D -> Int] : f = [x \in D |-> body(f, x)]
  <2>1. PICK f \in [D -> Int] : \A x \in D : f[x] = G[x][f]
    BY <1>7
  <2>2. \A x \in D : f[x] = body(f, x)
    BY <2>1
  <2>3. QED
    BY <2>2
<1>9. Number(t) = [x \in D |-> body(Number(t), x)]
  BY <1>8 DEF Number, v
<1>10. QED
  BY <1>9 DEF v

LEMMA NumberType ==
  ASSUME NEW S, NEW t \in Seq(S), NEW k \in 0..Len(t)
  PROVE  Number(t)[k] \in Int
<1> DEFINE A == {x \in Nat : x <= Len(t) => Number(t)[x] \in Int}
<1>1. Len(t) \in Nat
  BY LenProperties
<1>2. ASSUME NEW x \in Nat, \A y \in 0..x - 1 : y \in A
      PROVE  x \in A
  <2>1. SUFFICES ASSUME x <= Len(t) PROVE Number(t)[x] \in Int
    OBVIOUS
  <2>2. Number(t)[x] = IF x = 0 THEN 0 ELSE 10 * Number(t)[x - 1] + DigitValue(t[x])
    <3>1. x \in 0..Len(t)
      BY <1>1, <2>1
    <3>2. QED
      BY <3>1, NumberStep
  <2>3. x # 0 => x - 1 \in 0..x - 1 /\ x - 1 <= Len(t)
    BY <1>1, <2>1
  <2>4. x # 0 => Number(t)[x - 1] \in Int /\ DigitValue(t[x]) \in Int
    BY <1>2, <2>3, DigitFacts
  <2>5. QED
    BY <2>2, <2>4
<1>3. Nat \subseteq A
  <2> HIDE DEF A
  <2>1. QED
    BY <1>2, InductionUp
<1>4. k \in Nat /\ k <= Len(t)
  BY <1>1
<1>5. QED
  BY <1>3, <1>4

\* One more symbol does not change the value of what is before it.
LEMMA NumberPrefix ==
  ASSUME NEW S, NEW u \in Seq(S), NEW d \in S
  PROVE  Number(Append(u, d))[Len(u) + 1] = 10 * Number(u)[Len(u)] + DigitValue(d)
<1> DEFINE t == Append(u, d)
           A == {x \in Nat : x <= Len(u) => Number(t)[x] = Number(u)[x]}
<1>1. /\ t \in Seq(S) /\ Len(t) = Len(u) + 1 /\ Len(u) \in Nat
      /\ \A i \in 1..Len(u) : t[i] = u[i]
      /\ t[Len(u) + 1] = d
  BY AppendProperties, LenProperties
<1> HIDE DEF t
<1>2. ASSUME NEW x \in Nat, \A y \in 0..x - 1 : y \in A
      PROVE  x \in A
  <2>1. SUFFICES ASSUME x <= Len(u) PROVE Number(t)[x] = Number(u)[x]
    OBVIOUS
  <2>2. x \in 0..Len(u) /\ x \in 0..Len(t)
    BY <1>1, <2>1
  <2>3. /\ Number(t)[x] = IF x = 0 THEN 0 ELSE 10 * Number(t)[x - 1] + DigitValue(t[x])
        /\ Number(u)[x] = IF x = 0 THEN 0 ELSE 10 * Number(u)[x - 1] + DigitValue(u[x])
    BY <1>1, <2>2, NumberStep
  <2>4. x # 0 => x \in 1..Len(u) /\ x - 1 \in 0..x - 1 /\ x - 1 <= Len(u)
    BY <1>1, <2>1
  <2>5. x # 0 => t[x] = u[x] /\ Number(t)[x - 1] = Number(u)[x - 1]
    BY <1>1, <1>2, <2>4
  <2>6. QED
    BY <2>3, <2>5
<1>3. Nat \subseteq A
  <2> HIDE DEF A
  <2>1. QED
    BY <1>2, InductionUp
<1>4. Number(t)[Len(u)] = Number(u)[Len(u)]
  BY <1>1, <1>3
<1>5. Len(u) + 1 \in 0..Len(t) /\ Len(u) + 1 # 0 /\ (Len(u) + 1) - 1 = Len(u)
  BY <1>1
<1>6. Number(t)[Len(u) + 1]
        = 10 * Number(t)[(Len(u) + 1) - 1] + DigitValue(t[Len(u) + 1])
  BY <1>1, <1>5, NumberStep
<1>7. QED
  BY <1>1, <1>4, <1>5, <1>6 DEF t

\* The text of a number has its value.
LEMMA NumeralValue ==
  ASSUME NEW n \in Nat, NEW k \in 0..n
  PROVE  Number(Numeral(n)[k])[Len(Numeral(n)[k])] = k
<1> DEFINE w == Numeral(n)
           Valued(x) == Number(w[x])[Len(w[x])] = x
           A == {x \in Nat : x <= n => Valued(x)}
<1>1. ASSUME NEW x \in Nat, \A y \in 0..x - 1 : y \in A
      PROVE  x \in A
  <2>1. SUFFICES ASSUME x <= n PROVE Valued(x)
    OBVIOUS
  <2>2. x \in 0..n
    BY <2>1
  <2>3. w[x] = IF x < 10 THEN <<Digits[x + 1]>>
               ELSE Append(w[x \div 10], Digits[(x % 10) + 1])
    BY <2>2, NumeralStep
  <2>4. CASE x < 10
    <3> DEFINE d == Digits[x + 1]
               t == <<d>>
    <3>1. w[x] = t /\ x \in 0..9
      BY <2>2, <2>3, <2>4
    <3>2. d \in ToSet(Digits) /\ DigitValue(d) = x
      BY <3>1, DigitFacts
    <3>3. t \in Seq(ToSet(Digits)) /\ Len(t) = 1 /\ t[1] = d
      BY <3>2, SingleFacts
    <3> HIDE DEF t, d
    <3>4. 0 \in 0..Len(t) /\ 1 \in 0..Len(t)
      BY <3>3
    <3>5. Number(t)[0] = 0 /\ Number(t)[1] = 10 * Number(t)[1 - 1] + DigitValue(t[1])
      BY <3>3, <3>4, NumberStep
    <3>6. Number(t)[1] = x
      BY <3>2, <3>3, <3>5
    <3>7. QED
      BY <3>1, <3>3, <3>6
  <2>5. CASE x >= 10
    <3> DEFINE u == w[x \div 10]
               d == Digits[(x % 10) + 1]
    <3>1. x \div 10 \in 0..x - 1 /\ x \div 10 \in 0..n /\ x % 10 \in 0..9
      BY <2>1, <2>5
    <3>2. Number(u)[Len(u)] = x \div 10
      BY <1>1, <3>1
    <3>3. d \in ToSet(Digits) /\ DigitValue(d) = x % 10
      BY <3>1, DigitFacts
    <3>4. w[x] = Append(u, d)
      BY <2>3, <2>5
    <3>5. u \in Seq(ToSet(Digits))
      BY <3>1, NumeralType
    <3> HIDE DEF u, d, w
    <3>6. Number(Append(u, d))[Len(u) + 1] = 10 * Number(u)[Len(u)] + DigitValue(d)
      BY <3>3, <3>5, NumberPrefix
    <3>7. Len(Append(u, d)) = Len(u) + 1
      BY <3>3, <3>5, AppendProperties
    <3>8. 10 * (x \div 10) + (x % 10) = x
      OBVIOUS
    <3>9. QED
      BY <3>2, <3>3, <3>4, <3>6, <3>7, <3>8
  <2>6. QED
    BY <2>2, <2>4, <2>5
<1>2. Nat \subseteq A
  <2> HIDE DEF A
  <2>1. QED
    BY <1>1, InductionUp
<1>3. k \in Nat /\ k <= n
  OBVIOUS
<1>4. QED
  BY <1>2, <1>3

\* strtoll reads what PRId64 wrote, for every number of 64 bits.
LEMMA IntFacts ==
  ASSUME NEW n \in INT64
  PROVE  /\ IntToText(n) \in Seq(Words) /\ IntToText(n) # <<>>
         /\ IsInt(IntToText(n)) /\ TextToInt(IntToText(n)) = n
<1> DEFINE a == IF n < 0 THEN -n ELSE n
           m == Numeral(a)[a]
           t == IntToText(n)
<1>1. n \in Int /\ a \in Nat /\ a \in 0..a
  BY HfMessageAssumption DEF INT64
<1> HIDE DEF a
<1>2. /\ m \in Seq(ToSet(Digits)) /\ m # <<>> /\ m[1] \in ToSet(Digits)
      /\ Number(m)[Len(m)] = a
  BY <1>1, NumeralType, NumeralValue
<1>3. t = IF n < 0 THEN <<"-">> \o m ELSE m
  BY DEF IntToText, a
<1> HIDE DEF m
<1>4. ToSet(m) \subseteq ToSet(Digits)
  BY <1>2, ToSetType
<1>5. m \in Seq(Words)
  <2>1. ToSet(Digits) \subseteq Words
    BY HfMessageAssumption
  <2>2. QED
    BY <1>2, <2>1, SeqMonotonic
<1>6. t \in Seq(Words) /\ t # <<>> /\ Magnitude(t) = m /\ (Negative(t) <=> n < 0)
  <2>1. CASE n < 0
    <3> DEFINE sign == <<"-">>
    <3>1. sign \in Seq(Words) /\ Len(sign) = 1 /\ sign[1] = "-"
      <4>1. "-" \in Words
        BY HfMessageAssumption
      <4>2. QED
        BY <4>1, SingleFacts
    <3>2. t = sign \o m
      BY <1>3, <2>1
    <3> HIDE DEF sign, t
    <3>3. /\ t \in Seq(Words) /\ Len(t) = 1 + Len(m) /\ Len(m) \in Nat
          /\ \A i \in 1..1 + Len(m) : t[i] = IF i <= 1 THEN sign[i] ELSE m[i - 1]
      <4>1. m \in Seq(Words) /\ Len(m) \in Nat
        BY <1>5, LenProperties
      <4>2. /\ sign \o m \in Seq(Words) /\ Len(sign \o m) = Len(sign) + Len(m)
            /\ \A i \in 1..Len(sign) + Len(m) :
                 (sign \o m)[i] = IF i <= Len(sign) THEN sign[i] ELSE m[i - Len(sign)]
        BY <3>1, <4>1, ConcatProperties
      <4>3. QED
        BY <3>1, <3>2, <4>1, <4>2
    <3>4. t[1] = "-" /\ t # <<>>
      <4>1. 1 \in 1..1 + Len(m)
        BY <3>3
      <4>2. t[1] = "-"
        BY <3>1, <3>3, <4>1
      <4>3. Len(t) # 0
        BY <3>3
      <4>4. QED
        BY <4>2, <4>3, EmptySeq
    <3>5. Tail(t) = m
      <4>1. /\ Tail(t) \in Seq(Words) /\ Len(Tail(t)) = Len(t) - 1
            /\ \A i \in 1..Len(Tail(t)) : Tail(t)[i] = t[i + 1]
        BY <3>3, <3>4, HeadTailProperties
      <4>2. Len(Tail(t)) = Len(m)
        BY <3>3, <4>1
      <4>3. \A i \in 1..Len(m) : Tail(t)[i] = m[i]
        <5>1. SUFFICES ASSUME NEW i \in 1..Len(m) PROVE Tail(t)[i] = m[i]
          OBVIOUS
        <5>2. i + 1 \in 1..1 + Len(m) /\ ~(i + 1 <= 1) /\ (i + 1) - 1 = i
          BY <3>3
        <5>3. t[i + 1] = m[(i + 1) - 1]
          BY <3>3, <5>2
        <5>4. QED
          BY <4>1, <4>2, <5>2, <5>3
      <4>4. QED
        BY <1>5, <4>1, <4>2, <4>3, SeqEqual
    <3>6. QED
      BY <2>1, <3>3, <3>4, <3>5 DEF Magnitude, Negative
  <2>2. CASE ~(n < 0)
    <3>1. t = m
      BY <1>3, <2>2
    <3>2. m[1] # "-"
      BY <1>2, DigitFacts
    <3> HIDE DEF t
    <3>3. QED
      BY <1>2, <1>5, <2>2, <3>1, <3>2 DEF Magnitude, Negative
  <2>3. QED
    BY <2>1, <2>2
<1> HIDE DEF t
<1>7. TextToInt(t) = n
  BY <1>1, <1>2, <1>6 DEF TextToInt, a
<1>8. IsInt(t)
  BY <1>2, <1>4, <1>6, <1>7 DEF IsInt
<1>9. QED
  BY <1>6, <1>7, <1>8 DEF t

-----------------------------------------------------------------------------
(***************************************************************************)
(* Lines and messages.                                                     *)
(***************************************************************************)

\* What is written for a value of a field is read as that value.
LEMMA WriteFacts ==
  ASSUME NEW k, NEW v \in FieldValues(k)
  PROVE  /\ Write(k, v) \in Seq(Words) /\ Write(k, v) # <<>>
         /\ Readable(k, Write(k, v)) /\ Read(k, Write(k, v)) = v
<1>1. CASE k \in StringFields
  BY <1>1 DEF FieldValues, Write, Readable, Read, StringFields, IntegerFields
<1>2. CASE k \in IntegerFields
  <2>1. k \notin StringFields
    BY <1>2 DEF StringFields, IntegerFields
  <2>2. v \in INT64
    BY <1>2, <2>1 DEF FieldValues
  <2>3. QED
    BY <1>2, <2>1, <2>2, IntFacts DEF Write, Readable, Read
<1>3. CASE k \notin StringFields \cup IntegerFields
  <2>1. v \in BOOLEAN /\ Write(k, v) = IF v THEN <<"true">> ELSE <<"false">>
    BY <1>3 DEF FieldValues, Write
  <2>2. /\ <<"true">> \in Seq(Words) /\ Len(<<"true">>) = 1 /\ <<"true">>[1] = "true"
        /\ <<"false">> \in Seq(Words) /\ Len(<<"false">>) = 1 /\ <<"false">>[1] = "false"
    <3>1. "true" \in Words /\ "false" \in Words
      BY HfMessageAssumption
    <3>2. QED
      BY <3>1, SingleFacts
  <2>3. <<"true">> # <<"false">> /\ <<"true">> # <<>> /\ <<"false">> # <<>>
    BY <2>2, EmptySeq
  <2>4. /\ Readable(k, Write(k, v)) = (Write(k, v) \in {<<"true">>, <<"false">>})
        /\ Read(k, Write(k, v)) = (Write(k, v) = <<"true">>)
    BY <1>3 DEF Readable, Read
  <2>5. CASE v = TRUE
    BY <2>1, <2>2, <2>3, <2>4, <2>5
  <2>6. CASE v = FALSE
    BY <2>1, <2>2, <2>3, <2>4, <2>6
  <2>7. QED
    BY <2>1, <2>5, <2>6
<1>4. QED
  BY <1>1, <1>2, <1>3

\* The keys, and their places.
LEMMA FieldFacts ==
  /\ DOMAIN HF_FIELDS = 1..8 /\ ToSet(HF_FIELDS) \subseteq Words
  /\ \A n \in 1..8 : HF_FIELDS[n] \in ToSet(HF_FIELDS)
  /\ \A k \in ToSet(HF_FIELDS) : \E n \in 1..8 : HF_FIELDS[n] = k
  /\ \A n, o \in 1..8 : HF_FIELDS[n] = HF_FIELDS[o] => n = o
  /\ \A h \in DOMAIN ValidFields : ValidFields[h] \subseteq ToSet(HF_FIELDS) /\ h \in Words
<1>1. DOMAIN HF_FIELDS = 1..8
  BY DEF HF_FIELDS
<1>2. \A n, o \in 1..8 : HF_FIELDS[n] = HF_FIELDS[o] => n = o
  BY DEF HF_FIELDS
<1>3. /\ \A n \in 1..8 : HF_FIELDS[n] \in ToSet(HF_FIELDS)
      /\ \A k \in ToSet(HF_FIELDS) : \E n \in 1..8 : HF_FIELDS[n] = k
  BY <1>1 DEF ToSet
<1>4. "nid" \in ToSet(HF_FIELDS)
  <2>1. HF_FIELDS[7] = "nid" /\ 7 \in 1..8
    BY DEF HF_FIELDS
  <2>2. QED
    BY <1>3, <2>1
<1>5. \A h \in DOMAIN ValidFields : ValidFields[h] \subseteq ToSet(HF_FIELDS)
  BY <1>4 DEF ValidFields, Attributes
<1>6. ToSet(HF_FIELDS) \subseteq Words /\ DOMAIN ValidFields \subseteq Words
  BY HfMessageAssumption
<1>7. QED
  BY <1>1, <1>2, <1>3, <1>5, <1>6

\* The fields of a message are of their types.
Typed(f) == DOMAIN f \subseteq ToSet(HF_FIELDS) /\ \A k \in DOMAIN f : f[k] \in FieldValues(k)

\* One line for each of the fields, and none besides.
LEMMA LinesFacts ==
  ASSUME NEW m, NEW ks \in SUBSET ToSet(HF_FIELDS),
         \A k \in ks : m.fields[k] \in FieldValues(k)
  PROVE  LET l == LinesOf(m, ks)
         IN /\ l \in Seq(Words \X Seq(Words)) /\ Len(l) \in Nat
            /\ \A i \in 1..Len(l) : l[i][1] \in ks /\ l[i][2] = Write(l[i][1], m.fields[l[i][1]])
            /\ \A k \in ks : \E i \in 1..Len(l) : l[i][1] = k
            /\ \A i, j \in 1..Len(l) : l[i][1] = l[j][1] => i = j
<1> DEFINE S == {n \in DOMAIN HF_FIELDS : HF_FIELDS[n] \in ks}
           at == InOrder(S)
           n == Cardinality(S)
           key == [i \in DOMAIN at |-> HF_FIELDS[at[i]]]
           l == LinesOf(m, ks)
<1>1. S \subseteq 1..8 /\ S \in SUBSET Int /\ \A x \in S : HF_FIELDS[x] \in ks
  BY FieldFacts
<1>2. IsFiniteSet(S)
  <2>1. IsFiniteSet(1..8)
    <3>1. \A a, b \in Int : IsFiniteSet(a..b)
      BY FS_Interval
    <3>2. 1 \in Int /\ 8 \in Int
      OBVIOUS
    <3>3. QED
      BY <3>1, <3>2, Zenon
  <2>2. QED
    BY <1>1, <2>1, FS_Subset
<1>3. \A k \in ks : \E x \in S : HF_FIELDS[x] = k
  BY FieldFacts
<1> HIDE DEF S
<1>4. /\ n \in Nat /\ at \in Seq(S) /\ Len(at) = n
      /\ \A i \in 1..n : at[i] \in S
      /\ \A x \in S : \E i \in 1..n : at[i] = x
      /\ \A i, j \in 1..n : at[i] = at[j] => i = j
  BY <1>1, <1>2, InOrderFacts
<1>5. DOMAIN at = 1..n
  BY <1>4, LenProperties
<1>6. l = [i \in DOMAIN at |-> <<key[i], Write(key[i], m.fields[key[i]])>>]
  BY DEF LinesOf, S
<1> HIDE DEF at, n, l
<1>7. ASSUME NEW i \in 1..n
      PROVE  /\ l[i] = <<HF_FIELDS[at[i]], Write(HF_FIELDS[at[i]], m.fields[HF_FIELDS[at[i]]])>>
             /\ HF_FIELDS[at[i]] \in ks
             /\ l[i] \in Words \X Seq(Words)
  <2>1. /\ l[i] = <<HF_FIELDS[at[i]], Write(HF_FIELDS[at[i]], m.fields[HF_FIELDS[at[i]]])>>
        /\ HF_FIELDS[at[i]] \in ks
    BY <1>1, <1>4, <1>5, <1>6
  <2>2. Write(HF_FIELDS[at[i]], m.fields[HF_FIELDS[at[i]]]) \in Seq(Words)
    BY <2>1, WriteFacts
  <2>3. HF_FIELDS[at[i]] \in Words
    BY <2>1, FieldFacts
  <2>4. QED
    BY <2>1, <2>2, <2>3
<1>8. l \in Seq(Words \X Seq(Words)) /\ Len(l) = n
  <2>1. l = [i \in 1..n |-> l[i]]
    BY <1>5, <1>6
  <2>2. l \in [1..n -> Words \X Seq(Words)]
    BY <1>7, <2>1
  <2>3. l \in Seq(Words \X Seq(Words))
    BY <1>4, <2>2, SeqDef
  <2>4. QED
    BY <1>4, <2>2, <2>3, LenProperties
<1>9. \A i \in 1..n : /\ l[i][1] = HF_FIELDS[at[i]] /\ l[i][1] \in ks
                      /\ l[i][2] = Write(l[i][1], m.fields[l[i][1]])
  BY <1>7
<1>10. \A k \in ks : \E i \in 1..n : l[i][1] = k
  BY <1>3, <1>4, <1>9
<1>11. \A i, j \in 1..n : l[i][1] = l[j][1] => i = j
  <2>1. SUFFICES ASSUME NEW i \in 1..n, NEW j \in 1..n, l[i][1] = l[j][1] PROVE i = j
    OBVIOUS
  <2>2. HF_FIELDS[at[i]] = HF_FIELDS[at[j]] /\ at[i] \in 1..8 /\ at[j] \in 1..8
    BY <1>1, <1>4, <1>9, <2>1
  <2>3. at[i] = at[j]
    BY <2>2, FieldFacts
  <2>4. QED
    BY <1>4, <2>3
<1>12. QED
  BY <1>4, <1>8, <1>9, <1>10, <1>11 DEF l

\* The line that counts for a key is the last one that has it.
LEMMA LineFacts ==
  ASSUME NEW S, NEW w, w.lines \in Seq(S), NEW k
  PROVE  LET ls == w.lines
             at == Counting(w, k)
         IN \/ at = 0 /\ \A i \in 1..Len(ls) : ls[i][1] # k
            \/ /\ at \in 1..Len(ls) /\ ls[at][1] = k
               /\ \A i \in 1..Len(ls) : ls[i][1] = k => i <= at
<1> DEFINE ls == w.lines
           I == {i \in 1..Len(ls) : ls[i][1] = k}
           at == Counting(w, k)
<1>1. at = IF I # {} THEN Max(I) ELSE 0
  BY DEF Counting, SelectLastInSeq
<1>2. Len(ls) \in Nat
  BY LenProperties
<1>3. I \in SUBSET Nat /\ \A i \in I : i <= Len(ls)
  BY <1>2
<1>4. I # {} => Max(I) \in I /\ \A i \in I : i <= Max(I)
  BY <1>2, <1>3, MaxFacts
<1> HIDE DEF at
<1>5. CASE I = {}
  BY <1>1, <1>5 DEF at
<1>6. CASE I # {}
  <2>1. at \in I /\ \A i \in I : i <= at
    BY <1>1, <1>4, <1>6
  <2>2. at \in 1..Len(ls) /\ ls[at][1] = k /\ \A i \in 1..Len(ls) : ls[i][1] = k => i <= at
    BY <2>1
  <2>3. QED
    BY <2>2 DEF at
<1>7. QED
  BY <1>5, <1>6

-----------------------------------------------------------------------------
\* The fields of a message that are sent: those that are valid for its header.
SentFields(m, ks) ==
  /\ m.header \in DOMAIN ValidFields
  /\ ks = ValidFields[m.header] \cap DOMAIN m.fields
  /\ \A k \in ks : m.fields[k] \in FieldValues(k)

\* What is built is parsed as the same message, without the fields that the
\* header does not allow.
LEMMA RoundTrip ==
  ASSUME NEW m, NEW ks, SentFields(m, ks)
  PROVE  /\ Build(m) \in Sent /\ Build(m) # NULL
         /\ \A i \in DOMAIN Build(m).lines : Build(m).lines[i][1] \in ks
         /\ Parses(Build(m))
         /\ Parsed(Build(m)) = Message(m.header, [k \in ks |-> m.fields[k]])
<1> DEFINE w == Build(m)
           ls == LinesOf(m, ks)
           line(k) == Counting(w, k)
           P == {j \in ToSet(HF_FIELDS) : Sets(w, j)}
<1>1. /\ ks \in SUBSET ToSet(HF_FIELDS) /\ ks \subseteq ValidFields[m.header]
      /\ m.header \in Words /\ m.header \in DOMAIN ValidFields
      /\ \A k \in ks : m.fields[k] \in FieldValues(k)
  BY FieldFacts DEF SentFields
<1>2. w = [header |-> m.header, lines |-> ls]
  BY DEF Build, SentFields
<1>3. /\ ls \in Seq(Words \X Seq(Words)) /\ Len(ls) \in Nat
      /\ \A i \in 1..Len(ls) : ls[i][1] \in ks /\ ls[i][2] = Write(ls[i][1], m.fields[ls[i][1]])
      /\ \A k \in ks : \E i \in 1..Len(ls) : ls[i][1] = k
      /\ \A i, j \in 1..Len(ls) : ls[i][1] = ls[j][1] => i = j
  <2>1. ks \in SUBSET ToSet(HF_FIELDS) /\ \A k \in ks : m.fields[k] \in FieldValues(k)
    BY <1>1
  <2> HIDE DEF w
  <2>2. QED
    BY <2>1, LinesFacts
<1> HIDE DEF w, ls
<1>4. w.header = m.header /\ w.lines = ls /\ w \in Sent
  BY <1>1, <1>2, <1>3 DEF Sent
<1>5. w # NULL
  BY <1>4, HfMessageAssumption
<1>6. DOMAIN ls = 1..Len(ls)
  BY <1>3, LenProperties
<1>7. ASSUME NEW i \in 1..Len(ls)
      PROVE  /\ Accepts(m.header, ls[i])
             /\ Read(ls[i][1], ls[i][2]) = m.fields[ls[i][1]]
  <2> DEFINE k == ls[i][1]
             v == m.fields[k]
  <2>1. k \in ks /\ k \in ValidFields[m.header] /\ ls[i][2] = Write(k, v) /\ v \in FieldValues(k)
    BY <1>1, <1>3
  <2> HIDE DEF v
  <2>2. Write(k, v) # <<>> /\ Readable(k, Write(k, v)) /\ Read(k, Write(k, v)) = v
    BY <2>1, WriteFacts
  <2>3. QED
    BY <2>1, <2>2 DEF Accepts, v
<1>8. Parses(w)
  BY <1>1, <1>4, <1>6, <1>7 DEF Parses
<1>9. ASSUME NEW k
      PROVE  /\ line(k) # 0 => line(k) \in 1..Len(ls) /\ ls[line(k)][1] = k
             /\ k \in ks => line(k) # 0
  <2>1. \/ line(k) = 0 /\ \A i \in 1..Len(ls) : ls[i][1] # k
        \/ line(k) \in 1..Len(ls) /\ ls[line(k)][1] = k
    <3>1. w.lines \in Seq(Words \X Seq(Words))
      BY <1>3, <1>4
    <3>2. \/ line(k) = 0 /\ \A i \in 1..Len(w.lines) : w.lines[i][1] # k
          \/ line(k) \in 1..Len(w.lines) /\ w.lines[line(k)][1] = k
      BY <3>1, LineFacts
    <3>3. QED
      BY <1>4, <3>2
  <2> HIDE DEF line
  <2>2. QED
    BY <1>3, <2>1
<1>10. Parsed(w) = Message(w.header, [k \in P |-> Read(k, w.lines[line(k)][2])])
  BY DEF Parsed
<1> HIDE DEF line
<1>11. P = ks
  <2>1. ASSUME NEW k \in P PROVE k \in ks
    <3>1. line(k) # 0
      BY <2>1 DEF Sets, line
    <3>2. line(k) \in 1..Len(ls) /\ ls[line(k)][1] = k
      BY <1>9, <3>1
    <3>3. QED
      BY <1>3, <3>2
  <2>2. ASSUME NEW k \in ks PROVE k \in P
    <3>1. line(k) # 0 /\ line(k) \in 1..Len(ls)
      BY <1>9
    <3>2. Accepts(w.header, w.lines[line(k)])
      BY <1>4, <1>7, <3>1
    <3>3. QED
      BY <1>1, <3>1, <3>2 DEF Sets, line
  <2> HIDE DEF P
  <2>3. QED
    BY <2>1, <2>2
<1>12. ASSUME NEW k \in ks PROVE Read(k, w.lines[line(k)][2]) = m.fields[k]
  <2>1. line(k) \in 1..Len(ls) /\ ls[line(k)][1] = k
    BY <1>9
  <2>2. QED
    BY <1>4, <1>7, <2>1
<1> HIDE DEF P
<1>13. [k \in P |-> Read(k, w.lines[line(k)][2])] = [k \in ks |-> m.fields[k]]
  BY <1>11, <1>12
<1>14. QED
  BY <1>3, <1>4, <1>5, <1>6, <1>8, <1>10, <1>13 DEF w

-----------------------------------------------------------------------------
(***************************************************************************)
(* The exchange.                                                           *)
(***************************************************************************)

\* What the library's caller is told of an outcome.
Told(d) == IF ~d.ok THEN 0 ELSE IF d.id = 0 THEN 1 ELSE d.id

\* The inductive invariant.  A request of the library is parsed as what was
\* meant, and an answer to it says what was done.
MessageInv ==
  /\ Typed(attrs)
  /\ request # NULL => request \in Sent /\ reply = NULL
  /\ reply # NULL => \A i \in DOMAIN reply.lines : reply.lines[i][1] \notin StringFields
  /\ asked # NULL =>
       /\ asked.header \in {"NOT", "MOD", "DBG"}
       /\ request # NULL => Parses(request) /\ Parsed(request) = asked
       /\ request = NULL => handled = asked
       /\ reply # NULL => Parses(reply) /\ Returned(Parsed(reply)) = Told(done)
       /\ request = NULL /\ reply = NULL => result = Told(done)

\* A function without arguments is the one that has no fields.
LEMMA NoFieldsFacts ==
  /\ DOMAIN NoFields = {}
  /\ \A f : [k \in {} |-> f[k]] = NoFields
<1>1. DOMAIN NoFields = {}
  <2>1. <<>> \in Seq(Int) /\ Len(<<>>) = 0
    BY EmptySeq
  <2>2. DOMAIN <<>> = 1..0
    BY <2>1, LenProperties
  <2>3. QED
    BY <2>2 DEF NoFields
<1>2. ASSUME NEW f PROVE [k \in {} |-> f[k]] = NoFields
  <2> DEFINE e == [k \in {} |-> f[k]]
  <2>1. e \in [1..0 -> Int]
    OBVIOUS
  <2>2. e \in Seq(Int) /\ Len(e) = 0
    <3>1. 0 \in Nat
      OBVIOUS
    <3>2. e \in Seq(Int)
      BY <2>1, <3>1, SeqDef
    <3>3. DOMAIN e = 1..0
      OBVIOUS
    <3> HIDE DEF e
    <3>4. DOMAIN e = 1..Len(e) /\ Len(e) \in Nat
      BY <3>2, LenProperties
    <3>5. QED
      BY <3>2, <3>3, <3>4
  <2> HIDE DEF e
  <2>3. e = <<>>
    BY <2>2, EmptySeq
  <2>4. QED
    BY <2>3 DEF e, NoFields
<1>3. QED
  BY <1>1, <1>2

LEMMA MessageInvInit == MessagesInit => MessageInv
<1>1. SUFFICES ASSUME MessagesInit PROVE Typed(attrs)
  BY DEF MessagesInit, MessageInv
<1>2. QED
  BY <1>1, NoFieldsFacts DEF MessagesInit, Typed

\* A call of the library sends what its caller means.
LEMMA CallInv ==
  ASSUME MessageInv, NEW m, NEW ks, SentFields(m, ks),
         NEW meant, meant = Message(m.header, [k \in ks |-> m.fields[k]]),
         m.header \in {"NOT", "MOD", "DBG"}, Call(m, meant), Typed(attrs')
  PROVE  MessageInv'
<1>1. /\ request' = Build(m) /\ asked' = meant /\ reply' = reply /\ reply = NULL
  BY DEF Call, Idle
<1>2. /\ Build(m) \in Sent /\ Build(m) # NULL /\ Parses(Build(m))
      /\ Parsed(Build(m)) = Message(m.header, [k \in ks |-> m.fields[k]])
  BY RoundTrip
<1>3. meant.header = m.header
  BY DEF Message
<1>4. /\ request' # NULL /\ request' \in Sent /\ reply' = NULL
      /\ Parses(request') /\ Parsed(request') = asked'
      /\ asked'.header \in {"NOT", "MOD", "DBG"}
  BY <1>1, <1>2, <1>3
<1>5. QED
  BY <1>4 DEF MessageInv

LEMMA NotifyInv ==
  ASSUME MessageInv, unot_notify
  PROVE  MessageInv'
<1> DEFINE m == Message("NOT", attrs)
           ks == ValidFields["NOT"] \cap DOMAIN attrs
<1>1. m.header = "NOT" /\ m.fields = attrs
  BY DEF Message
<1>2. "NOT" \in DOMAIN ValidFields /\ ValidFields["NOT"] = Attributes
  BY DEF ValidFields
<1>3. \A k \in ks : attrs[k] \in FieldValues(k)
  BY DEF MessageInv, Typed
<1>4. SentFields(m, ks)
  BY <1>1, <1>2, <1>3 DEF SentFields
<1>5. Given(Attributes) = [k \in ks |-> attrs[k]]
  BY <1>2 DEF Given
<1>6. Message("NOT", Given(Attributes)) = Message(m.header, [k \in ks |-> m.fields[k]])
  BY <1>1, <1>5
<1>7. Call(m, Message("NOT", Given(Attributes))) /\ attrs' = attrs
  BY DEF unot_notify
<1>8. Typed(attrs')
  BY <1>7 DEF MessageInv
<1> HIDE DEF m, ks
<1>9. QED
  BY <1>1, <1>4, <1>6, <1>7, <1>8, CallInv

LEMMA ModifyInv ==
  ASSUME MessageInv, NEW id \in Ids, unot_modify(id)
  PROVE  MessageInv'
<1> DEFINE m == Message("MOD", attrs')
           ks == ValidFields["MOD"] \cap DOMAIN attrs'
<1>1. m.header = "MOD" /\ m.fields = attrs'
  BY DEF Message
<1>2. "MOD" \in DOMAIN ValidFields /\ ValidFields["MOD"] = Attributes \cup {"nid"}
  BY DEF ValidFields
<1>3. attrs' = [k \in DOMAIN attrs \cup {"nid"} |-> IF k = "nid" THEN id ELSE attrs[k]]
  BY DEF unot_modify
<1>4. ToSet(HF_FIELDS) = Attributes \cup {"nid"}
  <2>1. HF_FIELDS[7] = "nid" /\ 7 \in 1..8
    BY DEF HF_FIELDS
  <2>2. "nid" \in ToSet(HF_FIELDS)
    BY <2>1, FieldFacts
  <2>3. QED
    BY <2>2 DEF Attributes
<1>5. id \in FieldValues("nid")
  <2>1. id \in INT64
    BY HfMessageAssumption DEF INT64
  <2>2. QED
    BY <2>1 DEF FieldValues, StringFields, IntegerFields
<1>6. Typed(attrs')
  <2>1. DOMAIN attrs' = DOMAIN attrs \cup {"nid"}
    BY <1>3
  <2>2. \A k \in DOMAIN attrs' : attrs'[k] \in FieldValues(k)
    BY <1>3, <1>5 DEF MessageInv, Typed
  <2>3. QED
    BY <1>4, <2>1, <2>2 DEF MessageInv, Typed
<1>7. ks = DOMAIN attrs' /\ SentFields(m, ks)
  BY <1>1, <1>2, <1>4, <1>6 DEF SentFields, Typed
<1>8. attrs' = [k \in ks |-> attrs'[k]]
  BY <1>3, <1>7
<1>9. Message("MOD", attrs') = Message(m.header, [k \in ks |-> m.fields[k]])
  BY <1>1, <1>8
<1>10. Call(m, Message("MOD", attrs'))
  BY DEF unot_modify
<1> HIDE DEF m, ks
<1>11. QED
  BY <1>1, <1>6, <1>7, <1>9, <1>10, CallInv

LEMMA DebugInv ==
  ASSUME MessageInv, unot_debug
  PROVE  MessageInv'
<1> DEFINE m == Message("DBG", NoFields)
<1>1. m.header = "DBG" /\ m.fields = NoFields
  BY DEF Message
<1>2. "DBG" \in DOMAIN ValidFields /\ ValidFields["DBG"] = {}
  BY DEF ValidFields
<1>3. SentFields(m, {})
  BY <1>1, <1>2 DEF SentFields
<1>4. m = Message(m.header, [k \in {} |-> m.fields[k]])
  BY <1>1, NoFieldsFacts
<1>5. Call(m, m) /\ Typed(attrs')
  BY DEF unot_debug, MessageInv
<1> HIDE DEF m
<1>6. QED
  BY <1>1, <1>3, <1>4, <1>5, CallInv

\* What a line says is in the message, if it is the last one with its key.
LEMMA ParsedFacts ==
  ASSUME NEW w \in Sent, Parses(w)
  PROVE  LET f == Parsed(w).fields
         IN /\ Parsed(w).header = w.header
            /\ "nid" \in DOMAIN f => f["nid"] \in INT64
            /\ \A i \in 1..Len(w.lines) :
                 LET k == w.lines[i][1]
                 IN /\ k \in DOMAIN f /\ w.lines[i][2] # <<>>
                    /\ \/ f[k] = Read(k, w.lines[i][2])
                       \/ \E j \in i + 1..Len(w.lines) : w.lines[j][1] = k
<1> DEFINE ls == w.lines
           f == Parsed(w).fields
           P == {j \in ToSet(HF_FIELDS) : Sets(w, j)}
           at(k) == Counting(w, k)
<1>1. ls \in Seq(Words \X Seq(Words)) /\ Len(ls) \in Nat /\ DOMAIN ls = 1..Len(ls)
  <2>1. ls \in Seq(Words \X Seq(Words))
    BY DEF Sent
  <2>2. QED
    BY <2>1, LenProperties
<1>2. f = [k \in P |-> Read(k, ls[at(k)][2])] /\ Parsed(w).header = w.header
  BY DEF Parsed, Message
<1>3. w.header \in DOMAIN ValidFields /\ \A i \in 1..Len(ls) : Accepts(w.header, ls[i])
  BY <1>1 DEF Parses
<1>4. \A k : \/ at(k) = 0 /\ \A i \in 1..Len(ls) : ls[i][1] # k
             \/ /\ at(k) \in 1..Len(ls) /\ ls[at(k)][1] = k
                /\ \A i \in 1..Len(ls) : ls[i][1] = k => i <= at(k)
  BY <1>1, LineFacts
<1>5. \A k : k \in P <=> k \in ToSet(HF_FIELDS) /\ at(k) # 0 /\ Accepts(w.header, ls[at(k)])
  BY DEF Sets
<1> HIDE DEF ls, f, P, at
<1>6. ASSUME "nid" \in DOMAIN f PROVE f["nid"] \in INT64
  <2>1. /\ "nid" \in P /\ f["nid"] = Read("nid", ls[at("nid")][2])
        /\ at("nid") # 0 /\ Accepts(w.header, ls[at("nid")])
    BY <1>2, <1>5, <1>6
  <2>2. ls[at("nid")][1] = "nid"
    BY <1>4, <2>1
  <2>3. Readable("nid", ls[at("nid")][2])
    BY <2>1, <2>2 DEF Accepts
  <2>4. "nid" \notin StringFields /\ "nid" \in IntegerFields
    BY DEF StringFields, IntegerFields
  <2>5. IsInt(ls[at("nid")][2]) /\ f["nid"] = TextToInt(ls[at("nid")][2])
    BY <2>1, <2>3, <2>4 DEF Readable, Read
  <2>6. QED
    BY <2>5 DEF IsInt
<1>7. ASSUME NEW i \in 1..Len(ls)
      PROVE  LET k == ls[i][1]
             IN /\ k \in DOMAIN f /\ ls[i][2] # <<>>
                /\ \/ f[k] = Read(k, ls[i][2])
                   \/ \E j \in i + 1..Len(ls) : ls[j][1] = k
  <2> DEFINE k == ls[i][1]
  <2>1. ls[i][2] # <<>> /\ k \in ToSet(HF_FIELDS)
    <3>1. ls[i][2] # <<>> /\ k \in ValidFields[w.header]
      BY <1>3 DEF Accepts
    <3>2. QED
      BY <1>3, <3>1, FieldFacts
  <2>2. at(k) \in 1..Len(ls) /\ ls[at(k)][1] = k /\ i <= at(k)
    BY <1>4
  <2>3. k \in P
    <3>1. Accepts(w.header, ls[at(k)])
      BY <1>3, <2>2
    <3>2. at(k) # 0
      BY <1>1, <2>2
    <3>3. QED
      BY <1>5, <2>1, <3>1, <3>2
  <2>4. k \in DOMAIN f /\ f[k] = Read(k, ls[at(k)][2])
    BY <1>2, <2>3
  <2> HIDE DEF k
  <2>5. CASE at(k) = i
    BY <2>1, <2>4, <2>5 DEF k
  <2>6. CASE at(k) # i
    <3>1. at(k) \in i + 1..Len(ls)
      BY <1>1, <2>2, <2>6
    <3>2. \E j \in i + 1..Len(ls) : ls[j][1] = k
      BY <2>2, <3>1
    <3>3. QED
      BY <2>1, <2>4, <3>2 DEF k
  <2>7. QED
    BY <2>5, <2>6
<1>8. QED
  BY <1>2, <1>6, <1>7 DEF f, ls

\* What the answer to a request says, and that it has none of its strings.
LEMMA AnswerFacts ==
  ASSUME NEW m, "nid" \in DOMAIN m.fields => m.fields["nid"] \in INT64,
         NEW o \in Outcomes(m)
  PROVE  LET w == Build(Answer(m, o))
         IN /\ w # NULL /\ Parses(w)
            /\ \A i \in DOMAIN w.lines : w.lines[i][1] \notin StringFields
            /\ asked.header = m.header => Returned(Parsed(w)) = Told(o)
<1> DEFINE a == Answer(m, o)
           ks == ValidFields[a.header] \cap DOMAIN a.fields
           p == Parsed(Build(a))
<1>1. /\ o.ok \in BOOLEAN
      /\ o.ok /\ m.header = "NOT" => o.id \in Ids
      /\ o.ok /\ m.header # "NOT" => o.id = 0
      /\ ~o.ok => o.id = 0
  BY DEF Outcomes
<1>2. \A i \in Ids : i \in INT64 /\ i # 0
  BY HfMessageAssumption DEF INT64
<1>3. /\ "OK" \in DOMAIN ValidFields /\ ValidFields["OK"] = {"nid"}
      /\ "ERR" \in DOMAIN ValidFields /\ ValidFields["ERR"] = {}
  BY DEF ValidFields
<1>4. FieldValues("nid") = INT64 /\ "nid" \notin StringFields
  BY DEF FieldValues, StringFields, IntegerFields
<1>5. CASE ~o.ok
  <2>1. a.header = "ERR"
    BY <1>5 DEF Answer, Message
  <2>2. SentFields(a, ks) /\ ks = {}
    BY <1>3, <2>1 DEF SentFields
  <2> HIDE DEF a, ks
  <2>3. /\ Build(a) # NULL /\ Parses(Build(a))
        /\ \A i \in DOMAIN Build(a).lines : Build(a).lines[i][1] \in ks
        /\ p = Message(a.header, [k \in ks |-> a.fields[k]])
    BY <2>2, RoundTrip
  <2>4. p.header = "ERR"
    BY <2>1, <2>3 DEF Message
  <2>5. Returned(p) = 0 /\ Told(o) = 0
    BY <1>5, <2>4 DEF Returned, Told
  <2>6. QED
    BY <2>2, <2>3, <2>5 DEF a
<1>6. CASE o.ok /\ o.id = 0
  <2>1. a.header = "OK" /\ a.fields = m.fields
    BY <1>6 DEF Answer, Message
  <2>2. SentFields(a, ks) /\ ks \subseteq {"nid"}
    BY <1>3, <1>4, <2>1 DEF SentFields
  <2> HIDE DEF a, ks
  <2>3. /\ Build(a) # NULL /\ Parses(Build(a))
        /\ \A i \in DOMAIN Build(a).lines : Build(a).lines[i][1] \in ks
        /\ p = Message(a.header, [k \in ks |-> a.fields[k]])
    BY <2>2, RoundTrip
  <2>4. p.header = "OK" /\ m.header # "NOT"
    BY <1>1, <1>2, <1>6, <2>1, <2>3 DEF Message
  <2>5. asked.header = m.header => Returned(p) = 1 /\ Told(o) = 1
    BY <1>6, <2>4 DEF Returned, Told
  <2>6. QED
    BY <1>4, <2>2, <2>3, <2>5 DEF a
<1>7. CASE o.ok /\ o.id # 0
  <2>1. m.header = "NOT" /\ o.id \in Ids
    BY <1>1, <1>7
  <2>2. a = SetAnswerId(m, o.id)
    BY <1>7 DEF Answer
  <2>3. /\ a.header = "OK" /\ "nid" \in DOMAIN a.fields /\ a.fields["nid"] = o.id
    BY <2>2 DEF SetAnswerId, Message
  <2>4. SentFields(a, ks) /\ ks = {"nid"}
    BY <1>2, <1>3, <1>4, <2>1, <2>3 DEF SentFields
  <2> HIDE DEF a, ks
  <2>5. /\ Build(a) # NULL /\ Parses(Build(a))
        /\ \A i \in DOMAIN Build(a).lines : Build(a).lines[i][1] \in ks
        /\ p = Message(a.header, [k \in ks |-> a.fields[k]])
    BY <2>4, RoundTrip
  <2>6. p.header = "OK" /\ "nid" \in DOMAIN p.fields /\ p.fields["nid"] = o.id
    BY <2>3, <2>4, <2>5 DEF Message
  <2>7. asked.header = m.header => Returned(p) = o.id /\ Told(o) = o.id
    BY <1>7, <2>1, <2>6 DEF Returned, Told
  <2>8. QED
    BY <1>4, <2>4, <2>5, <2>7 DEF a
<1>8. QED
  BY <1>1, <1>5, <1>6, <1>7

LEMMA HandleInv ==
  ASSUME MessageInv, Handle
  PROVE  MessageInv'
<1> DEFINE m == Parsed(request)
<1>1. /\ request # NULL /\ request \in Sent /\ Parses(request)
      /\ handled' = m /\ request' = NULL
      /\ attrs' = attrs /\ asked' = asked /\ result' = result
  BY DEF Handle, MessageInv
<1>2. PICK o \in Outcomes(m) : done' = o /\ reply' = Build(Answer(m, o))
  BY <1>1 DEF Handle
<1>3. "nid" \in DOMAIN m.fields => m.fields["nid"] \in INT64
  BY <1>1, ParsedFacts
<1>4. asked # NULL => asked = m /\ asked.header \in {"NOT", "MOD", "DBG"}
  BY <1>1 DEF MessageInv
<1> HIDE DEF m
<1>5. /\ reply' # NULL /\ Parses(reply')
      /\ \A i \in DOMAIN reply'.lines : reply'.lines[i][1] \notin StringFields
      /\ asked.header = m.header => Returned(Parsed(reply')) = Told(done')
  BY <1>2, <1>3, AnswerFacts
<1>6. asked # NULL => Returned(Parsed(reply))' = Told(done')
  BY <1>1, <1>4, <1>5 DEF Returned
<1>7. Typed(attrs)'
  BY <1>1 DEF MessageInv, Typed
<1>8. /\ asked' # NULL => asked'.header \in {"NOT", "MOD", "DBG"}
      /\ asked' # NULL => handled' = asked'
  BY <1>1, <1>4
<1>9. QED
  BY <1>1, <1>5, <1>6, <1>7, <1>8 DEF MessageInv

\* Only what the library has not sent is rejected.
LEMMA RejectInv ==
  ASSUME MessageInv, Reject
  PROVE  MessageInv'
<1> DEFINE a == Message("ERR", NoFields)
           ks == {}
<1>1. /\ request # NULL /\ ~Parses(request)
      /\ reply' = Build(a) /\ request' = NULL
      /\ attrs' = attrs /\ asked' = asked
  BY DEF Reject
<1>2. asked = NULL /\ asked' = NULL
  BY <1>1 DEF MessageInv
<1>3. a.header = "ERR"
  BY DEF Message
<1>4. "ERR" \in DOMAIN ValidFields /\ ValidFields["ERR"] = {}
  BY DEF ValidFields
<1>5. SentFields(a, ks)
  BY <1>3, <1>4 DEF SentFields
<1> HIDE DEF a, ks
<1>6. \A i \in DOMAIN Build(a).lines : Build(a).lines[i][1] \in ks
  BY <1>5, RoundTrip
<1>7. \A i \in DOMAIN reply'.lines : reply'.lines[i][1] \notin StringFields
  BY <1>1, <1>6 DEF ks
<1>8. Typed(attrs')
  BY <1>1 DEF MessageInv
<1>9. QED
  BY <1>1, <1>2, <1>7, <1>8 DEF MessageInv

LEMMA ReturnInv ==
  ASSUME MessageInv, Return
  PROVE  MessageInv'
<1>1. /\ reply # NULL /\ request = NULL /\ reply' = NULL
      /\ request' = request /\ attrs' = attrs /\ asked' = asked
      /\ handled' = handled /\ done' = done
  BY DEF Return, MessageInv
<1>2. asked # NULL => result' = Told(done')
  BY <1>1 DEF Return, MessageInv
<1>3. Typed(attrs')
  BY <1>1 DEF MessageInv
<1>4. QED
  BY <1>1, <1>2, <1>3 DEF MessageInv

\* The attributes of a caller stay of their types.
LEMMA AttributesInv ==
  ASSUME MessageInv, Typed(attrs'),
         UNCHANGED <<request, reply, asked, handled, done, result>>
  PROVE  MessageInv'
BY DEF MessageInv, Returned

LEMMA SetAttrInv ==
  ASSUME MessageInv, NEW k \in Attributes, SetAttr(k)
  PROVE  MessageInv'
<1>1. PICK v \in Values[k] :
        attrs' = [j \in DOMAIN attrs \cup {k} |-> IF j = k THEN v ELSE attrs[j]]
  BY DEF SetAttr
<1>2. v \in FieldValues(k) /\ k \in ToSet(HF_FIELDS)
  BY HfMessageAssumption DEF Attributes
<1>3. Typed(attrs')
  BY <1>1, <1>2 DEF MessageInv, Typed
<1>4. QED
  BY <1>3, AttributesInv DEF SetAttr

LEMMA ClearAttrsInv ==
  ASSUME MessageInv, NEW ks, ClearAttrs(ks)
  PROVE  MessageInv'
<1>1. attrs' = [j \in DOMAIN attrs \ ks |-> attrs[j]]
  BY DEF ClearAttrs
<1>2. Typed(attrs')
  BY <1>1 DEF MessageInv, Typed
<1>3. QED
  BY <1>2, AttributesInv DEF ClearAttrs

\* What another program sends is for nobody's account but its own.
LEMMA RawInv ==
  ASSUME MessageInv, NEW w \in RawRequests, Raw(w)
  PROVE  MessageInv'
<1>1. /\ reply = NULL /\ request' = w /\ asked' = NULL
      /\ reply' = reply /\ attrs' = attrs
  BY DEF Raw, Idle
<1>2. w \in Sent
  BY HfMessageAssumption
<1>3. Typed(attrs')
  BY <1>1 DEF MessageInv
<1>4. QED
  BY <1>1, <1>2, <1>3 DEF MessageInv

LEMMA MessageInvStep == MessageInv /\ [MessagesNext]_messages => MessageInv'
<1> SUFFICES ASSUME MessageInv, [MessagesNext]_messages PROVE MessageInv'
  OBVIOUS
<1>1. CASE \E k \in Attributes : SetAttr(k)
  BY <1>1, SetAttrInv
<1>2. CASE \E ks : ClearAttrs(ks)
  BY <1>2, ClearAttrsInv
<1>3. CASE unot_notify
  BY <1>3, NotifyInv
<1>4. CASE unot_debug
  BY <1>4, DebugInv
<1>5. CASE \E id \in Ids : unot_modify(id)
  BY <1>5, ModifyInv
<1>6. CASE \E w \in RawRequests : Raw(w)
  BY <1>6, RawInv
<1>7. CASE Handle
  BY <1>7, HandleInv
<1>8. CASE Reject
  BY <1>8, RejectInv
<1>9. CASE Return
  BY <1>9, ReturnInv
<1>10. CASE UNCHANGED messages
  BY <1>10 DEF messages, MessageInv, Returned, Typed
<1>11. QED
  BY <1>1, <1>2, <1>3, <1>4, <1>5, <1>6, <1>7, <1>8, <1>9, <1>10 DEF MessagesNext

\* The invariant of the messages, for any number of symbols, values and ids.
THEOREM MessagesKeepInv == MessagesSpec => []MessageInv
BY MessageInvInit, MessageInvStep, PTL DEF MessagesSpec

\* What the daemon handles is what the caller of the library has set, value by
\* value: hf_message_build and hf_message_parse undo each other, for every
\* number that fits in 64 bits.
THEOREM RequestsReadAsMeant == MessagesSpec => []ReadAsMeant
<1>1. MessageInv => ReadAsMeant
  BY DEF MessageInv, ReadAsMeant, Answered
<1>2. QED
  BY <1>1, MessagesKeepInv, PTL

\* The caller is told what the daemon has done, by an answer without strings.
THEOREM CallersToldWhatWasDone == MessagesSpec => []ToldWhatWasDone
<1>1. MessageInv => ToldWhatWasDone
  BY DEF MessageInv, ToldWhatWasDone, Answered, Told
<1>2. QED
  BY <1>1, MessagesKeepInv, PTL

\* A request is handled as a whole or not at all, whoever has sent it.
THEOREM HandledWholeOrNot == MessagesSpec => WholeOrNothing
<1> DEFINE Whole ==
      request # NULL /\ handled' # handled =>
        \A i \in DOMAIN request.lines :
          LET line == request.lines[i] IN
          /\ line[1] \in DOMAIN handled'.fields
          /\ line[2] # <<>>
          /\ \/ handled'.fields[line[1]] = Read(line[1], line[2])
             \/ \E j \in i + 1..Len(request.lines) : request.lines[j][1] = line[1]
<1>1. ASSUME MessageInv, MessagesNext, request # NULL, handled' # handled
      PROVE  Handle
  BY <1>1 DEF MessagesNext, SetAttr, ClearAttrs, Raw, unot_notify, unot_modify,
              unot_debug, Call, Idle, Reject, Return
<1>2. ASSUME MessageInv, Handle PROVE Whole
  <2>1. request \in Sent /\ Parses(request) /\ handled' = Parsed(request)
    BY <1>2 DEF Handle, MessageInv
  <2>2. DOMAIN request.lines = 1..Len(request.lines)
    <3>1. request.lines \in Seq(Words \X Seq(Words))
      BY <2>1 DEF Sent
    <3>2. QED
      BY <3>1, LenProperties
  <2>3. QED
    BY <2>1, <2>2, ParsedFacts
<1>3. MessageInv /\ [MessagesNext]_messages => [Whole]_messages
  BY <1>1, <1>2 DEF messages
<1>4. QED
  BY <1>3, MessagesKeepInv, PTL DEF MessagesSpec, WholeOrNothing

===============================================================================
