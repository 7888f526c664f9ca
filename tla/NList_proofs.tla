---------------------------- MODULE NList_proofs ----------------------------
(***************************************************************************)
(* The linked lists of NList represent sequences, for any set of nodes.    *)
(***************************************************************************)
EXTENDS NListHistory, SeqLemmas

-----------------------------------------------------------------------------
(***************************************************************************)
(* What nlist_append and nlist_unlink do to a list and to the other one.   *)
(***************************************************************************)

\* A list is empty exactly when its tail pointer is NULL.
LEMMA TailOfEmpty ==
  ASSUME NEW m, NEW l, NEW s \in Seq(Node), Rep(m, l, s)
  PROVE  /\ m.tail[l] = NULL <=> s = <<>>
         /\ m.head[l] = NULL <=> s = <<>>
         /\ s # <<>> => m.tail[l] = s[Len(s)] /\ m.head[l] = s[1] /\ Len(s) \in Nat \ {0}
<1>1. ASSUME s # <<>> PROVE /\ Len(s) \in Nat \ {0}
                            /\ s[1] \in Node /\ s[Len(s)] \in Node
  <2>1. Len(s) \in Nat \ {0}
    BY <1>1, EmptySeq
  <2>2. QED
    BY <2>1, ElementOfSeq
<1>2. QED
  BY <1>1, NodeAssumption DEF Rep

LEMMA AppendRep ==
  ASSUME NEW m \in Memory, NEW l \in List, NEW s \in Seq(Node), IsInjective(s),
         Rep(m, l, s), NEW n \in Node, n \notin ToSet(s)
  PROVE  Rep(nlist_append(m, l, n), l, Append(s, n))
<1> DEFINE r == nlist_append(m, l, n)
           t == Append(s, n)
<1>1. /\ Len(s) \in Nat /\ Len(t) = Len(s) + 1 /\ t # <<>>
      /\ \A i \in 1..Len(s) : t[i] = s[i] /\ s[i] # n /\ s[i] \in Node
      /\ t[Len(s) + 1] = n
  BY AppendProperties, LenProperties, ToSetType, ElementOfSeq
<1>2. \A i, j \in 1..Len(s) : s[i] = s[j] => i = j
  BY LenProperties DEF IsInjective
<1>3. CASE s = <<>>
  <2>1. m.tail[l] = NULL /\ Len(s) = 0
    BY <1>3, EmptySeq, TailOfEmpty
  <2>2. /\ r.head = [m.head EXCEPT ![l] = n] /\ r.tail = [m.tail EXCEPT ![l] = n]
        /\ r.next = [m.next EXCEPT ![n] = NULL]
    BY <2>1 DEF nlist_append
  <2>3. r.head[l] = n /\ r.tail[l] = n /\ r.next[n] = NULL
    BY <2>2 DEF Memory
  <2> HIDE DEF r, t
  <2>4. QED
    BY <1>1, <2>1, <2>3 DEF Rep, r, t
<1>4. CASE s # <<>>
  <2> DEFINE last == s[Len(s)]
  <2>1. m.tail[l] = last /\ last \in Node /\ last # n /\ last # NULL
        /\ Len(s) \in Nat \ {0} /\ m.head[l] = s[1]
    BY <1>1, <1>4, TailOfEmpty, NodeAssumption
  <2>2. /\ r.head = m.head /\ r.tail = [m.tail EXCEPT ![l] = n]
        /\ r.next = [m.next EXCEPT ![n] = NULL, ![last] = n]
    BY <2>1 DEF nlist_append
  <2>3. r.head[l] = s[1] /\ r.tail[l] = n
    BY <2>1, <2>2 DEF Memory
  <2>4. ASSUME NEW i \in 1..(Len(s) + 1)
        PROVE  r.next[t[i]] = IF i = Len(s) + 1 THEN NULL ELSE t[i + 1]
    <3>1. CASE i = Len(s) + 1
      BY <1>1, <2>1, <2>2, <3>1 DEF Memory
    <3>2. CASE i = Len(s)
      BY <1>1, <2>1, <2>2, <3>2 DEF Memory
    <3>3. CASE i \in 1..(Len(s) - 1)
      <4>1. i \in 1..Len(s) /\ i + 1 \in 1..Len(s) /\ i # Len(s)
            /\ Len(s) \in 1..Len(s)
        BY <2>1, <3>3
      <4>2. s[i] # last /\ s[i] # n /\ m.next[s[i]] = s[i + 1] /\ s[i] \in Node
        BY <1>1, <1>2, <4>1 DEF Rep
      <4>3. r.next[s[i]] = m.next[s[i]]
        BY <2>2, <4>2 DEF Memory
      <4>4. QED
        BY <1>1, <3>3, <4>1, <4>2, <4>3
    <3>4. QED
      BY <1>1, <3>1, <3>2, <3>3
  <2>5. t[1] = s[1] /\ t[Len(t)] = n
    BY <1>1, <2>1
  <2> HIDE DEF r, t, last
  <2>6. QED
    BY <1>1, <2>3, <2>4, <2>5 DEF Rep, r, t
<1>5. QED
  BY <1>3, <1>4

\* Appending to one list leaves a list of other nodes as it is.
LEMMA AppendOther ==
  ASSUME NEW m \in Memory, NEW l \in List, NEW s \in Seq(Node), Rep(m, l, s),
         NEW n \in Node, NEW k \in List, k # l,
         NEW t \in Seq(Node), Rep(m, k, t),
         ToSet(t) \cap (ToSet(s) \cup {n}) = {}
  PROVE  Rep(nlist_append(m, l, n), k, t)
<1> DEFINE r == nlist_append(m, l, n)
<1>1. r.head[k] = m.head[k] /\ r.tail[k] = m.tail[k]
  BY DEF nlist_append, Memory
<1>2. ASSUME NEW i \in 1..Len(t)
      PROVE  r.next[t[i]] = m.next[t[i]]
  <2>1. t[i] \in Node /\ t[i] # n /\ t[i] \notin ToSet(s)
    BY ToSetType, ElementOfSeq
  <2>2. m.tail[l] = NULL \/ m.tail[l] \in ToSet(s)
    <3>1. CASE s = <<>>
      BY <3>1, TailOfEmpty
    <3>2. CASE s # <<>>
      <4>1. m.tail[l] = s[Len(s)] /\ Len(s) \in 1..Len(s)
        BY <3>2, TailOfEmpty
      <4>2. QED
        BY <4>1, ToSetType
    <3>3. QED
      BY <3>1, <3>2
  <2>3. CASE m.tail[l] = NULL
    BY <2>1, <2>3 DEF nlist_append, Memory
  <2>4. CASE m.tail[l] # NULL
    <3>1. t[i] # m.tail[l]
      BY <2>1, <2>2, <2>4
    <3>2. QED
      BY <2>1, <2>4, <3>1 DEF nlist_append, Memory
  <2>5. QED
    BY <2>3, <2>4
<1> HIDE DEF r
<1>3. QED
  BY <1>1, <1>2 DEF Rep, r

\* The memory keeps its shape.
LEMMA AppendType ==
  ASSUME NEW m \in Memory, NEW l \in List, NEW n \in Node
  PROVE  nlist_append(m, l, n) \in Memory
BY DEF nlist_append, Memory, Pointer

LEMMA UnlinkType ==
  ASSUME NEW m \in Memory, NEW l \in List, NEW p \in Pointer
  PROVE  /\ UnlinkTarget(m, l, p) \in Pointer
         /\ nlist_unlink(m, l, p) \in Memory
<1>1. UnlinkTarget(m, l, p) \in Pointer
  BY DEF UnlinkTarget, Memory, Pointer
<1>2. QED
  BY <1>1 DEF nlist_unlink, Memory, Pointer
\* The pointer that nlist_unlink is given for the node at position i.
Before(s, i) == IF i = 1 THEN NULL ELSE s[i - 1]

\* nlist_unlink takes out the node after the one it is given, if any.
LEMMA NextAt ==
  ASSUME NEW m \in Memory, NEW l \in List, NEW s \in Seq(Node), Rep(m, l, s),
         NEW i \in 1..(Len(s) + 1)
  PROVE  UnlinkTarget(m, l, Before(s, i)) = IF i = Len(s) + 1 THEN NULL ELSE s[i]
<1>1. Len(s) \in Nat /\ (s = <<>> <=> Len(s) = 0)
  BY EmptySeq, LenProperties
<1>2. CASE i = 1
  BY <1>1, <1>2 DEF UnlinkTarget, Before, Rep
<1>3. CASE i # 1
  <2>1. i - 1 \in 1..Len(s) /\ (i - 1) + 1 = i
    BY <1>1, <1>3
  <2>2. s[i - 1] \in Node /\ s[i - 1] # NULL
    BY <2>1, ElementOfSeq, NodeAssumption
  <2>3. m.next[s[i - 1]] = IF i - 1 = Len(s) THEN NULL ELSE s[i]
    BY <2>1 DEF Rep
  <2>4. QED
    BY <1>1, <1>3, <2>2, <2>3 DEF UnlinkTarget, Before
<1>4. QED
  BY <1>2, <1>3

LEMMA TargetAt ==
  ASSUME NEW m \in Memory, NEW l \in List, NEW s \in Seq(Node), Rep(m, l, s),
         NEW i \in 1..Len(s)
  PROVE  UnlinkTarget(m, l, Before(s, i)) = s[i]
<1>1. i \in 1..(Len(s) + 1) /\ i # Len(s) + 1
  BY LenProperties
<1>2. QED
  BY <1>1, NextAt

LEMMA UnlinkRep ==
  ASSUME NEW m \in Memory, NEW l \in List, NEW s \in Seq(Node), IsInjective(s),
         Rep(m, l, s), NEW i \in 1..Len(s)
  PROVE  Rep(nlist_unlink(m, l, Before(s, i)), l, RemoveAt(s, i))
<1> DEFINE p == Before(s, i)
           r == nlist_unlink(m, l, p)
           t == RemoveAt(s, i)
<1>1. /\ Len(s) \in Nat \ {0} /\ i \in Nat \ {0} /\ i <= Len(s) /\ s # <<>>
      /\ t \in Seq(Node) /\ Len(t) = Len(s) - 1
      /\ \A j \in 1..(Len(s) - 1) : t[j] = IF j < i THEN s[j] ELSE s[j + 1]
  BY RemoveAtElements, LenProperties, EmptySeq
<1>2. \A j \in 1..Len(s) : s[j] \in Node /\ s[j] # NULL
  BY ElementOfSeq, NodeAssumption
<1>3. \A j, k \in 1..Len(s) : s[j] = s[k] => j = k
  BY LenProperties DEF IsInjective
<1>4. UnlinkTarget(m, l, p) = s[i] /\ s[i] # NULL /\ s[i] \in Node
  BY <1>2, TargetAt
<1>5. \A j \in 1..Len(s) : m.next[s[j]] = IF j = Len(s) THEN NULL ELSE s[j + 1]
  BY DEF Rep
<1>6. m.tail[l] = s[Len(s)] /\ m.head[l] = s[1]
  BY <1>1 DEF Rep
<1>7. s[i] = m.tail[l] <=> i = Len(s)
  BY <1>1, <1>3, <1>6
<1>8. /\ r.head = IF p = NULL THEN [m.head EXCEPT ![l] = m.next[s[i]]] ELSE m.head
      /\ r.tail = IF i = Len(s) THEN [m.tail EXCEPT ![l] = p] ELSE m.tail
      /\ r.next = IF p = NULL THEN [m.next EXCEPT ![s[i]] = NULL]
                  ELSE [m.next EXCEPT ![p] = m.next[s[i]], ![s[i]] = NULL]
  BY <1>4, <1>7 DEF nlist_unlink
<1>9. p = NULL <=> i = 1
  BY <1>1, <1>2 DEF Before
<1>10. i # 1 => p = s[i - 1] /\ i - 1 \in 1..Len(s) /\ p \in Node
  BY <1>1, <1>2 DEF Before
<1>11. t = <<>> <=> Len(s) = 1
  BY <1>1, EmptySeq
<1> HIDE DEF p, r, t
<1>12. r.head[l] = IF t = <<>> THEN NULL ELSE t[1]
  <2>1. CASE i = 1
    <3>1. r.head[l] = m.next[s[1]]
      BY <1>8, <1>9, <2>1 DEF Memory
    <3>2. QED
      BY <1>1, <1>5, <1>11, <2>1, <3>1
  <2>2. CASE i # 1
    <3>1. r.head[l] = s[1]
      BY <1>6, <1>8, <1>9, <2>2
    <3>2. QED
      BY <1>1, <1>11, <2>2, <3>1
  <2>3. QED
    BY <2>1, <2>2
<1>13. r.tail[l] = IF t = <<>> THEN NULL ELSE t[Len(t)]
  <2>1. CASE i = Len(s)
    <3>1. r.tail[l] = p
      BY <1>8, <2>1 DEF Memory
    <3>2. CASE i = 1
      BY <1>9, <1>11, <2>1, <3>1, <3>2
    <3>3. CASE i # 1
      <4>1. Len(t) \in 1..(Len(s) - 1) /\ Len(t) < i /\ t # <<>> /\ Len(t) = i - 1
        BY <1>1, <1>11, <2>1, <3>3
      <4>2. QED
        BY <1>1, <1>10, <3>1, <3>3, <4>1
    <3>4. QED
      BY <3>2, <3>3
  <2>2. CASE i # Len(s)
    <3>1. r.tail[l] = s[Len(s)]
      BY <1>6, <1>8, <2>2
    <3>2. Len(t) \in 1..(Len(s) - 1) /\ ~(Len(t) < i) /\ t # <<>>
          /\ Len(t) + 1 = Len(s)
      BY <1>1, <1>11, <2>2
    <3>3. QED
      BY <1>1, <3>1, <3>2
  <2>3. QED
    BY <2>1, <2>2
<1>14. ASSUME NEW j \in 1..Len(t)
       PROVE  r.next[t[j]] = IF j = Len(t) THEN NULL ELSE t[j + 1]
  <2>1. j \in 1..(Len(s) - 1) /\ j \in 1..Len(s) /\ j + 1 \in 1..Len(s)
    BY <1>1
  <2>2. CASE j < i - 1
    <3>1. t[j] = s[j] /\ t[j + 1] = s[j + 1] /\ j # Len(t) /\ j # Len(s)
      BY <1>1, <2>1, <2>2
    <3>2. s[j] # s[i] /\ s[j] # s[i - 1] /\ i # 1
      BY <1>1, <1>3, <2>1, <2>2
    <3>3. r.next[s[j]] = m.next[s[j]]
      BY <1>2, <1>8, <1>9, <1>10, <2>1, <3>2 DEF Memory
    <3>4. QED
      BY <1>5, <2>1, <3>1, <3>3
  <2>3. CASE j = i - 1
    <3>1. t[j] = s[j] /\ i # 1 /\ p = s[j] /\ p \in Node /\ p # s[i]
      BY <1>1, <1>3, <1>10, <2>1, <2>3
    <3>2. r.next[p] = m.next[s[i]]
      BY <1>8, <1>9, <3>1 DEF Memory
    <3>3. CASE i = Len(s)
      BY <1>1, <1>5, <2>3, <3>1, <3>2, <3>3
    <3>4. CASE i # Len(s)
      <4>1. m.next[s[i]] = s[i + 1]
        BY <1>5, <3>4
      <4>2. j + 1 \in 1..(Len(s) - 1) /\ ~(j + 1 < i) /\ j # Len(t)
        BY <1>1, <2>3, <3>4
      <4>3. t[j + 1] = s[i + 1]
        BY <1>1, <2>3, <4>2
      <4>4. QED
        BY <3>1, <3>2, <4>1, <4>2, <4>3
    <3>5. QED
      BY <3>3, <3>4
  <2>4. CASE j >= i
    <3>1. t[j] = s[j + 1]
      BY <1>1, <2>1, <2>4
    <3>2. s[j + 1] # s[i] /\ s[j + 1] \in Node
          /\ (i # 1 => s[j + 1] # s[i - 1])
      BY <1>1, <1>2, <1>3, <1>10, <2>1, <2>4
    <3>3. r.next[s[j + 1]] = m.next[s[j + 1]]
      BY <1>8, <1>9, <1>10, <3>2 DEF Memory
    <3>4. m.next[s[j + 1]] = IF j + 1 = Len(s) THEN NULL ELSE s[j + 1 + 1]
      BY <1>5, <2>1
    <3>5. CASE j = Len(t)
      BY <1>1, <3>1, <3>3, <3>4, <3>5
    <3>6. CASE j # Len(t)
      <4>1. j + 1 \in 1..(Len(s) - 1) /\ ~(j + 1 < i) /\ j + 1 # Len(s)
        BY <1>1, <2>1, <2>4, <3>6
      <4>2. t[j + 1] = s[j + 1 + 1]
        BY <1>1, <4>1
      <4>3. QED
        BY <3>1, <3>3, <3>4, <3>6, <4>1, <4>2
    <3>7. QED
      BY <3>5, <3>6
  <2>5. QED
    BY <1>1, <2>1, <2>2, <2>3, <2>4
<1>15. Rep(r, l, t)
  BY <1>12, <1>13, <1>14 DEF Rep
<1>16. QED
  BY <1>15 DEF r, t, p

\* Unlinking from one list leaves a list of other nodes as it is.
LEMMA UnlinkOther ==
  ASSUME NEW m \in Memory, NEW l \in List, NEW s \in Seq(Node), Rep(m, l, s),
         NEW i \in 1..Len(s), NEW k \in List, k # l,
         NEW t \in Seq(Node), Rep(m, k, t), ToSet(t) \cap ToSet(s) = {}
  PROVE  Rep(nlist_unlink(m, l, Before(s, i)), k, t)
<1> DEFINE p == Before(s, i)
           r == nlist_unlink(m, l, p)
<1>1. UnlinkTarget(m, l, p) = s[i] /\ s[i] \in ToSet(s)
  BY TargetAt, ToSetType
<1>2. p = NULL \/ p \in ToSet(s)
  <2>1. i # 1 => i - 1 \in 1..Len(s)
    BY LenProperties
  <2>2. QED
    BY <2>1, ToSetType DEF Before
<1> HIDE DEF p
<1>3. r.head[k] = m.head[k] /\ r.tail[k] = m.tail[k]
  BY DEF nlist_unlink, Memory
<1>4. ASSUME NEW j \in 1..Len(t)
      PROVE  r.next[t[j]] = m.next[t[j]]
  <2>1. t[j] \in Node /\ t[j] # s[i] /\ (p # NULL => t[j] # p)
    BY <1>1, <1>2, ToSetType, ElementOfSeq
  <2>2. QED
    BY <1>1, <2>1 DEF nlist_unlink, Memory
<1> HIDE DEF r
<1>5. QED
  BY <1>3, <1>4 DEF Rep, r, p
-----------------------------------------------------------------------------
(***************************************************************************)
(* The invariant.                                                          *)
(***************************************************************************)
LEMMA InitHInv == HInit => HInv
<1> SUFFICES ASSUME HInit PROVE HInv
  OBVIOUS
<1>1. \A l \in List : contents[l] = <<>> /\ contents \in [List -> Seq(Node)]
  BY EmptySeq DEF HInit
<1>2. ToSet(<<>>) = {} /\ IsInjective(<<>>) /\ Len(<<>>) = 0
  BY ToSetEmpty, EmptySeq DEF IsInjective
<1>3. TypeOK /\ HistoryType
  BY <1>1 DEF HInit, Init, TypeOK, HistoryType, Memory, Pointer, List
<1>4. Represents
  BY <1>1, <1>2 DEF HInit, Init, Represents, Rep
<1>5. NoLeakNoDangling
  BY <1>1, <1>2 DEF HInit, Init, NoLeakNoDangling, List
<1>6. WalkSound
  BY DEF HInit, Init, WalkSound
<1>7. QED
  BY <1>3, <1>4, <1>5, <1>6 DEF HInv

\* What the invariant says of a walk that has reached a node.
LEMMA WalkAt ==
  ASSUME HInv, walk # "idle", curr # NULL
  PROVE  /\ contents[where] \in Seq(Node) /\ Rep(mem, where, contents[where])
         /\ IsInjective(contents[where]) /\ where \in List
         /\ at \in 1..Len(contents[where]) /\ curr = contents[where][at]
         /\ prev = Before(contents[where], at)
         /\ curr \in Node /\ curr \in ToSet(contents[where])
<1>1. /\ where \in List /\ contents[where] \in Seq(Node)
      /\ Rep(mem, where, contents[where]) /\ IsInjective(contents[where])
  BY DEF HInv, TypeOK, HistoryType, Represents, NoLeakNoDangling
<1>2. at \in 1..Len(contents[where]) /\ curr = contents[where][at]
  BY <1>1, LenProperties DEF HInv, WalkSound
<1>3. QED
  BY <1>1, <1>2, ToSetType DEF HInv, WalkSound, Before

\* The two lists, as the lemmas above want them.
LEMMA BothLists ==
  ASSUME HInv
  PROVE  /\ mem \in Memory /\ "open" \in List /\ "wait" \in List
         /\ contents \in [List -> Seq(Node)]
         /\ contents["open"] \in Seq(Node) /\ contents["wait"] \in Seq(Node)
         /\ IsInjective(contents["open"]) /\ IsInjective(contents["wait"])
         /\ Rep(mem, "open", contents["open"]) /\ Rep(mem, "wait", contents["wait"])
         /\ ToSet(contents["open"]) \cap ToSet(contents["wait"]) = {}
         /\ \A n \in Node : heap[n] = "live" <=>
              n \in ToSet(contents["open"]) \cup ToSet(contents["wait"])
BY DEF HInv, TypeOK, HistoryType, Represents, NoLeakNoDangling, List

\* And back: what is to be shown of the lists after a step.
LEMMA FromBothLists ==
  ASSUME IsInjective(contents["open"])', IsInjective(contents["wait"])',
         Rep(mem, "open", contents["open"])', Rep(mem, "wait", contents["wait"])',
         (ToSet(contents["open"]) \cap ToSet(contents["wait"]))' = {},
         \A n \in Node : heap'[n] = "live" <=>
           n \in (ToSet(contents["open"]) \cup ToSet(contents["wait"]))'
  PROVE  Represents' /\ NoLeakNoDangling'
<1>1. Represents'
  BY DEF Represents, List
<1>2. NoLeakNoDangling'
  BY DEF NoLeakNoDangling, List
<1>3. QED
  BY <1>1, <1>2

LEMMA AddStep ==
  ASSUME HInv, NEW n \in Node, HAdd(n)
  PROVE  HInv'
<1> DEFINE s == contents["open"]
           w == contents["wait"]
<1>1. /\ n \notin ToSet(s) /\ n \notin ToSet(w)
      /\ mem' = nlist_append(mem, "open", n)
      /\ heap' = [heap EXCEPT ![n] = "live"] /\ heap \in [Node -> {"unused", "live", "freed"}]
      /\ contents' = [contents EXCEPT !["open"] = Append(s, n)]
  BY BothLists DEF HAdd, AddNode, HInv, TypeOK
<1>2. /\ Append(s, n) \in Seq(Node) /\ IsInjective(Append(s, n))
      /\ ToSet(Append(s, n)) = ToSet(s) \cup {n}
  BY <1>1, BothLists, AppendFacts
<1>3. /\ contents'["open"] = Append(s, n) /\ contents'["wait"] = w
      /\ contents' \in [List -> Seq(Node)]
  BY <1>1, <1>2, BothLists
<1>4. Rep(mem', "open", contents'["open"]) /\ Rep(mem', "wait", contents'["wait"])
  BY <1>1, <1>3, BothLists, AppendRep, AppendOther
<1>5. TypeOK' /\ HistoryType'
  BY <1>1, <1>3, BothLists, AppendType DEF HInv, HAdd, AddNode, TypeOK, HistoryType
<1>6. /\ ToSet(contents'["open"]) \cap ToSet(contents'["wait"]) = {}
      /\ \A k \in Node : heap'[k] = "live" <=>
           k \in ToSet(contents'["open"]) \cup ToSet(contents'["wait"])
  BY <1>1, <1>2, <1>3, BothLists
<1>7. Represents' /\ NoLeakNoDangling'
  <2>1. IsInjective(contents'["wait"])
    BY <1>3, BothLists
  <2>2. QED
    BY <1>2, <1>3, <1>4, <1>6, <2>1, FromBothLists
<1>8. WalkSound'
  BY DEF HAdd, AddNode, WalkSound
<1>9. QED
  BY <1>5, <1>7, <1>8 DEF HInv

LEMMA WalkStep ==
  ASSUME HInv, HStart \/ HAdvance \/ HEnd \/ UNCHANGED hvars
  PROVE  HInv'
<1>1. UNCHANGED <<mem, heap, contents>>
  BY DEF HStart, HAdvance, HEnd, StartPass, FindInWait, StartFind, KeepCurr,
         FindNext, EndPass, EndFind, hvars, vars
<1>2. Represents' /\ NoLeakNoDangling'
  BY <1>1 DEF HInv, Represents, NoLeakNoDangling
<1>3. CASE HStart
  <2>1. PICK l \in List : /\ WalkFrom(l) /\ at' = 1 /\ want' \in Node
                          /\ walk' \in {"pass", "find"}
                          /\ walk' = "pass" => l = "open"
    BY <1>3 DEF HStart, StartPass, FindInWait, StartFind, HInv, TypeOK, List
  <2>2. mem.head[l] \in Pointer
    BY DEF HInv, TypeOK, Memory
  <2>3. TypeOK' /\ HistoryType'
    BY <1>1, <2>1, <2>2 DEF WalkFrom, HInv, TypeOK, HistoryType, Pointer
  <2>4. Rep(mem, l, contents[l]) /\ contents[l] \in Seq(Node)
    BY DEF HInv, Represents, HistoryType
  <2>5. Len(contents[l]) \in Nat /\ (contents[l] = <<>> <=> Len(contents[l]) = 0)
    BY <2>4, EmptySeq, LenProperties
  <2>6. WalkSound'
    BY <1>1, <2>1, <2>4, <2>5 DEF WalkSound, WalkFrom, Rep
  <2>7. QED
    BY <1>2, <2>3, <2>6 DEF HInv
<1>4. CASE HAdvance
  <2>1. /\ walk # "idle" /\ curr # NULL /\ Advance /\ at' = at + 1
        /\ UNCHANGED <<walk, where, want>>
    BY <1>4 DEF HAdvance, KeepCurr, FindNext
  <2> DEFINE s == contents[where]
  <2>2. /\ s \in Seq(Node) /\ Rep(mem, where, s) /\ where \in List
        /\ at \in 1..Len(s) /\ curr = s[at] /\ curr \in Node
    BY <2>1, WalkAt
  <2>3. curr' = IF at = Len(s) THEN NULL ELSE s[at + 1]
    BY <2>1, <2>2 DEF Advance, Rep
  <2>4. /\ at + 1 \in 1..(Len(s) + 1) /\ at + 1 - 1 = at /\ at + 1 # 1
        /\ (at + 1 = Len(s) + 1 <=> at = Len(s)) /\ at + 1 \in Nat
    BY <2>2, LenProperties
  <2>5. TypeOK' /\ HistoryType'
    BY <1>1, <2>1, <2>2, <2>4 DEF Advance, HInv, TypeOK, HistoryType, Memory, Pointer
  <2>6. WalkSound'
    BY <1>1, <2>1, <2>2, <2>3, <2>4 DEF HInv, WalkSound, Advance
  <2>7. QED
    BY <1>2, <2>5, <2>6 DEF HInv
<1>5. CASE HEnd
  <2>1. TypeOK' /\ HistoryType'
    BY <1>1, <1>5 DEF HEnd, EndPass, EndFind, HInv, TypeOK, HistoryType
  <2>2. WalkSound'
    BY <1>5 DEF HEnd, EndPass, EndFind, WalkSound
  <2>3. QED
    BY <1>2, <2>1, <2>2 DEF HInv
<1>6. CASE UNCHANGED hvars
  BY <1>2, <1>6 DEF hvars, vars, HInv, TypeOK, HistoryType, WalkSound
<1>7. QED
  BY <1>3, <1>4, <1>5, <1>6

\* Unlinking a node from one list and appending it to the other.
LEMMA Transfer ==
  ASSUME NEW m \in Memory, NEW a \in List, NEW b \in List, a # b,
         NEW s \in Seq(Node), NEW t \in Seq(Node), IsInjective(s), IsInjective(t),
         Rep(m, a, s), Rep(m, b, t), ToSet(s) \cap ToSet(t) = {},
         NEW i \in 1..Len(s),
         NEW r, r = nlist_append(nlist_unlink(m, a, Before(s, i)), b, s[i])
  PROVE  /\ r \in Memory
         /\ Rep(r, a, RemoveAt(s, i)) /\ Rep(r, b, Append(t, s[i]))
         /\ RemoveAt(s, i) \in Seq(Node) /\ Append(t, s[i]) \in Seq(Node)
         /\ IsInjective(RemoveAt(s, i)) /\ IsInjective(Append(t, s[i]))
         /\ ToSet(RemoveAt(s, i)) \cap ToSet(Append(t, s[i])) = {}
         /\ ToSet(RemoveAt(s, i)) \cup ToSet(Append(t, s[i])) = ToSet(s) \cup ToSet(t)
<1> DEFINE n == s[i]
           u == nlist_unlink(m, a, Before(s, i))
<1>1. n \in Node /\ n \in ToSet(s) /\ n \notin ToSet(t)
  BY ToSetType
<1>2. Before(s, i) \in Pointer
  <2>1. i = 1 \/ i - 1 \in 1..Len(s)
    BY LenProperties
  <2>2. QED
    BY <2>1, ElementOfSeq DEF Before, Pointer
<1>3. u \in Memory
  BY <1>2, UnlinkType
<1>4. Rep(u, a, RemoveAt(s, i)) /\ Rep(u, b, t)
  BY UnlinkRep, UnlinkOther
<1>5. /\ RemoveAt(s, i) \in Seq(Node) /\ IsInjective(RemoveAt(s, i))
      /\ ToSet(RemoveAt(s, i)) = ToSet(s) \ {n}
  BY RemoveAtFacts
<1>6. /\ Append(t, n) \in Seq(Node) /\ IsInjective(Append(t, n))
      /\ ToSet(Append(t, n)) = ToSet(t) \cup {n}
  BY <1>1, AppendFacts
<1> HIDE DEF u, n
<1>7. r = nlist_append(u, b, n)
  BY DEF u, n
<1>8. r \in Memory /\ Rep(r, b, Append(t, n))
  BY <1>1, <1>3, <1>4, <1>7, AppendType, AppendRep
<1>9. ToSet(RemoveAt(s, i)) \cap (ToSet(t) \cup {n}) = {}
  BY <1>5
<1>10. Rep(r, a, RemoveAt(s, i))
  BY <1>1, <1>3, <1>4, <1>5, <1>7, <1>9, AppendOther
<1>11. QED
  BY <1>1, <1>5, <1>6, <1>8, <1>9, <1>10 DEF n

\* After position i has gone, the walk is at the node that has moved up.
LEMMA StaysBefore ==
  ASSUME NEW s \in Seq(Node), NEW i \in 1..Len(s),
         NEW m \in Memory, Rep(m, "open", RemoveAt(s, i)), prev = Before(s, i)
  PROVE  LET t == RemoveAt(s, i) IN
         /\ i \in 1..(Len(t) + 1)
         /\ prev = Before(t, i)
         /\ AfterCurr(m) = IF i = Len(t) + 1 THEN NULL ELSE t[i]
<1> DEFINE t == RemoveAt(s, i)
<1>1. /\ t \in Seq(Node) /\ Len(s) \in Nat /\ i \in Nat /\ i >= 1 /\ i <= Len(s)
      /\ Len(t) = Len(s) - 1
      /\ \A j \in 1..(Len(s) - 1) : t[j] = IF j < i THEN s[j] ELSE s[j + 1]
  BY RemoveAtElements, LenProperties
<1> HIDE DEF t
<1>2. i \in 1..(Len(t) + 1)
  BY <1>1
<1>3. prev = Before(t, i)
  <2>1. i # 1 => i - 1 \in 1..(Len(s) - 1) /\ i - 1 < i
    BY <1>1
  <2>2. QED
    BY <1>1, <2>1 DEF Before
<1>4. Rep(m, "open", t)
  BY DEF t
<1>5. UnlinkTarget(m, "open", prev) = IF i = Len(t) + 1 THEN NULL ELSE t[i]
  BY <1>1, <1>2, <1>3, <1>4, NextAt DEF List
<1>6. AfterCurr(m) = UnlinkTarget(m, "open", prev)
  BY DEF AfterCurr, UnlinkTarget
<1>7. QED
  BY <1>2, <1>3, <1>5, <1>6 DEF t

LEMMA ParkStep ==
  ASSUME HInv, HPark
  PROVE  HInv'
<1> DEFINE s == contents["open"]
           w == contents["wait"]
<1>1. /\ walk = "pass" /\ curr # NULL /\ curr' = AfterCurr(mem')
      /\ mem' = nlist_append(nlist_unlink(mem, "open", prev), "wait", curr)
      /\ contents' = [contents EXCEPT !["open"] = RemoveAt(s, at),
                                      !["wait"] = Append(w, s[at])]
      /\ UNCHANGED <<heap, walk, where, want, prev, at>>
  BY DEF HPark, ParkCurr
<1>2. where = "open"
  BY <1>1 DEF HInv, WalkSound
<1>3. at \in 1..Len(s) /\ curr = s[at] /\ prev = Before(s, at)
  BY <1>1, <1>2, WalkAt
<1>4. /\ mem' \in Memory
      /\ Rep(mem', "open", RemoveAt(s, at)) /\ Rep(mem', "wait", Append(w, s[at]))
      /\ RemoveAt(s, at) \in Seq(Node) /\ Append(w, s[at]) \in Seq(Node)
      /\ IsInjective(RemoveAt(s, at)) /\ IsInjective(Append(w, s[at]))
      /\ ToSet(RemoveAt(s, at)) \cap ToSet(Append(w, s[at])) = {}
      /\ ToSet(RemoveAt(s, at)) \cup ToSet(Append(w, s[at])) = ToSet(s) \cup ToSet(w)
  BY <1>1, <1>3, BothLists, Transfer
<1>5. /\ contents'["open"] = RemoveAt(s, at) /\ contents'["wait"] = Append(w, s[at])
      /\ contents' \in [List -> Seq(Node)]
  BY <1>1, <1>4, BothLists
<1>6. /\ at \in 1..(Len(RemoveAt(s, at)) + 1) /\ prev = Before(RemoveAt(s, at), at)
      /\ curr' = IF at = Len(RemoveAt(s, at)) + 1 THEN NULL ELSE RemoveAt(s, at)[at]
  BY <1>1, <1>3, <1>4, BothLists, StaysBefore
<1>7. Represents' /\ NoLeakNoDangling'
  BY <1>1, <1>4, <1>5, BothLists, FromBothLists
<1>8. WalkSound'
  BY <1>1, <1>2, <1>5, <1>6 DEF WalkSound, Before
<1>9. curr' \in Pointer
  BY <1>4, <1>6, ElementOfSeq, LenProperties DEF Pointer
<1>10. TypeOK' /\ HistoryType'
  BY <1>1, <1>4, <1>5, <1>9 DEF HInv, TypeOK, HistoryType
<1>11. QED
  BY <1>7, <1>8, <1>10 DEF HInv

LEMMA RemoveStep ==
  ASSUME HInv, HRemove
  PROVE  HInv'
<1> DEFINE s == contents["open"]
           w == contents["wait"]
<1>1. /\ walk = "pass" /\ curr # NULL /\ curr' = AfterCurr(mem')
      /\ mem' = nlist_unlink(mem, "open", prev)
      /\ heap' = [heap EXCEPT ![UnlinkTarget(mem, "open", prev)] = "freed"]
      /\ contents' = [contents EXCEPT !["open"] = RemoveAt(s, at)]
      /\ UNCHANGED <<walk, where, want, prev, at>>
  BY DEF HRemove, RemoveCurr
<1>2. where = "open"
  BY <1>1 DEF HInv, WalkSound
<1>3. at \in 1..Len(s) /\ curr = s[at] /\ prev = Before(s, at)
      /\ s[at] \in Node /\ s[at] \in ToSet(s)
  BY <1>1, <1>2, WalkAt
<1>4. UnlinkTarget(mem, "open", prev) = s[at] /\ prev \in Pointer
  BY <1>3, BothLists, TargetAt DEF HInv, TypeOK
<1>5. /\ mem' \in Memory
      /\ Rep(mem', "open", RemoveAt(s, at)) /\ Rep(mem', "wait", w)
  BY <1>1, <1>3, <1>4, BothLists, UnlinkType, UnlinkRep, UnlinkOther
<1>6. /\ RemoveAt(s, at) \in Seq(Node) /\ IsInjective(RemoveAt(s, at))
      /\ ToSet(RemoveAt(s, at)) = ToSet(s) \ {s[at]}
  BY <1>3, BothLists, RemoveAtFacts
<1>7. /\ contents'["open"] = RemoveAt(s, at) /\ contents'["wait"] = w
      /\ contents' \in [List -> Seq(Node)]
  BY <1>1, <1>6, BothLists
<1>8. /\ at \in 1..(Len(RemoveAt(s, at)) + 1) /\ prev = Before(RemoveAt(s, at), at)
      /\ curr' = IF at = Len(RemoveAt(s, at)) + 1 THEN NULL ELSE RemoveAt(s, at)[at]
  BY <1>1, <1>3, <1>5, BothLists, StaysBefore
<1>9. ToSet(RemoveAt(s, at)) \cap ToSet(w) = {}
  BY <1>6, BothLists
<1>10. \A n \in Node : heap'[n] = "live" <=> n \in ToSet(RemoveAt(s, at)) \cup ToSet(w)
  <2>1. heap \in [Node -> {"unused", "live", "freed"}]
    BY DEF HInv, TypeOK
  <2>2. s[at] \notin ToSet(w)
    BY <1>3, BothLists
  <2>3. QED
    BY <1>1, <1>3, <1>4, <1>6, <2>1, <2>2, BothLists
<1>11. Represents' /\ NoLeakNoDangling'
  BY <1>5, <1>6, <1>7, <1>9, <1>10, BothLists, FromBothLists
<1>12. WalkSound'
  BY <1>1, <1>2, <1>7, <1>8 DEF WalkSound, Before
<1>13. curr' \in Pointer
  BY <1>6, <1>8, ElementOfSeq, LenProperties DEF Pointer
<1>14. TypeOK' /\ HistoryType'
  BY <1>1, <1>3, <1>4, <1>5, <1>7, <1>13 DEF HInv, TypeOK, HistoryType
<1>15. QED
  BY <1>11, <1>12, <1>14 DEF HInv

LEMMA MoveStep ==
  ASSUME HInv, HMove
  PROVE  HInv'
<1> DEFINE s == contents["open"]
           w == contents["wait"]
<1>1. /\ walk = "find" /\ where = "wait" /\ curr = want /\ want \in Node
      /\ mem' = nlist_append(nlist_unlink(mem, "wait", prev), "open", curr)
      /\ contents' = [contents EXCEPT !["open"] = Append(s, w[at]),
                                      !["wait"] = RemoveAt(w, at)]
      /\ walk' = "idle"
      /\ UNCHANGED <<heap, where, want, prev, curr, at>>
  BY DEF HMove, MoveToOpen, HInv, TypeOK
<1>2. at \in 1..Len(w) /\ curr = w[at] /\ prev = Before(w, at)
  BY <1>1, WalkAt, NodeAssumption
<1>3. /\ mem' \in Memory
      /\ Rep(mem', "wait", RemoveAt(w, at)) /\ Rep(mem', "open", Append(s, w[at]))
      /\ RemoveAt(w, at) \in Seq(Node) /\ Append(s, w[at]) \in Seq(Node)
      /\ IsInjective(RemoveAt(w, at)) /\ IsInjective(Append(s, w[at]))
      /\ ToSet(RemoveAt(w, at)) \cap ToSet(Append(s, w[at])) = {}
      /\ ToSet(RemoveAt(w, at)) \cup ToSet(Append(s, w[at])) = ToSet(w) \cup ToSet(s)
  <2>1. ToSet(w) \cap ToSet(s) = {} /\ "wait" # "open"
    BY BothLists
  <2>2. mem' = nlist_append(nlist_unlink(mem, "wait", Before(w, at)), "open", w[at])
    BY <1>1, <1>2
  <2> HIDE DEF s, w
  <2>3. QED
    BY <1>2, <2>1, <2>2, BothLists, Transfer DEF s, w
<1>4. /\ contents'["open"] = Append(s, w[at]) /\ contents'["wait"] = RemoveAt(w, at)
      /\ contents' \in [List -> Seq(Node)]
  BY <1>1, <1>3, BothLists
<1>5. Represents' /\ NoLeakNoDangling'
  BY <1>1, <1>3, <1>4, BothLists, FromBothLists
<1>6. TypeOK' /\ HistoryType'
  BY <1>1, <1>3, <1>4 DEF HInv, TypeOK, HistoryType
<1>7. WalkSound'
  BY <1>1 DEF WalkSound
<1>8. QED
  BY <1>5, <1>6, <1>7 DEF HInv

\* The invariant holds in every state, whatever the nodes, however many.
THEOREM ListInductive == HSpec => []HInv
<1>1. HInv /\ [HNext]_hvars => HInv'
  <2> SUFFICES ASSUME HInv, [HNext]_hvars PROVE HInv'
    OBVIOUS
  <2>1. ASSUME NEW n \in Node, HAdd(n) PROVE HInv'
    BY <2>1, AddStep
  <2>2. CASE HStart \/ HAdvance \/ HEnd \/ UNCHANGED hvars
    BY <2>2, WalkStep
  <2>3. CASE HPark
    BY <2>3, ParkStep
  <2>4. CASE HRemove
    BY <2>4, RemoveStep
  <2>5. CASE HMove
    BY <2>5, MoveStep
  <2>6. QED
    BY <2>1, <2>2, <2>3, <2>4, <2>5 DEF HNext
<1>2. QED
  BY InitHInv, <1>1, PTL DEF HSpec

\* nlist.c: head, tail and next pointers always spell out the two lists.
THEOREM RepresentsLists == HSpec => []Represents
BY ListInductive, PTL DEF HInv

\* nlist_remove frees exactly what is no longer in a list.
THEOREM NoLeak == HSpec => []NoLeakNoDangling
BY ListInductive, PTL DEF HInv

\* The update pass and nlist_find keep prev one node behind curr.
THEOREM WalkIsSound == HSpec => []WalkSound
BY ListInductive, PTL DEF HInv

-----------------------------------------------------------------------------
(***************************************************************************)
(* The pointers implement the sequences of Lists.                          *)
(***************************************************************************)
\* What a step sees of the abstract state, and where a walk that is over is.
LEMMA WalkEnds ==
  ASSUME HInv, walk = "pass", curr = NULL
  PROVE  at > Len(contents["open"])
<1>1. Len(contents["open"]) \in Nat /\ contents["open"] \in Seq(Node)
  BY BothLists, LenProperties
<1>2. /\ at \in 1..(Len(contents["open"]) + 1)
      /\ curr = IF at = Len(contents["open"]) + 1 THEN NULL ELSE contents["open"][at]
  BY DEF HInv, WalkSound
<1>3. at # Len(contents["open"]) + 1 => at \in 1..Len(contents["open"])
  BY <1>1, <1>2
<1>4. at # Len(contents["open"]) + 1 => contents["open"][at] \in Node
  BY <1>1, <1>3, ElementOfSeq
<1>5. at = Len(contents["open"]) + 1
  BY <1>2, <1>4, NodeAssumption
<1>6. QED
  BY <1>1, <1>5

\* Lists has its own copies of the operators on sequences.
LEMMA SameOperators ==
  /\ \A s : L!ToSet(s) = ToSet(s)
  /\ \A s, i : L!RemoveAt(s, i) = RemoveAt(s, i)
BY DEF L!ToSet, ToSet, L!RemoveAt, RemoveAt

LEMMA RefineInit == HInit => L!Init
BY DEF HInit, Init, L!Init, List

\* Every step of the pointers is a step of the sequences, or changes nothing
\* that they show.
LEMMA RefineStep ==
  ASSUME HInv, [HNext]_hvars
  PROVE  [L!Next]_L!vars
<1> DEFINE s == contents["open"]
           w == contents["wait"]
<1>1. ASSUME NEW n \in Node, HAdd(n) PROVE L!Add(n)
  <2>1. heap[n] = "unused" /\ walk = "idle" /\ walk' = "idle"
        /\ heap \in [Node -> {"unused", "live", "freed"}]
        /\ heap' = [heap EXCEPT ![n] = "live"]
        /\ contents' = [contents EXCEPT !["open"] = Append(s, n)]
    BY <1>1 DEF HAdd, AddNode, HInv, TypeOK
  <2>2. n \notin ToSet(s) \cup ToSet(w)
    BY <2>1, BothLists
  <2>3. {k \in Node : heap'[k] = "freed"} = {k \in Node : heap[k] = "freed"}
    BY <2>1
  <2>4. contents'["open"] = Append(s, n) /\ contents'["wait"] = w
    BY <2>1, BothLists
  <2>5. QED
    BY <2>1, <2>2, <2>3, <2>4, SameOperators DEF L!Add
<1>2. CASE HStart
  <2>1. CASE StartPass
    <3>1. s # <<>>
      BY <2>1, BothLists, TailOfEmpty DEF StartPass
    <3>2. QED
      BY <1>2, <2>1, <3>1 DEF HStart, StartPass, L!Next, L!StartPass
  <2>2. CASE FindInWait \/ \E n \in Node : StartFind(n)
    BY <1>2, <2>2 DEF HStart, FindInWait, StartFind, L!vars
  <2>3. QED
    BY <1>2, <2>1, <2>2 DEF HStart
<1>3. CASE HAdvance
  <2>1. CASE KeepCurr
    <3>1. walk = "pass" /\ walk' = "pass" /\ curr # NULL /\ at' = at + 1
          /\ UNCHANGED <<heap, contents>>
      BY <1>3, <2>1 DEF HAdvance, KeepCurr
    <3>2. where = "open"
      BY <3>1 DEF HInv, WalkSound
    <3>3. at \in 1..Len(s)
      BY <3>1, <3>2, WalkAt
    <3>4. Len(s) \in Nat
      BY BothLists, LenProperties
    <3>5. QED
      BY <3>1, <3>3, <3>4 DEF L!Next, L!Keep, L!Visiting
  <2>2. CASE FindNext
    BY <1>3, <2>2 DEF HAdvance, FindNext, L!vars
  <2>3. QED
    BY <1>3, <2>1, <2>2 DEF HAdvance
<1>4. CASE HPark
  <2>1. /\ walk = "pass" /\ walk' = "pass" /\ curr # NULL /\ UNCHANGED <<heap, at>>
        /\ contents' = [contents EXCEPT !["open"] = RemoveAt(s, at),
                                        !["wait"] = Append(w, s[at])]
    BY <1>4 DEF HPark, ParkCurr
  <2>2. where = "open"
    BY <2>1 DEF HInv, WalkSound
  <2>3. at \in 1..Len(s) /\ Len(s) \in Nat
    BY <2>1, <2>2, WalkAt, BothLists, LenProperties
  <2>4. contents'["open"] = RemoveAt(s, at) /\ contents'["wait"] = Append(w, s[at])
    BY <2>1, BothLists
  <2>5. (IF walk = "pass" THEN at ELSE 0) = at /\ at > 0 /\ at <= Len(s)
    BY <2>1, <2>3
  <2>6. (IF walk = "pass" THEN at ELSE 0)' = at
    BY <2>1
  <2>7. {k \in Node : heap'[k] = "freed"} = {k \in Node : heap[k] = "freed"}
    BY <2>1
  <2>8. L!Park
    BY <2>4, <2>5, <2>6, <2>7, SameOperators DEF L!Park, L!Visiting
  <2>9. QED
    BY <2>8 DEF L!Next
<1>5. CASE HRemove
  <2>1. /\ walk = "pass" /\ walk' = "pass" /\ curr # NULL /\ UNCHANGED <<at>>
        /\ heap' = [heap EXCEPT ![UnlinkTarget(mem, "open", prev)] = "freed"]
        /\ contents' = [contents EXCEPT !["open"] = RemoveAt(s, at)]
    BY <1>5 DEF HRemove, RemoveCurr
  <2>2. where = "open"
    BY <2>1 DEF HInv, WalkSound
  <2>3. /\ at \in 1..Len(s) /\ Len(s) \in Nat /\ s[at] \in Node
        /\ UnlinkTarget(mem, "open", prev) = s[at]
    BY <2>1, <2>2, WalkAt, BothLists, LenProperties, TargetAt
  <2>4. {k \in Node : heap'[k] = "freed"} = {k \in Node : heap[k] = "freed"} \cup {s[at]}
    BY <2>1, <2>3 DEF HInv, TypeOK
  <2>5. contents'["open"] = RemoveAt(s, at) /\ contents'["wait"] = w
    BY <2>1, BothLists
  <2>6. QED
    BY <2>1, <2>3, <2>4, <2>5, SameOperators DEF L!Next, L!Close, L!Visiting
<1>6. CASE HMove
  <2>1. /\ walk = "find" /\ walk' = "idle" /\ where = "wait" /\ curr = want
        /\ want \in Node /\ UNCHANGED heap
        /\ contents' = [contents EXCEPT !["open"] = Append(s, w[at]),
                                        !["wait"] = RemoveAt(w, at)]
    BY <1>6 DEF HMove, MoveToOpen, HInv, TypeOK
  <2>2. at \in 1..Len(w) /\ w \in Seq(Node) /\ w[at] \in Node
    BY <2>1, WalkAt, NodeAssumption, BothLists, ElementOfSeq
  <2>3. contents'["open"] = Append(s, w[at]) /\ contents'["wait"] = RemoveAt(w, at)
    BY <2>1, BothLists
  <2>4. at \in DOMAIN w
    BY <2>2, LenProperties
  <2>5. L!Reopen(w[at])
    BY <2>1, <2>3, <2>4, SameOperators DEF L!Reopen
  <2>6. QED
    BY <2>2, <2>5 DEF L!Next
<1>7. CASE HEnd
  <2>1. CASE EndPass
    BY <1>7, <2>1, WalkEnds DEF HEnd, EndPass, L!Next, L!EndPass
  <2>2. CASE EndFind
    BY <1>7, <2>2 DEF HEnd, EndFind, L!vars
  <2>3. QED
    BY <1>7, <2>1, <2>2 DEF HEnd
<1>8. CASE UNCHANGED hvars
  BY <1>8 DEF hvars, vars, L!vars
<1>9. QED
  BY <1>1, <1>2, <1>3, <1>4, <1>5, <1>6, <1>7, <1>8 DEF HNext, L!Next

\* The update pass of server.c and the searches of command.c, on the pointers
\* of nlist.c, do to the two lists what Lists says of sequences.
THEOREM PointersImplementSequences == HSpec => ImplementsLists
<1>1. HSpec => L!Init /\ [][L!Next]_L!vars
  BY ListInductive, RefineInit, RefineStep, PTL DEF HSpec
<1>2. QED
  BY <1>1, PTL DEF ImplementsLists, L!Spec

=============================================================================
