---------------------------- MODULE NListHistory ----------------------------
(***************************************************************************)
(* NList with two history variables: what is in each list, in order, and   *)
(* how far the walk has come.  They say what the pointers are meant to     *)
(* represent; no action of NList looks at them.                            *)
(***************************************************************************)
EXTENDS NList, SequencesExt

VARIABLES
  contents,  \* each list as a sequence
  at         \* the position of curr in the list that is being walked

hvars == <<vars, contents, at>>

HInit == Init /\ contents = [l \in List |-> <<>>] /\ at = 1

HAdd(n) == /\ AddNode(n)
           /\ contents' = [contents EXCEPT !["open"] = Append(@, n)]
           /\ UNCHANGED at

HStart == /\ StartPass \/ FindInWait \/ \E n \in Node : StartFind(n)
          /\ at' = 1
          /\ UNCHANGED contents

HAdvance == /\ KeepCurr \/ FindNext
            /\ at' = at + 1
            /\ UNCHANGED contents

HPark == /\ ParkCurr
         /\ contents' = [contents EXCEPT
                           !["open"] = RemoveAt(@, at),
                           !["wait"] = Append(@, contents["open"][at])]
         /\ UNCHANGED at

HRemove == /\ RemoveCurr
           /\ contents' = [contents EXCEPT !["open"] = RemoveAt(@, at)]
           /\ UNCHANGED at

HMove == /\ MoveToOpen
         /\ contents' = [contents EXCEPT
                           !["open"] = Append(@, contents["wait"][at]),
                           !["wait"] = RemoveAt(@, at)]
         /\ UNCHANGED at

HEnd == (EndPass \/ EndFind) /\ UNCHANGED <<contents, at>>

HNext == \/ \E n \in Node : HAdd(n)
         \/ HStart \/ HAdvance \/ HPark \/ HRemove \/ HMove \/ HEnd

HSpec == HInit /\ [][HNext]_hvars

-----------------------------------------------------------------------------
\* The list l of the memory m is the sequence s.
Rep(m, l, s) ==
  /\ m.head[l] = IF s = <<>> THEN NULL ELSE s[1]
  /\ m.tail[l] = IF s = <<>> THEN NULL ELSE s[Len(s)]
  /\ \A i \in 1..Len(s) : m.next[s[i]] = IF i = Len(s) THEN NULL ELSE s[i + 1]

\* head, tail and the next pointers of each list agree on what is in it:
\* nothing is lost or linked twice by nlist_append and nlist_unlink.
Represents == \A l \in List : Rep(mem, l, contents[l])

\* What is in the lists is what is allocated: nlist_remove frees the node it
\* has unlinked, and no list keeps a pointer to memory that has been freed.
NoLeakNoDangling ==
  /\ \A n \in Node : heap[n] = "live" <=> \E l \in List : n \in ToSet(contents[l])
  /\ \A l \in List : IsInjective(contents[l])
  /\ ToSet(contents["open"]) \cap ToSet(contents["wait"]) = {}

\* While a walk goes on, prev is the node before curr, so that unlinking the
\* node after prev takes out curr and nothing else.
WalkSound ==
  walk # "idle" =>
    LET s == contents[where] IN
    /\ at \in 1..(Len(s) + 1)
    /\ curr = IF at = Len(s) + 1 THEN NULL ELSE s[at]
    /\ prev = IF at = 1 THEN NULL ELSE s[at - 1]
    /\ walk = "pass" => where = "open"

HistoryType == contents \in [List -> Seq(Node)] /\ at \in Nat

\* These together are preserved by every step (NList_proofs).
HInv == TypeOK /\ HistoryType /\ Represents /\ NoLeakNoDangling /\ WalkSound

\* The pointers behave as the sequences of Lists: in particular a pass
\* visits every node of the open list once, whatever it takes out.
L == INSTANCE Lists WITH
  open   <- contents["open"],
  wait   <- contents["wait"],
  closed <- {n \in Node : heap[n] = "freed"},
  pos    <- IF walk = "pass" THEN at ELSE 0

ImplementsLists == L!Spec

=============================================================================
