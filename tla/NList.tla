-------------------------------- MODULE NList --------------------------------
(***************************************************************************)
(* The singly linked lists of nlist.c, pointer by pointer, and the three   *)
(* pieces of code that walk them: the update pass of server.c, which       *)
(* unlinks nodes while it walks, and the two searches of a MOD request.    *)
(*                                                                         *)
(* All of it runs with nlist_lock held (MutualExclusion in Daemon), so     *)
(* there is one walk at a time, and prev and curr stand for the variables  *)
(* of that name, previous and current in nlist_find.                       *)
(***************************************************************************)
EXTENDS Naturals, Sequences

CONSTANTS Node, NULL

ASSUME NodeAssumption == NULL \notin Node

List    == {"open", "wait"}
Pointer == Node \cup {NULL}

VARIABLES
  mem,    \* head and tail of each list, and next of each node
  heap,   \* "unused", "live" or "freed", per node
  walk,   \* "idle", "pass" or "find"
  where,  \* the list that is being walked
  want,   \* the node that nlist_find looks for
  prev, curr

vars == <<mem, heap, walk, where, want, prev, curr>>

Memory == [head : [List -> Pointer], tail : [List -> Pointer],
           next : [Node -> Pointer]]

TypeOK ==
  /\ mem \in Memory
  /\ heap \in [Node -> {"unused", "live", "freed"}]
  /\ walk \in {"idle", "pass", "find"}
  /\ where \in List
  /\ want \in Node
  /\ prev \in Pointer /\ curr \in Pointer

Init ==
  /\ mem = [head |-> [l \in List |-> NULL], tail |-> [l \in List |-> NULL],
            next |-> [n \in Node |-> NULL]]
  /\ heap = [n \in Node |-> "unused"]
  /\ walk = "idle" /\ where = "open" /\ want \in Node
  /\ prev = NULL /\ curr = NULL

-----------------------------------------------------------------------------
(***************************************************************************)
(* nlist.c, as functions of the memory m.                                  *)
(***************************************************************************)

nlist_append(m, l, n) ==
  [head |-> IF m.tail[l] = NULL THEN [m.head EXCEPT ![l] = n] ELSE m.head,
   tail |-> [m.tail EXCEPT ![l] = n],
   next |-> IF m.tail[l] = NULL THEN [m.next EXCEPT ![n] = NULL]
            ELSE [m.next EXCEPT ![n] = NULL, ![m.tail[l]] = n]]

\* The node that nlist_unlink takes out: the one after p.
UnlinkTarget(m, l, p) == IF p = NULL THEN m.head[l] ELSE m.next[p]

\* Fault: the tail is not moved back when the last node goes.
UnlinkKeepTail(m, l, p) ==
  LET t == UnlinkTarget(m, l, p) IN
  IF t = NULL THEN m
  ELSE [head |-> IF p = NULL THEN [m.head EXCEPT ![l] = m.next[t]] ELSE m.head,
        tail |-> m.tail,
        next |-> IF p = NULL THEN [m.next EXCEPT ![t] = NULL]
                 ELSE [m.next EXCEPT ![p] = m.next[t], ![t] = NULL]]

nlist_unlink(m, l, p) ==
  LET t == UnlinkTarget(m, l, p) IN
  [head |-> IF p = NULL /\ t # NULL THEN [m.head EXCEPT ![l] = m.next[t]]
            ELSE m.head,
   tail |-> IF t = m.tail[l] THEN [m.tail EXCEPT ![l] = p] ELSE m.tail,
   next |-> IF t = NULL THEN m.next
            ELSE IF p = NULL THEN [m.next EXCEPT ![t] = NULL]
            ELSE [m.next EXCEPT ![p] = m.next[t], ![t] = NULL]]

-----------------------------------------------------------------------------
(***************************************************************************)
(* Walks.                                                                  *)
(***************************************************************************)

\* nlist_append of a node that NOT has allocated.
AddNode(n) ==
  /\ walk = "idle" /\ heap[n] = "unused"
  /\ heap' = [heap EXCEPT ![n] = "live"]
  /\ mem' = nlist_append(mem, "open", n)
  /\ UNCHANGED <<walk, where, want, prev, curr>>

WalkFrom(l) == where' = l /\ prev' = NULL /\ curr' = mem.head[l]

\* Fault: prev stays behind.
AdvanceCurrOnly == curr' = mem.next[curr] /\ UNCHANGED prev

Advance == prev' = curr /\ curr' = mem.next[curr]

StartPass ==
  /\ walk = "idle" /\ mem.head["open"] # NULL
  /\ walk' = "pass"
  /\ WalkFrom("open")
  /\ UNCHANGED <<mem, heap, want>>

KeepCurr ==
  /\ walk = "pass" /\ curr # NULL
  /\ Advance
  /\ UNCHANGED <<mem, heap, walk, where, want>>

\* Fault: the pass goes on from the node it has just moved.
AfterMoved(m) == m.next[curr]

\* Where the pass goes on once curr is no longer in the list.
AfterCurr(m) == IF prev = NULL THEN m.head["open"] ELSE m.next[prev]

ParkCurr ==
  /\ walk = "pass" /\ curr # NULL
  /\ mem' = nlist_append(nlist_unlink(mem, "open", prev), "wait", curr)
  /\ curr' = AfterCurr(mem')
  /\ UNCHANGED <<heap, walk, where, want, prev>>

\* Fault: nlist_unlink instead of nlist_remove.
RemoveWithoutFree ==
  /\ walk = "pass" /\ curr # NULL
  /\ mem' = nlist_unlink(mem, "open", prev)
  /\ curr' = AfterCurr(mem')
  /\ UNCHANGED <<heap, walk, where, want, prev>>

\* nlist_remove frees what nlist_unlink returns.
RemoveCurr ==
  /\ walk = "pass" /\ curr # NULL
  /\ mem' = nlist_unlink(mem, "open", prev)
  /\ heap' = [heap EXCEPT ![UnlinkTarget(mem, "open", prev)] = "freed"]
  /\ curr' = AfterCurr(mem')
  /\ UNCHANGED <<walk, where, want, prev>>

EndPass ==
  /\ walk = "pass" /\ curr = NULL
  /\ walk' = "idle"
  /\ UNCHANGED <<mem, heap, where, want, prev, curr>>

\* A MOD request looks for its node in the open list first.
StartFind(n) ==
  /\ walk = "idle"
  /\ walk' = "find" /\ want' = n
  /\ WalkFrom("open")
  /\ UNCHANGED <<mem, heap>>

FindNext ==
  /\ walk = "find" /\ curr # NULL /\ curr # want
  /\ Advance
  /\ UNCHANGED <<mem, heap, walk, where, want>>

\* The open list has no such node, or it is another client's.
FindInWait ==
  /\ walk = "find" /\ where = "open" /\ curr \in {NULL, want}
  /\ WalkFrom("wait")
  /\ UNCHANGED <<mem, heap, walk, want>>

\* Nothing found, or nothing moved: the node is in the open list already,
\* or the request is refused.
EndFind ==
  /\ walk = "find"
  /\ \/ where = "wait" /\ curr \in {NULL, want}
     \/ where = "open" /\ curr = want
  /\ walk' = "idle"
  /\ UNCHANGED <<mem, heap, where, want, prev, curr>>

MoveToOpen ==
  /\ walk = "find" /\ where = "wait" /\ curr = want
  /\ mem' = nlist_append(nlist_unlink(mem, "wait", prev), "open", curr)
  /\ walk' = "idle"
  /\ UNCHANGED <<heap, where, want, prev, curr>>

Next == \/ \E n \in Node : AddNode(n) \/ StartFind(n)
        \/ StartPass \/ KeepCurr \/ ParkCurr \/ RemoveCurr \/ EndPass
        \/ FindNext \/ FindInWait \/ EndFind \/ MoveToOpen

Spec == Init /\ [][Next]_vars

=============================================================================
