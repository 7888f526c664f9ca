-------------------------------- MODULE Lists --------------------------------
(***************************************************************************)
(* The open and the wait list as two sequences, and a pass over the first  *)
(* that may take out what it visits.                                       *)
(*                                                                         *)
(* This is what the threads of Daemon do to their lists, and what the      *)
(* pointers of NList implement.                                            *)
(***************************************************************************)
EXTENDS Naturals, SequencesExt

CONSTANT Node

VARIABLES
  open, wait,  \* the lists, first element first
  closed,      \* the nodes that have been taken out for good
  pos          \* the position the pass has reached, 0 between passes

vars == <<open, wait, closed, pos>>

Init == open = <<>> /\ wait = <<>> /\ closed = {} /\ pos = 0

\* A new node goes to the end of the open list.
Add(n) ==
  /\ pos = 0
  /\ n \notin ToSet(open) \cup ToSet(wait) \cup closed
  /\ open' = Append(open, n)
  /\ UNCHANGED <<wait, closed, pos>>

\* A node of the wait list goes to the end of the open list.
Reopen(n) ==
  /\ pos = 0
  /\ \E i \in DOMAIN wait : wait[i] = n /\ wait' = RemoveAt(wait, i)
  /\ open' = Append(open, n)
  /\ UNCHANGED <<closed, pos>>

StartPass ==
  /\ pos = 0 /\ open # <<>>
  /\ pos' = 1
  /\ UNCHANGED <<open, wait, closed>>

Visiting == pos > 0 /\ pos <= Len(open)

Keep ==
  /\ Visiting
  /\ pos' = pos + 1
  /\ UNCHANGED <<open, wait, closed>>

\* The pass goes on with the node that has moved up to the same position.
Park ==
  /\ Visiting
  /\ open' = RemoveAt(open, pos)
  /\ wait' = Append(wait, open[pos])
  /\ UNCHANGED <<closed, pos>>

Close ==
  /\ Visiting
  /\ open' = RemoveAt(open, pos)
  /\ closed' = closed \cup {open[pos]}
  /\ UNCHANGED <<wait, pos>>

\* A pass ends only when it has visited everything that was in the list.
EndPass ==
  /\ pos > Len(open)
  /\ pos' = 0
  /\ UNCHANGED <<open, wait, closed>>

Next == \/ \E n \in Node : Add(n) \/ Reopen(n)
        \/ StartPass \/ Keep \/ Park \/ Close \/ EndPass

Spec == Init /\ [][Next]_vars

=============================================================================
