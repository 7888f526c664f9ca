---------------------------- MODULE MCNotification ----------------------------
(***************************************************************************)
(* Instances for TLC of what a notification is besides its place in the    *)
(* lists: its life by the clock, its place on the screen, and what it      *)
(* owns.  None of the three looks at the state of another, so a behaviour  *)
(* is one of a single view, and the other two stay at their beginning.     *)
(***************************************************************************)
EXTENDS Window, Stacking, Resources

Symmetry == Permutations(Node)

\* In seconds of three milliseconds.
FewTimeouts == {-1, 0, 1, 2}

\* One is wider, the other higher.
TwoContents == {[txt_height |-> 3, ind_height |-> 2, width |-> 7],
                [txt_height |-> 3, ind_height |-> 5, width |-> 4]}

AllOrigins == {"top-left", "top-right", "bottom-left", "bottom-right"}

VARIABLE view

vars == <<view, window, stacking, resources>>

Init ==
  /\ view \in {"window", "stacking", "resources"}
  /\ WindowInit /\ (view # "window" => clock = Period * Ms)
  /\ StackingInit /\ (view # "stacking" => origin = "top-left")
  /\ ResourcesInit

Next ==
  /\ UNCHANGED view
  /\ \/ view = "window"    /\ WindowNext    /\ UNCHANGED <<stacking, resources>>
     \/ view = "stacking"  /\ StackingNext  /\ UNCHANGED <<window, resources>>
     \/ view = "resources" /\ ResourcesNext /\ UNCHANGED <<window, stacking>>

Spec == Init /\ [][Next]_vars

=============================================================================
