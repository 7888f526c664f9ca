------------------------------ MODULE FrameCycle ------------------------------
(***************************************************************************)
(* What an indicator promises: its frames are shown one after the other,   *)
(* each of them once per turn, in the order in which they were written.    *)
(* Indicator implements it with pointers into the indicator string.        *)
(***************************************************************************)
EXTENDS Naturals, Sequences

VARIABLES frames, pos   \* the frames, and which of them is next; or <<>>, 0

vars == <<frames, pos>>

None == frames = <<>> /\ pos = 0

\* The indicator of a new message, if it has at least one frame.
Use == /\ frames = <<>>
       /\ frames' # <<>> /\ \A i \in 1..Len(frames') : frames'[i] # <<>>
       /\ pos' = 1

Forget == frames' = <<>> /\ pos' = 0

Step == /\ frames # <<>> /\ UNCHANGED frames
        /\ pos' = (pos % Len(frames)) + 1

Next == Use \/ Forget \/ Step

Spec == None /\ [][Next]_vars

=============================================================================
