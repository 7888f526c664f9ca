------------------------------- MODULE Stacking -------------------------------
(***************************************************************************)
(* Where the windows are: the layout and the repositioning of utils.c, and *)
(* the flag needs_reposition of server_update_notifications, which decides *)
(* in the middle of a pass which of the windows move.                      *)
(*                                                                         *)
(* A pass holds nlist_lock, so requests come between passes.  The fields   *)
(* of a notification and its window on the screen are told apart: a window *)
(* is where the last X request has put it.                                 *)
(***************************************************************************)
EXTENDS Integers, Sequences, SequencesExt

CONSTANTS
  Node,       \* the notifications
  Contents,   \* what messages put in them: [txt_height, ind_height, width]
  Origins,    \* the values of config.origin to look at
  ScreenWidth, ScreenHeight,
  border_size, gap_size, x_offset, y_offset, x_padding, y_padding  \* config

ASSUME StackingAssumption ==
  /\ Contents \subseteq [txt_height : Nat, ind_height : Nat, width : Nat]
  /\ Contents # {}
  /\ Origins \subseteq {"top-left", "top-right", "bottom-left", "bottom-right"}
  /\ {ScreenWidth, ScreenHeight, border_size, gap_size, x_offset, y_offset,
      x_padding, y_padding} \subseteq Nat

VARIABLES
  origin,            \* config.origin
  open, wait,        \* the lists of ServerCtx, the second as a set
  state,             \* Notification.state, or "none"
  content,           \* text, fonts and indicator of a notification
  win,               \* its win_x, win_y, win_w, win_h
  screen,            \* the geometry of its window, as the X server has it
  mapped,            \* the notifications whose windows can be seen
  pos,               \* the notification the pass is at, 0 between passes
  needs_reposition

stacking == <<origin, open, wait, state, content, win, screen, mapped, pos,
              needs_reposition>>

Nowhere == [x |-> 0, y |-> 0, w |-> 0, h |-> 0]

StackingInit ==
  /\ origin \in Origins
  /\ open = <<>> /\ wait = {}
  /\ state = [n \in Node |-> "none"]
  /\ content \in [Node -> {CHOOSE c \in Contents : TRUE}]
  /\ win = [n \in Node |-> Nowhere] /\ screen = win /\ mapped = {}
  /\ pos = 0 /\ needs_reposition = FALSE

-----------------------------------------------------------------------------
Right  == origin \in {"top-right", "bottom-right"}
Top    == origin \in {"top-left", "top-right"}
bw     == 2 * border_size

\* utils_calculate_notification_layout: the higher of text and indicator.
Layout(g, c) ==
  [g EXCEPT !.h = Max({c.txt_height, c.ind_height}) + y_padding * 2,
            !.w = x_padding * 2 + c.width]

\* utils_reposition_notification, prev being <<>> or the notification before
Reposition(prev, g) ==
  [g EXCEPT
     !.x = IF Right THEN ScreenWidth - g.w - bw - x_offset ELSE x_offset,
     !.y = IF Top
           THEN IF prev = <<>> THEN y_offset
                ELSE Head(prev).y + Head(prev).h + bw + gap_size
           ELSE IF prev = <<>> THEN ScreenHeight - g.h - bw - y_offset
                ELSE Head(prev).y - gap_size - g.h - bw]

curr == open[pos]
prev == IF pos = 1 THEN <<>> ELSE <<win[open[pos - 1]]>>

InPass(states) == pos \in 1..Len(open) /\ state[curr] \in states

-----------------------------------------------------------------------------
(***************************************************************************)
(* Requests, between two passes.                                           *)
(***************************************************************************)
NOTNew(n) ==
  /\ pos = 0 /\ state[n] = "none"
  /\ open' = Append(open, n)
  /\ state' = [state EXCEPT ![n] = "INIT"]
  /\ \E c \in Contents : content' = [content EXCEPT ![n] = c]
  /\ UNCHANGED <<origin, wait, win, screen, mapped, pos, needs_reposition>>

MODOpen(n) ==
  /\ pos = 0 /\ n \in ToSet(open) /\ state[n] # "INIT"
  /\ state' = [state EXCEPT ![n] = "REDRAW"]
  /\ \E c \in Contents : content' = [content EXCEPT ![n] = c]
  /\ UNCHANGED <<origin, open, wait, win, screen, mapped, pos, needs_reposition>>

MODParked(n) ==
  /\ pos = 0 /\ n \in wait
  /\ state' = [state EXCEPT ![n] = "REOPEN"]
  /\ \E c \in Contents : content' = [content EXCEPT ![n] = c]
  /\ open' = Append(open, n)
  /\ wait' = wait \ {n}
  /\ UNCHANGED <<origin, win, screen, mapped, pos, needs_reposition>>

-----------------------------------------------------------------------------
(***************************************************************************)
(* The pass.                                                               *)
(***************************************************************************)
StartPass ==
  /\ pos = 0 /\ open # <<>>
  /\ pos' = 1 /\ needs_reposition' = FALSE
  /\ UNCHANGED <<origin, open, wait, state, content, win, screen, mapped>>

EndPass ==
  /\ pos > Len(open) /\ pos' = 0
  /\ UNCHANGED <<origin, open, wait, state, content, win, screen, mapped,
                 needs_reposition>>

\* The layout of the content, its place, and the window put there:
\* notification_open or notification_move_resize.
Place == LET g == Reposition(prev, Layout(win[curr], content[curr])) IN
         /\ win' = [win EXCEPT ![curr] = g]
         /\ screen' = [screen EXCEPT ![curr] = g]
         /\ mapped' = mapped \cup {curr}

VisitNew ==
  /\ InPass({"INIT", "REOPEN"})
  /\ Place
  /\ state' = [state EXCEPT ![curr] = "UPDATE"]
  /\ pos' = pos + 1
  /\ UNCHANGED <<origin, open, wait, content, needs_reposition>>

VisitRedraw ==
  /\ InPass({"REDRAW"})
  /\ needs_reposition' = TRUE
  /\ Place
  /\ state' = [state EXCEPT ![curr] = "UPDATE"]
  /\ pos' = pos + 1
  /\ UNCHANGED <<origin, open, wait, content>>

\* notification_move leaves the size of the window as it was.
MoveIfNeeded ==
  IF needs_reposition
  THEN LET g == Reposition(prev, win[curr]) IN
       /\ win' = [win EXCEPT ![curr] = g]
       /\ screen' = [screen EXCEPT ![curr].x = g.x, ![curr].y = g.y]
  ELSE UNCHANGED <<win, screen>>

VisitStays ==
  /\ InPass({"UPDATE"})
  /\ MoveIfNeeded
  /\ pos' = pos + 1
  /\ UNCHANGED <<origin, open, wait, state, content, mapped, needs_reposition>>

\* Fault: a notification that ends leaves a hole.
LeaveHole == UNCHANGED needs_reposition

CloseRanks == needs_reposition' = TRUE

\* notification_update has returned false: the node is parked or removed,
\* and the one after it is next.
VisitEnds ==
  /\ InPass({"UPDATE"})
  /\ MoveIfNeeded
  /\ CloseRanks
  /\ \/ wait' = wait \cup {curr} /\ UNCHANGED state
     \/ state' = [state EXCEPT ![curr] = "none"] /\ UNCHANGED wait
  /\ open' = RemoveAt(open, pos)
  /\ mapped' = mapped \ {curr}
  /\ UNCHANGED <<origin, content, pos>>

StackingNext ==
  \/ \E n \in Node : NOTNew(n) \/ MODOpen(n) \/ MODParked(n)
  \/ StartPass \/ EndPass
  \/ VisitNew \/ VisitRedraw \/ VisitStays \/ VisitEnds

StackingSpec == StackingInit /\ [][StackingNext]_stacking

-----------------------------------------------------------------------------
\* How far from the edge that the origin names a window begins and ends, the
\* borders included.
Near(n) == IF Top THEN screen[n].y ELSE ScreenHeight - (screen[n].y + screen[n].h + bw)
Far(n)  == Near(n) + screen[n].h + bw
Side(n) == IF Right THEN ScreenWidth - (screen[n].x + screen[n].w + bw) ELSE screen[n].x

\* The windows that are on the screen and, during a pass, already visited.
Placed == IF pos = 0 THEN {i \in DOMAIN open : open[i] \in mapped}
          ELSE 1..pos - 1

\* Windows are stacked from the edge on, in the order of the open list, with
\* one gap between two and no other; they are aligned with the side that the
\* origin names; and they are as large as their content needs, as of the last
\* request that a pass has seen.  So it is whatever has ended, been changed or
\* come back in the last pass: none covers another, none leaves a hole.
InTurn(i)  == Near(open[i]) = IF i = 1 THEN y_offset ELSE Far(open[i - 1]) + gap_size
Aligned(i) == Side(open[i]) = x_offset
Fits(i) ==
  LET needed == Layout(Nowhere, content[open[i]])
  IN state[open[i]] = "UPDATE" =>
       screen[open[i]].w = needed.w /\ screen[open[i]].h = needed.h

Stacked == \A i \in Placed : InTurn(i) /\ Aligned(i) /\ Fits(i)

=============================================================================
