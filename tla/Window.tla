-------------------------------- MODULE Window --------------------------------
(***************************************************************************)
(* One notification on the screen, in time: when it ends, and when its     *)
(* indicator moves on (notification.c).  Daemon has the same life without  *)
(* the clock; here are the milliseconds, as the code computes them from    *)
(* two timespecs, and the frames, of which Indicator has the bytes.        *)
(*                                                                         *)
(* clock_gettime and what a function then does are one step: nothing is    *)
(* decided between two readings of the clock in one visit.                 *)
(***************************************************************************)
EXTENDS Integers

CONSTANTS
  Ms,        \* clock ticks in a millisecond (1000000 nanoseconds)
  Sec,       \* milliseconds in a second (1000)
  Period,    \* milliseconds a frame is shown (150)
  MaxUl,     \* ULONG_MAX + 1
  Timeouts,  \* the timeouts, in seconds, that clients ask for
  Counts,    \* the numbers of frames of the indicators clients send
  MaxClock,  \* bound: ticks since the machine was started
  MaxClicks  \* bound: clicks waiting in the window's event queue

\* No timeout is so long, or so negative, that milliseconds do not fit.
ASSUME WindowAssumption ==
  /\ {Ms, Sec, Period, MaxUl, MaxClock} \subseteq Nat \ {0}
  /\ Timeouts \subseteq Int /\ Counts \subseteq Nat \ {0}
  /\ \A t \in Timeouts \cup {0} : /\ MaxClock \div Ms + t * Sec < MaxUl
                                  /\ MaxClock \div Ms - t * Sec < MaxUl
  /\ (Period + Sec) * Ms <= MaxClock
  /\ MaxClicks \in Nat

VARIABLES
  clock,        \* CLOCK_MONOTONIC
  life,         \* Notification.state, "none", "parked" or "closed"
  on_screen,    \* the window is mapped
  start_time, last_time,  \* Notification.start_time, .last_time
  timeout,      \* Notification.timeout, unsigned
  asked,        \* history: the timeout the client has asked for
  begun,        \* history: when it was opened, reopened or given a timeout
  frame_count, frame,     \* of the indicator, frame as a number
  shown,        \* the frame in the picture, 0 if none of this indicator is
  clicks        \* left clicks in the event queue

timing  == <<start_time, timeout, asked, begun>>
picture == <<last_time, frame, shown>>
window  == <<clock, life, on_screen, timing, picture, frame_count, clicks>>

\* The first timespec is all zero, and the machine has been up for a while.
WindowInit ==
  /\ clock \in Period * Ms .. (Period + Sec) * Ms
  /\ life = "none" /\ on_screen = FALSE
  /\ start_time = 0 /\ last_time = 0
  /\ timeout = 0 /\ asked = 0 /\ begun = 0
  /\ frame_count = 1 /\ frame = 1 /\ shown = 0
  /\ clicks = 0

-----------------------------------------------------------------------------
Timespec(t) == [sec |-> t \div (Sec * Ms), nsec |-> t % (Sec * Ms)]

\* Division in C is towards zero.
ToMs(nsec) == IF nsec >= 0 THEN nsec \div Ms ELSE -((-nsec) \div Ms)

\* elapsed_ms, an unsigned long
Elapsed(since) ==
  LET now == Timespec(clock)  then == Timespec(since)
  IN ((now.sec - then.sec) * Sec + ToMs(now.nsec - then.nsec)) % MaxUl

Due == Elapsed(last_time) >= Period

TimeIsUp ==
  timeout > 0 /\ Elapsed(start_time) >= (timeout * Sec) % MaxUl

StepFrame ==
  /\ frame' = (frame % frame_count) + 1
  /\ last_time' = clock

\* Faults of notification_draw: it steps whenever it draws, or before.
DrawAndStep == shown' = frame /\ StepFrame
StepAndDraw == /\ IF Due THEN StepFrame ELSE UNCHANGED <<frame, last_time>>
               /\ shown' = frame'

\* notification_draw
Draw == /\ shown' = frame
        /\ IF Due THEN StepFrame ELSE UNCHANGED <<frame, last_time>>

-----------------------------------------------------------------------------
Tick == /\ clock < MaxClock /\ clock' = clock + 1
        /\ UNCHANGED <<life, on_screen, timing, picture, frame_count, clicks>>

Click == /\ on_screen /\ clicks < MaxClicks /\ clicks' = clicks + 1
         /\ UNCHANGED <<clock, life, on_screen, timing, picture, frame_count>>

SetTimeout(t) == timeout' = t % MaxUl /\ asked' = t

\* What happens now to the time, and what the code makes of it.
Begin == begun' = clock

\* Fault: the time since the opening counts for the new timeout too.
SetTimeoutOnly(t) == SetTimeout(t) /\ UNCHANGED start_time

RestartTimeout(t) == SetTimeout(t) /\ start_time' = clock

SetIndicator(c) == frame_count' = c /\ frame' = 1 /\ shown' = 0

KeepIndicator == UNCHANGED <<frame_count, frame, shown>>

\* NOT
Notify ==
  /\ life = "none" /\ life' = "INIT"
  /\ \E t \in Timeouts : SetTimeout(t)
  /\ \E c \in Counts : SetIndicator(c)
  /\ UNCHANGED <<clock, on_screen, start_time, begun, last_time, clicks>>

\* notification_open
Open ==
  /\ life = "INIT" /\ life' = "UPDATE" /\ on_screen' = TRUE
  /\ Begin /\ start_time' = clock
  /\ Draw
  /\ UNCHANGED <<clock, timeout, asked, frame_count, clicks>>

\* MOD of a notification in the open list, one that has just been reopened
\* included: a timeout counts from now on.
Modify ==
  /\ life \in {"UPDATE", "REDRAW", "REOPEN"} /\ life' = "REDRAW"
  /\ \/ \E t \in Timeouts : RestartTimeout(t) /\ Begin
     \/ UNCHANGED timing
  /\ KeepIndicator \/ \E c \in Counts : SetIndicator(c)
  /\ UNCHANGED <<clock, on_screen, last_time, clicks>>

\* MOD of a parked one: so does the timeout it has had.
ModifyParked ==
  /\ life = "parked" /\ life' = "REOPEN"
  /\ Begin /\ start_time' = clock
  /\ UNCHANGED <<timeout, asked>> \/ \E t \in Timeouts : SetTimeout(t)
  /\ KeepIndicator \/ \E c \in Counts : SetIndicator(c)
  /\ UNCHANGED <<clock, on_screen, last_time, clicks>>

\* UNOT_NEED_REDRAW and UNOT_NEED_REOPEN
Redraw ==
  /\ life \in {"REDRAW", "REOPEN"} /\ life' = "UPDATE" /\ on_screen' = TRUE
  /\ Draw
  /\ UNCHANGED <<clock, timing, frame_count, clicks>>

(***************************************************************************)
(* notification_update: a click, or else the time, ends the notification,  *)
(* which is unmapped, and parked or closed; otherwise a frame that is due  *)
(* is drawn.                                                               *)
(***************************************************************************)
Ends == /\ life' \in {"parked", "closed"} /\ on_screen' = FALSE
        /\ UNCHANGED <<timing, picture, frame_count>>

EndByClick == life = "UPDATE" /\ clicks > 0 /\ clicks' = clicks - 1 /\ Ends
              /\ UNCHANGED clock

EndByTime == life = "UPDATE" /\ clicks = 0 /\ TimeIsUp /\ Ends
             /\ UNCHANGED <<clock, clicks>>

Animate ==
  /\ life = "UPDATE" /\ clicks = 0 /\ ~TimeIsUp
  /\ frame_count > 1 /\ Due
  /\ shown' = frame /\ StepFrame
  /\ UNCHANGED <<clock, life, on_screen, timing, frame_count, clicks>>

Stay ==
  /\ life = "UPDATE" /\ clicks = 0 /\ ~TimeIsUp
  /\ frame_count = 1 \/ ~Due
  /\ UNCHANGED window

Update == EndByClick \/ EndByTime \/ Animate \/ Stay

WindowNext ==
  \/ Tick \/ Click
  \/ Notify \/ Open \/ Modify \/ ModifyParked \/ Redraw \/ Update

WindowSpec == WindowInit /\ [][WindowNext]_window

-----------------------------------------------------------------------------
\* A millisecond is what the rounding may cost.
Passed(since, ms) == clock - since >= ms * Ms
NearlyPassed(since, ms) == clock - since > (ms - 1) * Ms

\* A notification ends by itself when its timeout has gone by since it was
\* opened or reopened, or since a MOD gave it that timeout, whichever came
\* last: less than a millisecond early, and at the first visit after.  One
\* whose timeout is 0 or negative never does.
EndsOnTime ==
  life = "UPDATE" =>
    /\ TimeIsUp => asked > 0 /\ NearlyPassed(begun, asked * Sec)
    /\ asked > 0 /\ Passed(begun, asked * Sec) => TimeIsUp

\* The indicator moves on by the clock, however many redraws there are: not
\* before its period is over, but for the rounding, and no redraw puts off a
\* step that is due.
StepsOnTime ==
  [][/\ last_time' # last_time => NearlyPassed(last_time, Period)
     /\ life # "UPDATE" /\ life' = "UPDATE" /\ last_time' = last_time
          => ~Passed(last_time, Period)]_window

\* No frame is skipped: the picture goes from a frame to the next, whether it
\* is redrawn for a MOD or for the animation.
FramesInTurn ==
  [][shown' \notin {0, shown} =>
       shown' = IF shown = 0 THEN 1 ELSE (shown % frame_count) + 1]_window

=============================================================================
