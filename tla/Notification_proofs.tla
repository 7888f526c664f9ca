-------------------------- MODULE Notification_proofs --------------------------
(***************************************************************************)
(* Theorems about what a notification is besides its place in the lists:   *)
(* its life by the clock (Window), its place on the screen (Stacking) and  *)
(* what it owns (Resources), the three views of MCNotification.            *)
(***************************************************************************)
EXTENDS Window, Stacking, Resources, SeqLemmas

-----------------------------------------------------------------------------
(***************************************************************************)
(* Theorems about Window, for clocks of any resolution, any period, any    *)
(* number of frames and any timeouts: elapsed_ms is right to the           *)
(* millisecond, and what rests on it is in time.                           *)
(***************************************************************************)

\* The parts of the inductive invariant.
ClockInv ==
  /\ clock \in Nat /\ clock <= MaxClock
  /\ start_time \in Nat /\ start_time <= clock /\ begun = start_time
  /\ last_time \in Nat /\ last_time <= clock

TimeoutInv == asked \in Timeouts \cup {0} /\ timeout = asked % MaxUl

\* The frame to be drawn next is the one in the picture, or the one after it.
FrameInv ==
  /\ frame \in Nat \ {0} /\ frame_count \in Nat \ {0}
  /\ IF shown = 0 THEN frame = 1 ELSE frame \in {shown, (shown % frame_count) + 1}

WindowInv ==
  /\ ClockInv
  /\ TimeoutInv
  /\ FrameInv

-----------------------------------------------------------------------------
(***************************************************************************)
(* Quotient and remainder, and products by a positive number.              *)
(***************************************************************************)
LEMMA Division ==
  ASSUME NEW a \in Int, NEW b \in Nat \ {0}
  PROVE  /\ (a \div b) \in Int /\ (a % b) \in Int
         /\ a = b * (a \div b) + (a % b)
         /\ 0 <= (a % b) /\ (a % b) < b
OBVIOUS

LEMMA Division2 ==
  ASSUME NEW a \in Int, NEW b \in Nat \ {0}, NEW q \in Int, NEW r \in Int,
         a = b * q + r, 0 <= r, r < b
  PROVE  (a \div b) = q /\ (a % b) = r
OBVIOUS

LEMMA Cancel ==
  ASSUME NEW m \in Nat \ {0}, NEW a \in Int, NEW b \in Int, m * a < m * b
  PROVE  a < b
OBVIOUS

LEMMA Monotone ==
  ASSUME NEW m \in Nat \ {0}, NEW a \in Int, NEW b \in Int, a <= b
  PROVE  m * a <= m * b
OBVIOUS

\* A quotient that is rounded towards zero is off by less than one.
LEMMA Truncated ==
  ASSUME NEW n \in Int
  PROVE  /\ ToMs(n) \in Int
         /\ Ms * ToMs(n) - n < Ms /\ n - Ms * ToMs(n) < Ms
         /\ Ms * ToMs(n) <= IF n >= 0 THEN n ELSE 0
<1>1. Ms \in Nat \ {0}
  BY WindowAssumption
<1>2. CASE n >= 0
  BY <1>1, <1>2, Division DEF ToMs
<1>3. CASE ~(n >= 0)
  <2> DEFINE q == (-n) \div Ms
             r == (-n) % Ms
  <2>1. q \in Int /\ r \in Int /\ -n = Ms * q + r /\ 0 <= r /\ r < Ms
    BY <1>1, Division
  <2>2. ToMs(n) = -q
    BY <1>3 DEF ToMs
  <2> HIDE DEF q, r
  <2>3. Ms * (-q) = -(Ms * q) /\ Ms * q \in Int
    BY <1>1, <2>1
  <2>4. q >= 0
    <3>1. Ms * (-1) < Ms * q
      BY <1>1, <1>3, <2>1, <2>3
    <3>2. QED
      BY <1>1, <2>1, <3>1, Cancel
  <2>5. Ms * q >= 0
    BY <1>1, <2>1, <2>4
  <2>6. QED
    BY <1>1, <1>3, <2>1, <2>2, <2>3, <2>5
<1>4. QED
  BY <1>2, <1>3

(***************************************************************************)
(* elapsed_ms is off by less than a millisecond, never negative, and at    *)
(* most the milliseconds since the machine was started: so it fits.        *)
(***************************************************************************)
LEMMA ElapsedFacts ==
  ASSUME ClockInv, NEW since \in Nat, since <= clock
  PROVE  /\ Elapsed(since) \in Nat
         /\ Ms * Elapsed(since) < clock - since + Ms
         /\ clock - since < Ms * Elapsed(since) + Ms
         /\ Elapsed(since) <= MaxClock \div Ms
<1> DEFINE N == Sec * Ms
           ns == clock \div N
           nn == clock % N
           ts == since \div N
           tn == since % N
           d == nn - tn
           t == ToMs(d)
           e == (ns - ts) * Sec + t
<1>0. /\ Ms \in Nat \ {0} /\ Sec \in Nat \ {0} /\ MaxUl \in Nat \ {0}
      /\ MaxClock \in Nat \ {0} /\ clock \in Nat /\ clock <= MaxClock
      /\ MaxClock \div Ms < MaxUl
  <2>1. MaxClock \div Ms + 0 * Sec < MaxUl
    BY WindowAssumption
  <2>2. QED
    BY <2>1, Division, WindowAssumption DEF ClockInv
<1>1. N \in Nat \ {0}
  BY <1>0
<1>2. Elapsed(since) = e % MaxUl
  BY DEF Elapsed, Timespec
<1>3. Ms * (Sec * (ns - ts)) = N * (ns - ts) /\ ns \in Int /\ ts \in Int
  BY <1>0, <1>1, Division
<1> HIDE DEF N
<1>4. /\ ns \in Int /\ nn \in Int /\ ts \in Int /\ tn \in Int
      /\ clock = N * ns + nn /\ 0 <= nn /\ nn < N
      /\ since = N * ts + tn /\ 0 <= tn /\ tn < N
  BY <1>0, <1>1, Division
<1>5. /\ d \in Int /\ t \in Int /\ Ms * t - d < Ms /\ d - Ms * t < Ms
      /\ Ms * t <= IF d >= 0 THEN d ELSE 0
  <2>1. d \in Int
    BY <1>4
  <2> HIDE DEF d
  <2>2. QED
    BY <2>1, Truncated
<1> DEFINE now == N * ns
           then == N * ts
<1>6. now \in Int /\ then \in Int /\ N * (ns - ts) = now - then
  <2> HIDE DEF ns, ts
  <2>1. QED
    BY <1>1, <1>4
<1>7. e \in Int /\ Ms * t \in Int /\ Ms * e = (now - then) + Ms * t
  <2> HIDE DEF ns, ts, t, now, then
  <2>1. (ns - ts) * Sec = Sec * (ns - ts) /\ Sec * (ns - ts) \in Int
    BY <1>0, <1>4
  <2>2. Ms * e = Ms * (Sec * (ns - ts)) + Ms * t
    BY <1>0, <1>5, <2>1
  <2>3. QED
    BY <1>0, <1>3, <1>5, <1>6, <2>1, <2>2
<1>8. clock = now + nn /\ since = then + tn /\ d = nn - tn
  BY <1>4
<1>9. then >= 0
  <2>1. ts >= 0
    <3> HIDE DEF ts, tn
    <3>1. N * (-1) < N * ts
      BY <1>1, <1>4
    <3>2. QED
      BY <1>1, <1>4, <3>1, Cancel
  <2>2. QED
    BY <1>1, <1>4, <2>1
<1> HIDE DEF ns, nn, ts, tn, d, t, now, then
<1>10. clock - since = (now - then) + d
  BY <1>4, <1>6, <1>8
<1> HIDE DEF e
<1>11. Ms * e < clock - since + Ms /\ clock - since < Ms * e + Ms
  BY <1>0, <1>5, <1>6, <1>7, <1>10
<1>12. e >= 0
  <2>1. Ms * (-1) < Ms * e
    BY <1>0, <1>7, <1>11
  <2>2. QED
    BY <1>0, <1>7, <2>1, Cancel
<1>13. Ms * e <= clock
  BY <1>0, <1>4, <1>5, <1>6, <1>7, <1>8, <1>9
<1>14. e <= MaxClock \div Ms
  <2> DEFINE q == MaxClock \div Ms
  <2>1. q \in Int /\ MaxClock = Ms * q + (MaxClock % Ms) /\ (MaxClock % Ms) < Ms
        /\ (MaxClock % Ms) \in Int
    BY <1>0, Division
  <2>2. Ms * (q + 1) = Ms * q + Ms
    BY <1>0, <2>1
  <2> HIDE DEF q
  <2>3. Ms * e < Ms * (q + 1)
    BY <1>0, <1>7, <1>13, <2>1, <2>2
  <2>4. e < q + 1
    BY <1>0, <1>7, <2>1, <2>3, Cancel
  <2>5. QED
    BY <1>7, <2>1, <2>4 DEF q
<1>15. Elapsed(since) = e
  <2>1. e < MaxUl /\ e \in Nat
    BY <1>0, <1>7, <1>12, <1>14, Division
  <2>2. QED
    BY <1>0, <1>2, <2>1, Division2
<1>16. QED
  BY <1>7, <1>11, <1>12, <1>14, <1>15

\* notification_update compares with the timeout the client has asked for,
\* also when the conversion to unsigned has made a large one of it.
LEMMA TimeoutFacts ==
  ASSUME ClockInv, TimeoutInv
  PROVE  TimeIsUp <=> asked > 0 /\ Elapsed(start_time) >= asked * Sec
<1> DEFINE e == Elapsed(start_time)
           q == MaxClock \div Ms
           ms == asked * Sec
<1>0. /\ Ms \in Nat \ {0} /\ Sec \in Nat \ {0} /\ MaxUl \in Nat \ {0}
      /\ MaxClock \in Nat \ {0} /\ asked \in Int
      /\ q + ms < MaxUl /\ q - ms < MaxUl /\ timeout = asked % MaxUl
  BY WindowAssumption DEF TimeoutInv
<1>1. e \in Nat /\ e <= q /\ q \in Int
  BY <1>0, ElapsedFacts, Division DEF ClockInv
<1>2. TimeIsUp <=> timeout > 0 /\ e >= (timeout * Sec) % MaxUl
  BY DEF TimeIsUp
<1> HIDE DEF e, q
<1>3. CASE asked >= 0
  <2>1. ms \in Nat /\ asked <= ms
    BY <1>0, <1>3, Monotone
  <2>2. timeout = asked
    BY <1>0, <1>1, <1>3, <2>1, Division2
  <2>3. ms % MaxUl = ms
    <3> HIDE DEF ms
    <3> QED
      BY <1>0, <1>1, <2>1, Division2
  <2>4. QED
    BY <1>0, <1>1, <1>2, <1>3, <2>1, <2>2, <2>3 DEF e
<1>4. CASE asked < 0
  <2>1. ms \in Int /\ ms <= asked
    BY <1>0, <1>4, Monotone
  <2>2. timeout = asked + MaxUl
    <3> DEFINE k == -1
               r == asked + MaxUl
    <3>1. k \in Int /\ r \in Int /\ r < MaxUl /\ 0 <= r
      BY <1>0, <1>1, <1>4, <2>1
    <3>2. asked = MaxUl * k + r
      BY <1>0
    <3> HIDE DEF k, r
    <3>3. asked % MaxUl = r
      BY <1>0, <3>1, <3>2, Division2
    <3>4. QED
      BY <1>0, <3>3 DEF r
  <2>3. timeout * Sec = MaxUl * (Sec - 1) + (ms + MaxUl)
    BY <1>0, <2>2
  <2>4. (timeout * Sec) % MaxUl = ms + MaxUl
    <3> DEFINE k == Sec - 1
               r == ms + MaxUl
               a == timeout * Sec
    <3>1. k \in Int /\ r \in Int /\ r < MaxUl /\ 0 <= r
      BY <1>0, <1>1, <1>4, <2>1
    <3>2. a \in Int /\ a = MaxUl * k + r
      BY <1>0, <2>2, <2>3
    <3> HIDE DEF k, r, a
    <3>3. a % MaxUl = r
      BY <1>0, <3>1, <3>2, Division2
    <3>4. QED
      BY <3>3 DEF r, a
  <2>5. ~(e >= ms + MaxUl)
    BY <1>0, <1>1, <2>1
  <2>6. QED
    BY <1>0, <1>2, <1>4, <2>4, <2>5
<1>5. QED
  BY <1>0, <1>3, <1>4

-----------------------------------------------------------------------------
\* clock_gettime never goes back, and what is asked for is what is stored.
LEMMA WindowInvInit == WindowInit => WindowInv
<1> SUFFICES ASSUME WindowInit PROVE WindowInv
  OBVIOUS
<1>0. /\ Ms \in Nat \ {0} /\ Sec \in Nat \ {0} /\ MaxUl \in Nat \ {0}
      /\ Period \in Nat \ {0} /\ MaxClock \in Nat \ {0}
      /\ (Period + Sec) * Ms <= MaxClock
  BY WindowAssumption
<1>1. ClockInv
  <2>1. Period * Ms \in Nat /\ (Period + Sec) * Ms \in Nat
    BY <1>0
  <2>2. clock \in Nat /\ clock <= (Period + Sec) * Ms
    BY <2>1 DEF WindowInit
  <2>3. QED
    BY <1>0, <2>1, <2>2 DEF WindowInit, ClockInv
<1>2. TimeoutInv
  BY <1>0 DEF WindowInit, TimeoutInv
<1>3. QED
  BY <1>1, <1>2 DEF WindowInit, WindowInv, FrameInv

\* A step of the animation goes to the frame after the one that is drawn.
LEMMA DrawKeeps ==
  ASSUME FrameInv, shown' = frame, frame' = frame \/ StepFrame, UNCHANGED frame_count
  PROVE  FrameInv'
<1>1. frame' \in {frame, (frame % frame_count) + 1}
  BY DEF StepFrame
<1>2. (frame % frame_count) + 1 \in Nat \ {0}
  BY Division DEF FrameInv
<1>3. QED
  BY <1>1, <1>2 DEF FrameInv

LEMMA WindowInvNext == WindowInv /\ [WindowNext]_window => WindowInv'
<1> SUFFICES ASSUME WindowInv, [WindowNext]_window PROVE WindowInv'
  OBVIOUS
<1> USE DEF timing, picture
<1>1. ClockInv'
  <2>1. UNCHANGED clock \/ (clock < MaxClock /\ clock' = clock + 1)
    BY DEF WindowNext, Tick, Click, Notify, Open, Modify, ModifyParked, Redraw, Update,
           EndByClick, EndByTime, Animate, Stay, window
  <2>2. start_time' \in {start_time, clock}
    BY DEF WindowNext, Tick, Click, Notify, Open, Modify, ModifyParked, Redraw, Update,
           EndByClick, EndByTime, Animate, Stay, Ends, RestartTimeout, window
  <2>6. begun' = start_time'
    BY DEF WindowInv, ClockInv, WindowNext, Tick, Click, Notify, Open, Modify,
           ModifyParked, Redraw, Update, EndByClick, EndByTime, Animate, Stay, Ends,
           Begin, RestartTimeout, window
  <2>3. last_time' \in {last_time, clock}
    BY DEF WindowNext, Tick, Click, Notify, Open, Modify, ModifyParked, Redraw, Update,
           EndByClick, EndByTime, Animate, Stay, Ends, Draw, StepFrame, window
  <2>4. MaxClock \in Nat
    BY WindowAssumption DEF WindowInv
  <2>5. QED
    BY <2>1, <2>2, <2>3, <2>4, <2>6 DEF WindowInv, ClockInv
<1>2. TimeoutInv'
  <2>1. \/ UNCHANGED <<timeout, asked>>
        \/ \E t \in Timeouts : SetTimeout(t)
    BY DEF WindowNext, Tick, Click, Notify, Open, Modify, ModifyParked, Redraw, Update,
           EndByClick, EndByTime, Animate, Stay, Ends, RestartTimeout, window
  <2>2. QED
    BY <2>1 DEF WindowInv, TimeoutInv, SetTimeout
<1>3. FrameInv'
  <2>1. \/ UNCHANGED <<shown, frame, frame_count>>
        \/ \E c \in Counts : SetIndicator(c)
        \/ shown' = frame /\ (frame' = frame \/ StepFrame) /\ UNCHANGED frame_count
    BY DEF WindowNext, Tick, Click, Notify, Open, Modify, ModifyParked, Redraw, Update,
           EndByClick, EndByTime, Animate, Stay, Ends, Draw, KeepIndicator, window
  <2>2. ASSUME NEW c \in Counts, SetIndicator(c) PROVE FrameInv'
    BY <2>2, WindowAssumption DEF WindowInv, SetIndicator, FrameInv
  <2>3. CASE UNCHANGED <<shown, frame, frame_count>>
    BY <2>3 DEF WindowInv, FrameInv
  <2>4. QED
    BY <2>1, <2>2, <2>3, DrawKeeps DEF WindowInv
<1>4. QED
  BY <1>1, <1>2, <1>3 DEF WindowInv

\* Every step keeps the invariant, however long the machine runs.
THEOREM WindowInductive == WindowSpec => []WindowInv
BY WindowInvInit, WindowInvNext, PTL DEF WindowSpec

\* notification_open, command.c, notification_update: a notification ends by
\* itself when its timeout has gone by since it was opened, reopened or given
\* the timeout, to the millisecond, and one without a timeout never does.
THEOREM TimeoutKept == WindowSpec => []EndsOnTime
<1>1. WindowInv => EndsOnTime
  <2> SUFFICES ASSUME WindowInv
               PROVE  /\ TimeIsUp => asked > 0 /\ NearlyPassed(start_time, asked * Sec)
                      /\ asked > 0 /\ Passed(start_time, asked * Sec) => TimeIsUp
    BY DEF EndsOnTime, WindowInv, ClockInv
  <2> DEFINE e == Elapsed(start_time)
             ms == asked * Sec
  <2>1. TimeIsUp <=> asked > 0 /\ e >= ms
    BY TimeoutFacts DEF WindowInv
  <2>2. /\ e \in Nat /\ Ms * e < clock - start_time + Ms
        /\ clock - start_time < Ms * e + Ms
    BY ElapsedFacts DEF WindowInv, ClockInv
  <2>3. Ms \in Nat \ {0} /\ ms \in Int /\ clock \in Int /\ start_time \in Int
    BY WindowAssumption DEF WindowInv, ClockInv, TimeoutInv
  <2> HIDE DEF e, ms
  <2>4. (ms - 1) * Ms = Ms * ms - Ms /\ ms * Ms = Ms * ms /\ Ms * ms \in Int
    BY <2>3
  <2>5. ASSUME e >= ms PROVE NearlyPassed(start_time, ms)
    BY <2>2, <2>3, <2>4, <2>5, Monotone DEF NearlyPassed
  <2>6. ASSUME Passed(start_time, ms) PROVE e >= ms
    <3>1. Ms * ms < Ms * (e + 1)
      BY <2>2, <2>3, <2>4, <2>6 DEF Passed
    <3>2. ms < e + 1
      BY <2>2, <2>3, <3>1, Cancel
    <3>3. QED
      BY <2>2, <2>3, <3>2
  <2>7. QED
    BY <2>1, <2>5, <2>6 DEF ms
<1>2. QED
  BY <1>1, WindowInductive, PTL

\* The frame is due when its period is over, to the millisecond.
LEMMA DueFacts ==
  ASSUME WindowInv
  PROVE  /\ Due => NearlyPassed(last_time, Period) /\ clock # last_time
         /\ Passed(last_time, Period) => Due
<1> DEFINE e == Elapsed(last_time)
<1>1. /\ e \in Nat /\ Ms * e < clock - last_time + Ms
      /\ clock - last_time < Ms * e + Ms
  BY ElapsedFacts DEF WindowInv, ClockInv
<1>2. /\ Ms \in Nat \ {0} /\ Period \in Nat \ {0}
      /\ clock \in Int /\ last_time \in Int
  BY WindowAssumption DEF WindowInv, ClockInv
<1>3. Due <=> e >= Period
  BY DEF Due
<1> HIDE DEF e
<1>4. (Period - 1) * Ms = Ms * Period - Ms /\ Period * Ms = Ms * Period
      /\ Ms * Period \in Int /\ Ms * 1 <= Ms * Period
  BY <1>2, Monotone
<1>5. ASSUME e >= Period PROVE NearlyPassed(last_time, Period) /\ clock # last_time
  <2>1. Ms * Period <= Ms * e
    BY <1>1, <1>2, <1>5, Monotone
  <2>2. QED
    BY <1>1, <1>2, <1>4, <2>1 DEF NearlyPassed
<1>6. ASSUME Passed(last_time, Period) PROVE e >= Period
  <2>1. Ms * Period < Ms * (e + 1)
    BY <1>1, <1>2, <1>4, <1>6 DEF Passed
  <2>2. Period < e + 1
    BY <1>1, <1>2, <2>1, Cancel
  <2>3. QED
    BY <1>1, <1>2, <2>2
<1>7. QED
  BY <1>3, <1>5, <1>6

\* notification_draw and notification_update: the animation keeps time,
\* whatever is redrawn.
THEOREM AnimationInTime == WindowSpec => StepsOnTime
<1> DEFINE InTime ==
      /\ last_time' # last_time => NearlyPassed(last_time, Period)
      /\ life # "UPDATE" /\ life' = "UPDATE" /\ last_time' = last_time
           => ~Passed(last_time, Period)
<1>1. ASSUME WindowInv, WindowNext PROVE InTime
  <2> USE DEF timing, picture
  <2>1. last_time' # last_time => Due
    BY <1>1 DEF WindowNext, Tick, Click, Notify, Open, Modify, ModifyParked, Redraw, Update,
                EndByClick, EndByTime, Animate, Stay, Ends, Draw, window
  <2>2. ASSUME life # "UPDATE", life' = "UPDATE", last_time' = last_time PROVE ~Due
    <3>1. Draw
      BY <1>1, <2>2
         DEF WindowNext, Tick, Click, Notify, Open, Modify, ModifyParked, Redraw, Update,
             EndByClick, EndByTime, Animate, Stay, Ends, window
    <3>2. QED
      BY <1>1, <2>2, <3>1, DueFacts DEF Draw, StepFrame
  <2>3. QED
    BY <1>1, <2>1, <2>2, DueFacts
<1>2. QED
  BY <1>1, WindowInductive, PTL DEF WindowSpec, StepsOnTime

\* notification_draw and notification_update: no frame is skipped.
THEOREM EveryFrameShown == WindowSpec => FramesInTurn
<1> DEFINE NextFrameShown == shown' \notin {0, shown} =>
                       shown' = IF shown = 0 THEN 1 ELSE (shown % frame_count) + 1
<1>1. ASSUME WindowInv, WindowNext PROVE NextFrameShown
  <2> USE DEF timing, picture
  <2>1. shown' \in {0, shown, frame}
    BY <1>1 DEF WindowNext, Tick, Click, Notify, Open, Modify, ModifyParked, Redraw, Update,
                EndByClick, EndByTime, Animate, Stay, Ends, Draw, KeepIndicator,
                SetIndicator, window
  <2>2. QED
    BY <1>1, <2>1 DEF WindowInv, FrameInv
<1>2. QED
  BY <1>1, WindowInductive, PTL DEF WindowSpec, FramesInTurn

-----------------------------------------------------------------------------
(***************************************************************************)
(* Theorems about Stacking, for any number of notifications, contents of   *)
(* any size, every origin and every setting of the configuration: the      *)
(* windows are stacked, although a pass moves only those it has to.        *)
(***************************************************************************)

Geometry == [x : Int, y : Int, w : Int, h : Int]

-----------------------------------------------------------------------------
\* The parts of the inductive invariant.  The X server has each window where
\* the notification's fields say it is.
StackingTypeOK ==
  /\ origin \in Origins
  /\ open \in Seq(Node) /\ IsInjective(open)
  /\ wait \in SUBSET Node
  /\ state \in [Node -> {"none", "INIT", "REOPEN", "REDRAW", "UPDATE"}]
  /\ content \in [Node -> Contents]
  /\ win \in [Node -> Geometry] /\ screen = win
  /\ mapped \in SUBSET Node
  /\ pos \in 0..Len(open) + 1
  /\ needs_reposition \in BOOLEAN

\* Where a notification is, and what its state says of its window.
PlaceInv ==
  /\ wait \cap ToSet(open) = {} /\ mapped \subseteq ToSet(open)
  /\ \A n \in wait : state[n] # "none"
  /\ \A i \in DOMAIN open :
       /\ state[open[i]] # "none"
       /\ state[open[i]] \in {"INIT", "REOPEN"} => open[i] \notin mapped
       /\ state[open[i]] = "UPDATE" => open[i] \in mapped
       /\ i < pos => state[open[i]] = "UPDATE"

\* The notifications without a window are the last of the list.
MappedFirst ==
  \A i, j \in DOMAIN open : i < j /\ open[j] \in mapped => open[i] \in mapped

\* The windows the pass is through with are in their places, and so are those
\* it has still to visit unless it will move them.
Seated ==
  \A i \in DOMAIN open :
    i < pos \/ (open[i] \in mapped /\ (pos = 0 \/ ~needs_reposition))
      => InTurn(i) /\ Aligned(i)

Fitting == \A i \in DOMAIN open : Fits(i)

StackingInv ==
  /\ StackingTypeOK
  /\ PlaceInv
  /\ MappedFirst
  /\ Seated
  /\ Fitting

-----------------------------------------------------------------------------
\* The settings are numbers.
LEMMA Settings ==
  /\ ScreenWidth \in Int /\ ScreenHeight \in Int /\ bw \in Int /\ gap_size \in Int
  /\ x_offset \in Int /\ y_offset \in Int /\ x_padding \in Int /\ y_padding \in Int
BY StackingAssumption DEF bw

\* utils_calculate_notification_layout: the size depends on the content only.
LEMMA LaidOut ==
  ASSUME NEW g \in Geometry, NEW c \in Contents
  PROVE  /\ Layout(g, c) \in Geometry
         /\ Layout(g, c).w = Layout(Nowhere, c).w
         /\ Layout(g, c).h = Layout(Nowhere, c).h
<1> DEFINE hi == Max({c.txt_height, c.ind_height}) + y_padding * 2
           wi == x_padding * 2 + c.width
<1>1. c.txt_height \in Nat /\ c.ind_height \in Nat /\ c.width \in Nat
  BY StackingAssumption
<1>2. hi \in Int /\ wi \in Int
  BY <1>1, MaxOfTwo, Settings
<1>3. Nowhere \in Geometry
  BY DEF Nowhere, Geometry
<1>4. ASSUME NEW k \in Geometry
      PROVE  Layout(k, c) \in Geometry /\ Layout(k, c).h = hi /\ Layout(k, c).w = wi
  <2> DEFINE r == Layout(k, c)
  <2>1. r = [k EXCEPT !.h = hi, !.w = wi]
    BY DEF Layout
  <2> HIDE DEF r, hi, wi
  <2>2. r \in Geometry /\ r.h = hi /\ r.w = wi
    BY <1>2, <2>1 DEF Geometry
  <2>3. QED
    BY <2>2 DEF r
<1> HIDE DEF hi, wi
<1>5. QED
  BY <1>3, <1>4

\* Bottom up, a window ends where the one below it begins, less the gap.
LEMMA Upwards ==
  ASSUME NEW e \in Int, NEW y \in Int, NEW h \in Int, NEW k \in Int,
         NEW b \in Int, NEW gap \in Int
  PROVE  e - (y - gap - k - b + k + b) = e - (y + h + b) + h + b + gap
OBVIOUS

\* How far from the edge a window with geometry g begins, and ends.
NearOf(g) == IF Top THEN g.y ELSE ScreenHeight - (g.y + g.h + bw)
SideOf(g) == IF Right THEN ScreenWidth - (g.x + g.w + bw) ELSE g.x

\* utils_reposition_notification: the window comes next to the one before,
\* and keeps its size.
LEMMA Repositioned ==
  ASSUME NEW g \in Geometry, NEW p,
         p = <<>> \/ \E q \in Geometry : p = <<q>>
  PROVE  LET r == Reposition(p, g) IN
         /\ r \in Geometry /\ r.w = g.w /\ r.h = g.h
         /\ SideOf(r) = x_offset
         /\ NearOf(r) = IF p = <<>> THEN y_offset
                        ELSE NearOf(p[1]) + p[1].h + bw + gap_size
<1> DEFINE py == p[1].y
           ph == p[1].h
           a == IF Right THEN ScreenWidth - g.w - bw - x_offset ELSE x_offset
           b == IF Top
                THEN IF p = <<>> THEN y_offset ELSE py + ph + bw + gap_size
                ELSE IF p = <<>> THEN ScreenHeight - g.h - bw - y_offset
                     ELSE py - gap_size - g.h - bw
           r == Reposition(p, g)
<1>1. g.w \in Int /\ g.h \in Int
  BY DEF Geometry
<1>2. p # <<>> => py \in Int /\ ph \in Int /\ Head(p) = p[1]
  <2>1. ASSUME NEW q \in Geometry, p = <<q>> PROVE py \in Int /\ ph \in Int /\ Head(p) = p[1]
    <3>1. p[1] = q /\ Head(p) = q /\ q.y \in Int /\ q.h \in Int
      BY <2>1 DEF Geometry
    <3>2. QED
      BY <3>1
  <2>2. QED
    BY <2>1
<1>3. r = [g EXCEPT !.x = a, !.y = b]
  BY <1>2 DEF Reposition
<1> HIDE DEF py, ph, r
<1>4. a \in Int /\ b \in Int
  <2>1. a \in Int
    BY <1>1, Settings
  <2>2. CASE p = <<>>
    BY <1>1, <2>1, <2>2, Settings
  <2>3. CASE p # <<>>
    BY <1>1, <1>2, <2>1, <2>3, Settings
  <2>4. QED
    BY <2>2, <2>3
<1>5. r \in Geometry /\ r.x = a /\ r.y = b /\ r.w = g.w /\ r.h = g.h
  <2> HIDE DEF a, b
  <2> QED
    BY <1>3, <1>4 DEF Geometry
<1>6. SideOf(r) = x_offset
  BY <1>1, <1>5, Settings DEF SideOf
<1>7. CASE p = <<>>
  <2>1. NearOf(r) = y_offset
    BY <1>1, <1>5, <1>7, Settings DEF NearOf
  <2>2. QED
    BY <1>5, <1>6, <1>7, <2>1 DEF r
<1>8. CASE p # <<>>
  <2>1. NearOf(p[1]) = IF Top THEN py ELSE ScreenHeight - (py + ph + bw)
    BY DEF NearOf, py, ph
  <2>2. NearOf(r) = NearOf(p[1]) + ph + bw + gap_size
    <3>1. CASE Top
      BY <1>1, <1>2, <1>5, <1>8, <2>1, <3>1, Settings DEF NearOf
    <3>2. CASE ~Top
      <4>1. b = py - gap_size - g.h - bw
        BY <1>8, <3>2
      <4>2. NearOf(r) = ScreenHeight - (b + g.h + bw)
        BY <1>5, <3>2 DEF NearOf
      <4>3. py \in Int /\ ph \in Int
        BY <1>2, <1>8
      <4>4. NearOf(p[1]) = ScreenHeight - (py + ph + bw)
        BY <2>1, <3>2
      <4>5. ScreenHeight - (py - gap_size - g.h - bw + g.h + bw)
              = ScreenHeight - (py + ph + bw) + ph + bw + gap_size
        BY <1>1, <4>3, Settings, Upwards
      <4> HIDE DEF b
      <4>6. QED
        BY <4>1, <4>2, <4>4, <4>5
    <3>3. QED
      BY <3>1, <3>2
  <2>3. QED
    BY <1>5, <1>6, <1>8, <2>2 DEF r, ph
<1>9. QED
  BY <1>7, <1>8

-----------------------------------------------------------------------------
\* What the invariant says of positions, in the form the steps need.
LEMMA Positions ==
  ASSUME StackingInv
  PROVE  /\ Len(open) \in Nat /\ DOMAIN open = 1..Len(open)
         /\ \A i \in 1..Len(open) : open[i] \in Node /\ open[i] \in ToSet(open)
         /\ \A i, j \in 1..Len(open) : open[i] = open[j] => i = j
         /\ pos \in 0..Len(open) + 1
         /\ win \in [Node -> Geometry] /\ screen = win
         /\ state \in [Node -> {"none", "INIT", "REOPEN", "REDRAW", "UPDATE"}]
         /\ content \in [Node -> Contents]
BY LenProperties, ToSetType, ElementOfSeq DEF StackingInv, StackingTypeOK, IsInjective

\* A window is where it was in relation to the one before it.
LEMMA Kept ==
  ASSUME NEW i, open'[i] = open[i], screen'[open[i]] = screen[open[i]],
         i # 1 => /\ open'[i - 1] = open[i - 1]
                  /\ screen'[open[i - 1]] = screen[open[i - 1]],
         UNCHANGED origin
  PROVE  InTurn(i)' <=> InTurn(i)
<1>1. Near(open[i])' = Near(open[i])
  BY DEF Near, Top, bw
<1>2. i # 1 => Far(open[i - 1])' = Far(open[i - 1])
  BY DEF Near, Far, Top, bw
<1>3. QED
  BY <1>1, <1>2 DEF InTurn

LEMMA KeptSide ==
  ASSUME NEW i, open'[i] = open[i], screen'[open[i]] = screen[open[i]], UNCHANGED origin
  PROVE  Aligned(i)' <=> Aligned(i)
BY DEF Aligned, Side, Right, bw

\* The notification the pass is at, moved to where the one before it ends.
LEMMA MovedFields ==
  ASSUME StackingInv, pos \in 1..Len(open), NEW g \in Geometry,
         win' = [win EXCEPT ![curr] = Reposition(prev, g)]
  PROVE  /\ win' \in [Node -> Geometry]
         /\ win'[curr].w = g.w /\ win'[curr].h = g.h
         /\ SideOf(win'[curr]) = x_offset
         /\ NearOf(win'[curr]) = IF prev = <<>> THEN y_offset
                                 ELSE NearOf(prev[1]) + prev[1].h + bw + gap_size
         /\ \A i \in 1..Len(open) : i # pos => win'[open[i]] = win[open[i]]
<1> DEFINE r == Reposition(prev, g)
<1>1. curr \in Node /\ curr = open[pos] /\ \A i \in 1..Len(open) : i # pos => open[i] # curr
  BY Positions DEF curr
<1>2. pos # 1 => pos - 1 \in 1..Len(open) /\ open[pos - 1] \in Node
                 /\ win[open[pos - 1]] \in Geometry /\ open[pos - 1] # curr
  BY <1>1, Positions
<1>3. prev = <<>> \/ \E q \in Geometry : prev = <<q>>
  BY <1>2 DEF prev
<1>4. /\ r \in Geometry /\ r.w = g.w /\ r.h = g.h
      /\ SideOf(r) = x_offset
      /\ NearOf(r) = IF prev = <<>> THEN y_offset
                     ELSE NearOf(prev[1]) + prev[1].h + bw + gap_size
  BY <1>3, Repositioned DEF StackingInv
<1> HIDE DEF r
<1>5. win' = [win EXCEPT ![curr] = r]
  BY DEF r
<1>6. win' \in [Node -> Geometry] /\ win'[curr] = r
      /\ \A n \in Node \ {curr} : win'[n] = win[n]
  BY <1>1, <1>4, <1>5, Positions
<1>7. QED
  BY <1>1, <1>4, <1>6, Positions

LEMMA MovedCurrent ==
  ASSUME StackingInv, pos \in 1..Len(open), NEW g \in Geometry,
         win' = [win EXCEPT ![curr] = Reposition(prev, g)], screen' = win',
         UNCHANGED <<origin, open>>
  PROVE  \A i \in 1..Len(open) : i = pos => InTurn(i)' /\ Aligned(i)'
<1> DEFINE r == win'[curr]
<1>0. SUFFICES ASSUME NEW i \in 1..Len(open), i = pos
               PROVE  InTurn(i)' /\ Aligned(i)'
  OBVIOUS
<1>1. /\ SideOf(r) = x_offset
      /\ NearOf(r) = IF prev = <<>> THEN y_offset
                     ELSE NearOf(prev[1]) + prev[1].h + bw + gap_size
      /\ \A j \in 1..Len(open) : j # pos => win'[open[j]] = win[open[j]]
  BY MovedFields
<1>2. screen'[open[i]] = r
  BY <1>0 DEF curr
<1> HIDE DEF r
<1>3. Aligned(i)'
  BY <1>1, <1>2 DEF Aligned, Side, SideOf, Right, bw
<1>4. Near(open[i])' = NearOf(r)
  BY <1>2 DEF Near, NearOf, Top, bw
<1>5. CASE i = 1
  <2>1. NearOf(r) = y_offset
    BY <1>0, <1>1, <1>5 DEF prev
  <2>2. QED
    BY <1>3, <1>4, <1>5, <2>1 DEF InTurn
<1>6. CASE i # 1
  <2> DEFINE q == win[open[i - 1]]
  <2>1. prev # <<>> /\ prev[1] = q
    BY <1>0, <1>6 DEF prev
  <2>2. screen'[open[i - 1]] = q
    BY <1>0, <1>1, <1>6
  <2>3. Far(open[i - 1])' = NearOf(q) + q.h + bw
    BY <2>2 DEF Far, Near, NearOf, Top, bw
  <2>4. NearOf(r) = NearOf(q) + q.h + bw + gap_size
    BY <1>1, <2>1
  <2> HIDE DEF q
  <2>5. QED
    BY <1>3, <1>4, <1>6, <2>3, <2>4 DEF InTurn
<1>7. QED
  BY <1>5, <1>6

-----------------------------------------------------------------------------
\* Requests: what has no window yet comes last in the list.
LEMMA AppendStep ==
  ASSUME StackingInv, NEW n \in Node, pos = 0, n \notin ToSet(open),
         open' = Append(open, n),
         state' \in [Node -> {"none", "INIT", "REOPEN", "REDRAW", "UPDATE"}],
         state'[n] \in {"INIT", "REOPEN"}, \A m \in Node \ {n} : state'[m] = state[m],
         NEW c \in Contents, content' = [content EXCEPT ![n] = c],
         wait' \in {wait, wait \ {n}}, n \notin wait',
         UNCHANGED <<origin, win, screen, mapped, pos, needs_reposition>>
  PROVE  StackingInv'
<1>1. /\ Len(open) \in Nat /\ DOMAIN open = 1..Len(open) /\ open \in Seq(Node)
      /\ \A i \in 1..Len(open) : open[i] \in Node /\ open[i] # n
  BY Positions DEF StackingInv, StackingTypeOK
<1>2. /\ open' \in Seq(Node) /\ IsInjective(open') /\ ToSet(open') = ToSet(open) \cup {n}
      /\ Len(open') = Len(open) + 1 /\ DOMAIN open' = 1..Len(open) + 1
      /\ \A i \in 1..Len(open) : open'[i] = open[i]
      /\ open'[Len(open) + 1] = n
  BY AppendFacts, AppendProperties, LenProperties DEF StackingInv, StackingTypeOK
<1>3. n \notin mapped
  BY DEF StackingInv, PlaceInv
<1>4. StackingTypeOK'
  BY <1>1, <1>2 DEF StackingInv, StackingTypeOK
<1>5. PlaceInv'
  <2>1. \A i \in 1..Len(open) : state'[open[i]] = state[open[i]]
    BY <1>1
  <2>2. \A m \in wait' : m # n /\ m \in wait /\ m \in Node
    BY DEF StackingInv, StackingTypeOK
  <2>3. /\ wait' \cap ToSet(open') = {} /\ mapped' \subseteq ToSet(open')
        /\ \A m \in wait' : state'[m] # "none"
    BY <1>2, <2>2 DEF StackingInv, PlaceInv
  <2>4. ASSUME NEW i \in 1..Len(open) + 1
        PROVE  /\ state'[open'[i]] # "none"
               /\ state'[open'[i]] \in {"INIT", "REOPEN"} => open'[i] \notin mapped'
               /\ state'[open'[i]] = "UPDATE" => open'[i] \in mapped'
               /\ i < pos' => state'[open'[i]] = "UPDATE"
    <3>1. CASE i = Len(open) + 1
      BY <1>2, <1>3, <3>1
    <3>2. CASE i \in 1..Len(open)
      BY <1>1, <1>2, <2>1, <3>2 DEF StackingInv, PlaceInv
    <3>3. QED
      BY <1>1, <3>1, <3>2
  <2>5. QED
    BY <1>2, <2>3, <2>4 DEF PlaceInv
<1>6. MappedFirst'
  <2> SUFFICES ASSUME NEW i \in 1..Len(open) + 1, NEW j \in 1..Len(open) + 1,
                      i < j, open'[j] \in mapped
               PROVE  open'[i] \in mapped
    BY <1>2 DEF MappedFirst
  <2>1. j # Len(open) + 1
    BY <1>2, <1>3
  <2>2. j \in 1..Len(open) /\ i \in 1..Len(open)
    BY <1>1, <2>1
  <2>3. QED
    BY <1>1, <1>2, <2>2 DEF StackingInv, MappedFirst
<1>7. Seated'
  <2> SUFFICES ASSUME NEW i \in 1..Len(open) + 1, open'[i] \in mapped
               PROVE  InTurn(i)' /\ Aligned(i)'
    BY <1>2 DEF Seated
  <2>1. i \in 1..Len(open) /\ (i # 1 => i - 1 \in 1..Len(open))
    BY <1>1, <1>2, <1>3
  <2>2. InTurn(i) /\ Aligned(i)
    BY <1>1, <1>2, <2>1 DEF StackingInv, Seated
  <2>3. QED
    BY <1>2, <2>1, <2>2, Kept, KeptSide
<1>8. Fitting'
  <2> SUFFICES ASSUME NEW i \in 1..Len(open) + 1 PROVE Fits(i)'
    BY <1>2 DEF Fitting
  <2>1. CASE i = Len(open) + 1
    BY <1>2, <2>1 DEF Fits
  <2>2. CASE i \in 1..Len(open)
    <3>1. /\ open'[i] = open[i] /\ state'[open[i]] = state[open[i]]
          /\ content'[open[i]] = content[open[i]]
      BY <1>1, <1>2, <2>2, Positions
    <3>2. Fits(i)
      BY <1>1, <2>2 DEF StackingInv, Fitting
    <3>3. QED
      BY <3>1, <3>2 DEF Fits, Layout, Nowhere
  <2>3. QED
    BY <1>1, <2>1, <2>2
<1>9. QED
  BY <1>4, <1>5, <1>6, <1>7, <1>8 DEF StackingInv

\* MOD of a notification that has or has not its window: only a pass moves it.
LEMMA ModStep ==
  ASSUME StackingInv, NEW n \in Node, MODOpen(n)
  PROVE  StackingInv'
<1>1. PICK c \in Contents : content' = [content EXCEPT ![n] = c]
  BY DEF MODOpen
<1>2. /\ pos = 0 /\ pos' = 0 /\ state' = [state EXCEPT ![n] = "REDRAW"]
      /\ state[n] # "INIT" /\ n \in ToSet(open)
      /\ UNCHANGED <<origin, open, wait, win, screen, mapped, needs_reposition>>
  BY DEF MODOpen
<1>3. StackingTypeOK'
  BY <1>1, <1>2 DEF StackingInv, StackingTypeOK
<1>4. \A m \in Node : state'[m] = IF m = n THEN "REDRAW" ELSE state[m]
  BY <1>2, Positions
<1>5. PlaceInv' /\ MappedFirst'
  BY <1>2, <1>4, Positions DEF StackingInv, PlaceInv, MappedFirst, StackingTypeOK
<1>6. Seated'
  BY <1>2, Kept, KeptSide DEF StackingInv, Seated
<1>7. Fitting'
  <2> SUFFICES ASSUME NEW i \in 1..Len(open) PROVE Fits(i)'
    BY <1>2, Positions DEF Fitting
  <2>1. CASE open[i] = n
    BY <1>2, <1>4, <2>1, Positions DEF Fits
  <2>2. CASE open[i] # n
    <3>1. content'[open[i]] = content[open[i]] /\ state'[open[i]] = state[open[i]]
      BY <1>1, <1>4, <2>2, Positions
    <3>2. Fits(i)
      BY Positions DEF StackingInv, Fitting
    <3>3. QED
      BY <1>2, <3>1, <3>2 DEF Fits, Layout, Nowhere
  <2>3. QED
    BY <2>1, <2>2
<1>8. QED
  BY <1>3, <1>5, <1>6, <1>7 DEF StackingInv

-----------------------------------------------------------------------------
\* The pass begins and ends: at its end all windows are in their places.
LEMMA TurnStep ==
  ASSUME StackingInv, StartPass \/ EndPass
  PROVE  StackingInv'
<1>1. /\ UNCHANGED <<origin, open, wait, state, content, win, screen, mapped>>
      /\ \/ pos = 0 /\ pos' = 1 /\ needs_reposition' = FALSE
         \/ pos > Len(open) /\ pos' = 0 /\ needs_reposition' = needs_reposition
  BY DEF StartPass, EndPass
<1>2. StackingTypeOK'
  <2>1. pos' \in 0..Len(open) + 1
    BY <1>1, Positions
  <2>2. needs_reposition' \in BOOLEAN
    BY <1>1 DEF StackingInv, StackingTypeOK
  <2>3. QED
    BY <1>1, <2>1, <2>2 DEF StackingInv, StackingTypeOK
<1>3. PlaceInv' /\ MappedFirst' /\ Fitting'
  <2>1. PlaceInv' /\ MappedFirst'
    BY <1>1, Positions DEF StackingInv, PlaceInv, MappedFirst
  <2>2. Fitting'
    BY <1>1 DEF StackingInv, Fitting, Fits, Layout, Nowhere
  <2>3. QED
    BY <2>1, <2>2
<1>4. Seated'
  <2> SUFFICES ASSUME NEW i \in 1..Len(open),
                      i < pos' \/ open[i] \in mapped
               PROVE  InTurn(i) /\ Aligned(i)
    BY <1>1, Positions, Kept, KeptSide DEF Seated
  <2>1. i < pos \/ (pos = 0 /\ open[i] \in mapped)
    BY <1>1, Positions
  <2>2. QED
    BY <2>1, Positions DEF StackingInv, Seated
<1>5. QED
  BY <1>1, <1>2, <1>3, <1>4 DEF StackingInv

\* The notification the pass is at, put in its place.  Those still to come
\* have no window yet, or the pass moves them too.
LEMMA PlacedStep ==
  ASSUME StackingInv, pos \in 1..Len(open), NEW g \in Geometry,
         win' = [win EXCEPT ![curr] = Reposition(prev, g)], screen' = win',
         g.w = Layout(Nowhere, content[curr]).w, g.h = Layout(Nowhere, content[curr]).h,
         state' = [state EXCEPT ![curr] = "UPDATE"], mapped' = mapped \cup {curr},
         pos' = pos + 1, UNCHANGED <<origin, open, wait, content>>,
         needs_reposition' \in BOOLEAN,
         needs_reposition' \/ curr \notin mapped
  PROVE  StackingInv'
<1>1. /\ Len(open) \in Nat /\ DOMAIN open = 1..Len(open) /\ pos \in 1..Len(open)
      /\ curr = open[pos] /\ curr \in Node /\ curr \in ToSet(open)
      /\ \A i \in 1..Len(open) : open[i] \in Node /\ (i # pos => open[i] # curr)
  BY Positions DEF curr
<1>2. /\ win' \in [Node -> Geometry]
      /\ win'[curr].w = g.w /\ win'[curr].h = g.h
      /\ \A i \in 1..Len(open) : i # pos => win'[open[i]] = win[open[i]]
      /\ \A i \in 1..Len(open) : i = pos => InTurn(i)' /\ Aligned(i)'
  BY MovedFields, MovedCurrent
<1>3. \A n \in Node : state'[n] = IF n = curr THEN "UPDATE" ELSE state[n]
  BY <1>1, Positions
<1>4. StackingTypeOK'
  <2>1. state' \in [Node -> {"none", "INIT", "REOPEN", "REDRAW", "UPDATE"}]
    BY <1>1, Positions
  <2>2. pos' \in 0..Len(open) + 1 /\ mapped' \in SUBSET Node
    BY <1>1 DEF StackingInv, StackingTypeOK
  <2>3. QED
    BY <1>2, <2>1, <2>2 DEF StackingInv, StackingTypeOK
<1>5. PlaceInv'
  <2>1. /\ wait \cap ToSet(open) = {} /\ mapped' \subseteq ToSet(open)
        /\ \A n \in wait : state'[n] # "none"
    BY <1>1, <1>3 DEF StackingInv, PlaceInv, StackingTypeOK
  <2>2. ASSUME NEW i \in 1..Len(open)
        PROVE  /\ state'[open[i]] # "none"
               /\ state'[open[i]] \in {"INIT", "REOPEN"} => open[i] \notin mapped'
               /\ state'[open[i]] = "UPDATE" => open[i] \in mapped'
               /\ i < pos' => state'[open[i]] = "UPDATE"
    <3>1. CASE i = pos
      BY <1>1, <1>3, <3>1
    <3>2. CASE i # pos
      BY <1>1, <1>3, <3>2 DEF StackingInv, PlaceInv
    <3>3. QED
      BY <3>1, <3>2
  <2>3. QED
    BY <1>1, <2>1, <2>2 DEF PlaceInv
<1>6. \A i \in 1..Len(open) : i < pos => open[i] \in mapped
  BY <1>1 DEF StackingInv, PlaceInv
<1>7. MappedFirst'
  <2> SUFFICES ASSUME NEW i \in 1..Len(open), NEW j \in 1..Len(open), i < j,
                      open[j] \in mapped'
               PROVE  open[i] \in mapped'
    BY <1>1 DEF MappedFirst
  <2>1. CASE j = pos
    BY <1>1, <1>6, <2>1
  <2>2. CASE j # pos
    BY <1>1, <2>2 DEF StackingInv, MappedFirst
  <2>3. QED
    BY <2>1, <2>2
<1>8. Seated'
  <2> SUFFICES ASSUME NEW i \in 1..Len(open),
                      i < pos' \/ (open[i] \in mapped' /\ ~needs_reposition')
               PROVE  InTurn(i)' /\ Aligned(i)'
    BY <1>1 DEF Seated
  <2>1. CASE i = pos
    BY <1>2, <2>1
  <2>2. CASE i < pos
    <3>1. InTurn(i) /\ Aligned(i) /\ (i # 1 => i - 1 \in 1..Len(open)) /\ i - 1 # pos
      BY <1>1, <2>2 DEF StackingInv, Seated
    <3>2. screen'[open[i]] = screen[open[i]]
          /\ (i # 1 => screen'[open[i - 1]] = screen[open[i - 1]])
      BY <1>1, <1>2, <2>2, <3>1, Positions
    <3>3. QED
      BY <3>1, <3>2, Kept, KeptSide
  <2>3. CASE i > pos
    <3>1. open[i] \in mapped' /\ ~needs_reposition'
      BY <1>1, <2>3
    <3>2. open[i] \in mapped /\ curr \notin mapped
      BY <1>1, <2>3, <3>1
    <3>3. QED
      BY <1>1, <2>3, <3>2 DEF StackingInv, MappedFirst
  <2>4. QED
    BY <1>1, <2>1, <2>2, <2>3
<1>9. Fitting'
  <2> SUFFICES ASSUME NEW i \in 1..Len(open) PROVE Fits(i)'
    BY <1>1 DEF Fitting
  <2>1. CASE i = pos
    <3>1. /\ screen'[open[i]].w = Layout(Nowhere, content[open[i]]).w
          /\ screen'[open[i]].h = Layout(Nowhere, content[open[i]]).h
      BY <1>1, <1>2, <2>1
    <3>2. QED
      BY <3>1 DEF Fits, Layout, Nowhere
  <2>2. CASE i # pos
    <3>1. screen'[open[i]] = screen[open[i]] /\ state'[open[i]] = state[open[i]]
      BY <1>1, <1>2, <1>3, <2>2, Positions
    <3>2. Fits(i)
      BY <1>1 DEF StackingInv, Fitting
    <3>3. QED
      BY <3>1, <3>2 DEF Fits, Layout, Nowhere
  <2>3. QED
    BY <2>1, <2>2
<1>10. QED
  BY <1>4, <1>5, <1>7, <1>8, <1>9 DEF StackingInv

\* notification_move leaves the size: with the position, it makes the place.
LEMMA MovedIfNeeded ==
  ASSUME StackingInv, pos \in 1..Len(open), MoveIfNeeded
  PROVE  IF needs_reposition
         THEN win' = [win EXCEPT ![curr] = Reposition(prev, win[curr])] /\ screen' = win'
         ELSE UNCHANGED <<win, screen>>
<1>1. curr \in Node /\ win[curr] \in Geometry
  BY Positions DEF curr
<1>2. CASE needs_reposition
  <2> DEFINE g == Reposition(prev, win[curr])
  <2>1. /\ win' = [win EXCEPT ![curr] = g]
        /\ screen' = [screen EXCEPT ![curr].x = g.x, ![curr].y = g.y]
    BY <1>2 DEF MoveIfNeeded
  <2>2. /\ win' \in [Node -> Geometry]
        /\ win'[curr].w = win[curr].w /\ win'[curr].h = win[curr].h
    BY <1>1, <2>1, MovedFields
  <2> HIDE DEF g
  <2>3. win'[curr] = g /\ g \in Geometry /\ g.w = win[curr].w /\ g.h = win[curr].h
    BY <1>1, <2>1, <2>2, Positions
  <2>4. [win[curr] EXCEPT !.x = g.x, !.y = g.y] = g
    BY <1>1, <2>3 DEF Geometry
  <2>5. screen' = [screen EXCEPT ![curr] = [screen[curr] EXCEPT !.x = g.x, !.y = g.y]]
    BY <1>1, <2>1, Positions
  <2>6. screen' = win'
    BY <2>1, <2>4, <2>5, Positions
  <2>7. QED
    BY <1>2, <2>1, <2>6 DEF g
<1>3. CASE ~needs_reposition
  BY <1>3 DEF MoveIfNeeded
<1>4. QED
  BY <1>2, <1>3

LEMMA StaysStep ==
  ASSUME StackingInv, VisitStays
  PROVE  StackingInv'
<1>1. /\ pos \in 1..Len(open) /\ state[curr] = "UPDATE" /\ MoveIfNeeded /\ pos' = pos + 1
      /\ UNCHANGED <<origin, open, wait, state, content, mapped, needs_reposition>>
  BY DEF VisitStays, InPass
<1>2. curr = open[pos] /\ curr \in Node /\ curr \in mapped /\ Fits(pos)
  BY <1>1, Positions DEF curr, StackingInv, PlaceInv, Fitting
<1>3. CASE needs_reposition
  <2>1. win' = [win EXCEPT ![curr] = Reposition(prev, win[curr])] /\ screen' = win'
    BY <1>1, <1>3, MovedIfNeeded
  <2>2. /\ win[curr].w = Layout(Nowhere, content[curr]).w
        /\ win[curr].h = Layout(Nowhere, content[curr]).h
    BY <1>1, <1>2, Positions DEF Fits
  <2>3. state' = [state EXCEPT ![curr] = "UPDATE"] /\ mapped' = mapped \cup {curr}
    BY <1>1, <1>2, Positions
  <2>4. win[curr] \in Geometry /\ needs_reposition' \in BOOLEAN /\ needs_reposition'
    BY <1>1, <1>2, <1>3, Positions DEF StackingInv, StackingTypeOK
  <2>5. QED
    BY <1>1, <2>1, <2>2, <2>3, <2>4, PlacedStep
<1>4. CASE ~needs_reposition
  <2>1. UNCHANGED <<win, screen>>
    BY <1>1, <1>4, MovedIfNeeded
  <2>2. StackingTypeOK'
    <3>1. pos' \in 0..Len(open) + 1
      BY <1>1, Positions
    <3>2. QED
      BY <1>1, <2>1, <3>1 DEF StackingInv, StackingTypeOK
  <2>3. PlaceInv'
    <3>1. \A i \in 1..Len(open) : i < pos' => state[open[i]] = "UPDATE"
      BY <1>1, <1>2, Positions DEF StackingInv, PlaceInv
    <3>2. QED
      BY <1>1, <3>1, Positions DEF StackingInv, PlaceInv
  <2>4. MappedFirst' /\ Fitting'
    BY <1>1, <2>1 DEF StackingInv, MappedFirst, Fitting, Fits, Layout, Nowhere
  <2>5. Seated'
    <3> SUFFICES ASSUME NEW i \in 1..Len(open), i < pos' \/ open[i] \in mapped
                 PROVE  InTurn(i) /\ Aligned(i)
      BY <1>1, <2>1, Positions, Kept, KeptSide DEF Seated
    <3>1. i < pos \/ open[i] \in mapped
      BY <1>1, <1>2, Positions
    <3>2. QED
      BY <1>4, <3>1, Positions DEF StackingInv, Seated
  <2>6. QED
    BY <2>2, <2>3, <2>4, <2>5 DEF StackingInv
<1>5. QED
  BY <1>3, <1>4

\* A notification ends: those before it stay, and those after it will move.
LEMMA EndsStep ==
  ASSUME StackingInv, VisitEnds
  PROVE  StackingInv'
<1>1. /\ pos \in 1..Len(open) /\ state[curr] = "UPDATE" /\ MoveIfNeeded
      /\ needs_reposition' = TRUE
      /\ \/ wait' = wait \cup {curr} /\ state' = state
         \/ state' = [state EXCEPT ![curr] = "none"] /\ wait' = wait
      /\ open' = RemoveAt(open, pos)
      /\ mapped' = mapped \ {curr} /\ UNCHANGED <<origin, content, pos>>
  BY DEF VisitEnds, InPass, CloseRanks
<1>2. /\ Len(open) \in Nat /\ DOMAIN open = 1..Len(open)
      /\ curr = open[pos] /\ curr \in Node /\ curr \in ToSet(open)
      /\ \A i \in 1..Len(open) : open[i] \in Node /\ (i # pos => open[i] # curr)
  BY <1>1, Positions DEF curr
<1>3. /\ win' \in [Node -> Geometry] /\ screen' = win'
      /\ \A i \in 1..Len(open) : i # pos => win'[open[i]] = win[open[i]]
  <2>1. CASE needs_reposition
    BY <1>1, <1>2, <2>1, MovedIfNeeded, MovedFields, Positions
  <2>2. CASE ~needs_reposition
    BY <1>1, <2>2, MovedIfNeeded, Positions
  <2>3. QED
    BY <2>1, <2>2
<1>4. /\ open' \in Seq(Node) /\ IsInjective(open')
      /\ ToSet(open') = ToSet(open) \ {curr}
      /\ Len(open') = Len(open) - 1 /\ DOMAIN open' = 1..Len(open) - 1
      /\ \A i \in 1..Len(open) - 1 : open'[i] = IF i < pos THEN open[i] ELSE open[i + 1]
  <2>1. open \in Seq(Node) /\ IsInjective(open)
    BY DEF StackingInv, StackingTypeOK
  <2>2. open' \in Seq(Node) /\ IsInjective(open') /\ ToSet(open') = ToSet(open) \ {curr}
    BY <1>1, <1>2, <2>1, RemoveAtFacts
  <2>3. /\ Len(open') = Len(open) - 1
        /\ \A i \in 1..Len(open) - 1 : open'[i] = IF i < pos THEN open[i] ELSE open[i + 1]
    BY <1>1, <1>2, <2>1, RemoveAtElements
  <2>4. QED
    BY <2>2, <2>3, LenProperties
<1>5. state' \in [Node -> {"none", "INIT", "REOPEN", "REDRAW", "UPDATE"}]
      /\ \A n \in Node \ {curr} : state'[n] = state[n]
  BY <1>1, <1>2, Positions
\* The position before, of what is at position i now.
<1> DEFINE old(i) == IF i < pos THEN i ELSE i + 1
<1>6. \A i \in 1..Len(open) - 1 :
        /\ old(i) \in 1..Len(open) /\ old(i) # pos /\ open'[i] = open[old(i)]
        /\ open[old(i)] \in Node \ {curr}
        /\ win'[open[old(i)]] = win[open[old(i)]]
        /\ state'[open[old(i)]] = state[open[old(i)]]
  <2> SUFFICES ASSUME NEW i \in 1..Len(open) - 1
               PROVE  /\ old(i) \in 1..Len(open) /\ old(i) # pos /\ open'[i] = open[old(i)]
                      /\ open[old(i)] \in Node \ {curr}
                      /\ win'[open[old(i)]] = win[open[old(i)]]
                      /\ state'[open[old(i)]] = state[open[old(i)]]
    OBVIOUS
  <2>1. old(i) \in 1..Len(open) /\ old(i) # pos
    BY <1>1, <1>2
  <2>2. open'[i] = open[old(i)]
    BY <1>4
  <2> HIDE DEF old
  <2>3. QED
    BY <1>2, <1>3, <1>5, <2>1, <2>2
<1>7. \A i, j \in 1..Len(open) - 1 : i < j => old(i) < old(j)
  BY <1>1, <1>2
<1>8. \A i \in 1..Len(open) - 1 : i < pos => old(i) = i
  OBVIOUS
<1> HIDE DEF old
<1>9. StackingTypeOK'
  <2>1. pos' \in 0..Len(open') + 1
    BY <1>1, <1>2, <1>4
  <2>2. wait' \in SUBSET Node /\ mapped' \in SUBSET Node
    BY <1>1, <1>2 DEF StackingInv, StackingTypeOK
  <2>3. QED
    BY <1>1, <1>3, <1>4, <1>5, <2>1, <2>2 DEF StackingInv, StackingTypeOK
<1>10. PlaceInv'
  <2>1. wait' \cap ToSet(open') = {} /\ mapped' \subseteq ToSet(open')
    BY <1>1, <1>4 DEF StackingInv, PlaceInv
  <2>2. \A n \in wait' : state'[n] # "none"
    <3>1. CASE wait' = wait \cup {curr} /\ state' = state
      BY <1>1, <3>1 DEF StackingInv, PlaceInv
    <3>2. CASE wait' = wait
      <4>1. \A n \in wait : n \in Node \ {curr} /\ state[n] # "none"
        BY <1>2 DEF StackingInv, PlaceInv, StackingTypeOK
      <4>2. QED
        BY <1>5, <3>2, <4>1
    <3>3. QED
      BY <1>1, <3>1, <3>2
  <2>3. ASSUME NEW i \in 1..Len(open) - 1
        PROVE  /\ state'[open'[i]] # "none"
               /\ state'[open'[i]] \in {"INIT", "REOPEN"} => open'[i] \notin mapped'
               /\ state'[open'[i]] = "UPDATE" => open'[i] \in mapped'
               /\ i < pos' => state'[open'[i]] = "UPDATE"
    <3>1. /\ state[open[old(i)]] # "none"
          /\ state[open[old(i)]] \in {"INIT", "REOPEN"} => open[old(i)] \notin mapped
          /\ state[open[old(i)]] = "UPDATE" => open[old(i)] \in mapped
          /\ old(i) < pos => state[open[old(i)]] = "UPDATE"
      BY <1>2, <1>6 DEF StackingInv, PlaceInv
    <3>2. i < pos => old(i) < pos
      BY <1>8
    <3>3. QED
      BY <1>1, <1>6, <3>1, <3>2
  <2>4. QED
    BY <1>4, <2>1, <2>2, <2>3 DEF PlaceInv
<1>11. MappedFirst'
  <2> SUFFICES ASSUME NEW i \in 1..Len(open) - 1, NEW j \in 1..Len(open) - 1, i < j,
                      open'[j] \in mapped'
               PROVE  open'[i] \in mapped'
    BY <1>4 DEF MappedFirst
  <2>1. old(i) < old(j) /\ open[old(j)] \in mapped
    BY <1>1, <1>6, <1>7
  <2>2. open[old(i)] \in mapped
    BY <1>2, <1>6, <2>1 DEF StackingInv, MappedFirst
  <2>3. QED
    BY <1>1, <1>6, <2>2
<1>12. Seated'
  <2> SUFFICES ASSUME NEW i \in 1..Len(open) - 1, i < pos
               PROVE  InTurn(i)' /\ Aligned(i)'
    BY <1>1, <1>4 DEF Seated
  <2>1. i \in 1..Len(open) /\ (i # 1 => i - 1 \in 1..Len(open) - 1 /\ i - 1 < pos)
    BY <1>1, <1>2
  <2>2. InTurn(i) /\ Aligned(i)
    BY <1>2, <2>1 DEF StackingInv, Seated
  <2>3. open'[i] = open[i] /\ screen'[open[i]] = screen[open[i]]
    BY <1>3, <1>6, <1>8, Positions
  <2>4. i # 1 => open'[i - 1] = open[i - 1] /\ screen'[open[i - 1]] = screen[open[i - 1]]
    BY <1>3, <1>6, <1>8, <2>1, Positions
  <2>5. QED
    BY <1>1, <2>2, <2>3, <2>4, Kept, KeptSide
<1>13. Fitting'
  <2> SUFFICES ASSUME NEW i \in 1..Len(open) - 1 PROVE Fits(i)'
    BY <1>4 DEF Fitting
  <2>1. Fits(old(i))
    BY <1>2, <1>6 DEF StackingInv, Fitting
  <2>2. /\ open'[i] = open[old(i)] /\ screen'[open[old(i)]] = screen[open[old(i)]]
        /\ state'[open[old(i)]] = state[open[old(i)]] /\ content' = content
    BY <1>1, <1>3, <1>6, Positions
  <2>3. QED
    BY <2>1, <2>2 DEF Fits, Layout, Nowhere
<1>14. QED
  BY <1>9, <1>10, <1>11, <1>12, <1>13 DEF StackingInv

\* No notification, no window.
LEMMA StackingInvInit == StackingInit => StackingInv
<1> SUFFICES ASSUME StackingInit PROVE StackingInv
  OBVIOUS
<1>1. open = <<>> /\ Len(open) = 0 /\ open \in Seq(Node) /\ DOMAIN open = 1..0
  BY EmptySeq DEF StackingInit
<1>2. (CHOOSE c \in Contents : TRUE) \in Contents
  BY StackingAssumption
<1>3. Nowhere \in Geometry
  BY DEF Nowhere, Geometry
<1>4. StackingTypeOK
  <2>1. IsInjective(open)
    BY <1>1 DEF IsInjective
  <2>2. content \in [Node -> Contents] /\ win \in [Node -> Geometry] /\ screen = win
    BY <1>2, <1>3 DEF StackingInit
  <2>3. pos \in 0..Len(open) + 1
    BY <1>1 DEF StackingInit
  <2>4. state \in [Node -> {"none", "INIT", "REOPEN", "REDRAW", "UPDATE"}]
    BY DEF StackingInit
  <2>5. QED
    BY <1>1, <2>1, <2>2, <2>3, <2>4 DEF StackingInit, StackingTypeOK
<1>5. QED
  BY <1>1, <1>4, ToSetEmpty DEF StackingInit, StackingInv, PlaceInv, MappedFirst, Seated, Fitting

-----------------------------------------------------------------------------
LEMMA StackingInvNext == StackingInv /\ [StackingNext]_stacking => StackingInv'
<1> SUFFICES ASSUME StackingInv, [StackingNext]_stacking PROVE StackingInv'
  OBVIOUS
<1>1. ASSUME NEW n \in Node, NOTNew(n) PROVE StackingInv'
  <2>1. PICK c \in Contents : content' = [content EXCEPT ![n] = c]
    BY <1>1 DEF NOTNew
  <2>2. /\ pos = 0 /\ state[n] = "none" /\ open' = Append(open, n)
        /\ state' = [state EXCEPT ![n] = "INIT"]
        /\ UNCHANGED <<origin, wait, win, screen, mapped, pos, needs_reposition>>
    BY <1>1 DEF NOTNew
  <2>3. n \notin ToSet(open) /\ n \notin wait
    BY <2>2, Positions, ToSetType DEF StackingInv, PlaceInv, StackingTypeOK
  <2>4. /\ state' \in [Node -> {"none", "INIT", "REOPEN", "REDRAW", "UPDATE"}]
        /\ state'[n] = "INIT" /\ \A m \in Node \ {n} : state'[m] = state[m]
    BY <2>2, Positions
  <2>5. QED
    BY <2>1, <2>2, <2>3, <2>4, AppendStep
<1>2. ASSUME NEW n \in Node, MODParked(n) PROVE StackingInv'
  <2>1. PICK c \in Contents : content' = [content EXCEPT ![n] = c]
    BY <1>2 DEF MODParked
  <2>2. /\ pos = 0 /\ n \in wait /\ open' = Append(open, n) /\ wait' = wait \ {n}
        /\ state' = [state EXCEPT ![n] = "REOPEN"]
        /\ UNCHANGED <<origin, win, screen, mapped, pos, needs_reposition>>
    BY <1>2 DEF MODParked
  <2>3. n \notin ToSet(open) /\ n \notin wait'
    BY <2>2 DEF StackingInv, PlaceInv
  <2>4. /\ state' \in [Node -> {"none", "INIT", "REOPEN", "REDRAW", "UPDATE"}]
        /\ state'[n] = "REOPEN" /\ \A m \in Node \ {n} : state'[m] = state[m]
    BY <2>2, Positions
  <2>5. QED
    BY <2>1, <2>2, <2>3, <2>4, AppendStep
\* The two visits that draw a window anew.
<1>3. ASSUME Place, pos \in 1..Len(open), pos' = pos + 1,
             state' = [state EXCEPT ![curr] = "UPDATE"],
             UNCHANGED <<origin, open, wait, content>>, needs_reposition' \in BOOLEAN,
             needs_reposition' \/ curr \notin mapped
      PROVE  StackingInv'
  <2> DEFINE g == Layout(win[curr], content[curr])
  <2>1. win[curr] \in Geometry /\ content[curr] \in Contents
    BY <1>3, Positions DEF curr
  <2>2. /\ g \in Geometry
        /\ g.w = Layout(Nowhere, content[curr]).w /\ g.h = Layout(Nowhere, content[curr]).h
    BY <2>1, LaidOut DEF StackingInv
  <2>3. /\ win' = [win EXCEPT ![curr] = Reposition(prev, g)]
        /\ screen' = [screen EXCEPT ![curr] = Reposition(prev, g)]
        /\ mapped' = mapped \cup {curr}
    BY <1>3 DEF Place
  <2>4. screen' = win'
    BY <2>3, Positions
  <2> HIDE DEF g
  <2>5. QED
    BY <1>3, <2>2, <2>3, <2>4, PlacedStep
<1>4. CASE VisitNew
  <2>1. /\ pos \in 1..Len(open) /\ state[curr] \in {"INIT", "REOPEN"}
        /\ Place /\ state' = [state EXCEPT ![curr] = "UPDATE"] /\ pos' = pos + 1
        /\ UNCHANGED <<origin, open, wait, content, needs_reposition>>
    BY <1>4 DEF VisitNew, InPass
  <2>2. curr \notin mapped /\ needs_reposition' \in BOOLEAN
    BY <2>1, Positions DEF StackingInv, PlaceInv, StackingTypeOK, curr
  <2>3. QED
    BY <1>3, <2>1, <2>2
<1>5. CASE VisitRedraw
  <2>1. /\ pos \in 1..Len(open) /\ needs_reposition' = TRUE
        /\ Place /\ state' = [state EXCEPT ![curr] = "UPDATE"] /\ pos' = pos + 1
        /\ UNCHANGED <<origin, open, wait, content>>
    BY <1>5 DEF VisitRedraw, InPass
  <2>2. QED
    BY <1>3, <2>1
<1>6. CASE UNCHANGED stacking
  <2>1. StackingTypeOK' /\ PlaceInv' /\ MappedFirst'
    BY <1>6 DEF stacking, StackingInv, StackingTypeOK, PlaceInv, MappedFirst
  <2>2. Seated'
    BY <1>6, Kept, KeptSide DEF stacking, StackingInv, Seated
  <2>3. Fitting'
    BY <1>6 DEF stacking, StackingInv, Fitting, Fits, Layout, Nowhere
  <2>4. QED
    BY <2>1, <2>2, <2>3 DEF StackingInv
<1>7. QED
  BY <1>1, <1>2, <1>4, <1>5, <1>6, ModStep, TurnStep, StaysStep, EndsStep DEF StackingNext

\* Every step keeps the invariant, whatever ends, changes or comes back.
THEOREM StackingInductive == StackingSpec => []StackingInv
BY StackingInvInit, StackingInvNext, PTL DEF StackingSpec

\* server_update_notifications: during a pass and after it the windows stand
\* one after the other, without hole or overlap, although a pass moves only
\* those after the first that has changed or ended.
THEOREM NeverOverlap == StackingSpec => []Stacked
<1>1. StackingInv => Stacked
  <2> SUFFICES ASSUME StackingInv, NEW i \in Placed
               PROVE  InTurn(i) /\ Aligned(i) /\ Fits(i)
    BY DEF Stacked
  <2>1. i \in 1..Len(open) /\ (i < pos \/ (open[i] \in mapped /\ pos = 0))
    BY Positions DEF Placed
  <2>2. QED
    BY <2>1, Positions DEF StackingInv, Seated, Fitting
<1>2. QED
  BY <1>1, StackingInductive, PTL

-----------------------------------------------------------------------------
(***************************************************************************)
(* Theorems about Resources, for any number of notifications, any set of   *)
(* the optional fields and an allocator of any size: what the handlers and *)
(* notification_close free has one owner, and nothing is left behind.      *)
(***************************************************************************)

\* What malloc and Xft hand out for k, and what a pointer may hold.
Own(k) == {<<k, i>> : i \in 1..Pool}
Pointers == [Owner -> [Kind -> (Kind \X (0..Pool)) \cup {NULL}]]

-----------------------------------------------------------------------------
\* The parts of the inductive invariant.  A pointer is to a thing of its own
\* kind, and never to a shared one when it will be freed: also after a
\* refused MOD, which is why the shared things stay.
ResourcesTypeOK ==
  /\ live \in SUBSET (Kind \X (0..Pool))
  /\ held \in SUBSET Owner
  /\ ptr \in Pointers
  /\ custom \in [Owner -> SUBSET Kind]
  /\ spoilt \in BOOLEAN

SharedStay == SharedThings \subseteq live

OwnKind == \A n \in Owner, k \in Kind : Owns(n, k) => ptr[n][k] \in Own(k) \cup {NULL}

\* A node outside the lists is as calloc left it.
ClosedInv == \A n \in Owner \ held : ptr[n] = Defaults /\ custom[n] = {}

\* Until a MOD is refused, a pointer is to a thing that is there, either its
\* notification's own or the shared one of its kind, ...
OpenInv ==
  spoilt \/ \A n \in held, k \in Kind :
    /\ ptr[n][k] \in live
    /\ ptr[n][k] \in IF Owns(n, k) THEN Own(k) ELSE {Shared(k)}

\* ... no two notifications own the same one, ...
Apart ==
  spoilt \/ \A n, m \in held, k \in Kind :
    n # m /\ Owns(n, k) /\ Owns(m, k) => ptr[n][k] # ptr[m][k]

\* ... and all that is there has an owner.
NothingLost ==
  spoilt \/ \A x \in live :
    x \in SharedThings \/ \E n \in held, k \in Kind : Owns(n, k) /\ x = ptr[n][k]

ResourcesInv ==
  /\ ResourcesTypeOK
  /\ SharedStay
  /\ OwnKind
  /\ ClosedInv
  /\ OpenInv
  /\ Apart
  /\ NothingLost

-----------------------------------------------------------------------------
\* What calloc leaves is nobody's.
LEMMA NothingOwned ==
  ASSUME NEW n, ptr[n] = Defaults, custom[n] = {}
  PROVE  \A k \in Kind : ~Owns(n, k)
BY DEF Owns, Defaults, Kind

\* What is freed is no shared thing.
LEMMA FreedAreOwn ==
  ASSUME ResourcesInv, NEW n \in Owner, NEW ks \in SUBSET Kind
  PROVE  Freed(n, ks) \cap SharedThings = {}
<1> SUFFICES ASSUME NEW k \in ks, Owns(n, k), ptr[n][k] \in SharedThings
             PROVE  FALSE
  BY DEF Freed
<1>1. ptr[n][k] \in Own(k) \cup {NULL}
  BY DEF ResourcesInv, OwnKind
<1>2. ptr[n][k] \in Kind \X (0..Pool)
  BY ResourcesAssumption DEF SharedThings, Shared, ResourcesInv
<1>3. PICK i \in 1..Pool : ptr[n][k] = <<k, i>>
  BY <1>1, <1>2, ResourcesAssumption DEF Own, ResourcesInv
<1>4. QED
  BY <1>3, ResourcesAssumption DEF SharedThings, Shared, ResourcesInv

\* What _inject_from_msg replaces and what it allocates.
Given(fields, ind) == fields \cup (IF ind = "absent" THEN {} ELSE IndicatorKinds)
New(fields, ind) == fields \cup Allocated(ind)
Left(n, fields, ind) == live \ Freed(n, Given(fields, ind))

Injected(n, fields, ind) ==
  /\ n \in Owner /\ fields \in SUBSET Fields /\ ind \in {"absent", "custom", "named"}
  /\ Inject(n, fields, ind)

\* What is not the indicator's is given and new alike; of the indicator, the
\* font is new whenever it is given, and the string when it is of the message.
LEMMA NewGiven ==
  ASSUME NEW fields \in SUBSET Fields, NEW ind \in {"absent", "custom", "named"}
  PROVE  /\ New(fields, ind) \subseteq Given(fields, ind)
         /\ Given(fields, ind) \subseteq Kind
         /\ Given(fields, ind) \ New(fields, ind) = IF ind = "named" THEN {"str"} ELSE {}
BY ResourcesAssumption DEF New, Given, Allocated, IndicatorKinds, Kind

\* The pointers of n after _inject_from_msg.
LEMMA Pointed ==
  ASSUME ResourcesInv, NEW n, NEW fields, NEW ind, Injected(n, fields, ind)
  PROVE  /\ ptr' \in Pointers
         /\ \A m \in Owner \ {n} : ptr'[m] = ptr[m]
         /\ \A k \in New(fields, ind) :
              ptr'[n][k] \in Own(k) /\ ptr'[n][k] \notin Left(n, fields, ind)
         /\ \A k \in Given(fields, ind) \ New(fields, ind) : ptr'[n][k] = Shared(k)
         /\ \A k \in Kind \ Given(fields, ind) : ptr'[n][k] = ptr[n][k]
         /\ live' = Left(n, fields, ind) \cup {ptr'[n][k] : k \in New(fields, ind)}
         /\ custom' = [custom EXCEPT ![n] = Flags(custom[n], New(fields, ind), ind)]
<1> DEFINE new == New(fields, ind)
           given == Given(fields, ind)
           left == Left(n, fields, ind)
<1>0. /\ n \in Owner /\ fields \in SUBSET Fields /\ ind \in {"absent", "custom", "named"}
      /\ ptr \in Pointers
  BY DEF Injected, ResourcesInv, ResourcesTypeOK
<1>1. PICK at \in [new -> 1..Pool] :
        /\ {<<k, at[k]>> : k \in new} \cap left = {}
        /\ live' = left \cup {<<k, at[k]>> : k \in new}
        /\ ptr' = [ptr EXCEPT ![n] = [k \in Kind |->
                     IF k \in new THEN <<k, at[k]>>
                     ELSE IF k = "str" /\ ind = "named" THEN Shared(k) ELSE ptr[n][k]]]
        /\ custom' = [custom EXCEPT ![n] = Flags(custom[n], new, ind)]
  BY DEF Injected, Inject, New, Given, Left
<1>2. /\ new \subseteq given /\ given \subseteq Kind
      /\ given \ new = IF ind = "named" THEN {"str"} ELSE {}
  BY <1>0, NewGiven
<1>3. [k \in Kind |-> IF k \in new THEN <<k, at[k]>>
                      ELSE IF k = "str" /\ ind = "named" THEN Shared(k) ELSE ptr[n][k]]
        \in [Kind -> (Kind \X (0..Pool)) \cup {NULL}]
  <2> HIDE DEF new
  <2> SUFFICES ASSUME NEW k \in Kind
               PROVE  (IF k \in new THEN <<k, at[k]>>
                       ELSE IF k = "str" /\ ind = "named" THEN Shared(k) ELSE ptr[n][k])
                         \in (Kind \X (0..Pool)) \cup {NULL}
    OBVIOUS
  <2>1. Pool \in Nat /\ ptr[n][k] \in (Kind \X (0..Pool)) \cup {NULL}
    BY <1>0, ResourcesAssumption DEF Pointers
  <2>2. QED
    BY <1>1, <2>1 DEF Shared
<1>4. ptr' \in Pointers
  BY <1>0, <1>1, <1>3 DEF Pointers
<1>5. \A k \in Kind : ptr'[n][k] = IF k \in new THEN <<k, at[k]>>
                      ELSE IF k = "str" /\ ind = "named" THEN Shared(k) ELSE ptr[n][k]
  BY <1>0, <1>1 DEF Pointers
<1>6. \A k \in new : ptr'[n][k] = <<k, at[k]>>
  BY <1>2, <1>5
<1>7. \A k \in new : <<k, at[k]>> \in Own(k) /\ <<k, at[k]>> \notin left
  BY <1>1 DEF Own
<1>8. {ptr'[n][k] : k \in new} = {<<k, at[k]>> : k \in new}
  BY <1>6
<1>9. \A m \in Owner \ {n} : ptr'[m] = ptr[m]
  BY <1>0, <1>1 DEF Pointers
<1>10. \A k \in given \ new : ptr'[n][k] = Shared(k)
  BY <1>2, <1>5
<1>11. \A k \in Kind \ given : ptr'[n][k] = ptr[n][k]
  BY <1>2, <1>5
<1>12. QED
  BY <1>1, <1>4, <1>6, <1>7, <1>8, <1>9, <1>10, <1>11

\* What n owns after _inject_from_msg: all that is new, not a string of the
\* configuration that is named, and the rest as before.
LEMMA Owned ==
  ASSUME ResourcesInv, NEW n, NEW fields, NEW ind, Injected(n, fields, ind)
  PROVE  /\ custom' \in [Owner -> SUBSET Kind]
         /\ \A m \in Owner \ {n}, k \in Kind :
              custom'[m] = custom[m] /\ (Owns(m, k)' <=> Owns(m, k))
         /\ \A k \in New(fields, ind) : Owns(n, k)'
         /\ \A k \in Given(fields, ind) \ New(fields, ind) : ~Owns(n, k)'
         /\ \A k \in Kind \ Given(fields, ind) : Owns(n, k)' <=> Owns(n, k)
<1> DEFINE new == New(fields, ind)
           given == Given(fields, ind)
<1>0. /\ n \in Owner /\ fields \in SUBSET Fields /\ ind \in {"absent", "custom", "named"}
      /\ custom \in [Owner -> SUBSET Kind]
  BY DEF Injected, ResourcesInv, ResourcesTypeOK
<1>1. /\ new \subseteq given /\ given \subseteq Kind
      /\ given \ new = IF ind = "named" THEN {"str"} ELSE {}
  BY <1>0, NewGiven
<1>2. /\ \A m \in Owner \ {n} : ptr'[m] = ptr[m]
      /\ \A k \in new : ptr'[n][k] \in Own(k)
      /\ \A k \in Kind \ given : ptr'[n][k] = ptr[n][k]
      /\ custom' = [custom EXCEPT ![n] = Flags(custom[n], new, ind)]
  BY Pointed
<1> HIDE DEF new, given
<1>3. Flags(custom[n], new, ind) \subseteq Kind
  BY <1>0, <1>1 DEF Flags
<1>4. /\ custom' \in [Owner -> SUBSET Kind]
      /\ custom'[n] = Flags(custom[n], new, ind)
      /\ \A m \in Owner \ {n} : custom'[m] = custom[m]
  BY <1>0, <1>2, <1>3
<1>5. \A k \in new : ptr'[n][k] # NULL
  BY <1>0, <1>1, <1>2, ResourcesAssumption DEF Own
<1>6. \A k \in new : Owns(n, k)'
  BY <1>4, <1>5 DEF Owns, Flags
<1>7. ASSUME NEW k \in given \ new PROVE ~Owns(n, k)'
  BY <1>1, <1>4, <1>7 DEF Owns, Flags
<1>8. ASSUME NEW k \in Kind \ given PROVE Owns(n, k)' <=> Owns(n, k)
  <2>1. ind = "named" => k # "str"
    BY <1>1
  <2>2. k \in custom'[n] <=> k \in custom[n]
    BY <1>1, <1>4, <2>1, k \notin new, k \in {"txt", "font"} \/ k \notin {"txt", "font"}
       DEF Flags
  <2>3. QED
    BY <1>2, <2>2 DEF Owns
<1>9. \A m \in Owner \ {n}, k \in Kind : Owns(m, k)' <=> Owns(m, k)
  BY <1>2, <1>4 DEF Owns
<1>10. QED
  BY <1>4, <1>6, <1>7, <1>8, <1>9 DEF new, given

\* What is left is what nothing given was pointed to, and all shared things.
LEMMA LeftFacts ==
  ASSUME ResourcesInv, NEW n, NEW fields, NEW ind, Injected(n, fields, ind)
  PROVE  /\ SharedThings \subseteq Left(n, fields, ind)
         /\ \A x \in live : x \in Left(n, fields, ind) <=>
              ~ \E k \in Given(fields, ind) : Owns(n, k) /\ x = ptr[n][k]
<1>1. Given(fields, ind) \in SUBSET Kind
  BY NewGiven DEF Injected, ResourcesInv
<1>2. Freed(n, Given(fields, ind)) \cap SharedThings = {}
  BY <1>1, FreedAreOwn DEF Injected
<1>3. QED
  BY <1>2 DEF Left, Freed, ResourcesInv, SharedStay

-----------------------------------------------------------------------------
\* _inject_from_msg keeps each part of the invariant, for a notification that
\* is open and for a new one, which is then given a text and an indicator.
InjectedIn(n, fields, ind) ==
  /\ Injected(n, fields, ind)
  /\ held' = held \cup {n}
  /\ n \in held \/ {"txt", "str", "font"} \subseteq Given(fields, ind)
  /\ UNCHANGED spoilt

LEMMA InjectTypes ==
  ASSUME ResourcesInv, NEW n, NEW fields, NEW ind, InjectedIn(n, fields, ind)
  PROVE  ResourcesTypeOK' /\ SharedStay' /\ OwnKind' /\ ClosedInv'
<1>0. /\ Injected(n, fields, ind) /\ held' = held \cup {n} /\ UNCHANGED spoilt
      /\ n \in Owner /\ held \in SUBSET Owner /\ live \in SUBSET (Kind \X (0..Pool))
      /\ spoilt \in BOOLEAN /\ Pool \in Nat
  BY ResourcesAssumption DEF InjectedIn, Injected, ResourcesInv, ResourcesTypeOK
<1>n. /\ New(fields, ind) \subseteq Kind /\ Given(fields, ind) \subseteq Kind
      /\ New(fields, ind) \subseteq Given(fields, ind)
  BY <1>0, NewGiven DEF Injected, ResourcesInv
<1>1. ResourcesTypeOK'
  <2>1. \A k \in New(fields, ind) : ptr'[n][k] \in Kind \X (0..Pool)
    <3> SUFFICES ASSUME NEW k \in New(fields, ind)
                 PROVE  ptr'[n][k] \in Kind \X (0..Pool)
      OBVIOUS
    <3>1. ptr'[n][k] \in Own(k) /\ k \in Kind
      BY <1>0, <1>n, Pointed
    <3>2. QED
      BY <1>0, <3>1 DEF Own
  <2>2. live' \in SUBSET (Kind \X (0..Pool))
    BY <1>0, <2>1, Pointed DEF Left
  <2>3. ptr' \in Pointers /\ custom' \in [Owner -> SUBSET Kind]
    BY <1>0, Pointed, Owned
  <2>4. QED
    BY <1>0, <2>2, <2>3 DEF ResourcesTypeOK
<1>2. SharedStay'
  BY <1>0, LeftFacts, Pointed DEF SharedStay, SharedThings, Shared, Kind
<1>3. OwnKind'
  <2> SUFFICES ASSUME NEW m \in Owner, NEW k \in Kind, Owns(m, k)'
               PROVE  ptr'[m][k] \in Own(k) \cup {NULL}
    BY DEF OwnKind, Own
  <2>1. CASE m # n
    BY <1>0, <2>1, Pointed, Owned DEF ResourcesInv, OwnKind
  <2>2. CASE m = n /\ k \notin Given(fields, ind)
    BY <1>0, <2>2, Pointed, Owned DEF ResourcesInv, OwnKind
  <2>3. CASE m = n /\ k \in New(fields, ind)
    BY <1>0, <2>3, Pointed
  <2>4. QED
    BY <1>0, <2>1, <2>2, <2>3, Owned
<1>4. ClosedInv'
  BY <1>0, Pointed, Owned DEF ClosedInv, ResourcesInv, Defaults, Shared, Kind
<1>5. QED
  BY <1>1, <1>2, <1>3, <1>4

\* A field that is not given keeps what it points to.
LEMMA InjectOpen ==
  ASSUME ResourcesInv, NEW n, NEW fields, NEW ind, InjectedIn(n, fields, ind), ~spoilt
  PROVE  OpenInv'
<1>0. /\ Injected(n, fields, ind) /\ held' = held \cup {n}
      /\ n \in Owner /\ held \in SUBSET Owner
  BY DEF InjectedIn, Injected, ResourcesInv, ResourcesTypeOK
<1>n. New(fields, ind) \subseteq Given(fields, ind) /\ Given(fields, ind) \subseteq Kind
  BY <1>0, NewGiven DEF Injected, ResourcesInv
<1>1. Left(n, fields, ind) \subseteq live'
  BY <1>0, Pointed
<1>p. \A m \in held, k \in Kind :
        /\ ptr[m][k] \in live
        /\ ptr[m][k] \in IF Owns(m, k) THEN Own(k) ELSE {Shared(k)}
  BY DEF ResourcesInv, OpenInv
<1> SUFFICES ASSUME NEW m \in held', NEW k \in Kind
             PROVE  /\ ptr'[m][k] \in live'
                    /\ ptr'[m][k] \in IF Owns(m, k)' THEN Own(k) ELSE {Shared(k)}
  BY DEF OpenInv, Own, Shared
<1>2. CASE m # n
  <2>1. ptr'[m] = ptr[m] /\ (Owns(m, k)' <=> Owns(m, k)) /\ m \in held
    BY <1>0, <1>2, Pointed, Owned
  <2>2. ptr[m][k] \in Left(n, fields, ind)
    <3> SUFFICES ASSUME NEW j \in Given(fields, ind), Owns(n, j), ptr[m][k] = ptr[n][j]
                 PROVE  ptr[m][k] \in SharedThings
      BY <1>0, <1>p, <2>1, LeftFacts
    <3>1. ptr[n][j] \in Own(j) \/ n \notin held
      BY <1>n, <1>p
    <3>2. n \in held
      BY <1>0, <1>n, NothingOwned DEF ResourcesInv, ClosedInv
    <3>3. ASSUME Owns(m, k) PROVE j = k
      <4>1. ptr[m][k] \in Own(k)
        BY <1>p, <2>1, <3>3
      <4>2. QED
        BY <3>1, <3>2, <4>1 DEF Own
    <3>4. ~Owns(m, k)
      BY <1>2, <2>1, <3>2, <3>3 DEF ResourcesInv, Apart
    <3>5. ptr[m][k] = Shared(k)
      BY <1>p, <2>1, <3>4
    <3>6. QED
      BY <3>1, <3>2, <3>5, ResourcesAssumption DEF Own, Shared, ResourcesInv
  <2>3. QED
    BY <1>1, <1>p, <2>1, <2>2
<1>3. CASE m = n /\ k \in New(fields, ind)
  BY <1>0, <1>3, Pointed, Owned
<1>4. CASE m = n /\ k \in Given(fields, ind) \ New(fields, ind)
  <2>1. ptr'[n][k] = Shared(k) /\ ~Owns(n, k)'
    BY <1>0, <1>4, Pointed, Owned
  <2>2. k = "str"
    BY <1>0, <1>4, NewGiven DEF Injected, ResourcesInv
  <2>3. Shared(k) \in Left(n, fields, ind)
    BY <1>0, <2>2, LeftFacts DEF SharedThings, Kind
  <2>4. QED
    BY <1>1, <1>4, <2>1, <2>3
<1>5. CASE m = n /\ k \in Kind \ Given(fields, ind)
  <2>1. ptr'[n][k] = ptr[n][k] /\ (Owns(n, k)' <=> Owns(n, k))
    BY <1>0, <1>5, Pointed, Owned
  <2>2. CASE n \in held
    <3>1. ASSUME NEW j \in Given(fields, ind), Owns(n, j) PROVE ptr[n][k] # ptr[n][j]
      <4>1. ptr[n][j] \in Own(j) /\ j # k /\ j \in Kind
        BY <1>5, <1>n, <1>p, <2>2, <3>1
      <4>2. ptr[n][k] \in IF Owns(n, k) THEN Own(k) ELSE {Shared(k)}
        BY <1>p, <2>2
      <4>3. QED
        BY <4>1, <4>2 DEF Own, Shared
    <3>2. ptr[n][k] \in Left(n, fields, ind)
      BY <1>0, <1>p, <2>2, <3>1, LeftFacts
    <3>3. QED
      BY <1>1, <1>5, <1>p, <2>1, <2>2, <3>2
  <2>3. CASE n \notin held
    <3>1. k \notin {"txt", "str", "font"}
      BY <1>5, <2>3 DEF InjectedIn
    <3>2. ptr[n] = Defaults /\ ~Owns(n, k)
      BY <1>0, <2>3, NothingOwned DEF ResourcesInv, ClosedInv
    <3>3. ptr[n][k] = Shared(k) /\ Shared(k) \in SharedThings
      BY <3>1, <3>2 DEF Defaults, SharedThings
    <3>4. QED
      BY <1>0, <1>1, <1>5, <2>1, <3>2, <3>3, LeftFacts
  <2>4. QED
    BY <2>2, <2>3
<1>6. QED
  BY <1>2, <1>3, <1>4, <1>5

\* What is handed out anew is nobody else's.
LEMMA InjectApart ==
  ASSUME ResourcesInv, NEW n, NEW fields, NEW ind, InjectedIn(n, fields, ind), ~spoilt
  PROVE  Apart'
<1>0. /\ Injected(n, fields, ind) /\ held' = held \cup {n}
      /\ n \in Owner /\ held \in SUBSET Owner
  BY DEF InjectedIn, Injected, ResourcesInv, ResourcesTypeOK
<1>n. New(fields, ind) \subseteq Given(fields, ind) /\ Given(fields, ind) \subseteq Kind
  BY <1>0, NewGiven DEF Injected, ResourcesInv
<1>p. \A m \in held, k \in Kind :
        ptr[m][k] \in live /\ (Owns(m, k) => ptr[m][k] \in Own(k))
  BY DEF ResourcesInv, OpenInv
<1>1. ASSUME NEW m \in held \ {n}, NEW k \in Kind, Owns(m, k)', Owns(n, k)'
      PROVE  ptr'[m][k] # ptr'[n][k]
  <2>1. ptr'[m] = ptr[m] /\ Owns(m, k)
    BY <1>0, <1>1, Pointed, Owned
  <2>2. CASE k \in New(fields, ind)
    <3>1. ptr'[n][k] \notin Left(n, fields, ind)
      BY <1>0, <2>2, Pointed
    <3>2. ASSUME NEW j \in Given(fields, ind), Owns(n, j) PROVE ptr[m][k] # ptr[n][j]
      <4>1. n \in held /\ j \in Kind
        BY <1>0, <1>n, <3>2, NothingOwned DEF ResourcesInv, ClosedInv
      <4>2. ptr[n][j] \in Own(j) /\ ptr[m][k] \in Own(k)
        BY <1>p, <2>1, <3>2, <4>1
      <4>3. j = k => ptr[m][k] # ptr[n][j]
        BY <2>1, <3>2, <4>1 DEF ResourcesInv, Apart
      <4>4. QED
        BY <4>2, <4>3 DEF Own
    <3>3. ptr[m][k] \in Left(n, fields, ind)
      BY <1>0, <1>p, <3>2, LeftFacts
    <3>4. QED
      BY <2>1, <3>1, <3>3
  <2>3. CASE k \notin Given(fields, ind)
    <3>1. ptr'[n][k] = ptr[n][k] /\ Owns(n, k)
      BY <1>0, <1>1, <2>3, Pointed, Owned
    <3>2. n \in held
      BY <1>0, <3>1, NothingOwned DEF ResourcesInv, ClosedInv
    <3>3. QED
      BY <2>1, <3>1, <3>2 DEF ResourcesInv, Apart
  <2>4. QED
    BY <1>0, <1>1, <2>2, <2>3, Owned
<1>2. ASSUME NEW m \in held \ {n}, NEW l \in held \ {n}, NEW k \in Kind,
             m # l, Owns(m, k)', Owns(l, k)'
      PROVE  ptr'[m][k] # ptr'[l][k]
  <2>1. ptr'[m] = ptr[m] /\ Owns(m, k) /\ ptr'[l] = ptr[l] /\ Owns(l, k)
    BY <1>0, <1>2, Pointed, Owned
  <2>2. QED
    BY <1>2, <2>1 DEF ResourcesInv, Apart
<1>3. QED
  BY <1>0, <1>1, <1>2 DEF Apart

\* What was left had another owner, or is owned by a field not given.
LEMMA InjectKeepsOwners ==
  ASSUME ResourcesInv, NEW n, NEW fields, NEW ind, InjectedIn(n, fields, ind), ~spoilt
  PROVE  NothingLost'
<1>0. /\ Injected(n, fields, ind) /\ held' = held \cup {n}
      /\ n \in Owner /\ held \in SUBSET Owner
  BY DEF InjectedIn, Injected, ResourcesInv, ResourcesTypeOK
<1>n. New(fields, ind) \subseteq Kind
  BY <1>0, NewGiven DEF Injected, ResourcesInv
<1> SUFFICES ASSUME NEW x \in live', x \notin SharedThings
             PROVE  \E m \in held', k \in Kind : Owns(m, k)' /\ x = ptr'[m][k]
  BY DEF NothingLost, SharedThings, Shared, Kind
<1>1. CASE x \in Left(n, fields, ind)
  <2>1. PICK m \in held, k \in Kind : Owns(m, k) /\ x = ptr[m][k]
    BY <1>1 DEF Left, ResourcesInv, NothingLost
  <2>2. m # n \/ k \notin Given(fields, ind)
    BY <1>0, <1>1, <2>1, LeftFacts DEF Left
  <2>3. Owns(m, k)' /\ ptr'[m][k] = ptr[m][k]
    BY <1>0, <2>1, <2>2, Pointed, Owned
  <2>4. QED
    BY <1>0, <2>1, <2>3
<1>2. CASE x \notin Left(n, fields, ind)
  <2>1. PICK k \in New(fields, ind) : x = ptr'[n][k]
    BY <1>0, <1>2, Pointed
  <2>2. QED
    BY <1>0, <1>n, <2>1, Owned
<1>3. QED
  BY <1>1, <1>2

LEMMA InjectStep ==
  ASSUME ResourcesInv, NEW n, NEW fields, NEW ind, InjectedIn(n, fields, ind)
  PROVE  ResourcesInv'
<1>1. ResourcesTypeOK' /\ SharedStay' /\ OwnKind' /\ ClosedInv'
  BY InjectTypes
<1>2. CASE ~spoilt
  BY <1>1, <1>2, InjectOpen, InjectApart, InjectKeepsOwners DEF ResourcesInv, Kind
<1>3. CASE spoilt
  BY <1>1, <1>3
     DEF InjectedIn, ResourcesInv, Kind, OpenInv, Apart, NothingLost
<1>4. QED
  BY <1>2, <1>3

-----------------------------------------------------------------------------
\* notification_close keeps the invariant: what n owned was its alone.
LEMMA CloseStep ==
  ASSUME ResourcesInv, NEW n \in Owner, Close(n)
  PROVE  ResourcesInv'
<1>0. /\ ptr \in Pointers /\ custom \in [Owner -> SUBSET Kind] /\ held \in SUBSET Owner
      /\ n \in held /\ held' = held \ {n}
      /\ live' = live \ Freed(n, Kind) /\ UNCHANGED spoilt
      /\ Pool \in Nat
  BY ResourcesAssumption DEF ResourcesInv, ResourcesTypeOK, Close
<1>1. ptr'[n] = Defaults /\ custom'[n] = {}
  BY <1>0 DEF Close, Pointers
<1>2. \A m \in Owner \ {n}, k \in Kind :
        ptr'[m] = ptr[m] /\ custom'[m] = custom[m] /\ (Owns(m, k)' <=> Owns(m, k))
  BY <1>0 DEF Close, Pointers, Owns
<1>3. \A k \in Kind : ~Owns(n, k)'
  BY <1>1 DEF Owns, Defaults, Kind
<1>4. ResourcesTypeOK'
  <2>1. Defaults \in [Kind -> (Kind \X (0..Pool)) \cup {NULL}]
    BY <1>0 DEF Defaults, Shared
  <2>2. ptr' \in Pointers
    BY <1>0, <2>1 DEF Close, Pointers
  <2>3. custom' \in [Owner -> SUBSET Kind]
    BY <1>0 DEF Close
  <2>4. QED
    BY <1>0, <2>2, <2>3 DEF ResourcesTypeOK, ResourcesInv
<1>5. SharedStay'
  BY <1>0, FreedAreOwn DEF ResourcesInv, SharedStay, SharedThings, Shared, Kind
<1>6. OwnKind'
  BY <1>2, <1>3 DEF ResourcesInv, OwnKind, Own
<1>7. ClosedInv'
  BY <1>0, <1>1, <1>2 DEF ResourcesInv, ClosedInv, Defaults, Shared, Kind
<1>8. ASSUME ~spoilt PROVE OpenInv'
  <2> SUFFICES ASSUME NEW m \in held', NEW k \in Kind
               PROVE  /\ ptr'[m][k] \in live'
                      /\ ptr'[m][k] \in IF Owns(m, k)' THEN Own(k) ELSE {Shared(k)}
    BY DEF OpenInv, Own, Shared
  <2>1. ptr'[m] = ptr[m] /\ (Owns(m, k)' <=> Owns(m, k)) /\ m \in held \ {n}
    BY <1>0, <1>2
  <2>2. /\ ptr[m][k] \in live
        /\ ptr[m][k] \in IF Owns(m, k) THEN Own(k) ELSE {Shared(k)}
    BY <1>8, <2>1 DEF ResourcesInv, OpenInv
  <2>3. ASSUME NEW j \in Kind, Owns(n, j) PROVE ptr[m][k] # ptr[n][j]
    <3>1. ptr[n][j] \in Own(j)
      BY <1>0, <1>8, <2>3 DEF ResourcesInv, OpenInv
    <3>2. CASE Owns(m, k)
      BY <1>0, <1>8, <2>1, <2>2, <2>3, <3>1, <3>2 DEF Own, ResourcesInv, Apart
    <3>3. CASE ~Owns(m, k)
      BY <1>0, <2>2, <3>1, <3>3 DEF Own, Shared
    <3>4. QED
      BY <3>2, <3>3
  <2>4. ptr[m][k] \notin Freed(n, Kind)
    BY <2>3 DEF Freed
  <2>5. QED
    BY <1>0, <2>1, <2>2, <2>4
<1>9. ASSUME ~spoilt PROVE Apart'
  BY <1>0, <1>2, <1>9 DEF ResourcesInv, Apart
<1>10. ASSUME ~spoilt PROVE NothingLost'
  <2> SUFFICES ASSUME NEW x \in live', x \notin SharedThings
               PROVE  \E m \in held', k \in Kind : Owns(m, k)' /\ x = ptr'[m][k]
    BY DEF NothingLost, SharedThings, Shared, Kind
  <2>1. PICK m \in held, k \in Kind : Owns(m, k) /\ x = ptr[m][k]
    BY <1>0, <1>10 DEF ResourcesInv, NothingLost
  <2>2. m # n
    BY <1>0, <2>1 DEF Freed
  <2>3. QED
    BY <1>0, <1>2, <2>1, <2>2
<1>11. QED
  <2>1. spoilt => OpenInv' /\ Apart' /\ NothingLost'
    BY <1>0 DEF OpenInv, Apart, NothingLost
  <2>2. QED
    BY <1>4, <1>5, <1>6, <1>7, <1>8, <1>9, <1>10, <2>1
       DEF ResourcesInv, Kind

\* A refused MOD frees the indicator's things: none of them is shared.
LEMMA RefuseStep ==
  ASSUME ResourcesInv, NEW n \in Owner, RefuseMOD(n)
  PROVE  ResourcesInv'
<1>0. /\ ptr \in Pointers /\ custom \in [Owner -> SUBSET Kind] /\ held \in SUBSET Owner
      /\ n \in held /\ live' = live \ Freed(n, IndicatorKinds)
      /\ spoilt' = TRUE /\ UNCHANGED <<held, custom>>
      /\ ptr' \in {ptr, [ptr EXCEPT ![n].str = NULL]}
  BY DEF ResourcesInv, ResourcesTypeOK, RefuseMOD
<1>1. \A m \in Owner, k \in Kind :
        ptr'[m][k] = IF m = n /\ k = "str" THEN ptr'[m][k] ELSE ptr[m][k]
  BY <1>0 DEF Pointers
<1>2. ptr' \in Pointers /\ ptr'[n]["str"] \in {ptr[n]["str"], NULL}
  <2>1. CASE ptr' = ptr
    BY <1>0, <2>1
  <2>2. CASE ptr' = [ptr EXCEPT ![n].str = NULL]
    <3>1. "str" \in Kind
      BY DEF Kind
    <3>2. QED
      BY <1>0, <2>2, <3>1 DEF Pointers
  <2>3. QED
    BY <1>0, <2>1, <2>2
<1>3. \A m \in Owner, k \in Kind : Owns(m, k)' <=> Owns(m, k)
  BY <1>0, <1>1 DEF Owns
<1>4. ResourcesTypeOK'
  BY <1>0, <1>2 DEF ResourcesTypeOK, ResourcesInv
<1>5. SharedStay'
  <2>1. IndicatorKinds \in SUBSET Kind
    BY DEF IndicatorKinds, Kind
  <2>2. QED
    BY <1>0, <2>1, FreedAreOwn DEF ResourcesInv, SharedStay, SharedThings, Shared, Kind
<1>6. OwnKind'
  BY <1>1, <1>2, <1>3 DEF ResourcesInv, OwnKind, Own
<1>7. ClosedInv'
  <2> SUFFICES ASSUME NEW m \in Owner \ held PROVE ptr'[m] = Defaults /\ custom'[m] = {}
    BY <1>0 DEF ClosedInv, Defaults, Shared, Kind
  <2>1. m # n /\ ptr'[m] = ptr[m]
    BY <1>0 DEF Pointers
  <2>2. QED
    BY <1>0, <2>1 DEF ResourcesInv, ClosedInv
<1>8. QED
  BY <1>0, <1>4, <1>5, <1>6, <1>7
     DEF ResourcesInv, Kind, OpenInv, Apart, NothingLost

\* calloc has set no pointer and no flag, and only the shared things are there.
LEMMA ResourcesInvInit == ResourcesInit => ResourcesInv
<1> SUFFICES ASSUME ResourcesInit PROVE ResourcesInv
  OBVIOUS
<1>1. \A n \in Owner : ptr[n] = Defaults /\ custom[n] = {}
  BY DEF ResourcesInit
<1>2. \A n \in Owner, k \in Kind : ~Owns(n, k)
  BY <1>1, NothingOwned
<1>3. ResourcesTypeOK
  <2>1. Defaults \in [Kind -> (Kind \X (0..Pool)) \cup {NULL}]
    BY ResourcesAssumption DEF Defaults, Shared
  <2>2. ptr \in Pointers
    BY <2>1 DEF ResourcesInit, Pointers
  <2>3. live \in SUBSET (Kind \X (0..Pool))
    BY ResourcesAssumption DEF ResourcesInit, SharedThings, Shared
  <2>4. QED
    BY <2>2, <2>3 DEF ResourcesInit, ResourcesTypeOK
<1>4. QED
  BY <1>1, <1>2, <1>3
     DEF ResourcesInit, ResourcesInv, SharedStay, OwnKind, ClosedInv, OpenInv, Apart, NothingLost

-----------------------------------------------------------------------------
\* Every step keeps the invariant, however requests, refusals and ends of
\* notifications follow each other.
THEOREM ResourcesInductive == ResourcesSpec => []ResourcesInv
<1>1. ResourcesInv /\ [ResourcesNext]_resources => ResourcesInv'
  <2> SUFFICES ASSUME ResourcesInv, [ResourcesNext]_resources PROVE ResourcesInv'
    OBVIOUS
  <2>1. CASE UNCHANGED resources
    <3>1. /\ live' = live /\ held' = held /\ ptr' = ptr /\ custom' = custom
          /\ spoilt' = spoilt
      BY <2>1 DEF resources
    <3>2. \A n \in Owner, k \in Kind : Owns(n, k)' <=> Owns(n, k)
      BY <3>1 DEF Owns
    <3>3. ResourcesTypeOK' /\ SharedStay' /\ ClosedInv'
      BY <3>1 DEF ResourcesInv, ResourcesTypeOK, SharedStay, SharedThings, ClosedInv,
                  Kind, Pointers, Defaults, Shared
    <3>4. held \in SUBSET Owner /\ OwnKind /\ OpenInv /\ Apart /\ NothingLost
      BY DEF ResourcesInv, ResourcesTypeOK
    <3>5. OwnKind'
      BY <3>1, <3>2, <3>4 DEF OwnKind, Own
    <3>6. OpenInv'
      BY <3>1, <3>2, <3>4 DEF OpenInv, Own, Shared
    <3>7. Apart'
      BY <3>1, <3>2, <3>4 DEF Apart
    <3>8. NothingLost'
      BY <3>1, <3>2, <3>4 DEF NothingLost
    <3>9. QED
      BY <3>3, <3>5, <3>6, <3>7, <3>8 DEF ResourcesInv
  <2>2. ASSUME NEW n \in Owner, NEW fields \in SUBSET Fields,
               NEW ind \in {"absent", "custom", "named"}, NOT(n, fields, ind)
        PROVE  ResourcesInv'
    <3>1. InjectedIn(n, fields, ind)
      BY <2>2 DEF NOT, InjectedIn, Injected, Given, IndicatorKinds
    <3>2. QED
      BY <3>1, InjectStep
  <2>3. ASSUME NEW n \in Owner, NEW fields \in SUBSET Fields,
               NEW ind \in {"absent", "custom", "named"}, MOD(n, fields, ind)
        PROVE  ResourcesInv'
    <3>1. InjectedIn(n, fields, ind)
      BY <2>3 DEF MOD, InjectedIn, Injected
    <3>2. QED
      BY <3>1, InjectStep
  <2>4. ASSUME NEW n \in Owner, RefuseNOT(n) PROVE ResourcesInv'
    BY <2>1, <2>4 DEF RefuseNOT
  <2>5. QED
    BY <2>1, <2>2, <2>3, <2>4, RefuseStep, CloseStep DEF ResourcesNext
<1>2. QED
  BY ResourcesInvInit, <1>1, PTL DEF ResourcesSpec

\* _inject_from_msg and notification_close: nothing is freed twice, and what
\* is shared never is.
THEOREM FreedOnce == ResourcesSpec => []OneOwner
<1>1. ResourcesInv => OneOwner
  <2> SUFFICES ASSUME ResourcesInv, ~spoilt, NEW n \in held, NEW m \in held,
                      NEW j \in Kind, NEW k \in Kind, Owns(n, j)
               PROVE  /\ ptr[n][j] \notin SharedThings
                      /\ Owns(m, k) /\ <<n, j>> # <<m, k>> => ptr[n][j] # ptr[m][k]
    BY DEF OneOwner, ResourcesInv, SharedStay
  <2>1. ptr[n][j] \in Own(j) /\ (Owns(m, k) => ptr[m][k] \in Own(k))
    BY DEF ResourcesInv, OpenInv
  <2>2. ptr[n][j] \notin SharedThings
    BY <2>1, ResourcesAssumption DEF Own, SharedThings, Shared, ResourcesInv
  <2>3. ASSUME Owns(m, k), <<n, j>> # <<m, k>> PROVE ptr[n][j] # ptr[m][k]
    <3>1. CASE j = k
      BY <2>3, <3>1 DEF ResourcesInv, Apart
    <3>2. CASE j # k
      BY <2>1, <2>3, <3>2 DEF Own
    <3>3. QED
      BY <3>1, <3>2
  <2>4. QED
    BY <2>2, <2>3
<1>2. QED
  BY <1>1, ResourcesInductive, PTL

\* The same code: what no open notification owns has been given back.
THEOREM AllGivenBack == ResourcesSpec => []NoLeak
<1>1. ResourcesInv => NoLeak
  <2> SUFFICES ASSUME ResourcesInv, ~spoilt
               PROVE  live = SharedThings \cup UNION {Freed(n, Kind) : n \in held}
    BY DEF NoLeak
  <2>1. ASSUME NEW x \in live, x \notin SharedThings
        PROVE  x \in UNION {Freed(n, Kind) : n \in held}
    BY <2>1 DEF ResourcesInv, NothingLost, Freed
  <2>2. ASSUME NEW n \in held, NEW x \in Freed(n, Kind) PROVE x \in live
    BY <2>2 DEF ResourcesInv, OpenInv, Freed
  <2>3. QED
    BY <2>1, <2>2 DEF ResourcesInv, SharedStay
<1>2. QED
  BY <1>1, ResourcesInductive, PTL

\* indicator_draw and the drawing of the text: what they read is there, until
\* a MOD is refused.
THEOREM ReadsWhatIsThere == ResourcesSpec => []DrawableUnlessRefused
<1>1. ResourcesInv => DrawableUnlessRefused
  BY DEF ResourcesInv, OpenInv, DrawableUnlessRefused, Drawable
<1>2. QED
  BY <1>1, ResourcesInductive, PTL

===============================================================================
