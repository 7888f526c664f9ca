------------------------------ MODULE Indicator ------------------------------
(***************************************************************************)
(* The indicator of a notification (indicator.c): its string is set once,  *)
(* and then it steps from frame to frame, with pointers into the string.   *)
(***************************************************************************)
EXTENDS IndicatorStr

CONSTANT
  Strings      \* the indicator strings clients send

ASSUME IndicatorAssumption == \A s \in Strings : s \in Seq(STRING) /\ WellFormed(s)

VARIABLES
  ind,         \* Indicator: str, frame, frame_size, frame_count; or Unset
  hints        \* the Fontconfig pattern indicator_init_str parses

indicator == <<ind, hints>>

Unset == [str |-> <<>>, frame |-> 0, frame_size |-> 0, frame_count |-> 0]

IndicatorInit == ind = Unset /\ hints = <<>>

-----------------------------------------------------------------------------
FrameAt(s, p, count) ==
  [str |-> s, frame |-> p, frame_size |-> strchr(s, p, s[1]) - p, frame_count |-> count]

\* Those after a name take the place of the indicator's own, if there are any.
Hints(own, override) == IF override = <<>> THEN own ELSE override

SetStr(s, override) ==
  LET count == CountFrames(s) IN
  /\ ind' = FrameAt(s, 2, count.frames)
  /\ hints' = Hints(From(s, count.end), override)

\* indicator_init_str, with a string of the message's own
InitCustom(s) == ind = Unset /\ ValidateCustStr(s) /\ SetStr(s, <<>>)

\* ... and with the name of an indicator of the configuration.
InitNamed(s) ==
  /\ ind = Unset /\ ~ValidateCustStr(s) /\ ValidateNameStr(s)
  /\ ResolveName(s) # <<>>
  /\ SetStr(ResolveName(s), NameHints(s))

\* The others are refused; the notification has no indicator then.
Refuse(s) ==
  /\ ind = Unset /\ ~ValidateCustStr(s)
  /\ ValidateNameStr(s) => ResolveName(s) = <<>>
  /\ UNCHANGED indicator

\* indicator_free_str
FreeStr == ind' = Unset /\ hints' = <<>>

\* Fault of indicator_step_frame: what follows the last delimiter counts as
\* a frame, unless it is empty.
StepToHints(s, p) == LET next == strchr(s, p, s[1]) + 1
                     IN IF next > Len(s) THEN 2 ELSE next

NextFrame(s, p) == LET next == strchr(s, p, s[1]) + 1
                   IN IF strchr(s, next, s[1]) = 0 THEN 2 ELSE next

\* indicator_step_frame
StepFrame ==
  /\ ind # Unset
  /\ ind' = FrameAt(ind.str, NextFrame(ind.str, ind.frame), ind.frame_count)
  /\ UNCHANGED hints

IndicatorNext ==
  \/ \E s \in Strings : InitCustom(s) \/ InitNamed(s) \/ Refuse(s)
  \/ FreeStr \/ StepFrame

IndicatorSpec == IndicatorInit /\ [][IndicatorNext]_indicator

-----------------------------------------------------------------------------
\* The string is taken apart as it is written.  What indicator_init_str counts,
\* character by character, are the frames that the bytes have, and mbtowc
\* always finds a character, because a delimiter is still ahead.  The bytes
\* drawn are exactly one frame.  The hints, which go to Fontconfig, are what no
\* frame is part of, or what the message has after the name.
ReadAsWritten ==
  ind # Unset =>
    /\ ind.frame_count = Len(Frames(ind.str))
    /\ SubSeq(ind.str, ind.frame, ind.frame + ind.frame_size - 1)
         \in Range(Frames(ind.str))
    /\ \/ hints = From(ind.str, Last(Delimiters(ind.str)) + 1)
       \/ hints # <<>> /\ \E s \in Strings : \E p \in 4..Len(s) - 1 :
                            s[p] = s[1] /\ s[p + 1] = s[1] /\ hints = From(s, p + 2)

\* Every valid string is shown frame by frame, in order and round again: the
\* pointers into the string implement FrameCycle.
Cycle == INSTANCE FrameCycle WITH
  frames <- IF ind = Unset THEN <<>> ELSE Frames(ind.str),
  pos    <- IF ind = Unset THEN 0 ELSE
            SelectInSeq(Delimiters(ind.str), LAMBDA p : p = ind.frame - 1)

ImplementsCycle == Cycle!Spec

=============================================================================
