---------------------------- MODULE IndicatorStr ----------------------------
(***************************************************************************)
(* Indicator strings, and the functions of indicator.c that walk over one. *)
(* The first byte of a string is the delimiter: |frame|frame|...|hints, or *)
(* ||name||hints for an indicator of the configuration.  Four functions    *)
(* walk the string, each in its own way: the two that validate it, the one *)
(* that counts the frames, and the one that steps from a frame to the next *)
(* (NextFrame, in Indicator).                                              *)
(*                                                                         *)
(* A string is a sequence of bytes, and a position after its last byte is  *)
(* that of the NUL.  Of the two-byte characters, "L" and "C" are the first *)
(* and the second byte; any other byte is a character.                     *)
(***************************************************************************)
EXTENDS Integers, SequencesExt, Order

VARIABLE indicators   \* Config.indicators: [name, str]

-----------------------------------------------------------------------------
(***************************************************************************)
(* The C library's string functions; 0 is NULL.                            *)
(***************************************************************************)

From(s, p) == SubSeq(s, p, Len(s))

strchr(s, p, c) ==
  LET at == SelectInSeq(From(s, p), LAMBDA b : b = c)
  IN IF at = 0 THEN 0 ELSE p + at - 1

strstr(s, p, c) ==
  LET hits == {q \in p..Len(s) - Len(c) + 1 : SubSeq(s, q, q + Len(c) - 1) = c}
  IN IF hits = {} THEN 0 ELSE Min(hits)

\* mbtowc: the bytes of the character at p, 0 at the NUL, -1 if there is none.
mbtowc(s, p) ==
  IF p > Len(s) THEN 0
  ELSE CASE s[p] = "C"  -> -1
         [] s[p] = "L"  -> IF p < Len(s) /\ s[p + 1] = "C" THEN 2 ELSE -1
         [] OTHER       -> 1

-----------------------------------------------------------------------------
\* indicator_validate_cust_str: at least one frame, and none that is empty.
Walk(s) ==
  LET walk[beg \in 1..Len(s)] ==
        LET end == strchr(s, beg + 1, s[1])
        IN IF end = 0 THEN beg # 1 ELSE end # beg + 1 /\ walk[end]
  IN walk

ValidateCustStr(s) == s # <<>> /\ Walk(s)[1]

\* Where the delimiter of a name string is doubled for the second time.
NameEnd(s) == strstr(s, 3, <<s[1], s[1]>>)

\* indicator_validate_name_str
ValidateNameStr(s) ==
  /\ Len(s) >= 2 /\ s[2] = s[1]
  /\ NameEnd(s) > 3

\* indicator_resolve_name: the first indicator of that name, and the hints
\* that follow the name; <<>> is NULL.
NamedBy(s) == SubSeq(s, 3, NameEnd(s) - 1)

ResolveName(s) ==
  LET i == SelectInSeq(indicators, LAMBDA e : e.name = NamedBy(s))
  IN IF i = 0 THEN <<>> ELSE indicators[i].str

NameHints(s) == From(s, NameEnd(s) + 2)

\* Fault of the loop in indicator_init_str: it goes on byte by byte.
LoopBytes(s) ==
  LET loop[p \in 1..Len(s) + 1] ==
        IF mbtowc(s, p) <= 0 THEN [frames |-> -1, end |-> p]
        ELSE IF p = Len(s) \/ s[p + 1] # s[1] THEN loop[p + 1]
        ELSE IF strchr(s, p + 2, s[1]) = 0 THEN [frames |-> 1, end |-> p + 2]
        ELSE [loop[p + 2] EXCEPT !.frames = IF @ = -1 THEN -1 ELSE @ + 1]
  IN loop

\* The loop of indicator_init_str, from p on: character by character, to the
\* delimiter after which there is no other.  -1 frames: the assertion on
\* mbtowc fails.
Loop(s) ==
  LET loop[p \in 1..Len(s) + 1] ==
        LET q == p + mbtowc(s, p) IN
        IF mbtowc(s, p) <= 0 THEN [frames |-> -1, end |-> p]
        ELSE IF q > Len(s) \/ s[q] # s[1] THEN loop[q]
        ELSE IF strchr(s, q + 1, s[1]) = 0 THEN [frames |-> 1, end |-> q + 1]
        ELSE [loop[q + 1] EXCEPT !.frames = IF @ = -1 THEN -1 ELSE @ + 1]
  IN loop

CountFrames(s) == Loop(s)[2]

-----------------------------------------------------------------------------
\* The frames of a string as docs/indicator.md has them: what is between two
\* delimiters that follow each other.
DelimiterSet(s) == {p \in 1..Len(s) : s[p] = s[1]}
Delimiters(s)   == InOrder(DelimiterSet(s))

Frames(s) == LET at == Delimiters(s)
             IN [i \in 1..Len(at) - 1 |-> SubSeq(s, at[i] + 1, at[i + 1] - 1)]

\* UTF-8, beginning with a character of one byte; it may break off within a
\* character.
WellFormed(s) ==
  \A p \in 1..Len(s) :
    /\ s[p] = "L" => p # 1 /\ (p = Len(s) \/ s[p + 1] = "C")
    /\ s[p] = "C" => p # 1 /\ s[p - 1] = "L"

=============================================================================
