------------------------------ MODULE ConfigFile ------------------------------
(***************************************************************************)
(* The configuration file (config.c, and the number parsers of utils.c).   *)
(* It is read line by line, before the threads start; a line is trimmed,   *)
(* and is a section, an entry, or a mistake that is reported and skipped.  *)
(* A line is a sequence of tokens: " ", the marks the code looks for, and  *)
(* words.                                                                  *)
(***************************************************************************)
EXTENDS IndicatorStr

CONSTANTS
  Lines,     \* the lines files are made of
  MaxRead,   \* what fgets reads at most of one line
  MaxLines,  \* bound: lines of a file
  Decimal,   \* what strtoul and strtod make of words: "ul", "dbl" -> word
             \* -> number.  A sign is part of the word.
  Hex,       \* what strtoul makes, in base 16, of the six characters of a color
  MaxU16,    \* UINT16_MAX
  Meant,     \* what the values of a field mean: key -> value -> meaning
  NoLine

ASSUME ConfigAssumption ==
  MaxRead \in Nat \ {0} /\ MaxLines \in Nat /\ \A l \in Lines : l \in Seq(STRING)

\* The fields of Config, and how their values are written.
Type == [origin |-> "origin", x_padding |-> "u16", y_padding |-> "u16",
         x_offset |-> "u16", y_offset |-> "u16", spacing |-> "u16",
         border_size |-> "u16", gap_size |-> "u16", indicator_size |-> "dbl",
         font |-> "str", timeout |-> "ul", bg_color |-> "color",
         text_color |-> "color", indicator_color |-> "color",
         border_color |-> "color"]
Origins == {"top-right", "top-left", "bottom-right", "bottom-left"}

VARIABLES
  count,    \* lines begun so far
  line,     \* what fgets has read, or NoLine
  left,     \* the rest of the line, which fgets reads next
  section,
  cfg,      \* the fields that have been set
  alive     \* no assertion has failed

file == <<count, line, left, section, cfg, indicators, alive>>

ReaderInit ==
  /\ count = 0 /\ line = NoLine /\ left = <<>>
  /\ section = "NONE"
  /\ cfg = <<>>
  /\ alive = TRUE

FileInit == ReaderInit /\ indicators = <<>>

-----------------------------------------------------------------------------
Find(s, c) == SelectInSeq(s, LAMBDA t : t = c)

\* _trim
Trim(s) == LET words == {i \in DOMAIN s : s[i] # " "}
           IN IF words = {} THEN <<>> ELSE SubSeq(s, Min(words), Max(words))

start == Trim(line)
At(mark) == start # <<>> /\ start[1] = mark

Key == Trim(SubSeq(start, 1, Find(start, "=") - 1))

\* What is behind the '=', and, if that is quoted, what is in the quotes.
Behind == Trim(From(start, Find(start, "=") + 1))
Quoted == Behind[1] = "\""

Value == IF Quoted THEN SubSeq(Behind, 2, Find(From(Behind, 2), "\"")) ELSE Behind

IsEntry ==
  /\ Find(start, "=") # 0 /\ Key # <<>> /\ Behind # <<>>
  /\ Quoted => Find(From(Behind, 2), "\"") # 0

\* strtoul and strtod skip the spaces in front of a number, which only quotes
\* can keep, but not those behind it.
Unpadded(v) == LET words == {i \in DOMAIN v : v[i] # " "}
               IN IF words = {} THEN v ELSE From(v, Min(words))

IsNumber(parser, v) ==
  Len(Unpadded(v)) = 1 /\ Unpadded(v)[1] \in DOMAIN Decimal[parser]

NumberOf(parser, v) == Decimal[parser][Unpadded(v)[1]]

IsColor(v) == v # <<>> /\ v[1] = "#" /\ From(v, 2) \in DOMAIN Hex

\* Fault: utils_parse_u16 does not look whether the number fits.
ValidUnranged(type, v) ==
  CASE type = "dbl"           -> IsNumber("dbl", v)
    [] type \in {"ul", "u16"} -> IsNumber("ul", v)
    [] type = "color"  -> IsColor(v)
    [] type = "origin" -> Len(v) = 1 /\ v[1] \in Origins
    [] type = "str"    -> TRUE

\* _parse_field_*, _parse_color and _parse_origin accept the value
Valid(type, v) ==
  CASE type \in {"ul", "dbl"} -> IsNumber(type, v)
    [] type = "u16"    -> IsNumber("ul", v) /\ NumberOf("ul", v) <= MaxU16
    [] type = "color"  -> IsColor(v)
    [] type = "origin" -> Len(v) = 1 /\ v[1] \in Origins
    [] type = "str"    -> TRUE

Meaning(type, v) ==
  CASE type = "dbl"           -> NumberOf("dbl", v)
    [] type \in {"ul", "u16"} -> NumberOf("ul", v)
    [] type = "color"         -> Hex[From(v, 2)]
    [] OTHER                  -> v

-----------------------------------------------------------------------------
ReadLine ==
  /\ alive /\ line = NoLine
  /\ \E l \in IF left # <<>> THEN {left} ELSE IF count < MaxLines THEN Lines ELSE {} :
       /\ line' = SubSeq(l, 1, Min({MaxRead, Len(l)}))
       /\ left' = From(l, MaxRead + 1)
  /\ count' = IF left # <<>> THEN count ELSE count + 1
  /\ UNCHANGED <<section, cfg, indicators, alive>>

HasLine == alive /\ line # NoLine /\ line' = NoLine /\ UNCHANGED <<count, left>>

\* Empty lines and comments; a section without ']'; an entry without '=',
\* key, value or closing quote.
SkipLine ==
  /\ HasLine
  /\ \/ start = <<>> \/ At("#")
     \/ At("[") /\ Find(start, "]") = 0
     \/ ~At("[") /\ ~IsEntry
  /\ UNCHANGED <<section, cfg, indicators, alive>>

\* The names of sections are compared as prefixes.
Header ==
  /\ HasLine /\ At("[") /\ Find(start, "]") # 0
  /\ section' = CASE start[2] = "global"     -> "GLOBAL"
                  [] start[2] = "indicators" -> "INDICATORS"
                  [] OTHER                   -> "UNKNOWN"
  /\ UNCHANGED <<cfg, indicators, alive>>

Entry(in) == HasLine /\ ~At("[") /\ ~At("#") /\ IsEntry /\ section \in in
             /\ UNCHANGED section

\* An entry before the first section, or in one that is not known.
IgnoredEntry == Entry({"NONE", "UNKNOWN"}) /\ UNCHANGED <<cfg, indicators, alive>>

IsField == Len(Key) = 1 /\ Key[1] \in DOMAIN Type

\* utils_parse_ul and utils_parse_dbl assert that there is a character.
NothingToParse == IsField /\ Type[Key[1]] \in {"ul", "u16", "dbl"} /\ Value = <<>>

Setting ==
  /\ Entry({"GLOBAL"}) /\ IsField /\ ~NothingToParse
  /\ cfg' = IF Valid(Type[Key[1]], Value)
            THEN [k \in DOMAIN cfg \cup {Key[1]} |->
                    IF k = Key[1] THEN Meaning(Type[k], Value) ELSE cfg[k]]
            ELSE cfg
  /\ UNCHANGED <<indicators, alive>>

UnknownField == Entry({"GLOBAL"}) /\ ~IsField /\ UNCHANGED <<cfg, indicators, alive>>

AssertionFails ==
  /\ Entry({"GLOBAL"}) /\ NothingToParse
  /\ alive' = FALSE
  /\ UNCHANGED <<cfg, indicators>>

\* Fault: malformed indicator strings are kept.
KeepIndicator == indicators' = Append(indicators, [name |-> Key, str |-> Value])

AddIndicator ==
  indicators' = IF ValidateCustStr(Value)
                THEN Append(indicators, [name |-> Key, str |-> Value])
                ELSE indicators

IndicatorEntry ==
  Entry({"INDICATORS"}) /\ AddIndicator /\ UNCHANGED <<cfg, alive>>

FileNext == \/ ReadLine \/ SkipLine \/ Header \/ IgnoredEntry
            \/ Setting \/ UnknownField \/ AssertionFails \/ IndicatorEntry

FileSpec == FileInit /\ [][FileNext]_file

-----------------------------------------------------------------------------
\* The ways to write one entry: spaces around the key and the value, quotes
\* around the value, and anything behind the closing quote.
Spaces == {<<>>, <<" ">>}
Written(key, v) ==
  {a \o <<key>> \o b \o <<"=">> \o c \o v \o d :
     a, b, c, d \in IF v = <<>> THEN {} ELSE Spaces}
  \cup {a \o <<key>> \o b \o <<"=">> \o c \o <<"\"">> \o v \o <<"\"">> \o d :
          a, b, c \in Spaces, d \in Spaces \cup {<<" ", "x">>}}

\* The values that a line gives to a field.
GivenBy(l, key) ==
  {v \in IF key \in DOMAIN Meant THEN DOMAIN Meant[key] ELSE {} : l \in Written(key, v)}

\* In the section [global] an entry gives its field its value, in whatever
\* way it is written, and nothing else changes a field: neither a mistake, nor
\* a number that does not fit, which leave an earlier value in place, nor an
\* entry of another section.
EntriesSetFields ==
  [][\A key \in DOMAIN Type :
       IF line # NoLine /\ section = "GLOBAL" /\ GivenBy(line, key) # {}
       THEN \E v \in GivenBy(line, key) :
              key \in DOMAIN cfg' /\ cfg'[key] = Meant[key][v]
       ELSE /\ key \in DOMAIN cfg' <=> key \in DOMAIN cfg
            /\ key \in DOMAIN cfg => cfg'[key] = cfg[key]]_file

\* Every indicator that a client may name has frames to show; it is not
\* looked at again when it is used (indicator_init_str).
IndicatorsHaveFrames ==
  \A i \in DOMAIN indicators :
    LET s == indicators[i].str IN
    /\ indicators[i].name # <<>> /\ s # <<>>
    /\ Frames(s) # <<>> /\ <<>> \notin Range(Frames(s))

=============================================================================
