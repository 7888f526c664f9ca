--------------------------------- MODULE MCText ---------------------------------
(***************************************************************************)
(* Instances for TLC of what reads and writes text: the messages, the      *)
(* indicator strings and the configuration file.  A behaviour is one of    *)
(* messages, of indicator strings, or of a file and the indicators in it.  *)
(***************************************************************************)
EXTENDS HfMessage, Indicator, ConfigFile, TLC

-----------------------------------------------------------------------------
MCWords == STRING

\* tfg is like ifg, and only in a request of its own here.
MCValues == [txt |-> {<<"text">>}, ind |-> {<<"indicator">>}, tfn |-> {<<"font">>},
             ifg |-> {0, 255}, tfg |-> {}, tim |-> {-1, 10}, pst |-> BOOLEAN]

Text == <<"txt", <<"text">>>>
Ind  == <<"ind", <<"indicator">>>>
NOT(lines) == [header |-> "NOT", lines |-> <<Text, Ind>> \o lines]

\* Requests that are well formed, and requests that are not, each for one
\* reason.
MCRawRequests ==
  {NOT(<<<<"ifg", <<"2", "5", "5">>>>, <<"tfg", <<"1", "6">>>>>>),
   NOT(<<<<"tim", <<"1">>>>, <<"tim", <<"0", "2">>>>>>),
   NOT(<<<<"tim", <<"9", "9", "9">>>>>>),
   NOT(<<<<"ifg", <<"f", "f">>>>>>),
   NOT(<<<<"pst", <<"1">>>>>>),
   NOT(<<<<"nid", <<"1">>>>>>),
   NOT(<<<<"xyz", <<"1">>>>>>),
   NOT(<<<<"tfn", <<>>>>>>),
   NOT(<<<<"tim", <<"-", "4">>>>>>),
   NOT(<<<<"tim", <<"-">>>>>>),
   [header |-> "NOT", lines |-> <<Text>>],
   [header |-> "MOD", lines |-> <<Text>>],
   [header |-> "DBG", lines |-> <<Text>>],
   [header |-> "NTF", lines |-> <<Text, Ind>>]}

-----------------------------------------------------------------------------
\* Every string of at most seven characters over a small alphabet.
Chars == {<<"|">>, <<"a">>, <<"L", "C">>}

OwnStrings ==
  {<<>>} \cup {FlattenSeq(s) : s \in {t \in BoundedSeq(Chars, 7) :
                                        t # <<>> /\ Head(t) # <<"L", "C">>}}

\* Two indicators of one name: the first one counts.
Known ==
  <<[name |-> <<"a">>, str |-> <<"|", "L", "C", "|", "a", "|", "L", "C">>],
    [name |-> <<"L", "C">>, str |-> <<"a", "|", "a">>],
    [name |-> <<"a">>, str |-> <<"|", "a", "|">>]>>

\* The indicator of the configuration file, without and with hints.
Used == {<<"|", "|", "a", "|", "|">>, <<"|", "|", "a", "|", "|", "a">>}

-----------------------------------------------------------------------------
\* Stands for ULONG_MAX: strtoul takes a sign, and negates what follows.
MaxUnsigned == 2147483647

MCDecimal ==
  [ul |-> "5" :> 5 @@ "7" :> 7 @@ "+7" :> 7 @@ "-5" :> MaxUnsigned - 4
          @@ "70000" :> 70000,
   dbl |-> "5" :> 5 @@ "7" :> 7 @@ "+7" :> 7 @@ "-5" :> -5 @@ "70000" :> 70000]
MCHex == <<"FFFFFF">> :> 16777215 @@ <<" ", "FFFFF">> :> 1048575

MCMeant ==
  [timeout |-> <<"5">> :> 5 @@ <<" ", "5">> :> 5 @@ <<"7">> :> 7
               @@ <<"-5">> :> MaxUnsigned - 4,
   gap_size |-> <<"+7">> :> 7,
   font |-> <<>> :> <<>>,
   bg_color |-> <<"#", "FFFFFF">> :> 16777215 @@ <<"#", " ", "FFFFF">> :> 1048575,
   origin |-> <<"top-left">> :> <<"top-left">>,
   indicator_size |-> <<"-5">> :> -5]

\* An entry in every way to write it, entries of each type, mistakes,
\* sections, and indicators: good, quoted, without a frame, malformed, and
\* longer than what is read at once.  The rest of a long comment is an entry.
MCLines ==
  {a \o <<"timeout">> \o b \o <<"=">> \o c \o q \o <<"5">> \o q \o d :
     a, b, c, d \in Spaces, q \in {<<>>, <<"\"">>}}
  \cup
  {<<"timeout", " ", "=", " ", "7">>, <<"timeout", "=", "\"", "5", "\"", " ", "x">>,
   <<"timeout", "=", "x">>, <<"timeout", "=">>, <<"timeout", "=", "\"", "\"">>,
   <<"timeout", "=", "\"", " ", "5", "\"">>, <<"timeout", "=", "\"", "5", " ", "\"">>,
   <<"timeout", "=", "\"", " ", "\"">>, <<"timeout", "=", "-5">>, <<"gap_size", "=", "-5">>,
   <<"timeout", "=", "\"", "5">>, <<"timeout", "5">>, <<"timeout", "=", "5", "=", "7">>,
   <<"=", "5">>, <<"timeot", "=", "5">>, <<" ", " ">>, <<"#", "timeout", "=", "5">>,
   <<"gap_size", "=", "+7">>, <<"gap_size", "=", "70000">>,
   <<"font", "=", "\"", "\"">>, <<"bg_color", "=", "\"", "#", "FFFFFF", "\"">>,
   <<"bg_color", "=", "FFFFFF">>, <<"bg_color", "=", "\"", "#", " ", "FFFFF", "\"">>,
   <<"origin", "=", "top-left">>,
   <<"origin", "=", "left">>, <<"indicator_size", "=", "-5">>,
   <<"#", " ", "x", " ", "x", " ", "x", " ", "x", " ", "timeout", "=", "7">>}
  \cup
  {<<"[", "global", "]">>, <<"[", "global", " ", "x", "]">>,
   <<" ", "[", "indicators", "]", " ">>, <<"[", "bar", "]">>, <<"[", "global">>}
  \cup
  {<<"a", "=", "|", "x", "|">>, <<"a", "=", "\"", "|", "x", "|", "x", "|", "\"">>,
   <<"a", "=", "|", "|">>, <<"a", "=", "x">>,
   <<"a", "=", "|", "x", "|", "x", "|", "x", "|", "x", "|">>}

-----------------------------------------------------------------------------
VARIABLE about

vars == <<about, messages, file, indicator>>

Init ==
  /\ about \in {"messages", "indicators", "file"}
  /\ MessagesInit /\ IndicatorInit /\ ReaderInit
  /\ indicators = IF about = "indicators" THEN Known ELSE <<>>

\* What indicators a file has, messages may name when it has been read.
Next ==
  /\ UNCHANGED about
  /\ \/ about = "messages" /\ MessagesNext /\ UNCHANGED <<file, indicator>>
     \/ about = "indicators" /\ IndicatorNext /\ UNCHANGED <<messages, file>>
     \/ /\ about = "file" /\ ind = Unset
        /\ FileNext /\ UNCHANGED <<messages, indicator>>
     \/ /\ about = "file" /\ line = NoLine /\ left = <<>>
        /\ StepFrame \/ FreeStr \/ \E s \in Used : InitNamed(s)
        /\ UNCHANGED <<messages, file>>

Spec == Init /\ [][Next]_vars

=============================================================================
