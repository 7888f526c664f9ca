------------------------------ MODULE HfMessage ------------------------------
(***************************************************************************)
(* What messages mean: the schema of hf_defs.h, building and parsing by it *)
(* (hf.h), the attributes of the client library (client.c), and the answer *)
(* of the daemon.  HfStream has the bytes of a message and their way; here *)
(* a message is its lines, and a line a key and a text.  A text is a       *)
(* sequence of symbols: digits, a minus sign, or a word.  It is empty if   *)
(* there is no colon, or nothing after it.                                 *)
(***************************************************************************)
EXTENDS Integers, SequencesExt, Order

CONSTANTS
  Words,        \* headers, keys, and the symbols of texts
  Values,       \* what callers of the library may set a field to: key -> values
  Ids,          \* window ids, not 0
  RawRequests,  \* messages that come from other clients than the library
  MaxInt,       \* INT64_MAX
  NULL

(***************************************************************************)
(* HF_FIELDS and HF_HEADERS.                                               *)
(***************************************************************************)
HF_FIELDS == <<"txt", "ind", "tfn", "ifg", "tfg", "tim", "nid", "pst">>
StringFields  == {"txt", "ind", "tfn"}
IntegerFields == {"ifg", "tfg", "tim", "nid"}

Attributes == ToSet(HF_FIELDS) \ {"nid"}
ValidFields == [NOT |-> Attributes, MOD |-> Attributes \cup {"nid"},
                DBG |-> {}, OK |-> {"nid"}, ERR |-> {}]

\* A message, its mask being the domain of its fields.
Message(h, f) == [header |-> h, fields |-> f]
NoFields == <<>>

Refused == [ok |-> FALSE, id |-> 0]

\* What is sent.
Sent == [header : Words, lines : Seq(Words \X Seq(Words))]

INT64 == -MaxInt - 1 .. MaxInt
FieldValues(k) == CASE k \in StringFields  -> Seq(Words) \ {<<>>}
                    [] k \in IntegerFields -> INT64
                    [] OTHER               -> BOOLEAN

Digits == <<"0", "1", "2", "3", "4", "5", "6", "7", "8", "9">>

\* The values a caller sets are of their type; a string that is empty, or has
\* a line end in it, could not be sent.
ASSUME HfMessageAssumption ==
  /\ ToSet(HF_FIELDS) \cup DOMAIN ValidFields \subseteq Words
  /\ ToSet(Digits) \cup {"-", "true", "false"} \subseteq Words
  /\ MaxInt \in Nat
  /\ Ids \subseteq 1..MaxInt
  /\ \A k \in Attributes : Values[k] \subseteq FieldValues(k)
  /\ RawRequests \subseteq Sent
  /\ NULL \notin Sent

VARIABLES
  attrs,    \* UnotAttrs of a caller: the fields that are set
  request,  \* the lines the daemon receives, or NULL
  reply,    \* the lines of its answer, or NULL
  asked,    \* history: the message the caller of the library meant, or NULL
  handled,  \* history: the message that command_handle was given, or NULL
  done,     \* history: whether it has done it, and the id of what it has opened
  result    \* what the last call of the library returned

messages == <<attrs, request, reply, asked, handled, done, result>>

Idle == request = NULL /\ reply = NULL

MessagesInit ==
  /\ attrs = NoFields
  /\ request = NULL /\ reply = NULL
  /\ asked = NULL /\ handled = NULL /\ done = Refused
  /\ result = 0

-----------------------------------------------------------------------------
(***************************************************************************)
(* Texts of values: PRId64 and strtoll, and the words of a BOOL.           *)
(***************************************************************************)
DigitValue(d) == SelectInSeq(Digits, LAMBDA e : e = d) - 1

Numeral(n) ==
  LET text[k \in 0..n] == IF k < 10 THEN <<Digits[k + 1]>>
                          ELSE Append(text[k \div 10], Digits[(k % 10) + 1])
  IN text

IntToText(n) == IF n < 0 THEN <<"-">> \o Numeral(-n)[-n] ELSE Numeral(n)[n]

Number(text) ==
  LET value[i \in 0..Len(text)] == IF i = 0 THEN 0
                                   ELSE 10 * value[i - 1] + DigitValue(text[i])
  IN value

Negative(text) == text # <<>> /\ text[1] = "-"
Magnitude(text) == IF Negative(text) THEN Tail(text) ELSE text

TextToInt(text) == LET m == Magnitude(text)
                       n == Number(m)[Len(m)]
                   IN IF Negative(text) THEN -n ELSE n

IsInt(text) == /\ Magnitude(text) # <<>>
               /\ ToSet(Magnitude(text)) \subseteq ToSet(Digits)
               /\ TextToInt(text) \in INT64

Write(k, v) == CASE k \in StringFields  -> v
                 [] k \in IntegerFields -> IntToText(v)
                 [] OTHER           -> IF v THEN <<"true">> ELSE <<"false">>

Readable(k, text) == CASE k \in StringFields  -> TRUE
                       [] k \in IntegerFields -> IsInt(text)
                       [] OTHER           -> text \in {<<"true">>, <<"false">>}

Read(k, text) == CASE k \in StringFields  -> text
                   [] k \in IntegerFields -> TextToInt(text)
                   [] OTHER           -> text = <<"true">>

-----------------------------------------------------------------------------
\* The lines of the fields in ks, in the order of HF_FIELDS.
LinesOf(m, ks) ==
  LET at  == InOrder({n \in DOMAIN HF_FIELDS : HF_FIELDS[n] \in ks})
      key == [i \in DOMAIN at |-> HF_FIELDS[at[i]]]
  IN [i \in DOMAIN at |-> <<key[i], Write(key[i], m.fields[key[i]])>>]

\* Fault: fields go out whatever the header.
BuildAll(m) == [header |-> m.header, lines |-> LinesOf(m, DOMAIN m.fields)]

\* hf_message_build: the fields that are set and valid for the header.
Build(m) == [header |-> m.header,
             lines  |-> LinesOf(m, ValidFields[m.header] \cap DOMAIN m.fields)]

\* hf_parse_field, the header's mask and the conversion
Accepts(h, line) ==
  /\ line[2] # <<>>
  /\ line[1] \in ValidFields[h]
  /\ Readable(line[1], line[2])

\* Fault: lines that are not understood are passed over.
ParsesAny(w) == w.header \in DOMAIN ValidFields

\* hf_message_parse returns true
Parses(w) == /\ w.header \in DOMAIN ValidFields
             /\ \A i \in DOMAIN w.lines : Accepts(w.header, w.lines[i])

\* Of two lines with one key the later counts.
Counting(w, k) == SelectLastInSeq(w.lines, LAMBDA l : l[1] = k)

Sets(w, k) == Counting(w, k) # 0 /\ Accepts(w.header, w.lines[Counting(w, k)])

\* ... and this is the message.
Parsed(w) == Message(w.header, [k \in {j \in ToSet(HF_FIELDS) : Sets(w, j)} |->
                                  Read(k, w.lines[Counting(w, k)][2])])

-----------------------------------------------------------------------------
(***************************************************************************)
(* The client library.  A call is one exchange on the connection.          *)
(***************************************************************************)
SetAttr(k) ==
  /\ Idle
  /\ \E v \in Values[k] : attrs' = [j \in DOMAIN attrs \cup {k} |->
                                      IF j = k THEN v ELSE attrs[j]]
  /\ UNCHANGED <<request, reply, asked, handled, done, result>>

ClearAttrs(ks) ==
  /\ Idle /\ attrs' = [j \in DOMAIN attrs \ ks |-> attrs[j]]
  /\ UNCHANGED <<request, reply, asked, handled, done, result>>

Call(m, meant) ==
  /\ Idle /\ request' = Build(m) /\ asked' = meant
  /\ handled' = NULL /\ done' = Refused
  /\ UNCHANGED <<reply, result>>

Given(ks) == [k \in DOMAIN attrs \cap ks |-> attrs[k]]

unot_notify ==
  /\ {"txt", "ind"} \subseteq DOMAIN attrs
  /\ Call(Message("NOT", attrs), Message("NOT", Given(Attributes)))
  /\ UNCHANGED attrs

\* The id is written into the caller's attributes, and stays there.
unot_modify(id) ==
  /\ attrs' = [k \in DOMAIN attrs \cup {"nid"} |-> IF k = "nid" THEN id ELSE attrs[k]]
  /\ Call(Message("MOD", attrs'), Message("MOD", attrs'))

unot_debug ==
  Call(Message("DBG", NoFields), Message("DBG", NoFields)) /\ UNCHANGED attrs

\* Another program, in the language of the protocol or nearly so.
Raw(w) ==
  /\ Idle /\ request' = w /\ asked' = NULL
  /\ handled' = NULL /\ done' = Refused
  /\ UNCHANGED <<attrs, reply, result>>

-----------------------------------------------------------------------------
\* Fault: an answer to NOT is the request with the id in it.
SetAnswerIdOnly(m, id) ==
  Message(m.header, [k \in DOMAIN m.fields \cup {"nid"} |->
                       IF k = "nid" THEN id ELSE m.fields[k]])

\* hf_message_set_header and set_field_id: the other fields of the request
\* are still set, and its strings are in the buffer the answer is built in.
SetAnswerId(m, id) ==
  Message("OK", [k \in DOMAIN m.fields \cup {"nid"} |->
                   IF k = "nid" THEN id ELSE m.fields[k]])

Answer(m, o) == IF ~o.ok THEN Message("ERR", m.fields)
                ELSE IF o.id = 0 THEN Message("OK", m.fields)
                ELSE SetAnswerId(m, o.id)

\* Outcome of the handlers; the daemon's state is Daemon's.
Outcomes(m) ==
  LET asked_for == CASE m.header = "NOT" -> {"txt", "ind"}
                     [] m.header = "MOD" -> {"nid"}
                     [] OTHER            -> {}
      opened == IF m.header = "NOT" THEN Ids ELSE {0}
  IN {o \in [ok : BOOLEAN, id : {0} \cup opened] :
        IF o.ok THEN asked_for \subseteq DOMAIN m.fields /\ o.id \in opened
        ELSE o.id = 0 /\ m.header # "DBG"}

\* _handle_event_recv: a request that does not parse is answered ERR.  The
\* commands are NOT, MOD and DBG.
Handle ==
  /\ request # NULL /\ Parses(request)
  /\ handled' = Parsed(request)
  /\ \E o \in Outcomes(handled') :
       /\ done' = o
       /\ reply' = Build(Answer(handled', o))
  /\ request' = NULL
  /\ UNCHANGED <<attrs, asked, result>>

Reject ==
  /\ request # NULL /\ ~Parses(request)
  /\ reply' = Build(Message("ERR", NoFields))
  /\ request' = NULL
  /\ UNCHANGED <<attrs, asked, handled, done, result>>

\* The reply as the library reads it, and what its caller is told.
Returned(m) == IF m.header # "OK" THEN 0
               ELSE IF asked.header # "NOT" THEN 1
               ELSE IF "nid" \in DOMAIN m.fields THEN m.fields["nid"] ELSE 0

Return ==
  /\ reply # NULL
  /\ result' = IF asked = NULL THEN result
               ELSE IF Parses(reply) THEN Returned(Parsed(reply)) ELSE 0
  /\ reply' = NULL
  /\ UNCHANGED <<attrs, request, asked, handled, done>>

MessagesNext ==
  \/ \E k \in Attributes : SetAttr(k) \/ ClearAttrs({k})
  \/ ClearAttrs(DOMAIN attrs)
  \/ unot_notify \/ unot_debug \/ \E id \in Ids : unot_modify(id)
  \/ \E w \in RawRequests : Raw(w)
  \/ Handle \/ Reject \/ Return

MessagesSpec == MessagesInit /\ [][MessagesNext]_messages

-----------------------------------------------------------------------------
Answered == asked # NULL /\ request = NULL

\* What the daemon handles is what the caller of the library has set, value
\* by value, and nothing of an earlier call: the id that unot_modify leaves
\* in the attributes does not make the next unot_notify invalid.
ReadAsMeant == Answered => handled = asked

\* The caller is told what the daemon has done: the id of a notification that
\* was opened, 1 for a success, 0 for a refusal.  The answer that says so has
\* none of the strings of the request, which are in the very buffer that it
\* overwrites.
ToldWhatWasDone ==
  /\ reply # NULL => \A i \in DOMAIN reply.lines : reply.lines[i][1] \notin StringFields
  /\ Answered /\ reply = NULL =>
       result = IF ~done.ok THEN 0 ELSE IF done.id = 0 THEN 1 ELSE done.id

\* A request is handled as a whole or not at all: every line of it has been
\* understood, and has its place in the message.
WholeOrNothing ==
  [][request # NULL /\ handled' # handled =>
       \A i \in DOMAIN request.lines :
         LET line == request.lines[i] IN
         /\ line[1] \in DOMAIN handled'.fields
         /\ line[2] # <<>>
         /\ \/ handled'.fields[line[1]] = Read(line[1], line[2])
            \/ \E j \in i + 1..Len(request.lines) : request.lines[j][1] = line[1]]_messages

=============================================================================
