------------------------------ MODULE Resources ------------------------------
(***************************************************************************)
(* Who owns what a notification points to: strings, fonts and colours that *)
(* _inject_from_msg (command.c) replaces one by one and that               *)
(* notification_close (notification.c) gives back.  A pointer may also be  *)
(* to a default of ServerCtx or to a string of the configuration, which    *)
(* are shared and stay; flags such as custom_txt_font tell them apart.     *)
(*                                                                         *)
(* Handlers and passes hold nlist_lock, so each is a step.  malloc and Xft *)
(* may hand out again what has been freed.                                 *)
(***************************************************************************)
EXTENDS Naturals

CONSTANTS
  Owner,   \* the notifications
  Fields, \* the fields but the indicator that a message may have, among
          \* "txt", "txt_font", "txt_color" and "ind_color"
  Pool,   \* bound: so many things of each kind at a time
  NULL

Kind == Fields \cup {"str", "font"}
Shared(k) == <<k, 0>>
SharedThings == {Shared(k) : k \in Kind \ {"txt", "font"}}

ASSUME ResourcesAssumption ==
  /\ Fields \subseteq {"txt", "txt_font", "txt_color", "ind_color"}
  /\ "txt" \in Fields /\ Pool \in Nat
  /\ NULL \notin Kind \X (0..Pool)

VARIABLES
  live,    \* what is allocated
  held,    \* the notifications in either list
  ptr,     \* ind.str, ind.font, txt, txt_font, txt_color, ind.color
  custom,  \* which flags custom_* are set, "str" being ind.custom_string
  spoilt   \* history: a MOD of a notification has been refused for its indicator

resources == <<live, held, ptr, custom, spoilt>>

\* calloc, and the defaults of _create_notification_node
Defaults == [k \in Kind |-> IF k \in {"txt", "font", "str"} THEN NULL ELSE Shared(k)]

ResourcesInit ==
  /\ live = SharedThings
  /\ held = {}
  /\ ptr = [n \in Owner |-> Defaults]
  /\ custom = [n \in Owner |-> {}]
  /\ spoilt = FALSE

-----------------------------------------------------------------------------
\* Faults: the flags are not looked at; the old things are not given back;
\* the flag of the string stays when a named indicator takes its place.
OwnsAll(n, k) == ptr[n][k] # NULL
FreeNone(n, ks) == {}
FlagsKept(c, ks, ind) == c \cup (ks \ {"txt", "font"})

\* A pointer that will be freed: free(NULL) does nothing, and neither does
\* indicator_free_str to a font that has not been set.
Owns(n, k) == IF k \in {"txt", "font"} THEN ptr[n][k] # NULL ELSE k \in custom[n]

Freed(n, ks) == {ptr[n][k] : k \in {j \in ks : Owns(n, j)}}

\* What becomes of the flags: a string of the message's own sets that of the
\* string, a named one clears it.
Flags(c, ks, ind) ==
  (IF ind = "named" THEN c \ {"str"} ELSE c) \cup (ks \ {"txt", "font"})

IndicatorKinds == {"str", "font"}

Allocated(ind) == CASE ind = "custom" -> IndicatorKinds
                    [] ind = "named"  -> {"font"}
                    [] ind = "absent" -> {}

\* _inject_from_msg, when it returns true.  Each field frees what was there
\* before it allocates.
Inject(n, fields, ind) ==
  LET given == fields \cup (IF ind = "absent" THEN {} ELSE IndicatorKinds)
      left  == live \ Freed(n, given)
      new   == fields \cup Allocated(ind)
  IN \E at \in [new -> 1..Pool] :
       LET things == {<<k, at[k]>> : k \in new} IN
       /\ things \cap left = {}
       /\ live' = left \cup things
       /\ ptr' = [ptr EXCEPT ![n] = [k \in Kind |->
                    IF k \in new THEN <<k, at[k]>>
                    ELSE IF k = "str" /\ ind = "named" THEN Shared(k) ELSE ptr[n][k]]]
       /\ custom' = [custom EXCEPT ![n] = Flags(@, new, ind)]

\* The fields that are always there are those _handle_command_notify asks for.
NOT(n, fields, ind) ==
  /\ n \notin held /\ "txt" \in fields /\ ind # "absent"
  /\ Inject(n, fields, ind)
  /\ held' = held \cup {n}
  /\ UNCHANGED spoilt

\* The indicator comes first, so a refused NOT has only its node to free.
RefuseNOT(n) == n \notin held /\ UNCHANGED resources

MOD(n, fields, ind) ==
  /\ n \in held
  /\ Inject(n, fields, ind)
  /\ UNCHANGED <<held, spoilt>>

(***************************************************************************)
(* A MOD whose indicator indicator_init_str refuses: the old one has been  *)
(* freed by then.  A name that is not known leaves NULL in ind->str, a     *)
(* malformed string leaves the old pointer; the flag and the font stay.    *)
(***************************************************************************)
RefuseMOD(n) ==
  /\ n \in held
  /\ live' = live \ Freed(n, IndicatorKinds)
  /\ ptr' \in {ptr, [ptr EXCEPT ![n].str = NULL]}
  /\ spoilt' = TRUE
  /\ UNCHANGED <<held, custom>>

\* notification_close, and the node is freed after it.
Close(n) ==
  /\ n \in held
  /\ live' = live \ Freed(n, Kind)
  /\ held' = held \ {n}
  /\ ptr' = [ptr EXCEPT ![n] = Defaults]
  /\ custom' = [custom EXCEPT ![n] = {}]
  /\ UNCHANGED spoilt

ResourcesNext == \E n \in Owner :
  \/ \E fields \in SUBSET Fields, ind \in {"absent", "custom", "named"} :
       NOT(n, fields, ind) \/ MOD(n, fields, ind)
  \/ RefuseNOT(n) \/ RefuseMOD(n) \/ Close(n)

ResourcesSpec == ResourcesInit /\ [][ResourcesNext]_resources

-----------------------------------------------------------------------------
\* What drawing an open notification reads is there, its indicator included.
\* Only a refused MOD spoils that.
Drawable == \A n \in held, k \in Kind : ptr[n][k] \in live
DrawableUnlessRefused == spoilt \/ Drawable

\* What will be freed has one owner, and none of it is shared; the defaults
\* and the strings of the configuration are never freed, not even after a
\* refused MOD.
OneOwner ==
  /\ SharedThings \subseteq live
  /\ spoilt \/ \A n, m \in held, j, k \in Kind :
       Owns(n, j) => /\ ptr[n][j] \notin SharedThings
                     /\ Owns(m, k) /\ <<n, j>> # <<m, k>> => ptr[n][j] # ptr[m][k]

\* What no open notification owns has been given back: requests may come and
\* go for ever.
NoLeak == spoilt \/ live = SharedThings \cup UNION {Freed(n, Kind) : n \in held}

=============================================================================
