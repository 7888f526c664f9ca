------------------------- MODULE NotificationService -------------------------
(***************************************************************************)
(* What unotd promises to its clients, without threads, locks or lists.    *)
(*                                                                         *)
(* A notification is queued, then shown, and when it ends it is gone or,   *)
(* if it is persistent, parked, from where its owner can bring it back.    *)
(* A NOT is answered OK, with the id, once its notification has been       *)
(* shown.  A MOD takes effect, as a whole, between the moment it is sent   *)
(* and the moment it is answered OK; one answered ERR changes nothing.     *)
(*                                                                         *)
(* Daemon implements this module: see DaemonService.                       *)
(***************************************************************************)
CONSTANTS
  Client,        \* the clients
  Notification,  \* the notifications, each named by its id
  Id,            \* every id that a request or an answer may carry
  Absent,        \* no id
  NULL           \* no request, no answer, no notification

Request == [cmd : {"NOT", "MOD", "DBG"},
            pst : {"none", "true", "false"},
            nid : Id \cup {Absent}]

OK(id) == [hdr |-> "OK", nid |-> id]
Error  == [hdr |-> "ERR", nid |-> Absent]

VARIABLES
  phase,       \* "none", "queued", "shown", "parked" or "gone"
  owner,       \* the client that opened it
  persistent,  \* it parks when it ends
  requests,    \* what each client waits for
  opening,     \* the notification that request has opened, if it has
  replies      \* the last answer to each client

vars == <<phase, owner, persistent, requests, opening, replies>>

Init ==
  /\ phase = [n \in Notification |-> "none"]
  /\ owner = [n \in Notification |-> NULL]
  /\ persistent = [n \in Notification |-> FALSE]
  /\ requests = [c \in Client |-> NULL]
  /\ opening = [c \in Client |-> NULL]
  /\ replies = [c \in Client |-> NULL]

\* Whether a notification persists after the request r.
Persists(r, before) == IF r.pst = "none" THEN before ELSE r.pst = "true"

Send(c) ==
  /\ requests[c] = NULL
  /\ requests'[c] \in Request
  /\ requests' = [requests EXCEPT ![c] = requests'[c]]
  /\ replies' = [replies EXCEPT ![c] = NULL]
  /\ UNCHANGED <<phase, owner, persistent, opening>>

Asks(c, cmd) == requests[c] # NULL /\ requests[c].cmd = cmd

Open(c, n) ==
  /\ Asks(c, "NOT") /\ opening[c] = NULL
  /\ phase[n] = "none"
  /\ phase' = [phase EXCEPT ![n] = "queued"]
  /\ owner' = [owner EXCEPT ![n] = c]
  /\ persistent' = [persistent EXCEPT ![n] = Persists(requests[c], @)]
  /\ opening' = [opening EXCEPT ![c] = n]
  /\ UNCHANGED <<requests, replies>>

Show(n) ==
  /\ phase[n] = "queued"
  /\ phase' = [phase EXCEPT ![n] = "shown"]
  /\ UNCHANGED <<owner, persistent, requests, opening, replies>>

\* It has been clicked, or its time is up.
End(n) ==
  /\ phase[n] = "shown"
  /\ phase' = [phase EXCEPT ![n] = IF persistent[n] THEN "parked" ELSE "gone"]
  /\ UNCHANGED <<owner, persistent, requests, opening, replies>>

Answer(c, reply) ==
  /\ requests' = [requests EXCEPT ![c] = NULL]
  /\ replies' = [replies EXCEPT ![c] = reply]

\* A client learns the id of what it has opened, but not before it is shown.
\* When it has gone already, its id means nothing any more.
AnswerOpen(c) ==
  /\ opening[c] # NULL
  /\ \E id \in Id : /\ Answer(c, OK(id))
                    /\ \/ phase[opening[c]] = "gone"
                       \/ phase[opening[c]] \in {"shown", "parked"} /\ id = opening[c]
  /\ opening' = [opening EXCEPT ![c] = NULL]
  /\ UNCHANGED <<phase, owner, persistent>>

Modify(c, n) ==
  /\ Asks(c, "MOD") /\ requests[c].nid = n
  /\ owner[n] = c
  /\ phase[n] \in {"queued", "shown", "parked"}
  /\ phase' = [phase EXCEPT ![n] = IF @ = "parked" THEN "queued" ELSE @]
  /\ persistent' = [persistent EXCEPT ![n] = Persists(requests[c], @)]
  /\ Answer(c, OK(n))
  /\ UNCHANGED <<owner, opening>>

Debug(c) ==
  /\ Asks(c, "DBG")
  /\ Answer(c, OK(Absent))
  /\ UNCHANGED <<phase, owner, persistent, opening>>

\* Any request may be refused, as long as it has had no effect.
Refuse(c) ==
  /\ requests[c] # NULL /\ opening[c] = NULL
  /\ Answer(c, Error)
  /\ UNCHANGED <<phase, owner, persistent, opening>>

Next == \/ \E c \in Client : Send(c) \/ AnswerOpen(c) \/ Debug(c) \/ Refuse(c)
        \/ \E n \in Notification : Show(n) \/ End(n)
        \/ \E c \in Client, n \in Notification : Open(c, n) \/ Modify(c, n)

Spec == Init /\ [][Next]_vars

=============================================================================
