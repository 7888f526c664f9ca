----------------------------- MODULE RemoteCall -----------------------------
(***************************************************************************)
(* A call of the client library as its user sees it: one request goes out, *)
(* is handled once, and its reply comes back, both of them whole.          *)
(***************************************************************************)
CONSTANTS Requests, Replies, NULL

VARIABLES
  asked,     \* the request of the call under way, or NULL
  handled,   \* what the daemon has read of it, or NULL
  answer,    \* what the daemon has replied, or NULL
  returned   \* what the last call has returned, or NULL

vars == <<asked, handled, answer, returned>>

Init == asked = NULL /\ handled = NULL /\ answer = NULL /\ returned = NULL

Ask(m) ==
  /\ asked = NULL
  /\ asked' = m
  /\ returned' = NULL
  /\ UNCHANGED <<handled, answer>>

Handle(r) ==
  /\ asked # NULL /\ handled = NULL
  /\ handled' = asked
  /\ answer' = r
  /\ UNCHANGED <<asked, returned>>

Return ==
  /\ handled # NULL
  /\ returned' = answer
  /\ asked' = NULL /\ handled' = NULL /\ answer' = NULL

Next == \/ \E m \in Requests : Ask(m)
        \/ \E r \in Replies : Handle(r)
        \/ Return

Spec == Init /\ [][Next]_vars

=============================================================================
