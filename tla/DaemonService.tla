---------------------------- MODULE DaemonService ----------------------------
(***************************************************************************)
(* Daemon implements NotificationService, and does to its lists what Lists *)
(* allows.                                                                 *)
(***************************************************************************)
EXTENDS Daemon

\* The lists and the screen say which phase a notification is in; a node
\* that was freed without ever having had a window never was one.
PhaseOf(n) ==
  CASE n \in ToSet(open) -> IF mapped[n] THEN "shown" ELSE "queued"
    [] n \in ToSet(wait) -> "parked"
    [] n \notin Listed /\ heap[n] = "freed" /\ window[n] = n -> "gone"
    [] OTHER -> "none"

\* The text, indicator and timeout of a request do not matter to the service.
Asked(r) == IF r = NULL THEN NULL
            ELSE [cmd |-> r.cmd, pst |-> r.pst, nid |-> r.nid]

ASSUME ServiceAssumption == \A r \in Request : Asked(r) # NULL

Service == INSTANCE NotificationService WITH
  Notification <- Node,
  Id           <- WindowId,
  phase        <- [n \in Node |-> PhaseOf(n)],
  owner        <- [n \in Node |-> IF PhaseOf(n) = "none" THEN NULL
                                  ELSE client_id[n]],
  persistent   <- is_persistent,
  requests     <- [c \in Client |-> Asked(requests[c])],
  opening      <- [c \in Client |->
                     IF client = c /\ spc \in {"check", "wait", "relock", "opened"}
                     THEN node ELSE NULL]

\* Every behaviour of the two threads is one that the service promises: what
\* they do to a notification happens in an order its owner may rely on, a
\* MOD is atomic, a refused request has no effect, and NOT is not answered
\* before its notification has been shown.
ImplementsService == Service!Spec

\* The nodes that had a window are the ones that a pass has closed.
Sequences == INSTANCE Lists WITH
  closed <- {n \in Node : heap[n] = "freed" /\ window[n] = n},
  pos    <- IF mpc = "pass" THEN pos ELSE 0

\* The threads change the two lists only as Lists says, which is what the
\* pointers of NList implement: NOT and MOD leave them alone during a pass,
\* and a pass visits each open notification once.
ImplementsLists == Sequences!Spec

=============================================================================
