------------------------------ MODULE DaemonInv ------------------------------
(***************************************************************************)
(* The inductive invariant of Daemon, in named parts.  Daemon_proofs shows *)
(* that every step preserves it and that the properties of Daemon follow   *)
(* from it.  It is apart from the proofs for the instances of TLC.         *)
(***************************************************************************)
EXTENDS Daemon

\* The server thread handles one request, of a client that waits for it.
ServerInv ==
  /\ \A c \in polled : requests[c] # NULL
  /\ spc # "poll" => client \in Client \ polled /\ requests[client] # NULL
  /\ spc \in {"check", "wait", "relock", "opened"} =>
       node \in Node /\ msg.cmd = "NOT"

\* A notification that NOT has created is its own until it is appended.
CreatedInv ==
  spc \in {"lock", "locked"} /\ msg.cmd = "NOT" =>
    /\ node \in Node \ Listed
    /\ heap[node] = "live" /\ state[node] = "INIT" /\ window[node] = NoWindow

\* Only the notification the server thread waits for may lack a window.
WindowInv ==
  \A n \in Node :
    /\ window[n] \in {n, NoWindow}
    /\ heap[n] = "unused" => window[n] = NoWindow
    /\ n \in Listed => /\ window[n] = NoWindow <=> state[n] = "INIT"
                       /\ window[n] = NoWindow =>
                            n = node /\ spc \in {"check", "wait", "relock"}

\* What the server thread waits for stays listed until it is freed, and the
\* thread is not asleep once the window is there.
WaitInv ==
  /\ spc \in {"check", "wait", "relock", "opened"} =>
       node \in Listed \/ heap[node] = "freed"
  /\ spc = "wait" /\ heap[node] = "live" => window[node] = NoWindow

\* The main thread is not asleep while a notification waits for its window.
\* Reopened ones may be in the list: MOD does not wake it up.
SleepInv ==
  mpc = "wait" => \A n \in ToSet(open) : state[n] \in {"REOPEN", "REDRAW"}

\* These together are preserved by every step of Daemon.
IInv ==
  /\ TypeOK
  /\ MutualExclusion
  /\ ListsSound
  /\ ScreenMatchesLists
  /\ ServerInv
  /\ CreatedInv
  /\ WindowInv
  /\ WaitInv
  /\ SleepInv

\* What the clients are shown follows the lists: a window is on the screen
\* only if it has been opened; a NOT creates its client's notification; and by
\* the time of the answer the main thread has opened it, and drawn it unless it
\* has been parked, or freed, since.
ServiceInv ==
  /\ \A n \in Node : mapped[n] => window[n] = n
  /\ spc \in {"lock", "locked"} /\ msg.cmd = "NOT" => client_id[node] = client
  /\ spc \in {"check", "wait", "relock", "opened"} =>
       /\ heap[node] = "freed" => window[node] = node
       /\ node \in ToSet(open) /\ window[node] = node => state[node] = "UPDATE"

=============================================================================
