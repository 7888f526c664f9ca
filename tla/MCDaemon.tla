------------------------------ MODULE MCDaemon ------------------------------
(***************************************************************************)
(* Instances of Daemon for TLC.                                            *)
(***************************************************************************)
EXTENDS DaemonService, DaemonInv

Symmetry == Permutations(Client) \cup Permutations(Node)

NOT(ind, tim, pst) == [cmd |-> "NOT", txt |-> TRUE, ind |-> ind, tim |-> tim,
                       pst |-> pst, nid |-> Absent]

MOD(ind, tim, pst, id) == [cmd |-> "MOD", txt |-> FALSE, ind |-> ind,
                           tim |-> tim, pst |-> pst, nid |-> id]

DBG == [cmd |-> "DBG", txt |-> FALSE, ind |-> "none", tim |-> "none",
        pst |-> "none", nid |-> Absent]

\* One request for each path through the handlers.
PathRequests ==
  {NOT("good", "none", "none"), NOT("good", "zero", "true"),
   NOT("bad", "none", "none"), NOT("none", "none", "none"), DBG}
  \cup {MOD("none", "none", "none", n) : n \in Node}
  \cup {MOD("good", "positive", "false", n) : n \in Node}
  \cup {MOD("bad", "none", "none", n) : n \in Node}
  \cup {MOD("good", "zero", "true", id) : id \in {NoWindow, Absent}}

\* The requests that matter to what must eventually happen.
LivenessRequests ==
  {NOT("good", "none", "none"), NOT("good", "none", "true"),
   NOT("bad", "none", "none")}
  \cup {MOD("none", "none", "none", n) : n \in Node}

=============================================================================
