---------------------------- MODULE Daemon_proofs ----------------------------
(***************************************************************************)
(* The safety of Daemon, for any clients, nodes and requests; and what the *)
(* two threads promise: to change the lists as Lists allows, and to be the *)
(* service that the clients know.                                          *)
(***************************************************************************)
EXTENDS DaemonService, DaemonInv, SeqLemmas

\* What the typed parts of the invariant say of the request being handled
\* and of the node being visited.
LEMMA MsgType ==
  ASSUME TypeOK, ServerInv, spc # "poll"
  PROVE  client \in Client /\ msg \in Request
BY DEF TypeOK, ServerInv, msg

LEMMA CurrType ==
  ASSUME TypeOK, NEW s, InPass(s)
  PROVE  /\ Curr \in Node /\ Curr \in ToSet(open)
         /\ pos \in 1..Len(open) /\ open[pos] = Curr
<1>1. pos \in 1..Len(open) /\ open \in Seq(Node)
  BY LenProperties DEF TypeOK, InPass
<1>2. QED
  BY <1>1, ToSetType DEF Curr

-----------------------------------------------------------------------------
(***************************************************************************)
(* Every step preserves the type invariant.                                *)
(***************************************************************************)
LEMMA TypeStep ==
  ASSUME IInv, [Next]_vars
  PROVE  TypeOK'
<1> USE DEF threads, lists, fields, screen, wire
<1>t. TypeOK /\ ServerInv /\ CreatedInv /\ IsInjective(open) /\ IsInjective(wait)
  BY DEF IInv, ListsSound
<1>1. ASSUME NEW c \in Client, Send(c) PROVE TypeOK'
  BY <1>1, <1>t, ConstantsAssumption DEF Send, TypeOK
<1>2. ASSUME NEW n \in Node, Click(n) PROVE TypeOK'
  <2>1. PICK b \in {"left", "other"} :
          events' = [events EXCEPT ![n] = Append(@, b)]
    BY <1>2 DEF Click
  <2>2. Append(events[n], b) \in Seq({"left", "other"})
    BY <1>t, AppendProperties DEF TypeOK
  <2>3. QED
    BY <1>2, <1>t, <2>1, <2>2 DEF Click, TypeOK
<1>3. ASSUME NEW n \in Node, Elapse(n) PROVE TypeOK'
  BY <1>3, <1>t DEF Elapse, TypeOK
<1>4. ASSUME MainLock \/ MainWait \/ MainSpuriousWakeup \/ StartPass \/ EndPass
             \/ EndSleep
      PROVE  TypeOK'
  BY <1>4, <1>t DEF MainLock, MainWait, MainSpuriousWakeup, StartPass, EndPass,
                    EndSleep, TypeOK
<1>5. CASE VisitInit
  BY <1>5, <1>t, CurrType DEF VisitInit, OpenCurr, SignalNotifOpen, TypeOK
<1>6. CASE VisitRedrawOrReopen
  BY <1>6, <1>t, CurrType DEF VisitRedrawOrReopen, TypeOK
<1>7. ASSUME NEW n \in Node, TakeEvent(n)
      PROVE  events' \in [Node -> Seq({"left", "other"})]
  <2>1. events[n] # <<>> => Tail(events[n]) \in Seq({"left", "other"})
    BY <1>t, HeadTailProperties DEF TypeOK
  <2>2. QED
    BY <1>7, <1>t, <2>1 DEF TakeEvent, TypeOK
<1>8. CASE VisitUpdate
  <2>1. Curr \in Node /\ TakeEvent(Curr)
    BY <1>8, <1>t, CurrType DEF VisitUpdate
  <2>2. events' \in [Node -> Seq({"left", "other"})]
    BY <1>7, <2>1
  <2>3. QED
    BY <1>8, <1>t, <2>2 DEF VisitUpdate, TypeOK
<1>9. CASE ParkPersistent
  <2>1. /\ Curr \in Node /\ pos \in 1..Len(open)
    BY <1>9, <1>t, CurrType DEF ParkPersistent
  <2>2. RemoveAt(open, pos) \in Seq(Node) /\ Append(wait, Curr) \in Seq(Node)
    BY <1>t, <2>1, RemoveAtFacts, AppendFacts DEF TypeOK
  <2>3. QED
    BY <1>7, <1>9, <1>t, <2>1, <2>2 DEF ParkPersistent, TypeOK
<1>10. CASE CloseCurr
  <2>1. /\ Curr \in Node /\ pos \in 1..Len(open)
    BY <1>10, <1>t, CurrType DEF CloseCurr
  <2>2. RemoveAt(open, pos) \in Seq(Node) /\ <<>> \in Seq({"left", "other"})
    BY <1>t, <2>1, RemoveAtFacts, EmptySeq DEF TypeOK
  <2>3. QED
    BY <1>10, <1>t, <2>1, <2>2 DEF CloseCurr, TypeOK
<1>11. ASSUME Poll \/ (\E c \in Client : Receive(c))
       PROVE  TypeOK'
  BY <1>11, <1>t DEF Poll, Receive, TypeOK
<1>12. ASSUME NEW n \in Node, CreateNode(n) PROVE TypeOK'
  BY <1>12, <1>t, ConstantsAssumption DEF CreateNode, TypeOK
<1>13. ASSUME StartLocked \/ ServerLock \/ NotifyWait \/ ServerSpuriousWakeup
              \/ ServerRelock \/ NotifyUnlock
       PROVE  TypeOK'
  BY <1>13, <1>t DEF StartLocked, ServerLock, NotifyWait, ServerSpuriousWakeup,
                     ServerRelock, NotifyUnlock, TypeOK
<1>14. ASSUME NEW hdr \in {"OK", "ERR"}, NEW nid \in WindowId \cup {Absent},
              Answer(hdr, nid)
       PROVE  /\ replies' \in [Client -> Reply \cup {NULL}]
              /\ requests' \in [Client -> Request \cup {NULL}]
              /\ spc' = "poll" /\ client' = NULL /\ node' = NULL /\ sent' = sent
  BY <1>14, <1>t DEF Answer, Reply, TypeOK
<1>15. ASSUME Refuse \/ NotifyInjectFails \/ ModifyRefused \/ Debug
       PROVE  TypeOK'
  <2>1. \/ Answer("ERR", Absent)
        \/ Answer("OK", Absent)
    BY <1>15 DEF Refuse, NotifyInjectFails, ModifyRefused, Debug
  <2>2. /\ replies' \in [Client -> Reply \cup {NULL}]
        /\ requests' \in [Client -> Request \cup {NULL}]
        /\ spc' = "poll" /\ client' = NULL /\ node' = NULL /\ sent' = sent
    BY <1>14, <2>1
  <2>3. QED
    BY <1>15, <1>t, <2>2
       DEF Refuse, NotifyInjectFails, ModifyRefused, Debug, TypeOK
<1>16. ASSUME NEW n \in Node, Injected(n)
       PROVE  timeout' \in [Node -> BOOLEAN] /\ is_persistent' \in [Node -> BOOLEAN]
  BY <1>16, <1>t DEF Injected, TypeOK
<1>17. CASE NotifyAppend
  <2>1. node \in Node
    BY <1>17, <1>t DEF NotifyAppend, CreatedInv
  <2>2. Append(open, node) \in Seq(Node)
    BY <1>t, <2>1, AppendFacts DEF TypeOK
  <2>3. QED
    BY <1>16, <1>17, <1>t, <2>1, <2>2 DEF NotifyAppend, SignalNlistEmpty, TypeOK
<1>18. CASE NotifyReply
  <2>1. node \in Node
    BY <1>18, <1>t DEF NotifyReply, ServerInv
  <2>2. PICK id \in ReadWindow(node) : Answer("OK", id)
    BY <1>18 DEF NotifyReply
  <2>3. id \in WindowId
    BY <1>t, <2>1 DEF ReadWindow, WindowId, TypeOK
  <2>4. /\ replies' \in [Client -> Reply \cup {NULL}]
        /\ requests' \in [Client -> Request \cup {NULL}]
        /\ spc' = "poll" /\ client' = NULL /\ node' = NULL /\ sent' = sent
    BY <1>14, <2>2, <2>3
  <2>5. QED
    BY <1>18, <1>t, <2>4 DEF NotifyReply, TypeOK
<1>19. ASSUME NEW n \in Node, NEW list, n \in Target(list)
       PROVE  msg.nid \in WindowId
  BY <1>19, <1>t DEF Target, nlist_find, WindowId, TypeOK
<1>20. ASSUME NEW n \in Node, ModifyOpen(n) PROVE TypeOK'
  <2>1. Injected(n) /\ msg.nid \in WindowId /\ Answer("OK", msg.nid)
    BY <1>19, <1>20 DEF ModifyOpen
  <2>2. /\ replies' \in [Client -> Reply \cup {NULL}]
        /\ requests' \in [Client -> Request \cup {NULL}]
        /\ spc' = "poll" /\ client' = NULL /\ node' = NULL /\ sent' = sent
    BY <1>14, <2>1
  <2>3. elapsed' \in [Node -> BOOLEAN]
    BY <1>20, <1>t DEF ModifyOpen, TypeOK
  <2>4. QED
    BY <1>16, <1>20, <1>t, <2>1, <2>2, <2>3 DEF ModifyOpen, TypeOK
<1>21. ASSUME NEW n \in Node, ModifyWait(n) PROVE TypeOK'
  <2>1. Injected(n) /\ msg.nid \in WindowId /\ Answer("OK", msg.nid)
    BY <1>19, <1>21 DEF ModifyWait
  <2>2. /\ replies' \in [Client -> Reply \cup {NULL}]
        /\ requests' \in [Client -> Request \cup {NULL}]
        /\ spc' = "poll" /\ client' = NULL /\ node' = NULL /\ sent' = sent
    BY <1>14, <2>1
  <2>3. PICK i \in 1..Len(wait) : wait[i] = n /\ wait' = RemoveAt(wait, i)
    BY <1>21, <1>t, LenProperties DEF ModifyWait, MoveToOpen, TypeOK
  <2>4. wait' \in Seq(Node) /\ open' \in Seq(Node)
    BY <1>21, <1>t, <2>3, RemoveAtFacts, AppendFacts
       DEF ModifyWait, MoveToOpen, TypeOK
  <2>5. QED
    BY <1>16, <1>21, <1>t, <2>1, <2>2, <2>4 DEF ModifyWait, TypeOK
<1>22. CASE UNCHANGED vars
  BY <1>22, <1>t DEF vars, TypeOK
<1>23. QED
  BY <1>1, <1>2, <1>3, <1>4, <1>5, <1>6, <1>8, <1>9, <1>10, <1>11, <1>12, <1>13,
     <1>15, <1>17, <1>18, <1>20, <1>21, <1>22
     DEF Next, Environment, MainRuns, Notify, Modify, ServerRuns
-----------------------------------------------------------------------------
(***************************************************************************)
(* What each step that touches the lists does to what is in them.          *)
(***************************************************************************)
LEMMA RemoveCurr ==
  ASSUME TypeOK, ListsSound, ParkPersistent \/ CloseCurr
  PROVE  /\ Curr \in ToSet(open) /\ Curr \in Node
         /\ ToSet(open') = ToSet(open) \ {Curr} /\ IsInjective(open')
<1>1. /\ pos \in 1..Len(open) /\ open[pos] = Curr
      /\ Curr \in ToSet(open) /\ Curr \in Node
  BY CurrType DEF ParkPersistent, CloseCurr
<1>2. open' = RemoveAt(open, pos) /\ open \in Seq(Node) /\ IsInjective(open)
  BY DEF ParkPersistent, CloseCurr, TypeOK, ListsSound
<1>3. QED
  BY <1>1, <1>2, RemoveAtFacts

LEMMA ParkCurr ==
  ASSUME TypeOK, ListsSound, ParkPersistent
  PROVE  /\ ToSet(wait') = ToSet(wait) \cup {Curr} /\ IsInjective(wait')
<1>1. Curr \in ToSet(open) /\ Curr \in Node
  BY RemoveCurr
<1>2. wait' = Append(wait, Curr) /\ wait \in Seq(Node) /\ IsInjective(wait)
      /\ Curr \notin ToSet(wait)
  BY <1>1 DEF ParkPersistent, TypeOK, ListsSound
<1>3. QED
  BY <1>1, <1>2, AppendFacts

LEMMA AppendNode ==
  ASSUME TypeOK, ListsSound, CreatedInv, NotifyAppend
  PROVE  /\ node \in Node \ Listed
         /\ ToSet(open') = ToSet(open) \cup {node} /\ IsInjective(open')
<1>1. node \in Node \ Listed /\ node \notin ToSet(open)
  BY DEF NotifyAppend, CreatedInv, Listed
<1>2. open' = Append(open, node) /\ open \in Seq(Node) /\ IsInjective(open)
  BY DEF NotifyAppend, TypeOK, ListsSound
<1>3. QED
  BY <1>1, <1>2, AppendFacts

LEMMA MoveNode ==
  ASSUME TypeOK, ListsSound, NEW n \in Node, ModifyWait(n)
  PROVE  /\ n \in ToSet(wait)
         /\ ToSet(open') = ToSet(open) \cup {n} /\ IsInjective(open')
         /\ ToSet(wait') = ToSet(wait) \ {n} /\ IsInjective(wait')
<1>1. open \in Seq(Node) /\ wait \in Seq(Node)
      /\ IsInjective(open) /\ IsInjective(wait)
  BY DEF TypeOK, ListsSound
<1>2. PICK i \in 1..Len(wait) : wait[i] = n /\ wait' = RemoveAt(wait, i)
  BY <1>1, LenProperties DEF ModifyWait, MoveToOpen
<1>3. n \in ToSet(wait)
  BY <1>1, <1>2, ToSetType
<1>4. n \notin ToSet(open) /\ open' = Append(open, n)
  BY <1>3 DEF ListsSound, ModifyWait, MoveToOpen
<1>5. QED
  BY <1>1, <1>2, <1>3, <1>4, AppendFacts, RemoveAtFacts

\* A node that nlist_find returns is in the list it was looked for in.
LEMMA TargetListed ==
  ASSUME NEW list, NEW n \in Target(list)
  PROVE  n \in ToSet(list) /\ window[n] = msg.nid /\ client_id[n] = client
BY DEF Target, nlist_find, ToSet

-----------------------------------------------------------------------------
(***************************************************************************)
(* The mutex, and the lists it protects.                                   *)
(***************************************************************************)
LEMMA MutexStep ==
  ASSUME IInv, [Next]_vars
  PROVE  MutualExclusion'
<1> USE DEF threads, MutualExclusion
<1>1. MutualExclusion /\ mpc \in {"lock", "check", "wait", "pass", "sleep"}
  BY DEF IInv, TypeOK
<1>2. CASE Environment
  BY <1>1, <1>2 DEF Environment, Send, Click, Elapse
<1>3. CASE MainLock \/ MainSpuriousWakeup \/ MainRuns
  BY <1>1, <1>3
     DEF MainLock, MainSpuriousWakeup, MainRuns, MainWait, StartPass, EndPass,
         EndSleep, VisitInit, VisitRedrawOrReopen, VisitUpdate, ParkPersistent,
         CloseCurr, InPass, SignalNotifOpen
<1>4. CASE ServerLock \/ ServerRelock \/ ServerSpuriousWakeup
  BY <1>1, <1>4 DEF ServerLock, ServerRelock, ServerSpuriousWakeup
<1>5. CASE ServerRuns
  BY <1>1, <1>5
     DEF ServerRuns, Poll, Receive, Refuse, StartLocked, Notify, Modify, Debug,
         CreateNode, NotifyInjectFails, NotifyAppend, NotifyWait, NotifyUnlock,
         NotifyReply, ModifyOpen, ModifyWait, ModifyRefused, ModifyLocked,
         Answer, SignalNlistEmpty
<1>6. CASE UNCHANGED vars
  BY <1>1, <1>6 DEF vars
<1>7. QED
  BY <1>2, <1>3, <1>4, <1>5, <1>6 DEF Next

LEMMA ListsStep ==
  ASSUME IInv, [Next]_vars
  PROVE  ListsSound'
<1> USE DEF lists
<1>t. TypeOK /\ ListsSound /\ CreatedInv
  BY DEF IInv
<1>1. ASSUME UNCHANGED <<open, wait, heap>> PROVE ListsSound'
  BY <1>t, <1>1 DEF ListsSound, Listed
<1>2. CASE Environment \/ MainLock \/ MainSpuriousWakeup \/ ServerLock
           \/ ServerRelock \/ ServerSpuriousWakeup \/ Debug \/ UNCHANGED vars
  BY <1>1, <1>2 DEF Environment, Send, Click, Elapse, MainLock, vars, Debug,
     MainSpuriousWakeup, ServerLock, ServerRelock, ServerSpuriousWakeup
<1>3. CASE MainRuns
  <2>1. CASE ParkPersistent
    <3>1. heap' = heap
      BY <2>1 DEF ParkPersistent
    <3>2. QED
      BY <1>t, <2>1, <3>1, RemoveCurr, ParkCurr DEF ListsSound, Listed
  <2>2. CASE CloseCurr
    <3>1. heap' = [heap EXCEPT ![Curr] = "freed"] /\ wait' = wait
      BY <2>2 DEF CloseCurr
    <3>2. QED
      BY <1>t, <2>2, <3>1, RemoveCurr DEF ListsSound, Listed, TypeOK
  <2>3. QED
    BY <1>1, <1>3, <2>1, <2>2 DEF MainRuns, MainWait, StartPass, EndPass,
       EndSleep, VisitInit, VisitRedrawOrReopen, VisitUpdate
<1>4. CASE Notify
  <2>1. ASSUME NEW n \in Node, CreateNode(n) PROVE ListsSound'
    BY <1>t, <2>1 DEF CreateNode, ListsSound, Listed, TypeOK
  <2>2. CASE NotifyInjectFails
    <3>1. node \in Node \ Listed
      BY <1>t, <2>2 DEF NotifyInjectFails, CreatedInv
    <3>2. heap' = [heap EXCEPT ![node] = "freed"] /\ UNCHANGED lists
      BY <2>2 DEF NotifyInjectFails
    <3>3. QED
      BY <1>t, <3>1, <3>2 DEF ListsSound, Listed, TypeOK
  <2>3. CASE NotifyAppend
    <3>1. wait' = wait /\ heap' = heap /\ heap[node] = "live"
      BY <1>t, <2>3 DEF NotifyAppend, CreatedInv
    <3>2. QED
      BY <1>t, <2>3, <3>1, AppendNode DEF ListsSound, Listed
  <2>4. QED
    BY <1>1, <1>4, <2>1, <2>2, <2>3 DEF Notify, NotifyWait, NotifyUnlock, NotifyReply
<1>5. CASE Modify
  <2>1. ASSUME NEW n \in Node, ModifyWait(n) PROVE ListsSound'
    <3>1. heap' = heap
      BY <2>1 DEF ModifyWait
    <3>2. QED
      BY <1>t, <2>1, <3>1, MoveNode DEF ListsSound, Listed
  <2>2. QED
    BY <1>1, <1>5, <2>1 DEF Modify, ModifyOpen, ModifyRefused
<1>6. CASE Poll \/ (\E c \in Client : Receive(c)) \/ Refuse \/ StartLocked
  BY <1>1, <1>6 DEF Poll, Receive, Refuse, StartLocked
<1>7. QED
  BY <1>2, <1>3, <1>4, <1>5, <1>6 DEF Next, ServerRuns
-----------------------------------------------------------------------------
(***************************************************************************)
(* What the server thread knows of its request and its node.               *)
(***************************************************************************)
LEMMA ServerStep ==
  ASSUME IInv, [Next]_vars
  PROVE  ServerInv'
<1> USE DEF threads, wire, ServerInv, msg
<1>t. TypeOK /\ ServerInv /\ CreatedInv
  BY DEF IInv
<1>1. ASSUME UNCHANGED <<polled, client, node, requests>>,
             \/ spc' = spc
             \/ spc # "poll" /\ spc' \in {"lock", "locked", "poll"}
             \/ spc \in {"check", "wait", "relock", "opened"}
      PROVE  ServerInv'
  BY <1>t, <1>1 DEF TypeOK
<1>2. CASE Environment
  <2>1. ASSUME NEW c \in Client, Send(c) PROVE ServerInv'
    <3>1. PICK r \in Requests : requests' = [requests EXCEPT ![c] = r]
      BY <2>1 DEF Send
    <3>2. r # NULL /\ requests[c] = NULL
      BY <2>1, ConstantsAssumption DEF Send
    <3>3. spc # "poll" => client # c
      BY <1>t, <3>2
    <3>4. QED
      BY <1>t, <2>1, <3>1, <3>2, <3>3 DEF Send, TypeOK
  <2>2. QED
    BY <1>1, <1>2, <2>1 DEF Environment, Click, Elapse
<1>3. CASE MainLock \/ MainSpuriousWakeup \/ MainRuns
  BY <1>1, <1>3
     DEF MainLock, MainSpuriousWakeup, MainRuns, MainWait, StartPass, EndPass,
         EndSleep, VisitInit, VisitRedrawOrReopen, VisitUpdate, ParkPersistent,
         CloseCurr, SignalNotifOpen
<1>4. CASE ServerLock \/ ServerRelock \/ ServerSpuriousWakeup \/ StartLocked
           \/ NotifyWait \/ NotifyUnlock
  BY <1>1, <1>4 DEF ServerLock, ServerRelock, ServerSpuriousWakeup, StartLocked,
                    NotifyWait, NotifyUnlock
<1>5. CASE Poll
  BY <1>t, <1>5 DEF Poll
<1>6. ASSUME NEW c \in Client, Receive(c) PROVE ServerInv'
  BY <1>t, <1>6 DEF Receive
<1>7. ASSUME NEW n \in Node, CreateNode(n) PROVE ServerInv'
  BY <1>t, <1>7 DEF CreateNode
<1>8. CASE NotifyAppend
  BY <1>t, <1>8 DEF NotifyAppend, CreatedInv
<1>9. ASSUME NEW hdr, NEW nid, Answer(hdr, nid), polled' = polled, spc # "poll"
      PROVE  ServerInv'
  BY <1>t, <1>9 DEF Answer, TypeOK
<1>10. CASE Refuse \/ NotifyInjectFails \/ NotifyReply \/ Modify \/ Debug
  BY <1>9, <1>10 DEF Refuse, NotifyInjectFails, NotifyReply, Modify, Debug,
                     ModifyOpen, ModifyWait, ModifyRefused, ModifyLocked
<1>11. CASE UNCHANGED vars
  BY <1>1, <1>11 DEF vars
<1>12. QED
  BY <1>2, <1>3, <1>4, <1>5, <1>6, <1>7, <1>8, <1>10, <1>11
     DEF Next, ServerRuns, Notify

LEMMA CreatedStep ==
  ASSUME IInv, [Next]_vars
  PROVE  CreatedInv'
<1> USE DEF threads, lists, fields, CreatedInv, msg
<1>t. TypeOK /\ ServerInv /\ CreatedInv /\ ListsSound /\ MutualExclusion
      /\ WindowInv
  BY DEF IInv
<1>1. ASSUME spc' \notin {"lock", "locked"} PROVE CreatedInv'
  BY <1>1
<1>2. ASSUME UNCHANGED <<spc, client, node, requests>>, Listed' \subseteq Listed,
             spc \in {"lock", "locked"} /\ msg.cmd = "NOT" =>
               heap'[node] = heap[node] /\ state'[node] = state[node]
               /\ window'[node] = window[node]
      PROVE  CreatedInv'
  BY <1>t, <1>2
<1>3. CASE Environment
  <2>1. ASSUME NEW c \in Client, Send(c) PROVE CreatedInv'
    <3>1. spc # "poll" => client # c
      BY <1>t, <2>1 DEF Send, ServerInv
    <3>2. spc # "poll" => requests'[client] = requests[client]
      BY <1>t, <2>1, <3>1 DEF Send, TypeOK, ServerInv
    <3>3. QED
      BY <1>t, <2>1, <3>2 DEF Send, Listed
  <2>2. QED
    BY <1>2, <1>3, <2>1 DEF Environment, Click, Elapse, wire, Listed
<1>4. CASE MainRuns
  <2>1. ASSUME NEW s, InPass(s), spc \in {"lock", "locked"}, msg.cmd = "NOT"
        PROVE  Curr \in Node /\ node # Curr
    BY <1>t, <2>1, CurrType DEF Listed
  <2>2. CASE VisitInit
    <3>1. SignalNotifOpen /\ InPass("INIT")
      BY <2>2 DEF VisitInit
    <3>2. CASE spc = "wait"
      BY <1>1, <3>1, <3>2 DEF SignalNotifOpen
    <3>3. CASE spc # "wait"
      BY <1>2, <1>t, <2>1, <2>2, <3>1, <3>3
         DEF VisitInit, SignalNotifOpen, OpenCurr, wire, Listed, TypeOK
    <3>4. QED
      BY <3>2, <3>3
  <2>3. CASE VisitRedrawOrReopen
    BY <1>2, <1>t, <2>1, <2>3 DEF VisitRedrawOrReopen, wire, Listed, TypeOK
  <2>4. CASE ParkPersistent
    <3>1. Listed' \subseteq Listed
      BY <1>t, <2>4, RemoveCurr, ParkCurr DEF Listed
    <3>2. QED
      BY <1>2, <2>4, <3>1 DEF ParkPersistent, wire
  <2>5. CASE CloseCurr
    <3>1. Listed' \subseteq Listed
      BY <1>t, <2>5, RemoveCurr DEF Listed, CloseCurr
    <3>2. QED
      BY <1>2, <1>t, <2>1, <2>5, <3>1 DEF CloseCurr, wire, TypeOK
  <2>6. QED
    BY <1>2, <1>4, <2>2, <2>3, <2>4, <2>5 DEF MainRuns, MainWait, StartPass,
       EndPass, EndSleep, VisitUpdate, wire, Listed
<1>5. CASE MainLock \/ MainSpuriousWakeup \/ UNCHANGED vars
  BY <1>2, <1>5 DEF MainLock, MainSpuriousWakeup, vars, wire, Listed
<1>6. ASSUME NEW n \in Node, CreateNode(n) PROVE CreatedInv'
  <2>1. n \notin Listed /\ window[n] = NoWindow
    BY <1>t, <1>6 DEF CreateNode, ListsSound, WindowInv
  <2>2. QED
    BY <1>t, <1>6, <2>1 DEF CreateNode, Listed, TypeOK
<1>7. CASE StartLocked
  BY <1>7 DEF StartLocked, wire
<1>8. CASE ServerLock
  BY <1>t, <1>8 DEF ServerLock, wire, Listed
<1>9. CASE ServerRelock \/ ServerSpuriousWakeup \/ Poll
           \/ (\E c \in Client : Receive(c)) \/ Refuse \/ Modify \/ Debug
           \/ NotifyInjectFails \/ NotifyAppend \/ NotifyWait \/ NotifyUnlock
           \/ NotifyReply
  BY <1>1, <1>9
     DEF ServerRelock, ServerSpuriousWakeup, Poll, Receive, Refuse, Modify,
         ModifyOpen, ModifyWait, ModifyRefused, Debug, NotifyInjectFails,
         NotifyAppend, NotifyWait, NotifyUnlock, NotifyReply, Answer
<1>10. QED
  BY <1>3, <1>4, <1>5, <1>6, <1>7, <1>8, <1>9 DEF Next, ServerRuns, Notify
-----------------------------------------------------------------------------
(***************************************************************************)
(* Windows, wakeups and the screen.                                        *)
(***************************************************************************)
LEMMA WindowStep ==
  ASSUME IInv, [Next]_vars
  PROVE  WindowInv'
<1> USE DEF threads, lists, fields
<1>t. TypeOK /\ ServerInv /\ CreatedInv /\ ListsSound /\ WindowInv
  BY DEF IInv
<1>1. ASSUME UNCHANGED <<node, heap, state, window>>, Listed' \subseteq Listed,
             \/ spc' = spc
             \/ spc \notin {"check", "wait", "relock"}
             \/ spc' \in {"check", "wait", "relock"}
      PROVE  WindowInv'
  BY <1>1, <1>t DEF WindowInv
<1>2. CASE Environment
  BY <1>1, <1>2 DEF Environment, Send, Click, Elapse, Listed
<1>3. CASE MainRuns
  <2>1. CASE VisitInit
    <3>1. Curr \in Node /\ Curr \in Listed
      BY <1>t, <2>1, CurrType DEF VisitInit, Listed
    <3>2. window' = [window EXCEPT ![Curr] = Curr]
          /\ state' = [state EXCEPT ![Curr] = "UPDATE"]
          /\ spc' = (IF spc = "wait" THEN "relock" ELSE spc)
          /\ UNCHANGED <<node, heap, open, wait>>
      BY <2>1 DEF VisitInit, OpenCurr, SignalNotifOpen
    <3>3. Curr # NoWindow /\ heap[Curr] = "live"
      BY <1>t, <3>1, ConstantsAssumption DEF ListsSound
    <3>4. QED
      BY <1>t, <3>1, <3>2, <3>3 DEF WindowInv, Listed, TypeOK
  <2>2. CASE VisitRedrawOrReopen
    <3>1. Curr \in Node /\ Curr \in Listed /\ state[Curr] # "INIT"
      BY <1>t, <2>2, CurrType DEF VisitRedrawOrReopen, Listed, InPass
    <3>2. QED
      BY <1>t, <2>2, <3>1 DEF VisitRedrawOrReopen, WindowInv, Listed, TypeOK
  <2>3. CASE ParkPersistent
    <3>1. Listed' \subseteq Listed
      BY <1>t, <2>3, RemoveCurr, ParkCurr DEF Listed
    <3>2. QED
      BY <1>1, <2>3, <3>1 DEF ParkPersistent
  <2>4. CASE CloseCurr
    <3>1. Listed' \subseteq Listed /\ Curr \in Node
      BY <1>t, <2>4, RemoveCurr DEF Listed, CloseCurr
    <3>2. QED
      BY <1>t, <2>4, <3>1 DEF CloseCurr, WindowInv, TypeOK
  <2>5. QED
    BY <1>1, <1>3, <2>1, <2>2, <2>3, <2>4
       DEF MainRuns, MainWait, StartPass, EndPass, EndSleep, VisitUpdate, Listed
<1>4. CASE MainLock \/ MainSpuriousWakeup \/ ServerLock \/ ServerRelock
           \/ ServerSpuriousWakeup \/ Poll \/ (\E c \in Client : Receive(c))
           \/ StartLocked \/ NotifyWait \/ UNCHANGED vars
  BY <1>1, <1>4 DEF MainLock, MainSpuriousWakeup, ServerLock, ServerRelock,
     ServerSpuriousWakeup, Poll, Receive, StartLocked, NotifyWait, vars, Listed
<1>5. ASSUME NEW n \in Node, CreateNode(n) PROVE WindowInv'
  <2>1. n \notin Listed
    BY <1>t, <1>5 DEF CreateNode, ListsSound
  <2>2. QED
    BY <1>t, <1>5, <2>1 DEF CreateNode, WindowInv, Listed, TypeOK
<1>6. CASE NotifyInjectFails
  <2>1. node \in Node
    BY <1>t, <1>6 DEF NotifyInjectFails, CreatedInv
  <2>2. QED
    BY <1>t, <1>6, <2>1 DEF NotifyInjectFails, Answer, WindowInv, Listed, TypeOK
<1>7. CASE NotifyAppend
  <2>1. node \in Node /\ state[node] = "INIT" /\ window[node] = NoWindow
        /\ heap[node] = "live"
    BY <1>t, <1>7 DEF NotifyAppend, CreatedInv
  <2>2. Listed' = Listed \cup {node}
    BY <1>t, <1>7, AppendNode DEF NotifyAppend, Listed
  <2>3. QED
    BY <1>t, <1>7, <2>1, <2>2 DEF NotifyAppend, WindowInv
<1>8. CASE NotifyUnlock
  <2>1. ASSUME NEW n \in Listed, n \in Node, window[n] = NoWindow PROVE FALSE
    <3>1. n = node /\ heap[n] = "live"
      BY <1>t, <2>1 DEF WindowInv, ListsSound
    <3>2. ReadWindow(node) = {NoWindow}
      BY <2>1, <3>1 DEF ReadWindow
    <3>3. QED
      BY <1>8, <3>2 DEF NotifyUnlock
  <2>2. QED
    BY <1>t, <1>8, <2>1 DEF NotifyUnlock, WindowInv, Listed
<1>9. CASE NotifyReply \/ Refuse \/ Debug \/ ModifyRefused
  BY <1>t, <1>9 DEF NotifyReply, Refuse, Debug, ModifyRefused, ModifyLocked,
                    Answer, WindowInv, Listed
<1>10. ASSUME NEW n \in Node, ModifyOpen(n) \/ ModifyWait(n) PROVE WindowInv'
  <2>1. n \in Listed /\ Listed' = Listed /\ spc = "locked"
    <3>1. CASE ModifyOpen(n)
      BY <3>1, TargetListed DEF ModifyOpen, ModifyLocked, Listed
    <3>2. CASE ModifyWait(n)
      BY <1>t, <3>2, MoveNode DEF ModifyWait, ModifyLocked, Listed
    <3>3. QED
      BY <1>10, <3>1, <3>2
  <2>2. /\ \/ state' = [state EXCEPT ![n] = "REDRAW"]
           \/ state' = [state EXCEPT ![n] = "REOPEN"]
        /\ window' = window /\ heap' = heap
    BY <1>10 DEF ModifyOpen, ModifyWait
  <2>3. QED
    BY <1>t, <2>1, <2>2 DEF WindowInv, TypeOK
<1>11. QED
  BY <1>2, <1>3, <1>4, <1>5, <1>6, <1>7, <1>8, <1>9, <1>10
     DEF Next, ServerRuns, Notify, Modify
LEMMA WaitStep ==
  ASSUME IInv, [Next]_vars
  PROVE  WaitInv'
<1> USE DEF threads, lists, fields, WaitInv
<1>t. TypeOK /\ ServerInv /\ CreatedInv /\ ListsSound /\ WaitInv
  BY DEF IInv
<1>1. ASSUME spc' \notin {"check", "wait", "relock", "opened"} PROVE WaitInv'
  BY <1>1
<1>2. ASSUME UNCHANGED <<node, heap, window>>, Listed \subseteq Listed',
             spc \in {"check", "wait", "relock", "opened"}, spc' # "wait"
      PROVE  WaitInv'
  BY <1>2, <1>t
<1>3. ASSUME UNCHANGED <<spc, node, heap, window>>, Listed \subseteq Listed'
      PROVE  WaitInv'
  BY <1>3, <1>t
<1>4. CASE Environment \/ MainLock \/ MainSpuriousWakeup \/ UNCHANGED vars
  BY <1>3, <1>4 DEF Environment, Send, Click, Elapse, MainLock,
                    MainSpuriousWakeup, vars, Listed
<1>5. CASE MainRuns
  <2>1. CASE VisitInit
    <3>1. Curr \in Node /\ spc' # "wait"
      BY <1>t, <2>1, CurrType DEF VisitInit, SignalNotifOpen
    <3>2. spc' = spc \/ (spc' = "relock" /\ spc = "wait")
      BY <2>1 DEF VisitInit, SignalNotifOpen
    <3>3. QED
      BY <1>t, <2>1, <3>1, <3>2 DEF VisitInit, Listed
  <2>2. CASE ParkPersistent
    <3>1. Listed \subseteq Listed'
      BY <1>t, <2>2, RemoveCurr, ParkCurr DEF Listed
    <3>2. QED
      BY <1>3, <2>2, <3>1 DEF ParkPersistent
  <2>3. CASE CloseCurr
    <3>1. Curr \in Node /\ Listed \ {Curr} \subseteq Listed'
      BY <1>t, <2>3, RemoveCurr DEF Listed, CloseCurr
    <3>2. heap' = [heap EXCEPT ![Curr] = "freed"]
          /\ UNCHANGED <<spc, node, window>>
      BY <2>3 DEF CloseCurr
    <3>3. spc \in {"check", "wait", "relock", "opened"} => node \in Node
      BY <1>t DEF ServerInv
    <3>4. QED
      BY <1>t, <3>1, <3>2, <3>3 DEF TypeOK
  <2>4. QED
    BY <1>3, <1>5, <2>1, <2>2, <2>3 DEF MainRuns, MainWait, StartPass, EndPass,
       EndSleep, VisitUpdate, VisitRedrawOrReopen, Listed
<1>6. CASE ServerLock \/ Poll \/ (\E c \in Client : Receive(c)) \/ Refuse
           \/ StartLocked \/ (\E n \in Node : CreateNode(n)) \/ Modify \/ Debug
           \/ NotifyInjectFails \/ NotifyReply
  BY <1>1, <1>6 DEF ServerLock, Poll, Receive, Refuse, StartLocked, CreateNode,
     Modify, ModifyOpen, ModifyWait, ModifyRefused, Debug, NotifyInjectFails,
     NotifyReply, Answer
<1>7. CASE ServerRelock \/ ServerSpuriousWakeup \/ NotifyUnlock
  BY <1>2, <1>7 DEF ServerRelock, ServerSpuriousWakeup, NotifyUnlock, Listed
<1>8. CASE NotifyWait
  BY <1>t, <1>8 DEF NotifyWait, ReadWindow, Listed
<1>9. CASE NotifyAppend
  <2>1. node' \in Listed'
    BY <1>t, <1>9, AppendNode DEF NotifyAppend, Listed
  <2>2. QED
    BY <1>9, <2>1 DEF NotifyAppend
<1>10. QED
  BY <1>4, <1>5, <1>6, <1>7, <1>8, <1>9 DEF Next, ServerRuns, Notify

LEMMA SleepStep ==
  ASSUME IInv, [Next]_vars
  PROVE  SleepInv'
<1> USE DEF threads, lists, fields, SleepInv
<1>t. TypeOK /\ CreatedInv /\ ListsSound /\ SleepInv
  BY DEF IInv
<1>1. ASSUME mpc' # "wait" PROVE SleepInv'
  BY <1>1
<1>2. ASSUME UNCHANGED <<mpc, open, state>> PROVE SleepInv'
  BY <1>2, <1>t
<1>3. CASE Environment \/ ServerLock \/ ServerRelock \/ ServerSpuriousWakeup
           \/ Poll \/ (\E c \in Client : Receive(c)) \/ Refuse \/ StartLocked
           \/ Debug \/ NotifyInjectFails \/ NotifyWait \/ NotifyUnlock
           \/ NotifyReply \/ UNCHANGED vars
  BY <1>2, <1>3 DEF Environment, Send, Click, Elapse, ServerLock, ServerRelock,
     ServerSpuriousWakeup, Poll, Receive, Refuse, StartLocked, Debug,
     NotifyInjectFails, NotifyWait, NotifyUnlock, NotifyReply, vars
<1>4. CASE MainLock \/ MainSpuriousWakeup
  BY <1>1, <1>4 DEF MainLock, MainSpuriousWakeup
<1>5. CASE MainRuns
  <2>1. CASE MainWait
    BY <2>1, ToSetEmpty DEF MainWait
  <2>2. QED
    BY <1>1, <1>5, <2>1 DEF MainRuns, StartPass, EndPass, EndSleep, VisitInit,
       VisitRedrawOrReopen, VisitUpdate, ParkPersistent, CloseCurr, InPass
<1>6. ASSUME NEW n \in Node, CreateNode(n) PROVE SleepInv'
  <2>1. n \notin ToSet(open)
    BY <1>t, <1>6 DEF CreateNode, ListsSound, Listed
  <2>2. QED
    BY <1>t, <1>6, <2>1 DEF CreateNode, TypeOK
<1>7. CASE NotifyAppend
  BY <1>1, <1>7, <1>t DEF NotifyAppend, SignalNlistEmpty
<1>8. CASE Modify
  <2>1. ASSUME NEW n \in Node, ModifyOpen(n) PROVE SleepInv'
    BY <1>t, <2>1 DEF ModifyOpen, TypeOK
  <2>2. ASSUME NEW n \in Node, ModifyWait(n) PROVE SleepInv'
    <3>1. ToSet(open') = ToSet(open) \cup {n}
      BY <1>t, <2>2, MoveNode
    <3>2. QED
      BY <1>t, <2>2, <3>1 DEF ModifyWait, TypeOK
  <2>3. QED
    BY <1>2, <1>8, <2>1, <2>2 DEF Modify, ModifyRefused
<1>9. QED
  BY <1>3, <1>4, <1>5, <1>6, <1>7, <1>8 DEF Next, ServerRuns, Notify

LEMMA ScreenStep ==
  ASSUME IInv, [Next]_vars
  PROVE  ScreenMatchesLists'
<1> USE DEF threads, lists, fields, screen, ScreenMatchesLists
<1>t. TypeOK /\ CreatedInv /\ ListsSound /\ ScreenMatchesLists
  BY DEF IInv
<1>1. ASSUME UNCHANGED <<open, wait, state, is_persistent, mapped>>
      PROVE  ScreenMatchesLists'
  BY <1>1, <1>t
<1>2. CASE Environment \/ MainLock \/ MainSpuriousWakeup \/ ServerLock
           \/ ServerRelock \/ ServerSpuriousWakeup \/ Poll
           \/ (\E c \in Client : Receive(c)) \/ Refuse \/ StartLocked \/ Debug
           \/ NotifyInjectFails \/ NotifyWait \/ NotifyUnlock \/ NotifyReply
           \/ UNCHANGED vars
  BY <1>1, <1>2 DEF Environment, Send, Click, Elapse, MainLock,
     MainSpuriousWakeup, ServerLock, ServerRelock, ServerSpuriousWakeup, Poll,
     Receive, Refuse, StartLocked, Debug, NotifyInjectFails, NotifyWait,
     NotifyUnlock, NotifyReply, vars
<1>3. CASE MainRuns
  <2>1. CASE VisitInit \/ VisitRedrawOrReopen
    <3>1. Curr \in Node /\ Curr \in ToSet(open)
      BY <1>t, <2>1, CurrType DEF VisitInit, VisitRedrawOrReopen
    <3>2. Curr \notin ToSet(wait)
      BY <1>t, <3>1 DEF ListsSound
    <3>3. /\ state' = [state EXCEPT ![Curr] = "UPDATE"]
          /\ mapped' = [mapped EXCEPT ![Curr] = TRUE]
          /\ UNCHANGED <<open, wait, is_persistent>>
      BY <2>1 DEF VisitInit, VisitRedrawOrReopen, OpenCurr
    <3>4. QED
      BY <1>t, <3>1, <3>2, <3>3 DEF TypeOK
  <2>2. CASE ParkPersistent
    <3>1. /\ Curr \in Node /\ is_persistent[Curr] /\ state[Curr] = "UPDATE"
          /\ mapped' = [mapped EXCEPT ![Curr] = FALSE]
          /\ UNCHANGED <<state, is_persistent>>
      BY <1>t, <2>2, RemoveCurr DEF ParkPersistent, InPass
    <3>2. ToSet(open') = ToSet(open) \ {Curr} /\ ToSet(wait') = ToSet(wait) \cup {Curr}
      BY <1>t, <2>2, RemoveCurr, ParkCurr
    <3>3. QED
      BY <1>t, <3>1, <3>2 DEF TypeOK
  <2>3. CASE CloseCurr
    <3>1. /\ Curr \in Node /\ wait' = wait
          /\ mapped' = [mapped EXCEPT ![Curr] = FALSE]
          /\ UNCHANGED <<state, is_persistent>>
      BY <1>t, <2>3, RemoveCurr DEF CloseCurr
    <3>2. ToSet(open') = ToSet(open) \ {Curr}
      BY <1>t, <2>3, RemoveCurr
    <3>3. QED
      BY <1>t, <3>1, <3>2 DEF TypeOK
  <2>4. QED
    BY <1>1, <1>3, <2>1, <2>2, <2>3
       DEF MainRuns, MainWait, StartPass, EndPass, EndSleep, VisitUpdate
<1>4. ASSUME NEW n \in Node, CreateNode(n) PROVE ScreenMatchesLists'
  <2>1. n \notin ToSet(open) /\ n \notin ToSet(wait)
    BY <1>t, <1>4 DEF CreateNode, ListsSound, Listed
  <2>2. QED
    BY <1>t, <1>4, <2>1 DEF CreateNode, TypeOK
<1>5. CASE NotifyAppend
  <2>1. /\ node \in Node /\ node \notin ToSet(wait) /\ state[node] = "INIT"
        /\ ToSet(open') = ToSet(open) \cup {node}
    BY <1>t, <1>5, AppendNode DEF NotifyAppend, CreatedInv, Listed
  <2>2. QED
    BY <1>t, <1>5, <2>1 DEF NotifyAppend, Injected, TypeOK
<1>6. ASSUME NEW n \in Node, ModifyOpen(n) PROVE ScreenMatchesLists'
  <2>1. n \in ToSet(open) /\ n \notin ToSet(wait)
    BY <1>t, <1>6, TargetListed DEF ModifyOpen, ListsSound
  <2>2. QED
    BY <1>t, <1>6, <2>1 DEF ModifyOpen, Injected, TypeOK
<1>7. ASSUME NEW n \in Node, ModifyWait(n) PROVE ScreenMatchesLists'
  <2>1. /\ ToSet(open') = ToSet(open) \cup {n}
        /\ ToSet(wait') = ToSet(wait) \ {n}
    BY <1>t, <1>7, MoveNode
  <2>2. QED
    BY <1>t, <1>7, <2>1 DEF ModifyWait, Injected, TypeOK
<1>8. CASE ModifyRefused
  BY <1>1, <1>8 DEF ModifyRefused
<1>9. QED
  BY <1>2, <1>3, <1>4, <1>5, <1>6, <1>7, <1>8 DEF Next, ServerRuns, Notify, Modify

-----------------------------------------------------------------------------
(***************************************************************************)
(* The theorems.                                                           *)
(***************************************************************************)
LEMMA InitIInv == Init => IInv
<1> SUFFICES ASSUME Init PROVE IInv
  OBVIOUS
<1>1. open = <<>> /\ wait = <<>> /\ ToSet(open) = {} /\ ToSet(wait) = {}
  BY ToSetEmpty DEF Init
<1>2. <<>> \in Seq(Node) /\ <<>> \in Seq({"left", "other"}) /\ IsInjective(<<>>)
  BY EmptySeq DEF IsInjective
<1>3. TypeOK
  BY <1>2, ConstantsAssumption DEF Init, TypeOK
<1>4. ListsSound /\ ScreenMatchesLists /\ SleepInv
  BY <1>1, <1>2 DEF ListsSound, Listed, ScreenMatchesLists, SleepInv
<1>5. MutualExclusion /\ ServerInv /\ CreatedInv /\ WaitInv
  BY DEF Init, MutualExclusion, ServerInv, CreatedInv, WaitInv
<1>6. WindowInv
  BY <1>1 DEF Init, WindowInv, Listed
<1>7. QED
  BY <1>3, <1>4, <1>5, <1>6 DEF IInv

\* The invariant is inductive: it holds in every reachable state, whatever
\* the clients send, the user clicks and the scheduler does.
THEOREM Inductive == Spec => []IInv
<1>1. IInv /\ [Next]_vars => IInv'
  <2> SUFFICES ASSUME IInv, [Next]_vars PROVE IInv'
    OBVIOUS
  <2>1. TypeOK' /\ MutualExclusion' /\ ListsSound' /\ ScreenMatchesLists'
    BY TypeStep, MutexStep, ListsStep, ScreenStep
  <2>2. ServerInv' /\ CreatedInv' /\ WindowInv' /\ WaitInv' /\ SleepInv'
    BY ServerStep, CreatedStep, WindowStep, WaitStep, SleepStep
  <2>3. QED
    BY <2>1, <2>2 DEF IInv
<1>2. QED
  BY <1>1, InitIInv, PTL DEF Spec
\* Every variable keeps its type.
THEOREM TypeCorrect == Spec => []TypeOK
<1>1. IInv => TypeOK
  BY DEF IInv
<1>2. QED
  BY <1>1, Inductive, PTL

\* nlist_lock excludes the two threads from each other's critical sections.
THEOREM Mutex == Spec => []MutualExclusion
<1>1. IInv => MutualExclusion
  BY DEF IInv
<1>2. QED
  BY <1>1, Inductive, PTL

\* No node is ever in two places, and no freed node is in a list.
THEOREM SoundLists == Spec => []ListsSound
<1>1. IInv => ListsSound
  BY DEF IInv
<1>2. QED
  BY <1>1, Inductive, PTL

\* The lists say what the screen shows.
THEOREM SoundScreen == Spec => []ScreenMatchesLists
<1>1. IInv => ScreenMatchesLists
  BY DEF IInv
<1>2. QED
  BY <1>1, Inductive, PTL

\* No signal is lost that would leave both threads asleep: the node the
\* server thread sleeps for has no window, so it is in the open list and
\* still to be drawn, and then the main thread is not asleep.
THEOREM NoDeadlock == Spec => []NeverBothAsleep
<1>1. IInv => NeverBothAsleep
  <2> SUFFICES ASSUME IInv, mpc = "wait", spc = "wait", heap[node] # "freed"
               PROVE  FALSE
    BY DEF NeverBothAsleep
  <2>1. node \in Listed /\ node \in Node
    BY DEF IInv, WaitInv, ServerInv
  <2>2. heap[node] = "live"
    BY <2>1 DEF IInv, ListsSound
  <2>3. state[node] = "INIT"
    BY <2>1, <2>2 DEF IInv, WaitInv, WindowInv
  <2>4. node \in ToSet(open)
    BY <2>1, <2>3 DEF IInv, ScreenMatchesLists, Listed
  <2>5. QED
    BY <2>3, <2>4 DEF IInv, SleepInv
<1>2. QED
  BY <1>1, Inductive, PTL

\* nlist_find never meets a notification that has no window yet, so an id
\* names at most one notification, and id 0 none.
THEOREM SoundLookup == Spec => []LookupSeesWindows
<1>1. IInv => LookupSeesWindows
  <2> SUFFICES ASSUME IInv, spc = "locked", NEW n \in Listed
               PROVE  window[n] = n
    BY DEF LookupSeesWindows
  <2>1. n \in Node
    BY ToSetType DEF IInv, TypeOK, Listed
  <2>2. QED
    BY <2>1 DEF IInv, WindowInv
<1>2. QED
  BY <1>1, Inductive, PTL

\* The settings and the place of a notification are its owner's to change.
THEOREM Ownership == Spec => OwnerOnly
<1> DEFINE Foreign(n) ==
             \/ timeout'[n] # timeout[n]
             \/ is_persistent'[n] # is_persistent[n]
             \/ n \in ToSet(wait) /\ n \in ToSet(open')
             \/ state[n] = "UPDATE" /\ state'[n] # "UPDATE"
           Owned(n) == client_id[n] = client /\ client \in Client
<1>1. ASSUME IInv, [Next]_vars
      PROVE  \A n \in Listed : Foreign(n) => Owned(n)
  <2> USE DEF threads, lists, fields
  <2> SUFFICES ASSUME NEW n \in Listed, Foreign(n) PROVE Owned(n)
    OBVIOUS
  <2>t. TypeOK /\ ListsSound /\ CreatedInv /\ ServerInv /\ n \in Node
    BY <1>1, ToSetType DEF IInv, TypeOK, Listed
  <2>1. ~(n \in ToSet(wait) /\ n \in ToSet(open))
    BY <2>t DEF ListsSound
  <2>2. ~UNCHANGED <<timeout, is_persistent, state, open>>
    BY <2>1
  <2>3. CASE MainRuns
    <3>1. CASE VisitInit \/ VisitRedrawOrReopen
      <4>1. Curr \in Node
        BY <2>t, <3>1, CurrType DEF VisitInit, VisitRedrawOrReopen
      <4>2. QED
        BY <2>1, <2>t, <3>1, <4>1
           DEF VisitInit, VisitRedrawOrReopen, OpenCurr, TypeOK
    <3>2. CASE ParkPersistent \/ CloseCurr
      <4>1. ToSet(open') \subseteq ToSet(open)
        BY <2>t, <3>2, RemoveCurr
      <4>2. UNCHANGED <<timeout, is_persistent, state>>
        BY <3>2 DEF ParkPersistent, CloseCurr
      <4>3. QED
        BY <2>1, <4>1, <4>2
    <3>3. QED
      BY <2>2, <2>3, <3>1, <3>2
         DEF MainRuns, MainWait, StartPass, EndPass, EndSleep, VisitUpdate
  <2>4. ASSUME NEW k \in Node, CreateNode(k) PROVE Owned(n)
    <3>1. k # n
      BY <2>t, <2>4 DEF CreateNode, ListsSound
    <3>2. QED
      BY <2>1, <2>t, <2>4, <3>1 DEF CreateNode, TypeOK
  <2>5. CASE NotifyAppend
    <3>1. node # n /\ node \in Node /\ ToSet(open') = ToSet(open) \cup {node}
      BY <2>t, <2>5, AppendNode
    <3>2. QED
      BY <2>1, <2>t, <2>5, <3>1 DEF NotifyAppend, Injected, TypeOK
  <2>6. ASSUME NEW k \in Node, ModifyOpen(k) PROVE Owned(n)
    <3>1. client_id[k] = client /\ client \in Client
      BY <2>t, <2>6, TargetListed DEF ModifyOpen, ModifyLocked, ServerInv
    <3>2. n = k
      BY <2>1, <2>t, <2>6 DEF ModifyOpen, Injected, TypeOK
    <3>3. QED
      BY <3>1, <3>2
  <2>7. ASSUME NEW k \in Node, ModifyWait(k) PROVE Owned(n)
    <3>1. client_id[k] = client /\ client \in Client
      BY <2>t, <2>7, TargetListed DEF ModifyWait, ModifyLocked, ServerInv
    <3>2. ToSet(open') = ToSet(open) \cup {k}
      BY <2>t, <2>7, MoveNode
    <3>3. n = k
      BY <2>1, <2>t, <2>7, <3>2 DEF ModifyWait, Injected, TypeOK
    <3>4. QED
      BY <3>1, <3>3
  <2>8. QED
    BY <1>1, <2>2, <2>3, <2>4, <2>5, <2>6, <2>7
       DEF Next, Environment, Send, Click, Elapse, MainLock, MainSpuriousWakeup,
           ServerLock, ServerRelock, ServerSpuriousWakeup, ServerRuns, Poll,
           Receive, Refuse, StartLocked, Debug, Notify, NotifyInjectFails,
           NotifyWait, NotifyUnlock, NotifyReply, Modify, ModifyRefused, vars
<1>2. IInv /\ [Next]_vars =>
        [\A n \in Listed : Foreign(n) => Owned(n)]_vars
  BY <1>1
<1>3. QED
  BY <1>2, Inductive, PTL DEF Spec, OwnerOnly

\* The client of a NOT learns the id of its own notification, provided the
\* node has not been freed before the id is read.
THEOREM LiveReply == Spec => LiveReplyNamesNotification
<1> DEFINE Names == spc = "opened" /\ spc' # "opened" /\ heap[node] = "live"
                      => replies'[client] = [hdr |-> "OK", nid |-> node]
<1>1. ASSUME IInv, [Next]_vars PROVE Names
  <2> SUFFICES ASSUME spc = "opened", spc' # "opened", heap[node] = "live"
               PROVE  replies'[client] = [hdr |-> "OK", nid |-> node]
    OBVIOUS
  <2>1. NotifyReply
    BY <1>1 DEF Next, Environment, Send, Click, Elapse, MainLock, threads, vars,
       MainSpuriousWakeup, ServerLock, ServerRelock, ServerSpuriousWakeup,
       MainRuns, MainWait, StartPass, EndPass, EndSleep, VisitInit,
       VisitRedrawOrReopen, VisitUpdate, ParkPersistent, CloseCurr,
       SignalNotifOpen, ServerRuns, Poll, Receive, Refuse, StartLocked, Debug,
       Notify, CreateNode, NotifyInjectFails, NotifyAppend, NotifyWait,
       NotifyUnlock, Modify, ModifyOpen, ModifyWait, ModifyRefused, ModifyLocked
  <2>2. node \in Listed /\ node \in Node /\ client \in Client
    BY <1>1 DEF IInv, WaitInv, ServerInv
  <2>3. window[node] = node
    BY <1>1, <2>2 DEF IInv, WindowInv
  <2>4. Answer("OK", node)
    BY <2>1, <2>3 DEF NotifyReply, ReadWindow
  <2>5. QED
    BY <1>1, <2>2, <2>4 DEF Answer, IInv, TypeOK
<1>2. IInv /\ [Next]_vars => [Names]_vars
  BY <1>1
<1>3. QED
  BY <1>2, Inductive, PTL DEF Spec, LiveReplyNamesNotification

-----------------------------------------------------------------------------
(***************************************************************************)
(* The two lists are those of Lists.                                       *)
(***************************************************************************)

\* Lists has its own copies of the operators on sequences.
LEMMA SameOperators ==
  /\ \A s : Sequences!ToSet(s) = ToSet(s)
  /\ \A s, i : Sequences!RemoveAt(s, i) = RemoveAt(s, i)
BY DEF Sequences!ToSet, ToSet, Sequences!RemoveAt, RemoveAt

\* The nodes that a pass has closed.
Closed == {n \in Node : heap[n] = "freed" /\ window[n] = n}

LEMMA InitLists == Init => Sequences!Init
BY DEF Init, Sequences!Init

\* A visit is Keep, Park or Close, NOT adds and MOD may reopen; what the
\* threads do besides does not touch the lists.
LEMMA StepLists == IInv /\ [Next]_vars => [Sequences!Next]_(Sequences!vars)
<1> USE DEF threads, lists, fields, screen, wire
<1> DEFINE at == IF mpc = "pass" THEN pos ELSE 0
           unseen == UNCHANGED <<open, wait, Closed, at>>
<1>1. unseen => UNCHANGED Sequences!vars
  BY DEF Sequences!vars, Closed
<1>2. SUFFICES ASSUME IInv, [Next]_vars
               PROVE  Sequences!Next \/ unseen
  BY <1>1
<1>t. /\ TypeOK /\ ListsSound /\ MutualExclusion /\ CreatedInv /\ WindowInv
      /\ open \in Seq(Node) /\ wait \in Seq(Node) /\ pos \in Nat \ {0}
      /\ Len(open) \in Nat /\ DOMAIN wait = 1..Len(wait)
      /\ NoWindow \notin Node
  BY <1>2, LenProperties, ConstantsAssumption DEF IInv, TypeOK
<1>3. ASSUME StartPass
      PROVE  Sequences!StartPass
  BY <1>3, <1>t DEF StartPass, Sequences!StartPass
<1>4. ASSUME VisitInit \/ VisitRedrawOrReopen \/ VisitUpdate
      PROVE  Sequences!Keep
  <2>1. mpc = "pass" /\ mpc' = "pass" /\ pos <= Len(open) /\ pos' = pos + 1
        /\ UNCHANGED <<open, wait, heap>>
    BY <1>4 DEF VisitInit, VisitRedrawOrReopen, VisitUpdate, InPass
  <2>2. Curr \in Node /\ heap[Curr] = "live"
    BY <1>4, <1>t, CurrType
       DEF VisitInit, VisitRedrawOrReopen, VisitUpdate, ListsSound, Listed
  <2>3. Closed' = Closed
    <3>1. window' = window \/ window' = [window EXCEPT ![Curr] = Curr]
      BY <1>4 DEF VisitInit, OpenCurr, VisitRedrawOrReopen, VisitUpdate
    <3>2. \A n \in Node : heap[n] = "freed" => window'[n] = window[n]
      BY <1>t, <2>2, <3>1 DEF TypeOK
    <3>3. QED
      BY <2>1, <3>2 DEF Closed
  <2>4. QED
    BY <1>t, <2>1, <2>3 DEF Sequences!Keep, Sequences!Visiting, Closed
<1>5. ASSUME ParkPersistent
      PROVE  Sequences!Park
  <2>1. /\ mpc = "pass" /\ mpc' = "pass" /\ pos <= Len(open) /\ pos' = pos
        /\ open' = RemoveAt(open, pos) /\ wait' = Append(wait, open[pos])
        /\ UNCHANGED <<heap, window>>
    BY <1>5 DEF ParkPersistent, InPass, Curr
  <2>2. QED
    BY <1>t, <2>1, SameOperators DEF Sequences!Park, Sequences!Visiting
<1>6. ASSUME CloseCurr
      PROVE  Sequences!Close
  <2>1. /\ mpc = "pass" /\ mpc' = "pass" /\ pos <= Len(open) /\ pos' = pos
        /\ open' = RemoveAt(open, pos) /\ wait' = wait
        /\ state[Curr] = "UPDATE" /\ window' = window
        /\ heap' = [heap EXCEPT ![Curr] = "freed"]
    BY <1>6 DEF CloseCurr, InPass
  <2>2. Curr \in Node /\ Curr \in Listed
    BY <1>6, <1>t, CurrType DEF CloseCurr, Listed
  <2>3. window[Curr] = Curr
    BY <1>t, <2>1, <2>2 DEF WindowInv
  <2>4. Closed' = Closed \cup {Curr}
    BY <1>t, <2>1, <2>2, <2>3 DEF Closed, TypeOK
  <2>5. QED
    BY <1>t, <2>1, <2>4, SameOperators
       DEF Sequences!Close, Sequences!Visiting, Closed, Curr
<1>7. ASSUME EndPass
      PROVE  Sequences!EndPass
  BY <1>7, <1>t DEF EndPass, Sequences!EndPass
<1>8. ASSUME NotifyAppend
      PROVE  Sequences!Add(node) /\ node \in Node
  <2>1. /\ node \in Node \ Listed /\ heap[node] = "live"
        /\ mpc # "pass" /\ mpc' # "pass"
        /\ open' = Append(open, node) /\ UNCHANGED <<wait, heap, window>>
    BY <1>8, <1>t
       DEF NotifyAppend, SignalNlistEmpty, CreatedInv, MutualExclusion
  <2>2. QED
    BY <1>t, <2>1, SameOperators DEF Sequences!Add, Listed
<1>9. ASSUME NEW n \in Node, ModifyWait(n)
      PROVE  Sequences!Reopen(n)
  <2>1. /\ mpc # "pass" /\ mpc' = mpc /\ UNCHANGED <<heap, window>>
        /\ open' = Append(open, n)
        /\ \E i \in DOMAIN wait : wait[i] = n /\ wait' = RemoveAt(wait, i)
    BY <1>9, <1>t DEF ModifyWait, ModifyLocked, MoveToOpen, MutualExclusion
  <2>2. QED
    BY <1>t, <2>1, SameOperators DEF Sequences!Reopen
<1>10. ASSUME NEW n \in Node, CreateNode(n)
       PROVE  unseen
  <2>1. /\ heap[n] = "unused" /\ heap' = [heap EXCEPT ![n] = "live"]
        /\ UNCHANGED <<open, wait, window, mpc, pos>>
    BY <1>10 DEF CreateNode
  <2>2. Closed' = Closed
    BY <1>t, <2>1 DEF Closed, TypeOK
  <2>3. QED
    BY <2>1, <2>2
<1>11. ASSUME NotifyInjectFails
       PROVE  unseen
  <2>1. /\ heap' = [heap EXCEPT ![node] = "freed"]
        /\ UNCHANGED <<open, wait, window, mpc, pos>>
        /\ node \in Node /\ window[node] = NoWindow
    BY <1>11, <1>t DEF NotifyInjectFails, CreatedInv
  <2>2. Closed' = Closed
    BY <1>t, <2>1 DEF Closed, TypeOK
  <2>3. QED
    BY <2>1, <2>2
<1>12. ASSUME \/ Environment \/ MainLock \/ MainSpuriousWakeup \/ MainWait \/ EndSleep
              \/ ServerLock \/ ServerRelock \/ ServerSpuriousWakeup
              \/ Poll \/ (\E c \in Client : Receive(c)) \/ Refuse \/ StartLocked
              \/ NotifyWait \/ NotifyUnlock \/ NotifyReply
              \/ (\E n \in Node : ModifyOpen(n)) \/ ModifyRefused \/ Debug
              \/ UNCHANGED vars
       PROVE  unseen
  <2>1. UNCHANGED <<open, wait, heap, window>>
    BY <1>12
       DEF Environment, Send, Click, Elapse, MainLock, MainSpuriousWakeup, MainWait,
           EndSleep, ServerLock, ServerRelock, ServerSpuriousWakeup, Poll, Receive,
           Refuse, StartLocked, NotifyWait, NotifyUnlock, NotifyReply, ModifyOpen,
           ModifyRefused, Debug, vars
  <2>2. at' = at
    BY <1>12
       DEF Environment, Send, Click, Elapse, MainLock, MainSpuriousWakeup, MainWait,
           EndSleep, ServerLock, ServerRelock, ServerSpuriousWakeup, Poll, Receive,
           Refuse, StartLocked, NotifyWait, NotifyUnlock, NotifyReply, ModifyOpen,
           ModifyRefused, Debug, vars
  <2>3. QED
    BY <2>1, <2>2 DEF Closed
<1>13. \/ Sequences!StartPass \/ Sequences!Keep \/ Sequences!Park \/ Sequences!Close
       \/ Sequences!EndPass \/ (\E n \in Node : Sequences!Add(n) \/ Sequences!Reopen(n))
       \/ unseen
  BY <1>2, <1>3, <1>4, <1>5, <1>6, <1>7, <1>8, <1>9, <1>10, <1>11, <1>12
     DEF Next, MainRuns, ServerRuns, Notify, Modify
<1>14. QED
  BY <1>13 DEF Sequences!Next

\* The threads do to their lists what Lists allows.
THEOREM ListsKept == Spec => ImplementsLists
<1>1. Spec => Sequences!Init /\ [][Sequences!Next]_(Sequences!vars)
  BY InitLists, StepLists, Inductive, PTL DEF Spec
<1>2. QED
  BY <1>1 DEF ImplementsLists, Sequences!Spec

-----------------------------------------------------------------------------
(***************************************************************************)
(* What the service needs of the threads.                                  *)
(***************************************************************************)

\* Where the server thread is after it has appended what a NOT has created.
Serving == {"check", "wait", "relock", "opened"}

LEMMA ServiceStep ==
  ASSUME IInv, ServiceInv, [Next]_vars
  PROVE  ServiceInv'
<1> USE DEF threads, lists, fields, screen, wire
<1> DEFINE MapInv == \A n \in Node : mapped[n] => window[n] = n
           OwnInv == spc \in {"lock", "locked"} /\ msg.cmd = "NOT"
                       => client_id[node] = client
           FreedInv == spc \in Serving /\ heap[node] = "freed" => window[node] = node
           DrawnInv == spc \in Serving /\ node \in ToSet(open) /\ window[node] = node
                         => state[node] = "UPDATE"
<1>t. /\ TypeOK /\ ListsSound /\ MutualExclusion /\ ServerInv /\ CreatedInv
      /\ WindowInv /\ WaitInv /\ NoWindow \notin Node
      /\ MapInv /\ OwnInv /\ FreedInv /\ DrawnInv
  BY ConstantsAssumption DEF IInv, ServiceInv, Serving
<1>1. MapInv'
  <2>1. CASE VisitInit \/ VisitRedrawOrReopen
    <3>1. /\ Curr \in Node /\ Curr \in Listed
          /\ \/ window' = window /\ state[Curr] \in {"REDRAW", "REOPEN"}
             \/ window' = [window EXCEPT ![Curr] = Curr]
          /\ mapped' = [mapped EXCEPT ![Curr] = TRUE]
      BY <1>t, <2>1, CurrType
         DEF VisitInit, OpenCurr, VisitRedrawOrReopen, InPass, Listed
    <3>2. window'[Curr] = Curr
      BY <1>t, <3>1 DEF WindowInv, TypeOK
    <3>3. QED
      BY <1>t, <3>1, <3>2 DEF TypeOK
  <2>2. CASE ParkPersistent \/ CloseCurr
    <3>1. mapped' = [mapped EXCEPT ![Curr] = FALSE] /\ window' = window
      BY <2>2 DEF ParkPersistent, CloseCurr
    <3>2. QED
      BY <1>t, <3>1 DEF TypeOK
  <2>3. CASE UNCHANGED <<mapped, window>>
    BY <1>t, <2>3
  <2>4. QED
    BY <2>1, <2>2, <2>3
       DEF Next, Environment, Send, Click, Elapse, MainLock, MainSpuriousWakeup,
           MainRuns, MainWait, StartPass, EndPass, EndSleep, VisitUpdate,
           ServerLock, ServerRelock, ServerSpuriousWakeup, ServerRuns, Poll,
           Receive, Refuse, StartLocked, Debug, Notify, CreateNode,
           NotifyInjectFails, NotifyAppend, NotifyWait, NotifyUnlock,
           NotifyReply, Modify, ModifyOpen, ModifyWait, ModifyRefused, vars
<1>2. OwnInv'
  <2>1. ASSUME NEW n \in Node, CreateNode(n) PROVE OwnInv'
    BY <1>t, <2>1 DEF CreateNode, TypeOK
  <2>2. CASE StartLocked
    BY <2>2 DEF StartLocked, msg
  <2>3. ASSUME NEW c \in Client, Send(c) PROVE OwnInv'
    <3>1. spc \in {"lock", "locked"} => client # c
      BY <1>t, <2>3 DEF Send, ServerInv
    <3>2. spc \in {"lock", "locked"} => msg' = msg
      BY <1>t, <2>3, <3>1 DEF Send, msg, TypeOK, ServerInv
    <3>3. QED
      BY <1>t, <2>3, <3>2 DEF Send
  <2>4. CASE spc' \in {"lock", "locked"} => /\ spc \in {"lock", "locked"}
                                            /\ UNCHANGED <<requests, client, node, client_id>>
    BY <1>t, <2>4 DEF msg
  <2>5. QED
    BY <2>1, <2>2, <2>3, <2>4
       DEF Next, Environment, Click, Elapse, MainLock, MainSpuriousWakeup,
           MainRuns, MainWait, StartPass, EndPass, EndSleep, VisitInit, SignalNotifOpen,
           VisitRedrawOrReopen, VisitUpdate, ParkPersistent, CloseCurr,
           ServerLock, ServerRelock, ServerSpuriousWakeup, ServerRuns, Poll,
           Receive, Refuse, Answer, Debug, Notify,
           NotifyInjectFails, NotifyAppend, NotifyWait, NotifyUnlock,
           NotifyReply, Modify, ModifyOpen, ModifyWait, ModifyRefused, vars
<1>3. FreedInv' /\ DrawnInv'
  <2>1. CASE VisitInit \/ VisitRedrawOrReopen
    <3>1. /\ Curr \in Node /\ Curr \in Listed
          /\ spc' \in Serving => spc \in Serving
          /\ \/ window' = window
             \/ window' = [window EXCEPT ![Curr] = Curr]
          /\ state' = [state EXCEPT ![Curr] = "UPDATE"]
          /\ UNCHANGED <<heap, node, open>>
      BY <1>t, <2>1, CurrType
         DEF VisitInit, OpenCurr, VisitRedrawOrReopen, Listed, SignalNotifOpen, Serving
    <3>2. spc \in Serving => node \in Node
      BY <1>t DEF ServerInv, Serving
    <3>3. ASSUME spc' \in Serving
          PROVE  /\ spc \in Serving /\ node \in Node /\ node' = node
                 /\ node # Curr => window'[node] = window[node]
                                   /\ state'[node] = state[node]
                 /\ node = Curr => /\ state'[node] = "UPDATE"
                                   /\ window[node] = node => window'[node] = node
      BY <1>t, <3>1, <3>2, <3>3 DEF TypeOK
    <3>4. FreedInv'
      BY <1>t, <3>1, <3>3
    <3>5. DrawnInv'
      BY <1>t, <3>1, <3>3
    <3>6. QED
      BY <3>4, <3>5
  <2>2. CASE ParkPersistent
    <3>1. ToSet(open') \subseteq ToSet(open)
      BY <1>t, <2>2, RemoveCurr
    <3>2. QED
      BY <1>t, <2>2, <3>1 DEF ParkPersistent
  <2>3. CASE CloseCurr
    <3>1. /\ ToSet(open') \subseteq ToSet(open) /\ Curr \in Node /\ Curr \in Listed
          /\ state[Curr] = "UPDATE" /\ heap' = [heap EXCEPT ![Curr] = "freed"]
          /\ UNCHANGED <<spc, node, window, state>>
      BY <1>t, <2>3, RemoveCurr DEF CloseCurr, InPass, Listed
    <3>2. window[Curr] = Curr
      BY <1>t, <3>1 DEF WindowInv
    <3>3. spc \in Serving => node \in Node
      BY <1>t DEF ServerInv, Serving
    <3>4. QED
      BY <1>t, <3>1, <3>2, <3>3 DEF TypeOK
  <2>4. CASE NotifyAppend
    <3>1. /\ node \in Node /\ heap[node] = "live" /\ window[node] = NoWindow
          /\ UNCHANGED <<node, heap, window>>
      BY <1>t, <2>4 DEF NotifyAppend, CreatedInv
    <3>2. QED
      BY <1>t, <3>1
  <2>5. CASE spc' \in Serving => /\ spc \in Serving
                                 /\ UNCHANGED <<node, heap, window, open, state>>
    BY <1>t, <2>5
  <2>6. QED
    BY <2>1, <2>2, <2>3, <2>4, <2>5
       DEF Next, Environment, Send, Click, Elapse, MainLock, MainSpuriousWakeup,
           MainRuns, MainWait, StartPass, EndPass, EndSleep, VisitUpdate,
           ServerLock, ServerRelock, ServerSpuriousWakeup, ServerRuns, Poll,
           Receive, Refuse, StartLocked, Answer, Debug, Notify, CreateNode,
           NotifyInjectFails, NotifyWait, NotifyUnlock, Serving,
           NotifyReply, Modify, ModifyOpen, ModifyWait, ModifyRefused, vars
<1>4. QED
  BY <1>1, <1>2, <1>3 DEF ServiceInv, Serving

LEMMA ServiceInvariant == Spec => []ServiceInv
<1>1. Init => ServiceInv
  BY DEF Init, ServiceInv
<1>2. IInv /\ ServiceInv /\ [Next]_vars => ServiceInv'
  BY ServiceStep
<1>3. QED
  BY <1>1, <1>2, Inductive, PTL DEF Spec

-----------------------------------------------------------------------------
(***************************************************************************)
(* The two threads implement the service.                                  *)
(***************************************************************************)

\* What the service sees of the state of the daemon.
Phases   == [n \in Node |-> PhaseOf(n)]
Owners   == [n \in Node |-> IF PhaseOf(n) = "none" THEN NULL ELSE client_id[n]]
Askings  == [c \in Client |-> Asked(requests[c])]
Openings == [c \in Client |-> IF client = c /\ spc \in Serving THEN node ELSE NULL]

\* The other steps change nothing of it.
Unseen == UNCHANGED <<Phases, Owners, is_persistent, Askings, Openings, replies>>

\* The phase of a notification, by where it is; the same for the next state.
LEMMA PhaseIs ==
  ASSUME ListsSound, NEW n \in Node
  PROVE  /\ n \in ToSet(open) /\ mapped[n] => PhaseOf(n) = "shown"
         /\ n \in ToSet(open) /\ ~mapped[n] => PhaseOf(n) = "queued"
         /\ n \in ToSet(wait) => PhaseOf(n) = "parked"
         /\ n \notin Listed =>
              PhaseOf(n) = IF heap[n] = "freed" /\ window[n] = n THEN "gone" ELSE "none"
<1>1. /\ n \in Listed <=> n \in ToSet(open) \/ n \in ToSet(wait)
      /\ ~(n \in ToSet(open) /\ n \in ToSet(wait))
  BY DEF ListsSound, Listed
<1>2. QED
  BY <1>1 DEF PhaseOf

LEMMA PhaseBecomes ==
  ASSUME ListsSound', NEW n \in Node
  PROVE  /\ n \in ToSet(open') /\ mapped'[n] => PhaseOf(n)' = "shown"
         /\ n \in ToSet(open') /\ ~mapped'[n] => PhaseOf(n)' = "queued"
         /\ n \in ToSet(wait') => PhaseOf(n)' = "parked"
         /\ n \notin Listed' =>
              PhaseOf(n)' = IF heap'[n] = "freed" /\ window'[n] = n THEN "gone" ELSE "none"
<1>1. /\ n \in Listed' <=> n \in ToSet(open') \/ n \in ToSet(wait')
      /\ ~(n \in ToSet(open') /\ n \in ToSet(wait'))
  BY DEF ListsSound, Listed
<1>2. QED
  BY <1>1 DEF PhaseOf

\* A notification keeps its phase when nothing happens to it.
LEMMA PhaseKept ==
  ASSUME NEW n \in Node,
         n \in ToSet(open') <=> n \in ToSet(open),
         n \in ToSet(wait') <=> n \in ToSet(wait),
         heap'[n] = heap[n], window'[n] = window[n], mapped'[n] = mapped[n]
  PROVE  PhaseOf(n)' = PhaseOf(n)
<1>1. n \in Listed' <=> n \in Listed
  BY DEF Listed
<1>2. QED
  BY <1>1 DEF PhaseOf

LEMMA PhasesKept ==
  ASSUME UNCHANGED <<lists, heap, window, mapped>>
  PROVE  Phases' = Phases /\ (client_id' = client_id => Owners' = Owners)
<1>1. \A n \in Node : PhaseOf(n)' = PhaseOf(n)
  BY PhaseKept DEF lists
<1>2. QED
  BY <1>1 DEF Phases, Owners

\* One notification may change its phase, and keeps its owner.
LEMMA OnePhase ==
  ASSUME NEW n \in Node, NEW p,
         \A k \in Node \ {n} : PhaseOf(k)' = PhaseOf(k),
         PhaseOf(n)' = p
  PROVE  /\ Phases' = [Phases EXCEPT ![n] = p]
         /\ client_id' = client_id /\ PhaseOf(n) # "none" /\ p # "none"
              => Owners' = Owners
<1>1. Phases' = [Phases EXCEPT ![n] = p]
  BY DEF Phases
<1>2. ASSUME client_id' = client_id, PhaseOf(n) # "none", p # "none"
      PROVE  Owners' = Owners
  <2>1. \A k \in Node : PhaseOf(k)' = "none" <=> PhaseOf(k) = "none"
    BY <1>2
  <2>2. QED
    BY <1>2, <2>1 DEF Owners
<1>3. QED
  BY <1>1, <1>2

\* While the server thread is not serving a NOT that it has appended, no
\* request has an open notification.
LEMMA NoneOpening ==
  /\ spc \notin Serving => Openings = [c \in Client |-> NULL]
  /\ spc' \notin Serving => Openings' = [c \in Client |-> NULL]
BY DEF Openings

\* What the service sees of a request.
LEMMA AskedIs ==
  ASSUME TypeOK, NEW c \in Client, requests[c] # NULL
  PROVE  /\ requests[c] \in Request
         /\ Askings[c] # NULL /\ Askings[c] = Asked(requests[c])
         /\ Askings[c].cmd = requests[c].cmd
         /\ Askings[c].pst = requests[c].pst
         /\ Askings[c].nid = requests[c].nid
<1>1. requests[c] \in Request
  BY DEF TypeOK
<1>2. Askings[c] = Asked(requests[c]) /\ Asked(requests[c]) # NULL
  BY <1>1, ServiceAssumption DEF Askings
<1>3. Asked(requests[c]) =
        [cmd |-> requests[c].cmd, pst |-> requests[c].pst, nid |-> requests[c].nid]
  BY DEF Asked
<1>4. QED
  BY <1>1, <1>2, <1>3

\* The handlers end with the answer to the client they serve.
LEMMA AnswerMaps ==
  ASSUME TypeOK, client \in Client, NEW hdr, NEW nid, Answer(hdr, nid)
  PROVE  /\ Service!Answer(client, [hdr |-> hdr, nid |-> nid])
         /\ Openings' = [c \in Client |-> NULL]
<1>1. /\ requests' = [requests EXCEPT ![client] = NULL]
      /\ replies' = [replies EXCEPT ![client] = [hdr |-> hdr, nid |-> nid]]
      /\ spc' = "poll"
  BY DEF Answer
<1>2. Askings' = [Askings EXCEPT ![client] = NULL]
  BY <1>1 DEF Askings, Asked, TypeOK
<1>3. Openings' = [c \in Client |-> NULL]
  BY <1>1, NoneOpening DEF Serving
<1>4. QED
  BY <1>1, <1>2, <1>3 DEF Service!Answer, Askings

\* The settings that a request may change are those the service speaks of.
LEMMA InjectedMaps ==
  ASSUME TypeOK, client \in Client, msg # NULL, NEW n \in Node, Injected(n)
  PROVE  is_persistent' = [is_persistent EXCEPT ![n] =
                             Service!Persists(Askings[client], @)]
<1>1. Askings[client].pst = msg.pst
  BY AskedIs DEF msg
<1>2. QED
  BY <1>1 DEF Injected, Service!Persists, TypeOK

LEMMA InitService == Init => Service!Init
<1> SUFFICES ASSUME Init PROVE Service!Init
  OBVIOUS
<1>1. ToSet(open) = {} /\ ToSet(wait) = {}
  BY ToSetEmpty DEF Init
<1>2. \A n \in Node : PhaseOf(n) = "none"
  BY <1>1 DEF Init, PhaseOf, Listed
<1>3. QED
  BY <1>2 DEF Init, Service!Init, Asked

\* What both invariants say, as the steps below need it.
LEMMA ServiceFacts ==
  ASSUME IInv, ServiceInv
  PROVE  /\ TypeOK /\ ListsSound /\ MutualExclusion /\ ServerInv /\ CreatedInv
         /\ WindowInv /\ WaitInv /\ ScreenMatchesLists
         /\ \A n \in Node : mapped[n] => window[n] = n
         /\ \A n \in Listed : n \in Node /\ heap[n] = "live"
         /\ NoWindow \notin Node /\ NULL \notin Node /\ NULL \notin Client
         /\ spc # "poll" => client \in Client /\ msg # NULL /\ msg \in Request
<1>1. \A n \in Listed : n \in Node
  BY ToSetType DEF IInv, TypeOK, Listed
<1>2. spc # "poll" => client \in Client /\ msg # NULL /\ msg \in Request
  BY MsgType DEF IInv, ServerInv, msg
<1>3. QED
  BY <1>1, <1>2, ConstantsAssumption DEF IInv, ServiceInv, ListsSound

\* A client sends; the service sees the same.
LEMMA SendMaps ==
  ASSUME IInv, ServiceInv, NEW c \in Client, Send(c)
  PROVE  Service!Send(c)
<1> USE DEF threads, lists, fields, screen, wire
<1>1. /\ requests[c] = NULL /\ replies' = [replies EXCEPT ![c] = NULL]
      /\ UNCHANGED <<threads, lists, heap, fields, screen>>
  BY DEF Send
<1>2. PICK r \in Requests : requests' = [requests EXCEPT ![c] = r]
  BY DEF Send
<1>3. r \in Request /\ r # NULL
  BY ConstantsAssumption
<1>4. /\ Askings[c] = NULL
      /\ Askings' = [Askings EXCEPT ![c] = Asked(r)]
      /\ Askings'[c] = Asked(r)
  BY <1>1, <1>2, ServiceFacts DEF Askings, Asked, TypeOK
<1>5. Asked(r) \in Service!Request
  <2>1. Asked(r) = [cmd |-> r.cmd, pst |-> r.pst, nid |-> r.nid]
    BY <1>3 DEF Asked
  <2>2. /\ r.cmd \in {"NOT", "MOD", "DBG"} /\ r.pst \in {"none", "true", "false"}
        /\ r.nid \in WindowId \cup {Absent}
    BY <1>3 DEF Request, WindowId
  <2>3. QED
    BY <2>1, <2>2 DEF Service!Request
<1>6. Phases' = Phases /\ Owners' = Owners
  BY <1>1, PhasesKept
<1>7. Openings' = Openings /\ is_persistent' = is_persistent
  BY <1>1 DEF Openings
<1>8. QED
  BY <1>1, <1>4, <1>5, <1>6, <1>7
     DEF Service!Send, Phases, Owners, Askings, Openings, Serving

\* A visit of the pass may show a notification.
LEMMA VisitMaps ==
  ASSUME IInv, ServiceInv, ListsSound', VisitInit \/ VisitRedrawOrReopen
  PROVE  (\E n \in Node : Service!Show(n)) \/ Unseen
<1> USE DEF lists, fields, wire
<1>1. /\ Curr \in Node /\ Curr \in ToSet(open) /\ heap[Curr] = "live"
      /\ mapped' = [mapped EXCEPT ![Curr] = TRUE]
      /\ window' = window \/ window' = [window EXCEPT ![Curr] = Curr]
      /\ UNCHANGED <<open, wait, heap, client_id, is_persistent, requests,
                     replies, client, node>>
      /\ spc' \in Serving <=> spc \in Serving
  BY ServiceFacts, CurrType
     DEF VisitInit, OpenCurr, VisitRedrawOrReopen, Listed, SignalNotifOpen, Serving
<1>2. \A k \in Node \ {Curr} : PhaseOf(k)' = PhaseOf(k)
  <2>1. SUFFICES ASSUME NEW k \in Node \ {Curr} PROVE PhaseOf(k)' = PhaseOf(k)
    OBVIOUS
  <2>2. window'[k] = window[k] /\ mapped'[k] = mapped[k] /\ heap'[k] = heap[k]
    BY <1>1, ServiceFacts DEF TypeOK
  <2>3. QED
    BY <1>1, <2>2, PhaseKept
<1>3. mapped'[Curr] /\ Curr \in ToSet(open')
  BY <1>1, ServiceFacts DEF TypeOK
<1> DEFINE n == Curr
<1>4. \E k \in Node : k = n
  BY <1>1
<1>5. PICK k \in Node : k = n
  BY <1>4
<1> HIDE DEF n
<1>6. PhaseOf(k)' = "shown"
  <2>1. k = Curr
    BY <1>5 DEF n
  <2>2. k \in ToSet(open') /\ mapped'[k]
    BY <1>3, <2>1
  <2>3. QED
    BY <2>2, PhaseBecomes
<1>7. PhaseOf(k) = IF mapped[k] THEN "shown" ELSE "queued"
  BY <1>1, <1>5, PhaseIs, ServiceFacts DEF n
<1>8. Phases' = [Phases EXCEPT ![k] = "shown"] /\ Owners' = Owners
  BY <1>1, <1>2, <1>5, <1>6, <1>7, OnePhase DEF n
<1>9. Askings' = Askings /\ Openings' = Openings
  BY <1>1 DEF Askings, Openings
<1>10. CASE mapped[k]
  <2>1. Phases' = Phases
    BY <1>7, <1>8, <1>10 DEF Phases
  <2>2. QED
    BY <1>1, <1>8, <1>9, <2>1 DEF Unseen
<1>11. CASE ~mapped[k]
  <2>1. Phases[k] = "queued"
    BY <1>7, <1>11 DEF Phases
  <2>2. Service!Show(k)
    BY <1>1, <1>8, <1>9, <2>1
       DEF Service!Show, Phases, Owners, Askings, Openings, Serving
  <2>3. QED
    BY <2>2
<1>12. QED
  BY <1>10, <1>11

\* A visit that ends a notification parks it if it is persistent, and else
\* closes it.
LEMMA EndMaps ==
  ASSUME IInv, ServiceInv, ListsSound', ParkPersistent \/ CloseCurr
  PROVE  \E n \in Node : Service!End(n)
<1> USE DEF threads, lists, fields, wire
<1>1. /\ Curr \in Node /\ Curr \in ToSet(open) /\ state[Curr] = "UPDATE"
      /\ ToSet(open') = ToSet(open) \ {Curr}
      /\ mapped' = [mapped EXCEPT ![Curr] = FALSE]
      /\ UNCHANGED <<window, client_id, is_persistent, requests, replies,
                     client, node, spc>>
  BY ServiceFacts, RemoveCurr DEF ParkPersistent, CloseCurr, InPass
<1>2. /\ ParkPersistent => /\ ToSet(wait') = ToSet(wait) \cup {Curr}
                           /\ heap' = heap /\ is_persistent[Curr]
      /\ CloseCurr => /\ wait' = wait /\ ~is_persistent[Curr]
                      /\ heap' = [heap EXCEPT ![Curr] = "freed"]
  BY ServiceFacts, ParkCurr DEF ParkPersistent, CloseCurr
<1>3. window[Curr] = Curr /\ mapped[Curr] /\ Curr \notin ToSet(wait)
  BY <1>1, ServiceFacts DEF WindowInv, ScreenMatchesLists, ListsSound, Listed
<1> DEFINE p == IF is_persistent[Curr] THEN "parked" ELSE "gone"
<1>4. PICK k \in Node : k = Curr
  BY <1>1
<1>5. PhaseOf(k)' = p
  <2>1. CASE ParkPersistent
    BY <1>2, <1>4, <2>1, PhaseBecomes
  <2>2. CASE CloseCurr
    <3>1. /\ k \notin Listed' /\ heap'[k] = "freed" /\ window'[k] = k
          /\ ~is_persistent[k]
      BY <1>1, <1>2, <1>3, <1>4, <2>2, ServiceFacts DEF Listed, TypeOK
    <3>2. QED
      BY <1>4, <3>1, PhaseBecomes
  <2>3. QED
    BY <2>1, <2>2
<1>6. PhaseOf(k) = "shown"
  BY <1>1, <1>3, <1>4, PhaseIs, ServiceFacts
<1>7. \A j \in Node \ {k} : PhaseOf(j)' = PhaseOf(j)
  <2>1. SUFFICES ASSUME NEW j \in Node \ {k} PROVE PhaseOf(j)' = PhaseOf(j)
    OBVIOUS
  <2>2. /\ j \in ToSet(open') <=> j \in ToSet(open)
        /\ j \in ToSet(wait') <=> j \in ToSet(wait)
        /\ heap'[j] = heap[j] /\ window'[j] = window[j] /\ mapped'[j] = mapped[j]
    BY <1>1, <1>2, <1>4, ServiceFacts DEF TypeOK
  <2>3. QED
    BY <2>2, PhaseKept
<1>8. Phases' = [Phases EXCEPT ![k] = p] /\ Owners' = Owners
  BY <1>1, <1>5, <1>6, <1>7, OnePhase
<1>9. Askings' = Askings /\ Openings' = Openings
  BY <1>1 DEF Askings, Openings
<1>10. Phases[k] = "shown"
  BY <1>6 DEF Phases
<1>11. Service!End(k)
  BY <1>1, <1>4, <1>8, <1>9, <1>10
     DEF Service!End, Phases, Owners, Askings, Openings, Serving
<1>12. QED
  BY <1>11

\* A request is refused, before or after its node has been created.
LEMMA RefuseMaps ==
  ASSUME IInv, ServiceInv, ListsSound', Refuse \/ NotifyInjectFails \/ ModifyRefused
  PROVE  \E c \in Client : Service!Refuse(c)
<1> USE DEF lists, fields, screen
<1>1. /\ spc \notin Serving /\ spc # "poll" /\ Answer("ERR", Absent)
      /\ UNCHANGED <<lists, window, mapped, client_id, is_persistent>>
  BY DEF Refuse, NotifyInjectFails, ModifyRefused, ModifyLocked, Serving
<1>2. client \in Client /\ msg # NULL
  BY <1>1, ServiceFacts
<1>3. /\ Service!Answer(client, Service!Error)
      /\ Openings' = [c \in Client |-> NULL]
  BY <1>1, <1>2, AnswerMaps, ServiceFacts DEF Service!Error
<1>4. Openings = [c \in Client |-> NULL]
  BY <1>1, NoneOpening
<1>5. Askings[client] # NULL
  BY <1>2, AskedIs, ServiceFacts DEF msg
<1>6. Phases' = Phases /\ Owners' = Owners
  <2>1. CASE heap' = heap
    BY <1>1, <2>1, PhasesKept
  <2>2. CASE NotifyInjectFails
    <3>1. /\ node \in Node \ Listed /\ heap[node] = "live" /\ window[node] = NoWindow
          /\ heap' = [heap EXCEPT ![node] = "freed"]
      BY <2>2, ServiceFacts DEF NotifyInjectFails, CreatedInv
    <3>2. ASSUME NEW k \in Node PROVE PhaseOf(k)' = PhaseOf(k)
      <4>1. CASE k = node
        <5>1. PhaseOf(k) = "none"
          BY <3>1, <4>1, PhaseIs, ServiceFacts
        <5>2. k \notin Listed' /\ window'[k] # k
          BY <1>1, <3>1, <4>1, ServiceFacts DEF Listed
        <5>3. QED
          BY <5>1, <5>2, PhaseBecomes
      <4>2. CASE k # node
        <5>1. heap'[k] = heap[k]
          BY <3>1, <4>2, ServiceFacts DEF TypeOK
        <5>2. QED
          BY <1>1, <5>1, PhaseKept
      <4>3. QED
        BY <4>1, <4>2
    <3>3. QED
      BY <1>1, <3>2 DEF Phases, Owners
  <2>3. QED
    BY <2>1, <2>2 DEF Refuse, ModifyRefused
<1>7. Service!Refuse(client)
  <2>1. Openings[client] = NULL /\ Openings' = Openings
    BY <1>2, <1>3, <1>4
  <2>2. QED
    BY <1>1, <1>3, <1>5, <1>6, <2>1
       DEF Service!Refuse, Phases, Owners, Askings, Openings, Serving
<1>8. QED
  BY <1>2, <1>7

LEMMA DebugMaps ==
  ASSUME IInv, ServiceInv, Debug
  PROVE  \E c \in Client : Service!Debug(c)
<1> USE DEF lists, fields, screen
<1>1. /\ spc = "locked" /\ msg.cmd = "DBG" /\ Answer("OK", Absent)
      /\ UNCHANGED <<lists, heap, window, mapped, client_id, is_persistent>>
  BY DEF Debug
<1>2. client \in Client /\ msg # NULL
  BY <1>1, ServiceFacts
<1>3. /\ Service!Answer(client, Service!OK(Absent))
      /\ Openings' = Openings
  BY <1>1, <1>2, AnswerMaps, NoneOpening, ServiceFacts DEF Service!OK, Serving
<1>4. Service!Asks(client, "DBG")
  BY <1>1, <1>2, AskedIs, ServiceFacts DEF Service!Asks, Askings, msg
<1>5. Phases' = Phases /\ Owners' = Owners
  BY <1>1, PhasesKept
<1>6. Service!Debug(client)
  BY <1>1, <1>3, <1>4, <1>5
     DEF Service!Debug, Phases, Owners, Askings, Openings, Serving
<1>7. QED
  BY <1>2, <1>6

\* A node that has only been created is nobody's notification yet.
LEMMA CreateMaps ==
  ASSUME IInv, ServiceInv, ListsSound', NEW n \in Node, CreateNode(n)
  PROVE  Unseen
<1> USE DEF lists, screen, wire
<1>1. /\ heap[n] = "unused" /\ heap' = [heap EXCEPT ![n] = "live"]
      /\ client_id' = [client_id EXCEPT ![n] = client]
      /\ spc \notin Serving /\ spc' \notin Serving
      /\ UNCHANGED <<lists, window, mapped, is_persistent, requests, replies>>
  BY DEF CreateNode, Serving
<1>2. n \notin Listed /\ n \notin Listed'
  BY <1>1, ServiceFacts DEF Listed
<1>3. PhaseOf(n) = "none" /\ PhaseOf(n)' = "none"
  <2>1. heap[n] # "freed" /\ heap'[n] # "freed"
    BY <1>1, ServiceFacts DEF TypeOK
  <2>2. QED
    BY <1>2, <2>1, PhaseIs, PhaseBecomes, ServiceFacts
<1>4. ASSUME NEW k \in Node, k # n
      PROVE  PhaseOf(k)' = PhaseOf(k) /\ client_id'[k] = client_id[k]
  <2>1. heap'[k] = heap[k] /\ client_id'[k] = client_id[k]
    BY <1>1, <1>4, ServiceFacts DEF TypeOK
  <2>2. QED
    BY <1>1, <2>1, PhaseKept
<1>5. Phases' = Phases /\ Owners' = Owners
  BY <1>3, <1>4 DEF Phases, Owners
<1>6. Openings' = Openings /\ Askings' = Askings
  BY <1>1, NoneOpening DEF Askings
<1>7. QED
  BY <1>1, <1>5, <1>6 DEF Unseen

\* NOT appends its node: the notification is queued.
LEMMA AppendMaps ==
  ASSUME IInv, ServiceInv, ListsSound', NotifyAppend
  PROVE  \E c \in Client, n \in Node : Service!Open(c, n)
<1> USE DEF screen, wire
<1>1. /\ spc = "locked" /\ spc' = "check" /\ msg.cmd = "NOT" /\ Injected(node)
      /\ UNCHANGED <<wait, heap, window, mapped, client_id, requests, replies,
                     client, node>>
  BY DEF NotifyAppend
<1>2. /\ node \in Node \ Listed /\ heap[node] = "live" /\ window[node] = NoWindow
      /\ ToSet(open') = ToSet(open) \cup {node}
      /\ client_id[node] = client
  BY <1>1, ServiceFacts, AppendNode DEF CreatedInv, ServiceInv
<1>3. client \in Client /\ msg # NULL /\ ~mapped[node]
  BY <1>1, <1>2, ServiceFacts
<1>4. PICK n \in Node : n = node
  BY <1>2
<1>5. PhaseOf(n) = "none" /\ PhaseOf(n)' = "queued"
  <2>1. n \in ToSet(open') /\ ~mapped'[n]
    BY <1>1, <1>2, <1>3, <1>4
  <2>2. QED
    BY <1>2, <1>4, <2>1, PhaseIs, PhaseBecomes, ServiceFacts
<1>6. ASSUME NEW k \in Node \ {n}
      PROVE  PhaseOf(k)' = PhaseOf(k)
  <2>1. k \in ToSet(open') <=> k \in ToSet(open)
    BY <1>2, <1>4
  <2>2. QED
    BY <1>1, <2>1, PhaseKept
<1>7. Phases' = [Phases EXCEPT ![n] = "queued"]
  BY <1>5, <1>6, OnePhase
<1>8. Owners' = [Owners EXCEPT ![n] = client]
  BY <1>1, <1>2, <1>4, <1>5, <1>6 DEF Owners
<1>9. Openings = [c \in Client |-> NULL]
      /\ Openings' = [Openings EXCEPT ![client] = n]
  <2>1. Openings = [c \in Client |-> NULL]
    BY <1>1, NoneOpening DEF Serving
  <2>2. Openings' = [c \in Client |-> IF client = c THEN n ELSE NULL]
    BY <1>1, <1>4 DEF Openings, Serving
  <2>3. QED
    BY <1>3, <2>1, <2>2
<1>10. /\ Askings' = Askings /\ Service!Asks(client, "NOT")
       /\ is_persistent' = [is_persistent EXCEPT ![n] =
                              Service!Persists(Askings[client], @)]
  <2>1. Service!Asks(client, "NOT")
    BY <1>1, <1>3, AskedIs, ServiceFacts DEF Service!Asks, Askings, msg
  <2>2. Injected(n)
    BY <1>1, <1>4
  <2>3. QED
    BY <1>1, <1>3, <2>1, <2>2, InjectedMaps, ServiceFacts DEF Askings
<1>11. Phases[n] = "none" /\ Openings[client] = NULL
  BY <1>3, <1>5, <1>9 DEF Phases
<1>12. Service!Open(client, n)
  BY <1>1, <1>7, <1>8, <1>9, <1>10, <1>11
     DEF Service!Open, Phases, Owners, Askings, Openings, Serving
<1>13. QED
  BY <1>3, <1>12

\* NOT is answered: its notification has been shown, and has its id, or it is
\* gone.
LEMMA ReplyMaps ==
  ASSUME IInv, ServiceInv, NotifyReply
  PROVE  \E c \in Client : Service!AnswerOpen(c)
<1> USE DEF lists, fields, screen
<1>1. /\ spc = "opened"
      /\ UNCHANGED <<lists, heap, window, mapped, client_id, is_persistent>>
  BY DEF NotifyReply
<1>2. PICK id \in ReadWindow(node) : Answer("OK", id)
  BY DEF NotifyReply
<1>3. /\ client \in Client /\ node \in Node
      /\ node \in Listed \/ heap[node] = "freed"
  BY <1>1, ServiceFacts DEF ServerInv, WaitInv
<1>4. id \in WindowId
  BY <1>2, <1>3, ServiceFacts DEF ReadWindow, WindowId, TypeOK
<1>5. /\ Service!Answer(client, Service!OK(id))
      /\ Openings' = [c \in Client |-> NULL]
  BY <1>2, <1>3, AnswerMaps, ServiceFacts DEF Service!OK
<1>6. /\ Openings = [c \in Client |-> IF client = c THEN node ELSE NULL]
      /\ Openings[client] = node /\ node # NULL
      /\ Openings' = [Openings EXCEPT ![client] = NULL]
  <2>1. Openings = [c \in Client |-> IF client = c THEN node ELSE NULL]
    BY <1>1 DEF Openings, Serving
  <2>2. QED
    BY <1>3, <1>5, <2>1, ServiceFacts
<1>7. \/ PhaseOf(node) = "gone"
      \/ PhaseOf(node) \in {"shown", "parked"} /\ id = node
  <2>1. CASE node \in Listed
    <3>1. heap[node] = "live" /\ window[node] = node /\ id = node
      BY <1>1, <1>2, <1>3, <2>1, ServiceFacts DEF WindowInv, ReadWindow
    <3>2. node \in ToSet(open) => mapped[node]
      BY <1>1, <3>1, ServiceFacts DEF ServiceInv, ScreenMatchesLists
    <3>3. PhaseOf(node) \in {"shown", "parked"}
      BY <1>3, <2>1, <3>2, PhaseIs, ServiceFacts DEF Listed
    <3>4. QED
      BY <3>1, <3>3
  <2>2. CASE node \notin Listed
    <3>1. heap[node] = "freed" /\ window[node] = node
      BY <1>1, <1>3, <2>2 DEF ServiceInv
    <3>2. QED
      BY <1>3, <2>2, <3>1, PhaseIs, ServiceFacts
  <2>3. QED
    BY <2>1, <2>2
<1>8. Phases[node] = PhaseOf(node)
  BY <1>3 DEF Phases
<1>9. Phases' = Phases /\ Owners' = Owners
  BY <1>1, PhasesKept
<1>10. \/ Phases[Openings[client]] = "gone"
       \/ Phases[Openings[client]] \in {"shown", "parked"} /\ id = Openings[client]
  BY <1>6, <1>7, <1>8
<1>11. PICK c \in Client : c = client
  BY <1>3
<1>12. Service!AnswerOpen(c)
  BY <1>1, <1>4, <1>5, <1>6, <1>9, <1>10, <1>11
     DEF Service!AnswerOpen, Phases, Owners, Askings, Openings, Serving
<1>13. QED
  BY <1>11, <1>12

\* A MOD changes the notification it names, its sender's own, wherever that is.
LEMMA ModifyMaps ==
  ASSUME IInv, ServiceInv, ListsSound', NEW n \in Node, ModifyOpen(n) \/ ModifyWait(n)
  PROVE  \E c \in Client : Service!Modify(c, n)
<1> USE DEF screen
<1>1. /\ spc = "locked" /\ msg.cmd = "MOD" /\ Injected(n) /\ Answer("OK", msg.nid)
      /\ UNCHANGED <<heap, window, mapped, client_id>>
  BY DEF ModifyOpen, ModifyWait, ModifyLocked
<1>2. /\ n \in Listed /\ window[n] = msg.nid /\ client_id[n] = client
      /\ ModifyOpen(n) => n \in ToSet(open) /\ lists' = lists
      /\ ModifyWait(n) => /\ n \in ToSet(wait)
                          /\ ToSet(open') = ToSet(open) \cup {n}
                          /\ ToSet(wait') = ToSet(wait) \ {n}
  BY TargetListed, MoveNode, ServiceFacts DEF ModifyOpen, ModifyWait, Listed
<1>3. client \in Client /\ msg # NULL /\ msg.nid = n
  BY <1>1, <1>2, ServiceFacts DEF WindowInv
<1>4. /\ Service!Answer(client, Service!OK(n))
      /\ Openings' = Openings
  BY <1>1, <1>3, AnswerMaps, NoneOpening, ServiceFacts DEF Service!OK, Serving
<1>5. /\ Service!Asks(client, "MOD") /\ Askings[client].nid = n
  BY <1>1, <1>3, AskedIs, ServiceFacts DEF Service!Asks, Askings, msg
<1>6. is_persistent' = [is_persistent EXCEPT ![n] =
                          Service!Persists(Askings[client], @)]
  BY <1>1, <1>3, InjectedMaps, ServiceFacts
<1> DEFINE p == IF PhaseOf(n) = "parked" THEN "queued" ELSE PhaseOf(n)
<1>7. PhaseOf(n) \in {"queued", "shown", "parked"} /\ PhaseOf(n)' = p
  <2>1. ASSUME ModifyOpen(n)
        PROVE  PhaseOf(n) \in {"queued", "shown"} /\ PhaseOf(n)' = PhaseOf(n)
    <3>1. n \in ToSet(open) /\ lists' = lists
      BY <1>2, <2>1
    <3>2. PhaseOf(n)' = PhaseOf(n)
      BY <1>1, <3>1, PhaseKept DEF lists
    <3>3. QED
      BY <3>1, <3>2, PhaseIs, ServiceFacts
  <2>2. ASSUME ModifyWait(n)
        PROVE  PhaseOf(n) = "parked" /\ PhaseOf(n)' = "queued"
    <3>1. n \in ToSet(wait) /\ n \in ToSet(open')
      BY <1>2, <2>2
    <3>2. ~mapped'[n]
      BY <1>1, <3>1, ServiceFacts DEF ScreenMatchesLists
    <3>3. QED
      BY <3>1, <3>2, PhaseIs, PhaseBecomes, ServiceFacts
  <2>3. QED
    BY <2>1, <2>2
<1>8. ASSUME NEW k \in Node \ {n}
      PROVE  PhaseOf(k)' = PhaseOf(k)
  <2>1. /\ k \in ToSet(open') <=> k \in ToSet(open)
        /\ k \in ToSet(wait') <=> k \in ToSet(wait)
    BY <1>2 DEF lists
  <2>2. QED
    BY <1>1, <2>1, PhaseKept
<1>9. Phases' = [Phases EXCEPT ![n] = p] /\ Owners' = Owners
  BY <1>1, <1>7, <1>8, OnePhase
<1>10. Phases[n] = PhaseOf(n) /\ Owners[n] = client
  BY <1>2, <1>7 DEF Phases, Owners
<1>11. Phases' = [Phases EXCEPT ![n] = IF @ = "parked" THEN "queued" ELSE @]
  BY <1>9, <1>10
<1>12. Service!Modify(client, n)
  BY <1>4, <1>5, <1>6, <1>7, <1>9, <1>10, <1>11
     DEF Service!Modify, Phases, Owners, Askings, Openings, Serving
<1>13. QED
  BY <1>3, <1>12

\* The service does not see the other steps.
LEMMA UnseenMaps ==
  ASSUME IInv, ServiceInv,
         \/ \E n \in Node : Click(n) \/ Elapse(n)
         \/ MainLock \/ MainSpuriousWakeup \/ MainWait \/ StartPass \/ EndPass
         \/ EndSleep \/ VisitUpdate
         \/ ServerLock \/ ServerRelock \/ ServerSpuriousWakeup
         \/ Poll \/ (\E c \in Client : Receive(c)) \/ StartLocked
         \/ NotifyWait \/ NotifyUnlock \/ UNCHANGED vars
  PROVE  Unseen
<1> USE DEF threads, lists, fields, screen, wire
<1>1. UNCHANGED <<lists, heap, window, mapped, client_id, is_persistent,
                  requests, replies>>
  BY DEF Click, Elapse, MainLock, MainSpuriousWakeup, MainWait, StartPass, EndPass,
         EndSleep, VisitUpdate, ServerLock, ServerRelock, ServerSpuriousWakeup,
         Poll, Receive, StartLocked, NotifyWait, NotifyUnlock, vars
<1>2. \/ UNCHANGED <<client, node>> /\ (spc' \in Serving <=> spc \in Serving)
      \/ spc \notin Serving /\ spc' \notin Serving
  BY DEF Click, Elapse, MainLock, MainSpuriousWakeup, MainWait, StartPass, EndPass,
         EndSleep, VisitUpdate, ServerLock, ServerRelock, ServerSpuriousWakeup,
         Poll, Receive, StartLocked, NotifyWait, NotifyUnlock, vars, Serving
<1>3. Openings' = Openings
  <2>1. CASE UNCHANGED <<client, node>> /\ (spc' \in Serving <=> spc \in Serving)
    BY <2>1 DEF Openings
  <2>2. CASE spc \notin Serving /\ spc' \notin Serving
    BY <2>2, NoneOpening
  <2>3. QED
    BY <1>2, <2>1, <2>2
<1>4. Phases' = Phases /\ Owners' = Owners
  BY <1>1, PhasesKept
<1>5. QED
  BY <1>1, <1>3, <1>4 DEF Unseen, Askings

\* Each step of the threads is one of the service, or is not seen by it.
LEMMA StepService ==
  IInv /\ ServiceInv /\ IInv' /\ [Next]_vars => [Service!Next]_(Service!vars)
<1>1. SUFFICES ASSUME IInv, ServiceInv, IInv', [Next]_vars
               PROVE  [Service!Next]_(Service!vars)
  OBVIOUS
<1>2. ListsSound'
  BY <1>1 DEF IInv
<1>3. Unseen => UNCHANGED Service!vars
  BY DEF Unseen, Service!vars, Phases, Owners, Askings, Openings, Serving
<1>4. CASE \E c \in Client : Send(c)
  BY <1>1, <1>4, SendMaps DEF Service!Next
<1>5. CASE VisitInit \/ VisitRedrawOrReopen
  BY <1>1, <1>2, <1>3, <1>5, VisitMaps DEF Service!Next
<1>6. CASE ParkPersistent \/ CloseCurr
  BY <1>1, <1>2, <1>6, EndMaps DEF Service!Next
<1>7. CASE Refuse \/ NotifyInjectFails \/ ModifyRefused
  BY <1>1, <1>2, <1>7, RefuseMaps DEF Service!Next
<1>8. CASE Debug
  BY <1>1, <1>8, DebugMaps DEF Service!Next
<1>9. CASE \E n \in Node : CreateNode(n)
  BY <1>1, <1>2, <1>3, <1>9, CreateMaps
<1>10. CASE NotifyAppend
  BY <1>1, <1>2, <1>10, AppendMaps DEF Service!Next
<1>11. CASE NotifyReply
  BY <1>1, <1>11, ReplyMaps DEF Service!Next
<1>12. CASE \E n \in Node : ModifyOpen(n) \/ ModifyWait(n)
  BY <1>1, <1>2, <1>12, ModifyMaps DEF Service!Next
<1>13. CASE \/ \E n \in Node : Click(n) \/ Elapse(n)
            \/ MainLock \/ MainSpuriousWakeup \/ MainWait \/ StartPass \/ EndPass
            \/ EndSleep \/ VisitUpdate
            \/ ServerLock \/ ServerRelock \/ ServerSpuriousWakeup
            \/ Poll \/ (\E c \in Client : Receive(c)) \/ StartLocked
            \/ NotifyWait \/ NotifyUnlock \/ UNCHANGED vars
  BY <1>1, <1>3, <1>13, UnseenMaps
<1>14. QED
  BY <1>1, <1>4, <1>5, <1>6, <1>7, <1>8, <1>9, <1>10, <1>11, <1>12, <1>13
     DEF Next, Environment, MainRuns, ServerRuns, Notify, Modify

\* The two threads keep the promise made to the clients: MOD is atomic, what
\* is refused has no effect, and NOT is answered after its notification has
\* been shown.
THEOREM ServiceKept == Spec => ImplementsService
<1>1. Spec => Service!Init /\ [][Service!Next]_(Service!vars)
  BY InitService, StepService, Inductive, ServiceInvariant, PTL DEF Spec
<1>2. QED
  BY <1>1 DEF ImplementsService, Service!Spec

=============================================================================
