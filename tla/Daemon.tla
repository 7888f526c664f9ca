------------------------------- MODULE Daemon -------------------------------
(***************************************************************************)
(* The two threads of unotd and the notifications they share.              *)
(*                                                                         *)
(* The main thread (main.c) draws: it sleeps on the condition nlist_empty  *)
(* while the open list is empty, and otherwise runs one pass of            *)
(* server_update_notifications every 50 ms.  The server thread             *)
(* (server.c, command.c) takes the requests of the clients one at a time;  *)
(* a NOT request appends a notification and sleeps on the condition        *)
(* notif_open until the main thread has given it a window.  nlist_lock     *)
(* protects both lists, every listed notification and the X display.       *)
(*                                                                         *)
(* The lists are sequences here; NList shows that the pointers of nlist.c  *)
(* implement them.  The bytes of a request, fonts, colours and geometry    *)
(* are not part of this module.                                            *)
(***************************************************************************)
EXTENDS Naturals, FiniteSets, SequencesExt

CONSTANTS
  Client,          \* client ids (server.h: Client.id), one per connection
  Node,            \* the NotificationNodes that calloc may return
  Requests,        \* the requests clients may send, a subset of Request
  DefaultTimeout,  \* config.timeout > 0
  NULL,            \* no request, no reply, no node
  NoWindow,        \* Window 0
  Garbage,         \* an id that names no window, read from freed memory
  Absent,          \* the nid field is not in the message
  MaxRequests,     \* bound: requests sent in a behaviour
  MaxEvents        \* bound: ButtonPress events queued per window

(***************************************************************************)
(* A request after hf_message_parse: the command and the fields the        *)
(* handlers tell apart.  ind is "bad" when indicator_init_str refuses the  *)
(* indicator string; tim is whether the timeout field is absent, 0 or not. *)
(***************************************************************************)
Request == [cmd : {"NOT", "MOD", "DBG"},
            txt : BOOLEAN,
            ind : {"none", "good", "bad"},
            tim : {"none", "zero", "positive"},
            pst : {"none", "true", "false"},
            nid : Node \cup {NoWindow, Absent}]

WindowId == Node \cup {NoWindow, Garbage}
Reply == [hdr : {"OK", "ERR"}, nid : WindowId \cup {Absent}]

ASSUME ConstantsAssumption ==
  /\ Requests \subseteq Request
  /\ DefaultTimeout \in BOOLEAN
  /\ NULL \notin Node \cup Client \cup Request \cup Reply
  /\ NoWindow \notin Node /\ Garbage \notin Node /\ Absent \notin WindowId
  /\ NoWindow # Garbage
  /\ MaxRequests \in Nat /\ MaxEvents \in Nat

VARIABLES
  lock,            \* the holder of nlist_lock, or "none"
  mpc,             \* where the main thread is
  pos,             \* the position in open the update pass has reached
  spc,             \* where the server thread is
  polled,          \* clients poll() reported readable and not yet served
  client,          \* the client whose request is being handled
  node,            \* the node _handle_command_notify has created
  open, wait,      \* ServerCtx.open, ServerCtx.wait
  heap,            \* "unused", "live" or "freed", per node
  state,           \* Notification.state
  window,          \* Notification.window
  client_id,       \* Notification.client_id
  is_persistent,   \* Notification.is_persistent
  timeout,         \* Notification.timeout > 0
  elapsed,         \* timeout seconds have gone by since start_time
  mapped,          \* the X server shows the window
  events,          \* the window's ButtonPress events, oldest first
  requests,        \* what each client has sent and not yet been answered
  replies,         \* the last reply to each client
  sent             \* the number of requests sent so far

threads == <<lock, mpc, pos, spc, polled, client, node>>
lists   == <<open, wait>>
fields  == <<state, window, client_id, is_persistent, timeout>>
screen  == <<elapsed, mapped, events>>
wire    == <<requests, replies, sent>>
vars    == <<threads, lists, heap, fields, screen, wire>>

msg == requests[client]

TypeOK ==
  /\ lock \in {"none", "main", "server"}
  /\ mpc \in {"lock", "check", "wait", "pass", "sleep"}
  /\ pos \in Nat \ {0}
  /\ spc \in {"poll", "command", "lock", "locked", "check", "wait", "relock",
              "opened"}
  /\ polled \subseteq Client
  /\ client \in Client \cup {NULL}
  /\ node \in Node \cup {NULL}
  /\ open \in Seq(Node) /\ wait \in Seq(Node)
  /\ heap \in [Node -> {"unused", "live", "freed"}]
  /\ state \in [Node -> {"INIT", "REOPEN", "REDRAW", "UPDATE"}]
  /\ window \in [Node -> Node \cup {NoWindow}]
  /\ client_id \in [Node -> Client \cup {NULL}]
  /\ is_persistent \in [Node -> BOOLEAN]
  /\ timeout \in [Node -> BOOLEAN]
  /\ elapsed \in [Node -> BOOLEAN]
  /\ mapped \in [Node -> BOOLEAN]
  /\ events \in [Node -> Seq({"left", "other"})]
  /\ requests \in [Client -> Request \cup {NULL}]
  /\ replies \in [Client -> Reply \cup {NULL}]
  /\ sent \in Nat

Init ==
  /\ lock = "none" /\ mpc = "lock" /\ pos = 1
  /\ spc = "poll" /\ polled = {} /\ client = NULL /\ node = NULL
  /\ open = <<>> /\ wait = <<>>
  /\ heap = [n \in Node |-> "unused"]
  /\ state = [n \in Node |-> "INIT"]
  /\ window = [n \in Node |-> NoWindow]
  /\ client_id = [n \in Node |-> NULL]
  /\ is_persistent = [n \in Node |-> FALSE]
  /\ timeout = [n \in Node |-> DefaultTimeout]
  /\ elapsed = [n \in Node |-> FALSE]
  /\ mapped = [n \in Node |-> FALSE]
  /\ events = [n \in Node |-> <<>>]
  /\ requests = [c \in Client |-> NULL]
  /\ replies = [c \in Client |-> NULL]
  /\ sent = 0

-----------------------------------------------------------------------------
(***************************************************************************)
(* The environment: clients, the user's mouse and the clock.               *)
(***************************************************************************)

\* Bound: no more NOT requests under way than calloc has nodes left.
NodeLeft ==
  Cardinality({c \in Client : requests[c] # NULL /\ requests[c].cmd = "NOT"})
    < Cardinality({n \in Node : heap[n] = "unused"})

\* A client sends a request and waits for the answer, as client.c does.
Send(c) ==
  /\ requests[c] = NULL
  /\ sent < MaxRequests
  /\ \E r \in Requests : /\ r.cmd = "NOT" => NodeLeft
                         /\ requests' = [requests EXCEPT ![c] = r]
  /\ replies' = [replies EXCEPT ![c] = NULL]
  /\ sent' = sent + 1
  /\ UNCHANGED <<threads, lists, heap, fields, screen>>

\* The user presses a mouse button on a window that is on the screen.
Click(n) ==
  /\ mapped[n]
  /\ Len(events[n]) < MaxEvents
  /\ \E b \in {"left", "other"} : events' = [events EXCEPT ![n] = Append(@, b)]
  /\ UNCHANGED <<threads, lists, heap, fields, wire, elapsed, mapped>>

\* The timeout of a notification in the open list runs out.
Elapse(n) ==
  /\ n \in ToSet(open) /\ window[n] # NoWindow
  /\ timeout[n] /\ ~elapsed[n]
  /\ elapsed' = [elapsed EXCEPT ![n] = TRUE]
  /\ UNCHANGED <<threads, lists, heap, fields, wire, mapped, events>>

-----------------------------------------------------------------------------
(***************************************************************************)
(* The main thread.                                                        *)
(***************************************************************************)

\* Faults: the signal is forgotten.
NoSignalNlistEmpty == UNCHANGED mpc
NoSignalNotifOpen  == UNCHANGED spc

\* pthread_cond_signal of a condition only one thread ever waits for: the
\* sleeper, if there is one, goes on to take the mutex again.
SignalNlistEmpty == mpc' = IF mpc = "wait" THEN "lock" ELSE mpc
SignalNotifOpen  == spc' = IF spc = "wait" THEN "relock" ELSE spc

MainLock ==
  /\ mpc = "lock" /\ lock = "none"
  /\ lock' = "main" /\ mpc' = "check"
  /\ UNCHANGED <<pos, spc, polled, client, node,
                 lists, heap, fields, screen, wire>>

\* pthread_cond_wait releases the mutex and sleeps in one step.
MainWait ==
  /\ mpc = "check" /\ open = <<>>
  /\ lock' = "none" /\ mpc' = "wait"
  /\ UNCHANGED <<pos, spc, polled, client, node,
                 lists, heap, fields, screen, wire>>

\* POSIX lets a wait end although nobody has signalled the condition.
MainSpuriousWakeup ==
  /\ mpc = "wait" /\ mpc' = "lock"
  /\ UNCHANGED <<lock, pos, spc, polled, client, node,
                 lists, heap, fields, screen, wire>>

StartPass ==
  /\ mpc = "check" /\ open # <<>>
  /\ mpc' = "pass" /\ pos' = 1
  /\ UNCHANGED <<lock, spc, polled, client, node,
                 lists, heap, fields, screen, wire>>

Curr == open[pos]

InPass(s) == mpc = "pass" /\ pos <= Len(open) /\ state[Curr] = s

\* notification_open creates the window, starts the clock and maps it.
OpenCurr ==
  /\ window' = [window EXCEPT ![Curr] = Curr]
  /\ mapped' = [mapped EXCEPT ![Curr] = TRUE]
  /\ elapsed' = [elapsed EXCEPT ![Curr] = FALSE]

VisitInit ==
  /\ InPass("INIT")
  /\ OpenCurr
  /\ SignalNotifOpen
  /\ state' = [state EXCEPT ![Curr] = "UPDATE"]
  /\ pos' = pos + 1
  /\ UNCHANGED <<lock, mpc, polled, client, node, lists, heap, client_id,
                 is_persistent, timeout, events, wire>>

\* Fault: notification_map is called for UNOT_NEED_REDRAW only.
VisitWithoutMap ==
  /\ InPass("REDRAW") \/ InPass("REOPEN")
  /\ state' = [state EXCEPT ![Curr] = "UPDATE"]
  /\ pos' = pos + 1
  /\ UNCHANGED <<lock, mpc, spc, polled, client, node, lists, heap, window,
                 client_id, is_persistent, timeout, elapsed, events, wire,
                 mapped>>

VisitRedrawOrReopen ==
  /\ InPass("REDRAW") \/ InPass("REOPEN")
  /\ mapped' = [mapped EXCEPT ![Curr] = TRUE]
  /\ state' = [state EXCEPT ![Curr] = "UPDATE"]
  /\ pos' = pos + 1
  /\ UNCHANGED <<lock, mpc, spc, polled, client, node, lists, heap, window,
                 client_id, is_persistent, timeout, elapsed, events, wire>>

\* Fault: the timeout is not looked at.
EndsOnClick(n) == events[n] # <<>> /\ Head(events[n]) = "left"

\* notification_update returns false: the oldest event is a left click, or
\* the timeout has run out.  It takes the oldest event off the queue.
UpdateEnds(n) == \/ events[n] # <<>> /\ Head(events[n]) = "left"
                 \/ timeout[n] /\ elapsed[n]

TakeEvent(n) == events' = [events EXCEPT ![n] = IF @ = <<>> THEN @ ELSE Tail(@)]

VisitUpdate ==
  /\ InPass("UPDATE")
  /\ ~UpdateEnds(Curr)
  /\ TakeEvent(Curr)
  /\ pos' = pos + 1
  /\ UNCHANGED <<lock, mpc, spc, polled, client, node, lists, heap, fields,
                 elapsed, mapped, wire>>

\* A persistent notification is unmapped and parked in the wait list.
ParkPersistent ==
  /\ InPass("UPDATE")
  /\ UpdateEnds(Curr)
  /\ is_persistent[Curr]
  /\ TakeEvent(Curr)
  /\ mapped' = [mapped EXCEPT ![Curr] = FALSE]
  /\ open' = RemoveAt(open, pos)
  /\ wait' = Append(wait, Curr)
  /\ UNCHANGED <<threads, heap, fields, elapsed, wire>>

\* Any other one is closed: its window is destroyed and its node freed.
CloseCurr ==
  /\ InPass("UPDATE")
  /\ UpdateEnds(Curr)
  /\ ~is_persistent[Curr]
  /\ mapped' = [mapped EXCEPT ![Curr] = FALSE]
  /\ events' = [events EXCEPT ![Curr] = <<>>]
  /\ open' = RemoveAt(open, pos)
  /\ heap' = [heap EXCEPT ![Curr] = "freed"]
  /\ UNCHANGED <<threads, wait, fields, elapsed, wire>>

EndPass ==
  /\ mpc = "pass" /\ pos > Len(open)
  /\ lock' = "none" /\ mpc' = "sleep"
  /\ UNCHANGED <<pos, spc, polled, client, node,
                 lists, heap, fields, screen, wire>>

EndSleep ==
  /\ mpc = "sleep" /\ mpc' = "lock"
  /\ UNCHANGED <<lock, pos, spc, polled, client, node,
                 lists, heap, fields, screen, wire>>

-----------------------------------------------------------------------------
(***************************************************************************)
(* The server thread.                                                      *)
(***************************************************************************)

\* poll() reports the connections that have a request.
Poll ==
  /\ spc = "poll" /\ polled = {}
  /\ polled' = {c \in Client : requests[c] # NULL}
  /\ polled' # {}
  /\ UNCHANGED <<lock, mpc, pos, spc, client, node,
                 lists, heap, fields, screen, wire>>

\* server_process_connections serves them; the slot order is left open.
Receive(c) ==
  /\ spc = "poll" /\ c \in polled
  /\ polled' = polled \ {c}
  /\ client' = c
  /\ spc' = "command"
  /\ UNCHANGED <<lock, mpc, pos, node, lists, heap, fields, screen, wire>>

\* Fault: the handler leaves the header of the request in the reply.
AnswerSameHeader(hdr, nid) ==
  /\ spc' = "poll"
  /\ replies' = [replies EXCEPT ![client] = [hdr |-> msg.cmd, nid |-> nid]]
  /\ requests' = [requests EXCEPT ![client] = NULL]
  /\ client' = NULL
  /\ node' = NULL
  /\ UNCHANGED sent

\* The handler returns: the reply is built and the thread polls again.
Answer(hdr, nid) ==
  /\ spc' = "poll"
  /\ replies' = [replies EXCEPT ![client] = [hdr |-> hdr, nid |-> nid]]
  /\ requests' = [requests EXCEPT ![client] = NULL]
  /\ client' = NULL
  /\ node' = NULL
  /\ UNCHANGED sent

\* Refused before the lock is taken: a NOT without text or indicator, or a
\* MOD without an id.
Refuse ==
  /\ spc = "command"
  /\ \/ msg.cmd = "NOT" /\ ~(msg.txt /\ msg.ind # "none")
     \/ msg.cmd = "MOD" /\ msg.nid = Absent
  /\ Answer("ERR", Absent)
  /\ UNCHANGED <<lock, mpc, pos, polled, lists, heap, fields, screen>>

\* _create_notification_node: calloc and the defaults.
CreateNode(n) ==
  /\ spc = "command"
  /\ msg.cmd = "NOT" /\ msg.txt /\ msg.ind # "none"
  /\ heap[n] = "unused"
  /\ heap' = [heap EXCEPT ![n] = "live"]
  /\ client_id' = [client_id EXCEPT ![n] = client]
  /\ timeout' = [timeout EXCEPT ![n] = DefaultTimeout]
  /\ state' = [state EXCEPT ![n] = "INIT"]
  /\ node' = n
  /\ spc' = "lock"
  /\ UNCHANGED <<lock, mpc, pos, polled, client, lists, window, is_persistent,
                 screen, wire>>

StartLocked ==
  /\ spc = "command"
  /\ msg.cmd = "DBG" \/ (msg.cmd = "MOD" /\ msg.nid # Absent)
  /\ spc' = "lock"
  /\ UNCHANGED <<lock, mpc, pos, polled, client, node,
                 lists, heap, fields, screen, wire>>

ServerLock ==
  /\ spc = "lock" /\ lock = "none"
  /\ lock' = "server" /\ spc' = "locked"
  /\ UNCHANGED <<mpc, pos, polled, client, node,
                 lists, heap, fields, screen, wire>>

\* _inject_from_msg on the fields kept here.  It fails on a bad indicator,
\* which it reads first, before it has touched any of them.
Injected(n) ==
  /\ timeout' = [timeout EXCEPT ![n] =
       IF msg.tim = "none" THEN @ ELSE msg.tim = "positive"]
  /\ is_persistent' = [is_persistent EXCEPT ![n] =
       IF msg.pst = "none" THEN @ ELSE msg.pst = "true"]

NotifyInjectFails ==
  /\ spc = "locked" /\ msg.cmd = "NOT" /\ msg.ind = "bad"
  /\ heap' = [heap EXCEPT ![node] = "freed"]
  /\ lock' = "none"
  /\ Answer("ERR", Absent)
  /\ UNCHANGED <<mpc, pos, polled, lists, fields, screen>>

NotifyAppend ==
  /\ spc = "locked" /\ msg.cmd = "NOT" /\ msg.ind = "good"
  /\ Injected(node)
  /\ open' = Append(open, node)
  /\ SignalNlistEmpty
  /\ spc' = "check"
  /\ UNCHANGED <<lock, pos, polled, client, node, wait, heap, state, window,
                 client_id, screen, wire>>

\* What a read of node->window may return.  Memory that has been freed may
\* still hold the old value, or hold anything else.
ReadWindow(n) ==
  IF heap[n] = "live" THEN {window[n]} ELSE {window[n], NoWindow, Garbage}

\* The loop "while (node->notification.window == 0)".
NotifyWait ==
  /\ spc = "check" /\ NoWindow \in ReadWindow(node)
  /\ lock' = "none" /\ spc' = "wait"
  /\ UNCHANGED <<mpc, pos, polled, client, node,
                 lists, heap, fields, screen, wire>>

ServerSpuriousWakeup ==
  /\ spc = "wait" /\ spc' = "relock"
  /\ UNCHANGED <<lock, mpc, pos, polled, client, node,
                 lists, heap, fields, screen, wire>>

ServerRelock ==
  /\ spc = "relock" /\ lock = "none"
  /\ lock' = "server" /\ spc' = "check"
  /\ UNCHANGED <<mpc, pos, polled, client, node,
                 lists, heap, fields, screen, wire>>

\* Fault: an "if" instead of the loop, so any wakeup ends the wait.
NotifyUnlockUnchecked ==
  /\ spc = "check"
  /\ lock' = "none" /\ spc' = "opened"
  /\ UNCHANGED <<mpc, pos, polled, client, node,
                 lists, heap, fields, screen, wire>>

NotifyUnlock ==
  /\ spc = "check" /\ ReadWindow(node) # {NoWindow}
  /\ lock' = "none" /\ spc' = "opened"
  /\ UNCHANGED <<mpc, pos, polled, client, node,
                 lists, heap, fields, screen, wire>>

\* The id of the reply is read after the mutex has been released.
NotifyReply ==
  /\ spc = "opened"
  /\ \E id \in ReadWindow(node) : Answer("OK", id)
  /\ UNCHANGED <<lock, mpc, pos, polled, lists, heap, fields, screen>>

\* nlist_find: n is the first node of the list with that window.
nlist_find(list, id, n) ==
  \E i \in DOMAIN list : /\ list[i] = n
                         /\ window[n] = id
                         /\ \A j \in 1..(i - 1) : window[list[j]] # id

\* Fault: the owner is not compared.
AnyTarget(list) == {n \in Node : nlist_find(list, msg.nid, n)}

\* The node the MOD request names, if it is the sender's own.
Target(list) ==
  {n \in Node : nlist_find(list, msg.nid, n) /\ client_id[n] = client}

ModifyLocked == spc = "locked" /\ msg.cmd = "MOD"

ModifyOpen(n) ==
  /\ ModifyLocked /\ n \in Target(open) /\ msg.ind # "bad"
  /\ Injected(n)
  /\ elapsed' = [elapsed EXCEPT ![n] = @ /\ msg.tim = "none"]
  /\ state' = [state EXCEPT ![n] = "REDRAW"]
  /\ lock' = "none"
  /\ Answer("OK", msg.nid)
  /\ UNCHANGED <<mpc, pos, polled, lists, heap, window, client_id, mapped,
                 events>>

\* Fault: the node stays linked in the wait list.
AppendOnly(n) == open' = Append(open, n) /\ UNCHANGED wait

\* Unlinks n from the wait list and appends it to the open list, without
\* signalling nlist_empty.
MoveToOpen(n) ==
  /\ \E i \in DOMAIN wait : wait[i] = n /\ wait' = RemoveAt(wait, i)
  /\ open' = Append(open, n)

ModifyWait(n) ==
  /\ ModifyLocked /\ Target(open) = {} /\ n \in Target(wait) /\ msg.ind # "bad"
  /\ Injected(n)
  /\ elapsed' = [elapsed EXCEPT ![n] = FALSE]
  /\ state' = [state EXCEPT ![n] = "REOPEN"]
  /\ MoveToOpen(n)
  /\ lock' = "none"
  /\ Answer("OK", msg.nid)
  /\ UNCHANGED <<mpc, pos, polled, heap, window, client_id, mapped, events>>

\* Fault: an early return that forgets to unlock.
ModifyRefusedLocked ==
  /\ ModifyLocked
  /\ msg.ind = "bad" \/ Target(open) \cup Target(wait) = {}
  /\ Answer("ERR", Absent)
  /\ UNCHANGED <<lock, mpc, pos, polled, lists, heap, fields, screen>>

\* No such notification, another client's, or a bad indicator.
ModifyRefused ==
  /\ ModifyLocked
  /\ msg.ind = "bad" \/ Target(open) \cup Target(wait) = {}
  /\ lock' = "none"
  /\ Answer("ERR", Absent)
  /\ UNCHANGED <<mpc, pos, polled, lists, heap, fields, screen>>

Debug ==
  /\ spc = "locked" /\ msg.cmd = "DBG"
  /\ lock' = "none"
  /\ Answer("OK", Absent)
  /\ UNCHANGED <<mpc, pos, polled, lists, heap, fields, screen>>

-----------------------------------------------------------------------------
Environment == \/ \E c \in Client : Send(c)
               \/ \E n \in Node : Click(n) \/ Elapse(n)

\* What the main thread does while it does not wait for the mutex.
MainRuns == \/ MainWait \/ StartPass \/ EndPass \/ EndSleep
            \/ VisitInit \/ VisitRedrawOrReopen \/ VisitUpdate
            \/ ParkPersistent \/ CloseCurr

Notify == \/ \E n \in Node : CreateNode(n)
          \/ NotifyInjectFails \/ NotifyAppend \/ NotifyWait \/ NotifyUnlock
          \/ NotifyReply

Modify == \/ \E n \in Node : ModifyOpen(n) \/ ModifyWait(n)
          \/ ModifyRefused

\* What the server thread does while it does not wait for the mutex.
ServerRuns == \/ Poll \/ (\E c \in Client : Receive(c))
              \/ Refuse \/ StartLocked \/ Notify \/ Modify \/ Debug

Next == \/ Environment
        \/ MainLock \/ MainSpuriousWakeup \/ MainRuns
        \/ ServerLock \/ ServerRelock \/ ServerSpuriousWakeup \/ ServerRuns

Spec == Init /\ [][Next]_vars

(***************************************************************************)
(* Both threads keep running.  Each gets the mutex in the end although the *)
(* other keeps taking it: the main thread sleeps 50 ms after every pass    *)
(* with the mutex free, and the server thread goes back to poll() after    *)
(* every request.  Time passes.  Nothing obliges a client to send, the     *)
(* user to click, or a wait to end without a signal.                       *)
(***************************************************************************)
Fairness == /\ WF_vars(MainRuns) /\ SF_vars(MainLock)
            /\ WF_vars(ServerRuns) /\ SF_vars(ServerLock) /\ SF_vars(ServerRelock)
            /\ \A n \in Node : WF_vars(Elapse(n))

FairSpec == Spec /\ Fairness

-----------------------------------------------------------------------------
(***************************************************************************)
(* Safety.                                                                 *)
(***************************************************************************)

Listed == ToSet(open) \cup ToSet(wait)

\* nlist_lock works: the two threads are never both inside a section of
\* code that it protects, and whoever is inside one holds it.
MutualExclusion ==
  /\ (mpc \in {"check", "pass"}) <=> (lock = "main")
  /\ (spc \in {"locked", "check"}) <=> (lock = "server")

\* A notification is in at most one place of at most one of the two lists,
\* and what is in a list has not been freed: nlist_append in one list never
\* takes a node that the other still links, and nlist_remove unlinks first.
ListsSound ==
  /\ IsInjective(open) /\ IsInjective(wait)
  /\ ToSet(open) \cap ToSet(wait) = {}
  /\ \A n \in Listed : heap[n] = "live"

\* The two threads are never both asleep on their condition variables, each
\* waiting for the other, unless the node that the server thread waits for
\* was freed before it took the mutex again.
NeverBothAsleep ==
  mpc = "wait" /\ spc = "wait" => heap[node] = "freed"

\* While a MOD request searches the lists (command.c:130 and 148) each node
\* in them has the window of its own by which nlist_find knows it, although
\* NOT appends nodes that have none: the thread that would look them up is
\* the one that waits for the window.
LookupSeesWindows ==
  spc = "locked" => \A n \in Listed : window[n] = n

\* What the lists say is what the screen shows.  A parked notification is
\* persistent and off the screen; an open one with nothing left to do for
\* the main thread is on it.
ScreenMatchesLists ==
  /\ \A n \in ToSet(wait) : is_persistent[n] /\ ~mapped[n] /\ state[n] = "UPDATE"
  /\ \A n \in ToSet(open) : state[n] = "UPDATE" => mapped[n]

(***************************************************************************)
(* Action properties.                                                      *)
(***************************************************************************)

\* Only the client that opened a notification changes its settings, moves
\* it out of the wait list, or has it drawn again.
OwnerOnly ==
  [][\A n \in Listed :
       \/ timeout'[n] # timeout[n]
       \/ is_persistent'[n] # is_persistent[n]
       \/ n \in ToSet(wait) /\ n \in ToSet(open')
       \/ state[n] = "UPDATE" /\ state'[n] # "UPDATE"
       => client_id[n] = client /\ client \in Client]_vars

\* The OK that answers a NOT carries the id of the notification which that
\* request opened, as the protocol promises.
ReplyNamesNotification ==
  [][spc = "opened" /\ spc' # "opened" => replies'[client].nid = node]_vars

\* The same, except when the main thread has freed the notification before
\* the server thread reads the id of its window.
LiveReplyNamesNotification ==
  [][spc = "opened" /\ spc' # "opened" /\ heap[node] = "live"
       => replies'[client] = [hdr |-> "OK", nid |-> node]]_vars

(***************************************************************************)
(* Liveness, of FairSpec.                                                  *)
(***************************************************************************)

\* The server thread waits for a window it will never see: its node was
\* freed, and the freed memory read as 0.
WaitsOnFreed == spc \in {"wait", "relock", "check"} /\ heap[node] = "freed"

\* Every request is answered: neither the wait for the mutex nor the wait
\* for the window lasts for ever, unless the node waited for is freed.
RequestAnswered ==
  \A c \in Client : requests[c] # NULL ~> (requests[c] = NULL \/ WaitsOnFreed)

\* The main thread sleeps although there is something in the open list.
Stranded == mpc = "wait" /\ open # <<>>

\* A notification with a timeout leaves the open list, unless the main
\* thread has been left asleep.  A MOD puts the end off: a pass that finds
\* UNOT_NEED_REDRAW does not look at the clock.  MaxRequests bounds how
\* often that happens, so this says what follows once no more MODs arrive.
TimedNotificationEnds ==
  \A n \in Node :
    n \in ToSet(open) /\ timeout[n]
      ~> n \notin ToSet(open) \/ ~timeout[n] \/ Stranded

\* A notification that NOT has appended gets its window: the signal of
\* nlist_empty is never lost.
AppendedIsOpened ==
  \A n \in Node : n \in ToSet(open) /\ state[n] = "INIT" ~> mapped[n]

\* A parked notification that MOD has put back into the open list, and
\* marked UNOT_NEED_REOPEN, is shown again.
ReopenedIsShown ==
  \A n \in Node : n \in ToSet(open) /\ state[n] = "REOPEN" ~> mapped[n]

=============================================================================
