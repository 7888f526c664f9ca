----------------------------- MODULE Connections -----------------------------
(***************************************************************************)
(* The connections of the server thread: pfds and clients of ServerCtx,    *)
(* from accept to close.                                                   *)
(*                                                                         *)
(* The thread polls the listener and the slots, then goes over them once,  *)
(* in order, and does for each what poll has reported; a slot is used      *)
(* again when its connection has been closed.  A peer is a client that     *)
(* connects once, makes calls, and may go away at any moment.  One that    *)
(* does without the library may send a request longer than the buffer.     *)
(* HfStream has the bytes of one connection; here a message is so many     *)
(* pieces.                                                                 *)
(***************************************************************************)
EXTENDS Integers, Sequences, FiniteSets, FiniteSetsExt

CONSTANTS
  Peer,            \* the clients
  Foreign,         \* those that write to the socket without the library
  MaxConnections,  \* UNOT_MAX_CONNECTIONS, also the nfds given to poll
  NULL,            \* fd -1
  Pieces,          \* bound: a message is cut into so many pieces
  Room,            \* bound: a buffer, HF_BUFFER_SIZE, holds so many
  MaxCalls         \* bound: calls of one peer

ASSUME ConnectionsAssumption ==
  /\ MaxConnections \in Nat /\ NULL \notin Peer /\ Foreign \subseteq Peer
  /\ {Pieces, Room} \subseteq Nat \ {0} /\ Pieces <= Room
  /\ MaxCalls \in Nat

Slot == 1..MaxConnections

VARIABLES
  \* The daemon.
  fd,        \* pfds[i].fd, the peer at the other end
  events,    \* pfds[i].events
  revents,   \* pfds[i].revents, the listener's is 0
  ctx,       \* clients[i - 1].ctx: whose bytes, how many, and the error
  id,        \* clients[i - 1].id
  next_client_id,
  idx,       \* the loop index of server_process_connections
  alive,     \* the process has not been killed by SIGPIPE
  \* The peers and the kernel.
  backlog,   \* connections not yet accepted
  peer,      \* "new", "idle", "calling", "refused", "cut" off or "gone"
  fits,      \* the request fits the buffer, its end included
  unsent, inbox, outbox,  \* pieces: to be sent, in the socket, of the reply
  calls,     \* calls made so far
  ids        \* history: the client ids a peer's requests were handled under

daemon == <<fd, events, revents, ctx, id, next_client_id, idx, alive>>
wire   == <<backlog, peer, fits, unsent, inbox, outbox, calls, ids>>
vars   == <<daemon, wire>>

Cleared == [of |-> {}, size |-> 0, cur |-> 0, error |-> FALSE]

Init ==
  /\ fd = [i \in Slot |-> NULL]
  /\ events = [i \in Slot |-> "POLLIN"]
  /\ revents = [i \in 0..MaxConnections |-> {}]
  /\ ctx = [i \in Slot |-> Cleared]
  /\ id = [i \in Slot |-> 0]
  /\ next_client_id = 0
  /\ idx = MaxConnections + 1
  /\ alive = TRUE
  /\ backlog = <<>>
  /\ peer = [p \in Peer |-> "new"]
  /\ fits = [p \in Peer |-> TRUE]
  /\ unsent = [p \in Peer |-> 0]
  /\ inbox = [p \in Peer |-> 0]
  /\ outbox = [p \in Peer |-> 0]
  /\ calls = [p \in Peer |-> 0]
  /\ ids = [p \in Peer |-> {}]

Used == {i \in Slot : fd[i] # NULL}

-----------------------------------------------------------------------------
(***************************************************************************)
(* The peers.                                                              *)
(***************************************************************************)

Connect(p) ==
  /\ alive /\ peer[p] = "new"
  /\ peer' = [peer EXCEPT ![p] = "idle"]
  /\ backlog' = Append(backlog, p)
  /\ UNCHANGED <<daemon, fits, unsent, inbox, outbox, calls, ids>>

Call(p) ==
  /\ peer[p] = "idle" /\ calls[p] < MaxCalls
  /\ peer' = [peer EXCEPT ![p] = "calling"]
  /\ \E whole \in BOOLEAN :
       /\ whole \/ p \in Foreign
       /\ fits' = [fits EXCEPT ![p] = whole]
       /\ unsent' = [unsent EXCEPT ![p] = IF whole THEN Pieces ELSE Room + 1]
  /\ calls' = [calls EXCEPT ![p] = @ + 1]
  /\ UNCHANGED <<daemon, backlog, inbox, outbox, ids>>

SendPiece(p) ==
  /\ peer[p] = "calling" /\ unsent[p] > 0
  /\ unsent' = [unsent EXCEPT ![p] = @ - 1]
  /\ inbox' = [inbox EXCEPT ![p] = @ + 1]
  /\ UNCHANGED <<daemon, backlog, peer, fits, outbox, calls, ids>>

Return(p) ==
  /\ peer[p] = "calling" /\ outbox[p] = Pieces
  /\ peer' = [peer EXCEPT ![p] = "idle"]
  /\ outbox' = [outbox EXCEPT ![p] = 0]
  /\ UNCHANGED <<daemon, backlog, fits, unsent, inbox, calls, ids>>

\* unot_disconnect, or the end of the client's process.  Some of what is in
\* the socket for the client may not have been read.
Disconnect(p) ==
  /\ peer[p] \in {"idle", "calling"}
  /\ peer' = [peer EXCEPT ![p] = "gone"]
  /\ unsent' = [unsent EXCEPT ![p] = 0]
  /\ \E unread \in 0..outbox[p] : outbox' = [outbox EXCEPT ![p] = unread]
  /\ UNCHANGED <<daemon, backlog, fits, inbox, calls, ids>>

-----------------------------------------------------------------------------
(***************************************************************************)
(* The server thread.                                                      *)
(***************************************************************************)

\* What poll reports of a connection.  One that was closed is readable, so
\* that recv can say so, and has an error if it had not read everything.
Ready(i) ==
  LET p == fd[i]
      gone == peer[p] = "gone"
  IN {e \in {"POLLIN", "POLLOUT"} :
        e = events[i] /\ (e = "POLLIN" => inbox[p] > 0 \/ gone)}
     \cup {e \in {"POLLERR"} : gone /\ outbox[p] > 0}

\* hf_poll_sync: poll looks at MaxConnections entries, the listener's
\* included, and sleeps until there is something to report.
Poll ==
  /\ alive /\ idx = MaxConnections + 1
  /\ revents' = [i \in 0..MaxConnections |->
       IF i = 0 THEN IF backlog = <<>> THEN {} ELSE {"POLLIN"}
       ELSE IF i < MaxConnections /\ fd[i] # NULL THEN Ready(i)
       ELSE {}]
  /\ \E i \in 0..MaxConnections : revents'[i] # {}
  /\ idx' = 0
  /\ UNCHANGED <<fd, events, ctx, id, next_client_id, alive, wire>>

At(i) == alive /\ idx = i /\ idx' = i + 1

\* Faults of _alloc_connection: it takes the last slot too, it keeps the
\* context of the slot's last connection, or it clears one half of it.
AnyFree == {i \in Slot : fd[i] = NULL}
KeepError(i)  == ctx' = [ctx EXCEPT ![i] = [Cleared EXCEPT !.error = ctx[i].error]]
KeepBuffer(i) == ctx' = [ctx EXCEPT ![i].error = FALSE]
SlotId(i) == id' = [id EXCEPT ![i] = i] /\ UNCHANGED next_client_id

Free == {i \in Slot : i < MaxConnections /\ fd[i] = NULL}

ClearContext(i) == ctx' = [ctx EXCEPT ![i] = Cleared]

NewId(i) ==
  /\ id' = [id EXCEPT ![i] = next_client_id]
  /\ next_client_id' = next_client_id + 1

Accept ==
  /\ At(0) /\ "POLLIN" \in revents[0] /\ Free # {}
  /\ LET i == Min(Free) IN
     /\ fd' = [fd EXCEPT ![i] = Head(backlog)]
     /\ events' = [events EXCEPT ![i] = "POLLIN"]
     /\ revents' = [revents EXCEPT ![i] = {}]
     /\ NewId(i)
     /\ ClearContext(i)
  /\ backlog' = Tail(backlog)
  /\ UNCHANGED <<alive, peer, fits, unsent, inbox, outbox, calls, ids>>

\* No free slot: the new connection is closed at once.
Refuse ==
  /\ At(0) /\ "POLLIN" \in revents[0] /\ Free = {}
  /\ backlog' = Tail(backlog)
  /\ peer' = [peer EXCEPT ![Head(backlog)] =
                IF @ = "gone" THEN "gone" ELSE "refused"]
  /\ UNCHANGED <<fd, events, revents, ctx, id, next_client_id, alive,
                 fits, unsent, inbox, outbox, calls, ids>>

Skip(i) ==
  /\ At(i) /\ revents[i] = {}
  /\ UNCHANGED <<fd, events, revents, ctx, id, next_client_id, alive, wire>>

\* Fault: the index of clients instead of that of pfds.
CloseBefore(i) == fd' = [fd EXCEPT ![Max({i - 1, 1})] = NULL]

CloseSlot(i) == fd' = [fd EXCEPT ![i] = NULL]

CloseBroken(i) ==
  /\ At(i) /\ "POLLERR" \in revents[i]
  /\ CloseSlot(i)
  /\ UNCHANGED <<events, revents, ctx, id, next_client_id, alive, wire>>

Readable(i) == At(i) /\ "POLLIN" \in revents[i] /\ "POLLERR" \notin revents[i]

\* There is no room left, and no end of a message in what is there: the
\* connection is closed, whether or not its client is still there.
CloseFull(i) ==
  /\ Readable(i) /\ ctx[i].size = Room
  /\ ctx' = [ctx EXCEPT ![i].error = TRUE]
  /\ CloseSlot(i)
  /\ peer' = [peer EXCEPT ![fd[i]] = IF @ = "gone" THEN "gone" ELSE "cut"]
  /\ unsent' = [unsent EXCEPT ![fd[i]] = 0]
  /\ UNCHANGED <<events, revents, id, next_client_id, alive,
                 backlog, fits, inbox, outbox, calls, ids>>

\* recv has reached the end of the stream, or failed.
CloseEnded(i) ==
  /\ Readable(i) /\ ctx[i].size < Room /\ inbox[fd[i]] = 0
  /\ ctx' = [ctx EXCEPT ![i].error = TRUE]
  /\ CloseSlot(i)
  /\ UNCHANGED <<events, revents, id, next_client_id, alive, wire>>

\* recv takes what there is and there is room for.
Taken(i) == Min({inbox[fd[i]], Room - ctx[i].size})

Arrived(i) == [ctx[i] EXCEPT !.of = @ \cup {fd[i]}, !.size = @ + Taken(i)]

Receive(i) ==
  /\ Readable(i) /\ ctx[i].size < Room /\ inbox[fd[i]] > 0
  /\ inbox' = [inbox EXCEPT ![fd[i]] = @ - Taken(i)]
  /\ UNCHANGED <<fd, revents, id, next_client_id, alive,
                 backlog, peer, fits, unsent, outbox, calls>>

\* hf_message_received: the last piece has the end of the message.
Complete(i) == fits[fd[i]] /\ Arrived(i).size >= Pieces

ReceivePart(i) ==
  /\ Receive(i) /\ ~Complete(i)
  /\ ctx' = [ctx EXCEPT ![i] = Arrived(i)]
  /\ UNCHANGED <<events, ids>>

\* The request is complete: it is handled, under the id of the slot, and its
\* reply takes its place in the buffer.
Handle(i) ==
  /\ Receive(i) /\ Complete(i)
  /\ ids' = [p \in Peer |-> IF p \in Arrived(i).of THEN ids[p] \cup {id[i]}
                            ELSE ids[p]]
  /\ ctx' = [ctx EXCEPT ![i].of = {fd[i]}, ![i].size = Pieces, ![i].cur = 0]
  /\ events' = [events EXCEPT ![i] = "POLLOUT"]

Writable(i) == At(i) /\ revents[i] = {"POLLOUT"}

Send(i) ==
  /\ Writable(i) /\ peer[fd[i]] # "gone"
  /\ \E k \in 1..(Pieces - ctx[i].cur) :
       /\ outbox' = [outbox EXCEPT ![fd[i]] = @ + k]
       /\ IF ctx[i].cur + k = ctx[i].size
          THEN /\ ctx' = [ctx EXCEPT ![i] = Cleared]
               /\ events' = [events EXCEPT ![i] = "POLLIN"]
          ELSE /\ ctx' = [ctx EXCEPT ![i].cur = @ + k]
               /\ UNCHANGED events
  /\ UNCHANGED <<fd, revents, id, next_client_id, alive,
                 backlog, peer, fits, unsent, inbox, calls, ids>>

\* send to a peer that is gone raises SIGPIPE, which nobody has asked the
\* kernel not to do: the daemon ends, and with it every connection.
Killed(i) ==
  /\ Writable(i) /\ peer[fd[i]] = "gone"
  /\ alive' = FALSE
  /\ UNCHANGED <<fd, events, revents, ctx, id, next_client_id, wire>>

-----------------------------------------------------------------------------
ServerRuns == \/ Poll \/ Accept \/ Refuse \/ Skip(0)
              \/ \E i \in Slot : \/ Skip(i) \/ CloseBroken(i) \/ CloseFull(i)
                                 \/ CloseEnded(i) \/ ReceivePart(i)
                                 \/ Handle(i) \/ Send(i) \/ Killed(i)

Next == \/ \E p \in Peer : \/ Connect(p) \/ Call(p) \/ SendPiece(p) \/ Return(p)
                           \/ Disconnect(p)
        \/ ServerRuns

Spec == Init /\ [][Next]_vars

\* The server thread runs as long as the process does; a client that has
\* begun a call goes on with it, but it may go away instead.
Fairness == /\ WF_vars(ServerRuns)
            /\ \A p \in Peer : WF_vars(SendPiece(p)) /\ WF_vars(Return(p))

FairSpec == Spec /\ Fairness

-----------------------------------------------------------------------------
\* A slot that is in use can be read from and sent to: the assertions that
\* hf_message_recv_async and hf_message_send_async make on ctx->error hold,
\* although the connection before may have ended in an error.
NoAssertionFails == \A i \in Used : ~ctx[i].error

\* The buffer of a connection holds bytes of that connection only, and no
\* more than it has room for: what a client that went away had sent is not
\* taken for the beginning of the next one's request.
OwnBytes == \A i \in Used : ctx[i].of \subseteq {fd[i]} /\ ctx[i].size <= Room

\* A client id names one client for ever, even when its slot is used again,
\* so that nobody inherits the notifications of those who have left.
OneIdEach ==
  \A p, q \in Peer : /\ Cardinality(ids[p]) <= 1
                     /\ p # q => ids[p] \cap ids[q] = {}

\* The daemon hangs up only on a client that is gone, or whose request is
\* longer than the buffer: never on one whose requests fit, even if they
\* fill the buffer to its last byte, whatever happens in the other slots.
ClosesAfterPeer ==
  [][\A i \in Slot : fd[i] # NULL /\ fd'[i] = NULL
       => peer[fd[i]] = "gone" \/ ~fits[fd[i]]]_vars

\* Every call is answered, unless the client is turned away, goes away, is
\* cut off in a request that is too long, or the daemon is killed.
CallAnswered ==
  \A p \in Peer : peer[p] = "calling" ~> peer[p] # "calling" \/ ~alive

\* A client is turned away only when UNOT_MAX_CONNECTIONS are connected.
RefusedOnlyWhenFull ==
  [][\A p \in Peer : peer[p] # "refused" /\ peer'[p] = "refused"
       => Cardinality(Used) = MaxConnections]_vars

=============================================================================
