-------------------------- MODULE Connections_proofs --------------------------
(***************************************************************************)
(* The connections of the server thread, for any number of peers and of    *)
(* slots: what is left in a slot is never taken for a later connection's.  *)
(***************************************************************************)
EXTENDS Connections, SeqLemmas, FiniteSetTheorems

Reported == {"POLLIN", "POLLOUT", "POLLERR"}

Context == [of : SUBSET Peer, size : Nat, cur : Nat, error : BOOLEAN]

TypeOK ==
  /\ fd \in [Slot -> Peer \cup {NULL}]
  /\ events \in [Slot -> {"POLLIN", "POLLOUT"}]
  /\ revents \in [0..MaxConnections -> SUBSET Reported]
  /\ ctx \in [Slot -> Context]
  /\ id \in [Slot -> Nat] /\ next_client_id \in Nat
  /\ idx \in 0..(MaxConnections + 1)
  /\ alive \in BOOLEAN
  /\ backlog \in Seq(Peer)
  /\ peer \in [Peer -> {"new", "idle", "calling", "refused", "cut", "gone"}]
  /\ fits \in [Peer -> BOOLEAN]
  /\ unsent \in [Peer -> Nat] /\ inbox \in [Peer -> Nat] /\ outbox \in [Peer -> Nat]
  /\ calls \in [Peer -> Nat]
  /\ ids \in [Peer -> SUBSET Nat]

\* A peer that has connected is in one place: once in the backlog, or at the
\* other end of one slot, or nowhere any more.
PlaceInv ==
  /\ IsInjective(backlog)
  /\ \A i, j \in Slot : fd[i] # NULL /\ fd[i] = fd[j] => i = j
  /\ \A i \in Slot : fd[i] \notin ToSet(backlog)
  /\ \A p \in Peer : peer[p] = "new" =>
       p \notin ToSet(backlog) /\ \A i \in Slot : fd[i] # p

\* What poll has reported of the slots that are still to be visited may be
\* old by now, but an end of the connection is not undone.
PollInv ==
  /\ idx = 0 /\ revents[0] # {} => backlog # <<>>
  /\ \A i \in Slot : i >= idx /\ revents[i] # {} =>
       /\ fd[i] # NULL
       /\ "POLLERR" \in revents[i] => peer[fd[i]] = "gone"
       /\ "POLLIN" \in revents[i] => inbox[fd[i]] > 0 \/ peer[fd[i]] = "gone"

\* Ids go up, and a peer has had none before it was accepted.
IdInv ==
  /\ \A i \in Used : id[i] < next_client_id
  /\ \A i, j \in Used : id[i] = id[j] => i = j
  /\ \A p \in Peer : \A k \in ids[p] : k < next_client_id
  /\ \A p \in Peer : p \in ToSet(backlog) \/ peer[p] = "new" => ids[p] = {}
  /\ \A i \in Used : ids[fd[i]] \subseteq {id[i]}
  /\ \A i \in Used, p \in Peer : id[i] \in ids[p] => fd[i] = p
  /\ \A p \in Peer : \A k, l \in ids[p] : k = l
  /\ \A p, q \in Peer : p # q => ids[p] \cap ids[q] = {}

\* The client's side of a connection.
Side(p) == [is |-> peer[p], fits |-> fits[p], unsent |-> unsent[p],
            inbox |-> inbox[p], outbox |-> outbox[p]]

Silent(v) == v.unsent = 0 /\ v.inbox = 0 /\ v.outbox = 0

\* A connection that is being read: the pieces of a request that fits are in
\* three places, until the reply has gone out.
Receiving(v, c) ==
  /\ v.is = "idle" => c.size = 0
  /\ v.fits => c.size < Pieces
  /\ v.is = "calling" =>
       \/ v.fits /\ v.outbox = 0 /\ c.size + v.inbox + v.unsent = Pieces
       \/ v.fits /\ v.outbox = Pieces /\ c.size = 0 /\ v.inbox = 0 /\ v.unsent = 0
       \/ ~v.fits /\ v.outbox = 0

\* One that is being answered: nothing of the next request is there.
Answering(v, c) ==
  /\ v.fits /\ v.is # "idle" /\ c.size = Pieces /\ c.cur < Pieces
  /\ v.is = "calling" => v.outbox = c.cur /\ v.inbox = 0 /\ v.unsent = 0

Talking(v, c, ev) == IF ev = "POLLIN" THEN Receiving(v, c) ELSE Answering(v, c)

\* A request that fits never fills a buffer that still waits for its end.
StreamInv ==
  /\ \A p \in Peer : peer[p] \in {"new", "idle"} => Silent(Side(p))
  /\ \A p \in Peer : peer[p] \in {"idle", "calling"} =>
       p \in ToSet(backlog) \/ \E i \in Slot : fd[i] = p
  /\ \A p \in ToSet(backlog) : Receiving(Side(p), Cleared)
  /\ \A i \in Used : Talking(Side(fd[i]), ctx[i], events[i])
  /\ \A i \in Slot : i >= idx => revents[i] \subseteq {events[i], "POLLERR"}

IInv ==
  /\ TypeOK
  /\ PlaceInv
  /\ PollInv
  /\ IdInv
  /\ StreamInv
  /\ NoAssertionFails
  /\ OwnBytes

-----------------------------------------------------------------------------
(***************************************************************************)
(* What the invariant says where an action begins.                         *)
(***************************************************************************)

\* A slot that poll has reported something of has a peer at its other end.
LEMMA Visited ==
  ASSUME IInv, NEW i \in Slot, At(i), revents[i] # {}
  PROVE  /\ i >= idx /\ i \in Used /\ fd[i] \in Peer
         /\ "POLLERR" \in revents[i] => peer[fd[i]] = "gone"
         /\ "POLLIN" \in revents[i] => inbox[fd[i]] > 0 \/ peer[fd[i]] = "gone"
         /\ ctx[i].of \subseteq {fd[i]} /\ ctx[i].size <= Room /\ ~ctx[i].error
         /\ ctx[i] \in Context
         /\ revents[i] \subseteq {events[i], "POLLERR"}
         /\ Talking(Side(fd[i]), ctx[i], events[i])
<1>1. i = idx /\ i \in Nat /\ i >= idx
  BY ConnectionsAssumption DEF At, Slot
<1>2. QED
  BY <1>1 DEF IInv, TypeOK, PollInv, StreamInv, Used, NoAssertionFails, OwnBytes

\* What recv takes, of a connection whose buffer has room.
LEMMA Received ==
  ASSUME IInv, NEW i \in Slot, Receive(i)
  PROVE  /\ i \in Used /\ fd[i] \in Peer /\ events[i] = "POLLIN"
         /\ Receiving(Side(fd[i]), ctx[i])
         /\ Taken(i) \in Nat /\ Taken(i) > 0
         /\ Taken(i) <= inbox[fd[i]] /\ Taken(i) <= Room - ctx[i].size
         /\ inbox[fd[i]] \in Nat /\ ctx[i].size \in Nat
<1>1. /\ i \in Used /\ fd[i] \in Peer /\ ctx[i] \in Context
      /\ "POLLIN" \in revents[i] /\ revents[i] \subseteq {events[i], "POLLERR"}
      /\ Talking(Side(fd[i]), ctx[i], events[i])
  BY Visited DEF Receive, Readable
<1>2. ctx[i].size < Room /\ inbox[fd[i]] > 0 /\ ctx[i].size \in Nat
      /\ inbox[fd[i]] \in Nat
  BY <1>1 DEF Receive, Context, IInv, TypeOK
<1>3. events[i] = "POLLIN"
  BY <1>1
<1> DEFINE n == inbox[fd[i]]
           r == Room - ctx[i].size
<1>4. n \in Nat /\ r \in Nat /\ n > 0 /\ r > 0
  BY <1>2, ConnectionsAssumption
<1>5. {n, r} \in SUBSET Nat /\ {n, r} # {}
  BY <1>4
<1> HIDE DEF n, r
<1>6. Min({n, r}) \in {n, r} /\ \A m \in {n, r} : Min({n, r}) <= m
  BY <1>5, MinFacts
<1>7. Taken(i) = Min({n, r})
  BY DEF Taken, n, r
<1>8. Taken(i) \in Nat /\ Taken(i) > 0 /\ Taken(i) <= n /\ Taken(i) <= r
  BY <1>4, <1>6, <1>7
<1>9. QED
  BY <1>1, <1>2, <1>3, <1>8 DEF n, r, Talking

\* A connection is accepted into a free slot and leaves the backlog.
LEMMA Accepted ==
  ASSUME IInv, Accept
  PROVE  \E i \in Slot :
           /\ fd[i] = NULL
           /\ fd' = [fd EXCEPT ![i] = Head(backlog)]
           /\ events' = [events EXCEPT ![i] = "POLLIN"]
           /\ revents' = [revents EXCEPT ![i] = {}]
           /\ id' = [id EXCEPT ![i] = next_client_id]
           /\ ctx' = [ctx EXCEPT ![i] = Cleared]
<1>1. Free \in SUBSET Nat /\ Free # {} /\ Free \subseteq {i \in Slot : fd[i] = NULL}
  BY ConnectionsAssumption DEF Accept, Free, Slot
<1>2. Min(Free) \in Free
  BY <1>1, MinFacts
<1>3. QED
  BY <1>1, <1>2 DEF Accept, NewId, ClearContext

\* Whoever is taken from the backlog has been waiting there, and nowhere else.
LEMMA Dequeued ==
  ASSUME IInv, Accept \/ Refuse
  PROVE  /\ Head(backlog) \in Peer /\ Head(backlog) # NULL
         /\ Head(backlog) \in ToSet(backlog) /\ peer[Head(backlog)] # "new"
         /\ \A j \in Slot : fd[j] # Head(backlog)
         /\ backlog' \in Seq(Peer) /\ IsInjective(backlog')
         /\ ToSet(backlog') = ToSet(backlog) \ {Head(backlog)}
<1>1. backlog # <<>> /\ backlog' = Tail(backlog)
  BY DEF Accept, Refuse, At, IInv, PollInv
<1>2. backlog \in Seq(Peer) /\ IsInjective(backlog)
  BY DEF IInv, TypeOK, PlaceInv
<1>3. /\ Head(backlog) \in Peer /\ Head(backlog) \in ToSet(backlog)
      /\ backlog' \in Seq(Peer) /\ IsInjective(backlog')
      /\ ToSet(backlog') = ToSet(backlog) \ {Head(backlog)}
  BY <1>1, <1>2, TailFacts
<1>4. QED
  BY <1>3, ConnectionsAssumption DEF IInv, PlaceInv

LEMMA Connected ==
  ASSUME IInv, NEW p \in Peer, Connect(p)
  PROVE  /\ p \notin ToSet(backlog) /\ \A i \in Slot : fd[i] # p
         /\ backlog' \in Seq(Peer) /\ IsInjective(backlog')
         /\ ToSet(backlog') = ToSet(backlog) \cup {p} /\ backlog' # <<>>
         /\ peer' = [peer EXCEPT ![p] = "idle"]
<1>1. peer[p] = "new" /\ backlog' = Append(backlog, p)
      /\ peer' = [peer EXCEPT ![p] = "idle"]
  BY DEF Connect
<1>2. backlog \in Seq(Peer) /\ IsInjective(backlog)
      /\ p \notin ToSet(backlog) /\ \A i \in Slot : fd[i] # p
  BY <1>1 DEF IInv, TypeOK, PlaceInv
<1>3. QED
  BY <1>1, <1>2, AppendFacts, AppendProperties

\* A handled request comes from the peer of the slot alone.
LEMMA Handled ==
  ASSUME IInv, NEW i \in Slot, Handle(i)
  PROVE  /\ i \in Used /\ fd[i] \in Peer
         /\ ids' = [ids EXCEPT ![fd[i]] = @ \cup {id[i]}]
<1>1. i \in Used /\ fd[i] \in Peer /\ ctx[i].of \subseteq {fd[i]}
      /\ ctx[i] \in Context
  BY Visited DEF Handle, Receive, Readable
<1>2. Arrived(i).of = {fd[i]}
  BY <1>1 DEF Arrived, Context
<1>3. ids \in [Peer -> SUBSET Nat]
  BY DEF IInv, TypeOK
<1>4. QED
  BY <1>1, <1>2, <1>3 DEF Handle

-----------------------------------------------------------------------------
LEMMA InitInv == Init => IInv
<1> SUFFICES ASSUME Init PROVE IInv
  OBVIOUS
<1>1. <<>> \in Seq(Peer) /\ ToSet(<<>>) = {} /\ IsInjective(<<>>)
  BY EmptySeq, ToSetEmpty DEF IsInjective
<1>2. Used = {}
  BY DEF Init, Used
<1>3. TypeOK
  BY <1>1, ConnectionsAssumption DEF Init, TypeOK, Cleared, Context, Slot
<1>4. PlaceInv
  BY <1>1, ConnectionsAssumption DEF Init, PlaceInv
<1>5. PollInv
  BY ConnectionsAssumption DEF Init, PollInv, Slot
<1>6. IdInv
  BY <1>1, <1>2 DEF Init, IdInv
<1>7. NoAssertionFails /\ OwnBytes
  BY <1>2 DEF NoAssertionFails, OwnBytes
<1>8. StreamInv
  <2>1. \A p \in Peer : peer[p] = "new" /\ Silent(Side(p))
    BY DEF Init, Silent, Side
  <2>2. \A i \in Slot : revents[i] = {}
    BY ConnectionsAssumption DEF Init, Slot
  <2>3. ToSet(backlog) = {}
    BY <1>1 DEF Init
  <2>4. QED
    BY <1>2, <2>1, <2>2, <2>3 DEF StreamInv
<1>9. QED
  BY <1>3, <1>4, <1>5, <1>6, <1>7, <1>8 DEF IInv

LEMMA Extended ==
  ASSUME NEW c \in Context, NEW ps \in SUBSET Peer, NEW n \in Nat
  PROVE  [c EXCEPT !.of = ps, !.size = n] \in Context
BY DEF Context

(***************************************************************************)
(* Every step keeps the types.                                             *)
(***************************************************************************)
LEMMA TypeStep ==
  ASSUME IInv, [Next]_vars
  PROVE  TypeOK'
<1> USE DEF daemon, wire
<1>t. TypeOK
  BY DEF IInv
<1>m. Pieces \in Nat \ {0} /\ Room \in Nat \ {0} /\ NULL \notin Peer
  BY ConnectionsAssumption
<1>i. ASSUME NEW i \in 0..MaxConnections, At(i)
      PROVE  idx' \in 0..(MaxConnections + 1)
  BY <1>i, ConnectionsAssumption DEF At
<1>s. Slot \subseteq 0..MaxConnections /\ 0 \in 0..MaxConnections
  BY ConnectionsAssumption DEF Slot
<1>1. ASSUME NEW p \in Peer, Connect(p) PROVE TypeOK'
  BY <1>1, <1>t, Connected DEF Connect, TypeOK
<1>2. ASSUME NEW p \in Peer, Call(p) \/ Return(p) PROVE TypeOK'
  <2>1. CASE Call(p)
    <3>1. PICK whole \in BOOLEAN :
            /\ fits' = [fits EXCEPT ![p] = whole]
            /\ unsent' = [unsent EXCEPT ![p] = IF whole THEN Pieces ELSE Room + 1]
      BY <2>1 DEF Call
    <3>2. QED
      BY <1>t, <1>m, <2>1, <3>1 DEF Call, TypeOK
  <2>2. CASE Return(p)
    BY <1>t, <2>2 DEF Return, TypeOK
  <2>3. QED
    BY <1>2, <2>1, <2>2
<1>3. ASSUME NEW p \in Peer, SendPiece(p) PROVE TypeOK'
  BY <1>3, <1>t DEF SendPiece, TypeOK
<1>4. ASSUME NEW p \in Peer, Disconnect(p) PROVE TypeOK'
  BY <1>4, <1>t DEF Disconnect, TypeOK
<1>5. CASE Poll
  <2>1. revents' \in [0..MaxConnections -> SUBSET Reported]
    BY <1>5 DEF Poll, Ready, Reported
  <2>2. idx' \in 0..(MaxConnections + 1)
    BY <1>5, ConnectionsAssumption DEF Poll
  <2>3. QED
    BY <1>5, <1>t, <2>1, <2>2 DEF Poll, TypeOK
<1>6. CASE Accept
  <2>1. PICK i \in Slot :
           /\ fd' = [fd EXCEPT ![i] = Head(backlog)]
           /\ events' = [events EXCEPT ![i] = "POLLIN"]
           /\ revents' = [revents EXCEPT ![i] = {}]
           /\ id' = [id EXCEPT ![i] = next_client_id]
           /\ ctx' = [ctx EXCEPT ![i] = Cleared]
    BY <1>6, Accepted
  <2>2. Head(backlog) \in Peer /\ backlog' \in Seq(Peer)
    BY <1>6, Dequeued
  <2>3. idx' \in 0..(MaxConnections + 1) /\ next_client_id' = next_client_id + 1
        /\ UNCHANGED <<alive, peer, fits, unsent, inbox, outbox, calls, ids>>
    BY <1>6, <1>i, <1>s DEF Accept, NewId
  <2>4. /\ Cleared \in Context
        /\ {} \in SUBSET Reported
    BY DEF Cleared, Context
  <2>5. /\ ctx' \in [Slot -> Context]
        /\ revents' \in [0..MaxConnections -> SUBSET Reported]
    BY <1>t, <2>1, <2>4 DEF TypeOK
  <2>6. /\ id' \in [Slot -> Nat] /\ next_client_id' \in Nat
        /\ fd' \in [Slot -> Peer \cup {NULL}]
    BY <1>t, <2>1, <2>2, <2>3 DEF TypeOK
  <2>7. QED
    BY <1>t, <2>1, <2>2, <2>3, <2>5, <2>6 DEF TypeOK
<1>7. CASE Refuse
  <2>1. Head(backlog) \in Peer /\ backlog' \in Seq(Peer)
    BY <1>7, Dequeued
  <2>2. QED
    BY <1>7, <1>i, <1>s, <1>t, <2>1 DEF Refuse, TypeOK
<1>8. ASSUME NEW i \in 0..MaxConnections, Skip(i) PROVE TypeOK'
  BY <1>8, <1>i, <1>t DEF Skip, TypeOK
<1>9. ASSUME NEW i \in Slot, CloseBroken(i) PROVE TypeOK'
  BY <1>9, <1>i, <1>s, <1>t DEF CloseBroken, CloseSlot, TypeOK
<1>10. ASSUME NEW i \in Slot, CloseEnded(i) PROVE TypeOK'
  BY <1>10, <1>i, <1>s, <1>t DEF CloseEnded, Readable, CloseSlot, TypeOK, Context
<1>17. ASSUME NEW i \in Slot, CloseFull(i) PROVE TypeOK'
  <2>1. ctx' \in [Slot -> Context]
    BY <1>17, <1>t DEF CloseFull, TypeOK, Context
  <2>2. fd' \in [Slot -> Peer \cup {NULL}] /\ unsent' \in [Peer -> Nat]
        /\ peer' \in [Peer -> {"new", "idle", "calling", "refused", "cut", "gone"}]
    BY <1>17, <1>t DEF CloseFull, CloseSlot, TypeOK
  <2>3. QED
    BY <1>17, <1>i, <1>s, <1>t, <2>1, <2>2 DEF CloseFull, Readable, TypeOK
<1>r. ASSUME NEW i \in Slot, Receive(i)
      PROVE  fd[i] \in Peer /\ Taken(i) \in Nat /\ inbox' \in [Peer -> Nat]
  <2>1. fd[i] \in Peer /\ Taken(i) \in Nat /\ inbox[fd[i]] - Taken(i) \in Nat
    BY <1>r, Received
  <2>2. inbox' = [inbox EXCEPT ![fd[i]] = @ - Taken(i)]
    BY <1>r DEF Receive
  <2>3. QED
    BY <1>t, <2>1, <2>2 DEF TypeOK
<1>11. ASSUME NEW i \in Slot, ReceivePart(i) PROVE TypeOK'
  <2>1. fd[i] \in Peer /\ Taken(i) \in Nat
    BY <1>11, <1>r DEF ReceivePart
  <2>2. ctx' \in [Slot -> Context]
    <3>1. ctx[i] \in Context
      BY <1>t DEF TypeOK
    <3>2. Arrived(i) \in Context
      <4>1. /\ ctx[i].of \cup {fd[i]} \in SUBSET Peer
            /\ ctx[i].size + Taken(i) \in Nat
        BY <2>1, <3>1 DEF Context
      <4>2. QED
        BY <3>1, <4>1, Extended DEF Arrived
    <3>3. QED
      BY <1>11, <1>t, <3>2 DEF ReceivePart, TypeOK
  <2>3. inbox' \in [Peer -> Nat]
    BY <1>11, <1>r DEF ReceivePart
  <2>4. QED
    BY <1>11, <1>i, <1>s, <1>t, <2>2, <2>3 DEF ReceivePart, Receive, Readable, TypeOK
<1>12. ASSUME NEW i \in Slot, Handle(i) PROVE TypeOK'
  <2>1. fd[i] \in Peer /\ ids' = [ids EXCEPT ![fd[i]] = @ \cup {id[i]}]
    BY <1>12, Handled
  <2>2. ids' \in [Peer -> SUBSET Nat]
    BY <1>t, <2>1 DEF TypeOK
  <2>3. ctx' \in [Slot -> Context]
    <3>1. ctx[i] \in Context
      BY <1>t DEF TypeOK
    <3>2. [ctx[i] EXCEPT !.of = {fd[i]}, !.size = Pieces, !.cur = 0] \in Context
      BY <1>m, <2>1, <3>1 DEF Context
    <3>3. ctx' = [ctx EXCEPT ![i] = [ctx[i] EXCEPT !.of = {fd[i]}, !.size = Pieces,
                                                   !.cur = 0]]
      BY <1>12, <1>t, <3>1 DEF Handle, TypeOK
    <3>4. QED
      BY <1>t, <3>2, <3>3 DEF TypeOK
  <2>4. inbox' \in [Peer -> Nat] /\ events' \in [Slot -> {"POLLIN", "POLLOUT"}]
    BY <1>12, <1>r, <1>t DEF Handle, TypeOK
  <2>5. QED
    BY <1>12, <1>i, <1>s, <1>t, <2>2, <2>3, <2>4 DEF Handle, Receive, Readable, TypeOK
<1>13. ASSUME NEW i \in Slot, Send(i) PROVE TypeOK'
  <2>1. fd[i] \in Peer
    BY <1>13, Visited DEF Send, Writable
  <2>2. PICK k \in 1..(Pieces - ctx[i].cur) :
          /\ outbox' = [outbox EXCEPT ![fd[i]] = @ + k]
          /\ IF ctx[i].cur + k = ctx[i].size
             THEN /\ ctx' = [ctx EXCEPT ![i] = Cleared]
                  /\ events' = [events EXCEPT ![i] = "POLLIN"]
             ELSE /\ ctx' = [ctx EXCEPT ![i].cur = @ + k]
                  /\ UNCHANGED events
    BY <1>13 DEF Send
  <2>3. k \in Nat
    BY <1>t, <1>m DEF TypeOK
  <2>4. outbox' \in [Peer -> Nat]
    BY <1>t, <2>1, <2>2, <2>3 DEF TypeOK
  <2>5. /\ ctx' \in [Slot -> Context]
        /\ events' \in [Slot -> {"POLLIN", "POLLOUT"}]
    <3>1. Cleared \in Context
      BY DEF Cleared, Context
    <3>2. CASE ctx[i].cur + k = ctx[i].size
      BY <1>t, <2>2, <3>1, <3>2 DEF TypeOK
    <3>3. CASE ctx[i].cur + k # ctx[i].size
      <4>1. ctx[i] \in Context
        BY <1>t DEF TypeOK
      <4>2. [ctx[i] EXCEPT !.cur = ctx[i].cur + k] \in Context
        BY <2>3, <4>1 DEF Context
      <4>3. ctx' = [ctx EXCEPT ![i] = [ctx[i] EXCEPT !.cur = ctx[i].cur + k]]
        BY <1>t, <2>2, <3>3, <4>1 DEF TypeOK
      <4>4. QED
        BY <1>t, <2>2, <3>3, <4>2, <4>3 DEF TypeOK
    <3>4. QED
      BY <3>2, <3>3
  <2>6. QED
    BY <1>13, <1>i, <1>s, <1>t, <2>4, <2>5 DEF Send, Writable, TypeOK
<1>14. ASSUME NEW i \in Slot, Killed(i) PROVE TypeOK'
  BY <1>14, <1>i, <1>s, <1>t DEF Killed, Writable, TypeOK
<1>15. CASE UNCHANGED vars
  BY <1>15, <1>t DEF vars, TypeOK
<1>16. QED
  BY <1>1, <1>2, <1>3, <1>4, <1>5, <1>6, <1>7, <1>8, <1>9, <1>10, <1>11, <1>12,
     <1>13, <1>14, <1>15, <1>17, <1>s DEF Next, ServerRuns

(***************************************************************************)
(* Every step keeps each peer in one place.                                *)
(***************************************************************************)
LEMMA PlaceStep ==
  ASSUME IInv, [Next]_vars
  PROVE  PlaceInv'
<1> USE DEF daemon, wire
<1>t. TypeOK /\ PlaceInv /\ NULL \notin Peer /\ 0 \notin Slot
  BY ConnectionsAssumption DEF IInv, Slot
<1>1. ASSUME NEW p \in Peer, Connect(p) PROVE PlaceInv'
  <2>1. fd' = fd
    BY <1>1 DEF Connect
  <2>2. QED
    BY <1>1, <1>t, <2>1, Connected DEF PlaceInv, TypeOK
<1>2. ASSUME NEW p \in Peer, Call(p) \/ Return(p) \/ Disconnect(p) PROVE PlaceInv'
  <2>1. UNCHANGED <<fd, backlog>> /\ \A q \in Peer : peer'[q] = "new" => peer[q] = "new"
    BY <1>2, <1>t DEF Call, Return, Disconnect, TypeOK
  <2>2. QED
    BY <1>t, <2>1 DEF PlaceInv
<1>3. CASE Accept
  <2>1. PICK i \in Slot : fd[i] = NULL /\ fd' = [fd EXCEPT ![i] = Head(backlog)]
    BY <1>3, Accepted
  <2>2. peer' = peer
    BY <1>3 DEF Accept
  <2>3. \A j \in Slot : fd'[j] = IF j = i THEN Head(backlog) ELSE fd[j]
    BY <1>t, <2>1 DEF TypeOK
  <2>4. QED
    BY <1>3, <1>t, <2>2, <2>3, Dequeued DEF PlaceInv
<1>4. CASE Refuse
  <2>1. fd' = fd /\ \A q \in Peer : peer'[q] = "new" => peer[q] = "new"
    BY <1>4, <1>t DEF Refuse, TypeOK
  <2>2. QED
    BY <1>4, <1>t, <2>1, Dequeued DEF PlaceInv
<1>5. ASSUME NEW i \in Slot, CloseBroken(i) \/ CloseFull(i) \/ CloseEnded(i)
      PROVE  PlaceInv'
  <2>1. fd' = [fd EXCEPT ![i] = NULL] /\ UNCHANGED backlog
        /\ \A p \in Peer : peer'[p] = "new" => peer[p] = "new"
    BY <1>5, <1>t DEF CloseBroken, CloseFull, CloseEnded, CloseSlot, TypeOK
  <2>2. \A j \in Slot : fd'[j] = IF j = i THEN NULL ELSE fd[j]
    BY <1>t, <2>1 DEF TypeOK
  <2>3. NULL \notin ToSet(backlog)
    BY <1>t, ToSetType DEF TypeOK
  <2>4. QED
    BY <1>t, <2>1, <2>2, <2>3 DEF PlaceInv
<1>6. CASE UNCHANGED <<fd, backlog, peer>>
  BY <1>t, <1>6 DEF PlaceInv
<1>7. QED
  BY <1>1, <1>2, <1>3, <1>4, <1>5, <1>6
     DEF Next, ServerRuns, SendPiece, Poll, Skip, Receive, ReceivePart, Handle, Send,
         Killed, vars

(***************************************************************************)
(* Every step leaves what poll has reported true of the slots to come.     *)
(***************************************************************************)
LEMMA PollStep ==
  ASSUME IInv, [Next]_vars
  PROVE  PollInv'
<1> USE DEF daemon, wire
<1>t. TypeOK /\ PlaceInv /\ PollInv /\ NULL \notin Peer
  BY ConnectionsAssumption DEF IInv
<1>s. /\ MaxConnections \in Nat /\ 0 \notin Slot
      /\ \A i \in Slot : i \in Nat /\ i \in 0..MaxConnections /\ i <= MaxConnections
  BY ConnectionsAssumption DEF Slot
<1>k. ASSUME UNCHANGED <<fd, revents, idx>>, backlog' = backlog \/ backlog' # <<>>,
             \A p \in Peer : /\ inbox'[p] >= inbox[p]
                             /\ peer[p] = "gone" => peer'[p] = "gone"
      PROVE  PollInv'
  <2>1. ASSUME NEW i \in Slot, i >= idx, revents[i] # {}
        PROVE  /\ fd[i] # NULL
               /\ "POLLERR" \in revents[i] => peer'[fd[i]] = "gone"
               /\ "POLLIN" \in revents[i] => inbox'[fd[i]] > 0 \/ peer'[fd[i]] = "gone"
    <3>1. fd[i] \in Peer
      BY <1>t, <2>1 DEF PollInv, TypeOK
    <3>2. inbox[fd[i]] \in Nat /\ inbox'[fd[i]] >= inbox[fd[i]] /\ inbox' \in [Peer -> Nat]
      BY <1>k, <1>t, <3>1, TypeStep DEF TypeOK
    <3>3. inbox'[fd[i]] \in Nat
      BY <3>1, <3>2
    <3>4. QED
      BY <1>k, <1>t, <2>1, <3>1, <3>2, <3>3 DEF PollInv
  <2>2. QED
    BY <1>k, <1>t, <2>1 DEF PollInv
<1>n. ASSUME NEW i \in 0..MaxConnections, At(i), UNCHANGED revents,
             \A j \in Slot : j > i /\ fd[j] # NULL =>
               /\ fd'[j] = fd[j]
               /\ inbox'[fd[j]] = inbox[fd[j]]
               /\ peer[fd[j]] = "gone" => peer'[fd[j]] = "gone"
      PROVE  PollInv'
  <2>1. idx = i /\ idx' = i + 1 /\ idx' # 0 /\ i \in Nat
    BY <1>n, <1>s DEF At
  <2>2. \A j \in Slot : j >= idx' => j > i /\ j >= idx
    BY <1>s, <2>1
  <2>3. QED
    BY <1>n, <1>t, <2>1, <2>2 DEF PollInv
<1>1. ASSUME NEW p \in Peer, Connect(p) PROVE PollInv'
  <2>1. /\ UNCHANGED <<fd, revents, idx, inbox>> /\ peer' = [peer EXCEPT ![p] = "idle"]
        /\ peer[p] = "new" /\ backlog' # <<>>
    BY <1>1, Connected DEF Connect
  <2>2. QED
    BY <1>k, <1>t, <2>1 DEF TypeOK
<1>2. ASSUME NEW p \in Peer, Call(p) \/ Return(p) \/ Disconnect(p) PROVE PollInv'
  <2>1. /\ UNCHANGED <<fd, revents, idx, inbox, backlog>>
        /\ \A q \in Peer : peer[q] = "gone" => peer'[q] = "gone"
    BY <1>2, <1>t DEF Call, Return, Disconnect, TypeOK
  <2>2. QED
    BY <1>k, <1>t, <2>1 DEF TypeOK
<1>3. ASSUME NEW p \in Peer, SendPiece(p) PROVE PollInv'
  <2>1. /\ UNCHANGED <<fd, revents, idx, peer, backlog>>
        /\ inbox' = [inbox EXCEPT ![p] = @ + 1]
    BY <1>3 DEF SendPiece
  <2>2. QED
    BY <1>k, <1>t, <2>1 DEF TypeOK
<1>4. CASE Poll
  <2>1. /\ idx' = 0 /\ UNCHANGED <<fd, inbox, peer, backlog>>
        /\ \A i \in 0..MaxConnections : revents'[i] =
              IF i = 0 THEN IF backlog = <<>> THEN {} ELSE {"POLLIN"}
              ELSE IF i < MaxConnections /\ fd[i] # NULL THEN Ready(i)
              ELSE {}
    BY <1>4 DEF Poll
  <2>2. revents'[0] # {} => backlog # <<>>
    BY <1>s, <2>1
  <2>3. ASSUME NEW i \in Slot, revents'[i] # {}
        PROVE  /\ fd[i] # NULL
               /\ "POLLERR" \in revents'[i] => peer[fd[i]] = "gone"
               /\ "POLLIN" \in revents'[i] => inbox[fd[i]] > 0 \/ peer[fd[i]] = "gone"
    <3>1. i \in 0..MaxConnections /\ i # 0
      BY <1>s
    <3>2. fd[i] # NULL /\ revents'[i] = Ready(i)
      BY <2>1, <2>3, <3>1
    <3>3. QED
      BY <3>2 DEF Ready
  <2>4. QED
    BY <2>1, <2>2, <2>3 DEF PollInv
<1>5. CASE Accept
  <2>1. PICK i \in Slot :
           /\ fd' = [fd EXCEPT ![i] = Head(backlog)]
           /\ revents' = [revents EXCEPT ![i] = {}]
    BY <1>5, Accepted
  <2>2. idx = 0 /\ idx' = 1 /\ UNCHANGED <<inbox, peer>>
    BY <1>5 DEF Accept, At
  <2>3. \A j \in Slot : revents'[j] # {} =>
           revents'[j] = revents[j] /\ fd'[j] = fd[j] /\ j >= idx
    BY <1>s, <1>t, <2>1, <2>2 DEF TypeOK
  <2>4. QED
    BY <1>t, <2>2, <2>3 DEF PollInv
<1>6. CASE Refuse
  <2>1. At(0) /\ UNCHANGED <<revents, fd, inbox>>
        /\ \A q \in Peer : peer[q] = "gone" => peer'[q] = "gone"
    BY <1>6, <1>t DEF Refuse, TypeOK
  <2>2. QED
    BY <1>n, <1>s, <1>t, <2>1 DEF TypeOK
<1>7. ASSUME NEW i \in 0..MaxConnections, Skip(i) PROVE PollInv'
  BY <1>7, <1>n DEF Skip
<1>8. ASSUME NEW i \in Slot, CloseBroken(i) \/ CloseFull(i) \/ CloseEnded(i)
      PROVE  PollInv'
  <2>1. At(i) /\ fd' = [fd EXCEPT ![i] = NULL] /\ UNCHANGED <<revents, inbox>>
        /\ \A p \in Peer : peer[p] = "gone" => peer'[p] = "gone"
    BY <1>8, <1>t DEF CloseBroken, CloseFull, CloseEnded, Readable, CloseSlot, TypeOK
  <2>2. \A j \in Slot : j > i => fd'[j] = fd[j]
    BY <1>s, <1>t, <2>1 DEF TypeOK
  <2>3. \A p \in Slot : fd[p] # NULL => fd[p] \in Peer
    BY <1>t DEF TypeOK
  <2>4. i \in 0..MaxConnections
    BY <1>s
  <2>5. \A j \in Slot : j > i /\ fd[j] # NULL =>
          /\ fd'[j] = fd[j]
          /\ inbox'[fd[j]] = inbox[fd[j]]
          /\ peer[fd[j]] = "gone" => peer'[fd[j]] = "gone"
    BY <2>1, <2>2, <2>3
  <2>6. UNCHANGED revents
    BY <2>1
  <2>7. QED
    BY <1>n, <2>1, <2>4, <2>5, <2>6
<1>9. ASSUME NEW i \in Slot, ReceivePart(i) \/ Handle(i) PROVE PollInv'
  <2>1. /\ At(i) /\ inbox' = [inbox EXCEPT ![fd[i]] = @ - Taken(i)]
        /\ UNCHANGED <<revents, fd, peer>>
    BY <1>9 DEF ReceivePart, Handle, Receive, Readable
  <2>2. \A j \in Slot : j > i /\ fd[j] # NULL => fd[j] # fd[i] /\ fd[j] \in Peer
    BY <1>s, <1>t DEF PlaceInv, TypeOK
  <2>3. QED
    BY <1>n, <1>s, <1>t, <2>1, <2>2 DEF TypeOK
<1>10. ASSUME NEW i \in Slot, Send(i) \/ Killed(i) PROVE PollInv'
  <2>1. At(i) /\ UNCHANGED <<revents, fd, inbox, peer>>
    BY <1>10 DEF Send, Killed, Writable
  <2>2. QED
    BY <1>n, <1>s, <2>1
<1>11. CASE UNCHANGED vars
  BY <1>11, <1>t DEF PollInv, vars
<1>12. QED
  BY <1>1, <1>2, <1>3, <1>4, <1>5, <1>6, <1>7, <1>8, <1>9, <1>10, <1>11, <1>s
     DEF Next, ServerRuns

(***************************************************************************)
(* Every step keeps the ids apart.                                         *)
(***************************************************************************)
LEMMA IdStep ==
  ASSUME IInv, [Next]_vars
  PROVE  IdInv'
<1> USE DEF daemon, wire
<1>t. TypeOK /\ PlaceInv /\ IdInv /\ NULL \notin Peer
  BY ConnectionsAssumption DEF IInv
<1>u. Used \subseteq Slot /\ \A i \in Slot : i \in Used <=> fd[i] # NULL
  BY DEF Used
<1>k. ASSUME UNCHANGED <<id, next_client_id, ids>>,
             \A i \in Slot : fd'[i] \in {fd[i], NULL},
             \A p \in Peer : p \in ToSet(backlog') \/ peer'[p] = "new" =>
                             p \in ToSet(backlog) \/ peer[p] = "new"
      PROVE  IdInv'
  <2>1. \A i \in Used' : i \in Used /\ fd'[i] = fd[i] /\ i \in Slot
    BY <1>k DEF Used
  <2>2. QED
    BY <1>k, <1>t, <2>1 DEF IdInv
<1>1. ASSUME NEW p \in Peer, Connect(p) PROVE IdInv'
  <2>1. /\ UNCHANGED <<id, next_client_id, ids, fd>> /\ peer[p] = "new"
        /\ ToSet(backlog') = ToSet(backlog) \cup {p}
        /\ peer' = [peer EXCEPT ![p] = "idle"]
    BY <1>1, Connected DEF Connect
  <2>2. QED
    BY <1>k, <1>t, <2>1 DEF TypeOK
<1>2. ASSUME NEW p \in Peer, Call(p) \/ Return(p) \/ Disconnect(p) PROVE IdInv'
  <2>1. /\ UNCHANGED <<id, next_client_id, ids, fd, backlog>>
        /\ \A q \in Peer : peer'[q] = "new" => peer[q] = "new"
    BY <1>2, <1>t DEF Call, Return, Disconnect, TypeOK
  <2>2. QED
    BY <1>k, <2>1
<1>3. CASE Accept
  <2> DEFINE h == Head(backlog)
  <2>1. PICK i \in Slot : /\ fd[i] = NULL /\ fd' = [fd EXCEPT ![i] = h]
                         /\ id' = [id EXCEPT ![i] = next_client_id]
    BY <1>3, Accepted
  <2>2. /\ h \in Peer /\ h # NULL /\ h \in ToSet(backlog)
        /\ \A j \in Slot : fd[j] # h
        /\ ToSet(backlog') = ToSet(backlog) \ {h}
    BY <1>3, Dequeued
  <2>3. next_client_id' = next_client_id + 1 /\ UNCHANGED <<ids, peer>>
    BY <1>3 DEF Accept, NewId
  <2> HIDE DEF h
  <2>4. /\ i \notin Used /\ Used' = Used \cup {i}
        /\ \A j \in Used : fd'[j] = fd[j] /\ id'[j] = id[j] /\ j # i
        /\ fd'[i] = h /\ id'[i] = next_client_id
    BY <1>t, <2>1, <2>2 DEF TypeOK, Used
  <2>5. /\ next_client_id \in Nat
        /\ \A j \in Used : id[j] \in Nat /\ id[j] < next_client_id
        /\ \A p \in Peer : \A k \in ids[p] : k \in Nat /\ k < next_client_id
    BY <1>t, <1>u DEF IdInv, TypeOK
  <2>6. ids[h] = {}
    BY <1>t, <2>2 DEF IdInv
  <2>7. /\ \A j \in Used' : id'[j] < next_client_id'
        /\ \A p \in Peer : \A k \in ids'[p] : k < next_client_id'
    BY <2>3, <2>4, <2>5
  <2>8. \A j, k \in Used' : id'[j] = id'[k] => j = k
    BY <1>t, <2>4, <2>5 DEF IdInv
  <2>9. \A p \in Peer : p \in ToSet(backlog') \/ peer'[p] = "new" => ids'[p] = {}
    BY <1>t, <2>2, <2>3 DEF IdInv
  <2>10. /\ \A j \in Used' : ids'[fd'[j]] \subseteq {id'[j]}
         /\ \A j \in Used', p \in Peer : id'[j] \in ids'[p] => fd'[j] = p
    BY <1>t, <2>3, <2>4, <2>5, <2>6 DEF IdInv
  <2>11. /\ \A p \in Peer : \A k, l \in ids'[p] : k = l
         /\ \A p, q \in Peer : p # q => ids'[p] \cap ids'[q] = {}
    BY <1>t, <2>3 DEF IdInv
  <2>12. QED
    BY <2>7, <2>8, <2>9, <2>10, <2>11 DEF IdInv
<1>4. CASE Refuse
  <2>1. /\ UNCHANGED <<id, next_client_id, ids, fd>>
        /\ \A q \in Peer : peer'[q] = "new" => peer[q] = "new"
    BY <1>4, <1>t DEF Refuse, TypeOK
  <2>2. ToSet(backlog') \subseteq ToSet(backlog)
    BY <1>4, Dequeued
  <2>3. QED
    BY <1>k, <2>1, <2>2
<1>5. ASSUME NEW i \in Slot, CloseBroken(i) \/ CloseFull(i) \/ CloseEnded(i)
      PROVE  IdInv'
  <2>1. fd' = [fd EXCEPT ![i] = NULL]
        /\ UNCHANGED <<id, next_client_id, ids, backlog>>
        /\ \A p \in Peer : peer'[p] = "new" => peer[p] = "new"
    BY <1>5, <1>t DEF CloseBroken, CloseFull, CloseEnded, CloseSlot, TypeOK
  <2>2. \A j \in Slot : fd'[j] \in {fd[j], NULL}
    BY <1>t, <2>1 DEF TypeOK
  <2>3. QED
    BY <1>k, <2>1, <2>2
<1>6. ASSUME NEW i \in Slot, Handle(i) PROVE IdInv'
  <2> DEFINE h == fd[i]
  <2>1. /\ i \in Used /\ h \in Peer
        /\ ids' = [ids EXCEPT ![h] = @ \cup {id[i]}]
    BY <1>6, Handled
  <2>2. UNCHANGED <<id, next_client_id, fd, backlog, peer>> /\ Used' = Used
    BY <1>6 DEF Handle, Receive, Used
  <2>3. ids[h] \subseteq {id[i]} /\ h \notin ToSet(backlog) /\ peer[h] # "new"
    BY <1>t, <2>1 DEF IdInv, PlaceInv
  <2>4. \A p \in Peer : ids'[p] = IF p = h THEN {id[i]} ELSE ids[p]
    BY <1>t, <2>1, <2>3 DEF TypeOK
  <2>5. \A p \in Peer : p # h => id[i] \notin ids[p]
    BY <1>t, <2>1 DEF IdInv
  <2>6. \A j \in Used : fd[j] \in Peer /\ (fd[j] = h => j = i)
    BY <1>t, <2>1 DEF PlaceInv, TypeOK, Used
  <2> HIDE DEF h
  <2>7. /\ \A j \in Used' : id'[j] < next_client_id'
        /\ \A p \in Peer : \A k \in ids'[p] : k < next_client_id'
        /\ \A j, k \in Used' : id'[j] = id'[k] => j = k
    BY <1>t, <2>1, <2>2, <2>4 DEF IdInv
  <2>8. \A p \in Peer : p \in ToSet(backlog') \/ peer'[p] = "new" => ids'[p] = {}
    BY <1>t, <2>2, <2>3, <2>4 DEF IdInv
  <2>9. \A j \in Used' : ids'[fd'[j]] \subseteq {id'[j]}
    BY <1>t, <2>2, <2>4, <2>6 DEF IdInv
  <2>10. \A j \in Used', p \in Peer : id'[j] \in ids'[p] => fd'[j] = p
    BY <1>t, <2>1, <2>2, <2>4 DEF IdInv, h
  <2>11. /\ \A p \in Peer : \A k, l \in ids'[p] : k = l
         /\ \A p, q \in Peer : p # q => ids'[p] \cap ids'[q] = {}
    BY <1>t, <2>4, <2>5 DEF IdInv
  <2>12. QED
    BY <2>7, <2>8, <2>9, <2>10, <2>11 DEF IdInv
<1>7. CASE UNCHANGED <<id, next_client_id, ids, fd, backlog, peer>>
  BY <1>7, <1>t DEF IdInv, Used
<1>8. QED
  BY <1>1, <1>2, <1>3, <1>4, <1>5, <1>6, <1>7
     DEF Next, ServerRuns, SendPiece, Poll, Skip, Receive, ReceivePart, Send, Killed, vars

(***************************************************************************)
(* Every step keeps count of the pieces of a request that fits.            *)
(***************************************************************************)
LEMMA StreamStep ==
  ASSUME IInv, [Next]_vars
  PROVE  StreamInv'
<1> USE DEF daemon, wire
<1>t. TypeOK /\ TypeOK' /\ PlaceInv /\ PollInv /\ StreamInv /\ NULL \notin Peer
  BY TypeStep, ConnectionsAssumption DEF IInv
<1>m. /\ Pieces \in Nat \ {0} /\ Room \in Nat \ {0} /\ Pieces <= Room
      /\ MaxConnections \in Nat /\ 0 \notin Slot
      /\ \A i \in Slot : i \in Nat /\ i \in 0..MaxConnections
  BY ConnectionsAssumption DEF Slot
<1>b. /\ ToSet(backlog) \subseteq Peer
      /\ \A i \in Slot : i \in Used <=> fd[i] # NULL
      /\ \A i \in Used : i \in Slot /\ fd[i] \in Peer /\ ctx[i] \in Context
  BY <1>t, ToSetType DEF TypeOK, Used
\* A step of a peer, which leaves the daemon and the others alone.
<1>p. ASSUME NEW p \in Peer, \A q \in Peer \ {p} : Side(q)' = Side(q),
             UNCHANGED <<daemon, backlog>>,
             peer'[p] \in {"idle", "calling", "gone"},
             peer[p] \in {"idle", "calling"},
             peer'[p] = "idle" => Silent(Side(p)'),
             \A c \in Context : Receiving(Side(p), c) => Receiving(Side(p)', c),
             \A c \in Context : Answering(Side(p), c) => Answering(Side(p)', c)
      PROVE  StreamInv'
  <2>1. ASSUME NEW q \in Peer, q # p
        PROVE  peer'[q] = peer[q] /\ Side(q)' = Side(q)
    <3>1. Side(q)' = Side(q)
      BY <1>p, <2>1
    <3>2. Side(q).is = peer[q] /\ Side(q)'.is = peer'[q]
      BY DEF Side
    <3>3. QED
      BY <3>1, <3>2
  <2>2. \A q \in Peer : peer'[q] \in {"new", "idle"} => Silent(Side(q)')
    BY <1>p, <1>t, <2>1 DEF StreamInv
  <2>3. \A q \in Peer : peer'[q] \in {"idle", "calling"} =>
          q \in ToSet(backlog') \/ \E i \in Slot : fd'[i] = q
    BY <1>p, <1>t, <2>1 DEF StreamInv
  <2>4. \A q \in ToSet(backlog') : Receiving(Side(q)', Cleared)
    <3>1. Cleared \in Context
      BY DEF Cleared, Context
    <3>2. QED
      BY <1>p, <1>t, <1>b, <2>1, <3>1 DEF StreamInv
  <2>5. ASSUME NEW i \in Used PROVE Talking(Side(fd[i])', ctx[i], events[i])
    <3>1. Talking(Side(fd[i]), ctx[i], events[i]) /\ fd[i] \in Peer /\ ctx[i] \in Context
      BY <1>t, <1>b DEF StreamInv
    <3>2. fd' = fd
      BY <1>p
    <3>3. Side(fd[i])' = [is |-> peer'[fd[i]], fits |-> fits'[fd[i]],
                          unsent |-> unsent'[fd[i]], inbox |-> inbox'[fd[i]],
                          outbox |-> outbox'[fd[i]]]
      BY <3>2 DEF Side
    <3>4. CASE fd[i] = p
      <4>1. Side(fd[i])' = Side(p)'
        BY <3>3, <3>4 DEF Side
      <4>2. QED
        BY <1>p, <3>1, <3>4, <4>1 DEF Talking
    <3>5. CASE fd[i] # p
      <4> DEFINE q == fd[i]
      <4>1. Side(fd[i])' = Side(fd[i])
        <5>1. PICK r \in Peer : r = fd[i]
          BY <3>1
        <5>2. Side(r)' = Side(r)
          BY <2>1, <3>5, <5>1
        <5>3. Side(fd[i])' = Side(r)' /\ Side(fd[i]) = Side(r)
          BY <3>3, <5>1 DEF Side
        <5>4. QED
          BY <5>2, <5>3
      <4>2. QED
        BY <3>1, <4>1
    <3>6. QED
      BY <3>4, <3>5
  <2>6. Used' = Used /\ UNCHANGED <<fd, ctx, events, revents, idx>>
    BY <1>p DEF Used
  <2>7. \A i \in Used' : Talking(Side(fd[i])', ctx'[i], events'[i])
    BY <2>5, <2>6
  <2>8. \A i \in Slot : i >= idx' => revents'[i] \subseteq {events'[i], "POLLERR"}
    BY <1>t, <2>6 DEF StreamInv
  <2>9. QED
    BY <2>2, <2>3, <2>4, <2>7, <2>8 DEF StreamInv
\* A step of the daemon at one slot: it closes it, or goes on with its peer.
<1>d. ASSUME NEW i \in Slot, NEW p \in Peer, fd[i] = p, At(i),
             UNCHANGED <<backlog, revents>>,
             \A q \in Peer \ {p} : Side(q)' = Side(q),
             \A j \in Slot \ {i} : fd'[j] = fd[j] /\ ctx'[j] = ctx[j]
                                   /\ events'[j] = events[j],
             \/ fd'[i] = NULL /\ peer'[p] \in {"gone", "cut"}
             \/ /\ fd'[i] = p /\ peer'[p] \notin {"new", "idle"}
                /\ Talking(Side(p)', ctx'[i], events'[i])
      PROVE  StreamInv'
  <2>1. ASSUME NEW q \in Peer, q # p
        PROVE  peer'[q] = peer[q] /\ Side(q)' = Side(q)
    <3>1. Side(q)' = Side(q)
      BY <1>d, <2>1
    <3>2. Side(q).is = peer[q] /\ Side(q)'.is = peer'[q]
      BY DEF Side
    <3>3. QED
      BY <3>1, <3>2
  <2>2. \A q \in Peer : peer'[q] \in {"new", "idle"} => Silent(Side(q)')
    BY <1>d, <1>t, <2>1 DEF StreamInv
  <2>3. \A q \in Peer : peer'[q] \in {"idle", "calling"} =>
          q \in ToSet(backlog') \/ \E j \in Slot : fd'[j] = q
    <3>1. ASSUME NEW q \in Peer, peer'[q] \in {"idle", "calling"}, q # p,
                 q \notin ToSet(backlog')
          PROVE  \E j \in Slot : fd'[j] = q
      <4>1. PICK j \in Slot : fd[j] = q
        BY <1>d, <1>t, <2>1, <3>1 DEF StreamInv
      <4>2. QED
        BY <1>d, <3>1, <4>1
    <3>2. peer'[p] \in {"idle", "calling"} => fd'[i] = p
      BY <1>d
    <3>3. QED
      BY <3>1, <3>2
  <2>4. \A q \in ToSet(backlog') : Receiving(Side(q)', Cleared)
    BY <1>d, <1>t, <1>b, <2>1 DEF StreamInv, PlaceInv
  <2>5. ASSUME NEW j \in Used' PROVE Talking(Side(fd[j])', ctx'[j], events'[j])
    <3>1. j \in Slot /\ fd'[j] # NULL
      BY <2>5 DEF Used
    <3>2. CASE j = i
      <4>1. fd'[j] = p /\ Talking(Side(p)', ctx'[j], events'[j])
        BY <1>d, <3>1, <3>2
      <4>2. Side(fd[j])' = Side(p)'
        BY <4>1 DEF Side
      <4>3. QED
        BY <4>1, <4>2
    <3>3. CASE j # i
      <4>1. /\ fd'[j] = fd[j] /\ ctx'[j] = ctx[j] /\ events'[j] = events[j]
            /\ j \in Used
        BY <1>d, <1>b, <3>1, <3>3
      <4>2. PICK r \in Peer : r = fd[j]
        BY <1>b, <4>1
      <4>3. r # p
        BY <1>d, <1>t, <3>1, <3>3, <4>1, <4>2 DEF PlaceInv
      <4>4. Side(r)' = Side(r)
        BY <2>1, <4>3
      <4>5. Side(fd[j])' = Side(r)' /\ Side(fd[j]) = Side(r)
        BY <4>1, <4>2 DEF Side
      <4>6. Talking(Side(fd[j]), ctx[j], events[j])
        BY <1>t, <4>1 DEF StreamInv
      <4>7. QED
        BY <4>1, <4>4, <4>5, <4>6
    <3>4. QED
      BY <3>2, <3>3
  <2>6. ASSUME NEW j \in Slot, j >= idx'
        PROVE  revents'[j] \subseteq {events'[j], "POLLERR"}
    <3>1. j # i /\ j >= idx
      BY <1>d, <1>m, <2>6 DEF At
    <3>2. QED
      BY <1>d, <1>t, <3>1 DEF StreamInv
  <2>7. QED
    BY <2>2, <2>3, <2>4, <2>5, <2>6 DEF StreamInv
\* A step that looks at the slots, and no more.
<1>u. ASSUME UNCHANGED <<fd, ctx, events, wire>>,
             \A i \in Slot : i >= idx' => revents'[i] \subseteq {events[i], "POLLERR"}
      PROVE  StreamInv'
  <2>1. \A p \in Peer : Side(p)' = Side(p) /\ peer'[p] = peer[p]
    BY <1>u DEF Side
  <2>2. Used' = Used /\ \A i \in Used : Side(fd[i])' = Side(fd[i])
    BY <1>u DEF Used, Side
  <2>3. QED
    BY <1>t, <1>u, <1>b, <2>1, <2>2 DEF StreamInv
<1>1. ASSUME NEW p \in Peer, Connect(p) PROVE StreamInv'
  <2>1. /\ p \notin ToSet(backlog) /\ \A i \in Slot : fd[i] # p
        /\ ToSet(backlog') = ToSet(backlog) \cup {p}
        /\ peer' = [peer EXCEPT ![p] = "idle"] /\ peer[p] = "new"
        /\ UNCHANGED <<daemon, fits, unsent, inbox, outbox>>
    BY <1>1, Connected DEF Connect
  <2>2. \A q \in Peer \ {p} : Side(q)' = Side(q) /\ peer'[q] = peer[q]
    BY <1>t, <2>1 DEF Side, TypeOK
  <2>3. peer'[p] = "idle" /\ Silent(Side(p)') /\ Side(p)'.is = "idle"
    <3>1. Silent(Side(p))
      BY <1>t, <2>1 DEF StreamInv
    <3>2. QED
      BY <1>t, <2>1, <3>1 DEF Side, Silent, TypeOK
  <2>4. Receiving(Side(p)', Cleared)
    BY <1>m, <2>3 DEF Receiving, Cleared
  <2>5. \A q \in Peer : peer'[q] \in {"new", "idle"} => Silent(Side(q)')
    BY <1>t, <2>2, <2>3 DEF StreamInv
  <2>6. \A q \in Peer : peer'[q] \in {"idle", "calling"} =>
          q \in ToSet(backlog') \/ \E i \in Slot : fd'[i] = q
    BY <1>t, <2>1, <2>2 DEF StreamInv
  <2>7. \A q \in ToSet(backlog') : Receiving(Side(q)', Cleared)
    BY <1>t, <1>b, <2>1, <2>2, <2>4 DEF StreamInv
  <2>8. \A i \in Used' : Talking(Side(fd[i])', ctx'[i], events'[i])
    <3>1. Used' = Used /\ UNCHANGED <<fd, ctx, events>>
      BY <2>1 DEF Used
    <3>2. ASSUME NEW i \in Used PROVE Side(fd[i])' = Side(fd[i])
      <4>1. PICK r \in Peer : r = fd[i] /\ r # p
        BY <1>b, <2>1, <3>2
      <4>2. Side(r)' = Side(r)
        BY <2>2, <4>1
      <4>3. Side(fd[i])' = Side(r)' /\ Side(fd[i]) = Side(r)
        BY <3>1, <4>1 DEF Side
      <4>4. QED
        BY <4>2, <4>3
    <3>3. QED
      BY <1>t, <3>1, <3>2 DEF StreamInv
  <2>9. QED
    BY <1>t, <2>1, <2>5, <2>6, <2>7, <2>8 DEF StreamInv
<1>2. ASSUME NEW p \in Peer, Call(p) PROVE StreamInv'
  <2>1. PICK whole \in BOOLEAN :
          /\ fits' = [fits EXCEPT ![p] = whole]
          /\ unsent' = [unsent EXCEPT ![p] = IF whole THEN Pieces ELSE Room + 1]
    BY <1>2 DEF Call
  <2>2. /\ peer[p] = "idle" /\ peer' = [peer EXCEPT ![p] = "calling"]
        /\ UNCHANGED <<daemon, backlog, inbox, outbox>>
    BY <1>2 DEF Call
  <2>3. Side(p).is = "idle" /\ Silent(Side(p))
    BY <1>t, <2>2 DEF StreamInv, Side
  <2>4. /\ Side(p)'.is = "calling" /\ Side(p)'.fits = whole
        /\ Side(p)'.unsent = IF whole THEN Pieces ELSE Room + 1
        /\ Side(p)'.inbox = Side(p).inbox /\ Side(p)'.outbox = Side(p).outbox
    BY <1>t, <2>1, <2>2 DEF Side, TypeOK
  <2>5. \A c \in Context : Receiving(Side(p), c) => Receiving(Side(p)', c)
    BY <1>m, <2>3, <2>4 DEF Receiving, Silent, Context
  <2>6. \A c \in Context : ~Answering(Side(p), c)
    BY <2>3 DEF Answering
  <2>7. \A q \in Peer \ {p} : Side(q)' = Side(q)
    BY <1>t, <2>1, <2>2 DEF Side, TypeOK
  <2>8. peer'[p] = "calling"
    BY <1>t, <2>2 DEF TypeOK
  <2>9. QED
    BY <1>p, <2>2, <2>5, <2>6, <2>7, <2>8
<1>3. ASSUME NEW p \in Peer, SendPiece(p) PROVE StreamInv'
  <2>1. /\ peer[p] = "calling" /\ unsent[p] > 0
        /\ unsent' = [unsent EXCEPT ![p] = @ - 1]
        /\ inbox' = [inbox EXCEPT ![p] = @ + 1]
        /\ UNCHANGED <<daemon, backlog, peer, fits, outbox>>
    BY <1>3 DEF SendPiece
  <2>2. /\ Side(p)'.is = "calling" /\ Side(p)'.fits = Side(p).fits
        /\ Side(p)'.unsent = Side(p).unsent - 1 /\ Side(p)'.inbox = Side(p).inbox + 1
        /\ Side(p)'.outbox = Side(p).outbox
        /\ Side(p).is = "calling" /\ Side(p).unsent > 0
        /\ Side(p).unsent \in Nat /\ Side(p).inbox \in Nat
    BY <1>t, <2>1 DEF Side, TypeOK
  <2>3. \A c \in Context : Receiving(Side(p), c) => Receiving(Side(p)', c)
    BY <1>m, <2>2 DEF Receiving, Context
  <2>4. \A c \in Context : ~Answering(Side(p), c)
    BY <2>2 DEF Answering
  <2>5. \A q \in Peer \ {p} : Side(q)' = Side(q)
    BY <1>t, <2>1 DEF Side, TypeOK
  <2>6. QED
    BY <1>p, <2>1, <2>3, <2>4, <2>5
<1>4. ASSUME NEW p \in Peer, Return(p) PROVE StreamInv'
  <2>1. /\ peer[p] = "calling" /\ outbox[p] = Pieces
        /\ peer' = [peer EXCEPT ![p] = "idle"]
        /\ outbox' = [outbox EXCEPT ![p] = 0]
        /\ UNCHANGED <<daemon, backlog, fits, unsent, inbox>>
    BY <1>4 DEF Return
  <2>2. /\ Side(p)'.is = "idle" /\ Side(p)'.fits = Side(p).fits
        /\ Side(p)'.unsent = Side(p).unsent /\ Side(p)'.inbox = Side(p).inbox
        /\ Side(p)'.outbox = 0
        /\ Side(p).is = "calling" /\ Side(p).outbox = Pieces
    BY <1>t, <2>1 DEF Side, TypeOK
  <2>3. \A c \in Context : Receiving(Side(p), c) =>
          Receiving(Side(p)', c) /\ Silent(Side(p)')
    BY <1>m, <2>2 DEF Receiving, Context, Silent
  <2>4. \A c \in Context : ~Answering(Side(p), c)
    BY <1>m, <2>2 DEF Answering, Context
  <2>5. \E c \in Context : Receiving(Side(p), c)
    <3>1. CASE p \in ToSet(backlog)
      <4>1. Cleared \in Context
        BY DEF Cleared, Context
      <4>2. QED
        BY <1>t, <3>1, <4>1 DEF StreamInv
    <3>2. CASE p \notin ToSet(backlog)
      <4>1. PICK i \in Slot : fd[i] = p
        BY <1>t, <2>1, <3>2 DEF StreamInv
      <4>2. i \in Used /\ ctx[i] \in Context
        BY <1>b, <1>t, <4>1
      <4>3. Talking(Side(p), ctx[i], events[i])
        BY <1>t, <4>1, <4>2 DEF StreamInv
      <4>4. QED
        BY <2>4, <4>2, <4>3 DEF Talking
    <3>3. QED
      BY <3>1, <3>2
  <2>6. Silent(Side(p)')
    BY <2>3, <2>5
  <2>7. \A q \in Peer \ {p} : Side(q)' = Side(q)
    BY <1>t, <2>1 DEF Side, TypeOK
  <2>8. peer'[p] = "idle"
    BY <1>t, <2>1 DEF TypeOK
  <2>9. QED
    BY <1>p, <2>1, <2>3, <2>4, <2>6, <2>7, <2>8
<1>5. ASSUME NEW p \in Peer, Disconnect(p) PROVE StreamInv'
  <2>1. PICK unread \in 0..outbox[p] : outbox' = [outbox EXCEPT ![p] = unread]
    BY <1>5 DEF Disconnect
  <2>2. /\ peer[p] \in {"idle", "calling"}
        /\ peer' = [peer EXCEPT ![p] = "gone"]
        /\ unsent' = [unsent EXCEPT ![p] = 0]
        /\ UNCHANGED <<daemon, backlog, fits, inbox>>
    BY <1>5 DEF Disconnect
  <2>3. Side(p)'.is = "gone" /\ Side(p)'.fits = Side(p).fits
    BY <1>t, <2>2 DEF Side, TypeOK
  <2>4. /\ \A c \in Context : Receiving(Side(p), c) => Receiving(Side(p)', c)
        /\ \A c \in Context : Answering(Side(p), c) => Answering(Side(p)', c)
    BY <2>3 DEF Receiving, Answering
  <2>5. \A q \in Peer \ {p} : Side(q)' = Side(q)
    BY <1>t, <2>1, <2>2 DEF Side, TypeOK
  <2>6. peer'[p] = "gone"
    BY <1>t, <2>2 DEF TypeOK
  <2>7. QED
    BY <1>p, <2>2, <2>4, <2>5, <2>6
<1>6. CASE Poll
  <2>1. /\ UNCHANGED <<fd, ctx, events, wire>>
        /\ revents' = [i \in 0..MaxConnections |->
             IF i = 0 THEN IF backlog = <<>> THEN {} ELSE {"POLLIN"}
             ELSE IF i < MaxConnections /\ fd[i] # NULL THEN Ready(i)
             ELSE {}]
    BY <1>6 DEF Poll
  <2>2. ASSUME NEW i \in Slot PROVE revents'[i] \subseteq {events[i], "POLLERR"}
    <3>1. i \in 0..MaxConnections /\ i # 0
      BY <1>m
    <3>2. revents'[i] = Ready(i) \/ revents'[i] = {}
      BY <2>1, <3>1
    <3>3. QED
      BY <3>2 DEF Ready
  <2>3. QED
    BY <1>u, <2>1, <2>2
<1>7. CASE Accept
  <2>h. PICK h \in Peer : h = Head(backlog)
    BY <1>7, Dequeued
  <2>1. PICK i \in Slot : /\ fd[i] = NULL /\ fd' = [fd EXCEPT ![i] = h]
                         /\ events' = [events EXCEPT ![i] = "POLLIN"]
                         /\ revents' = [revents EXCEPT ![i] = {}]
                         /\ ctx' = [ctx EXCEPT ![i] = Cleared]
    BY <1>7, <2>h, Accepted
  <2>2. /\ h \in Peer /\ h # NULL /\ h \in ToSet(backlog)
        /\ ToSet(backlog') = ToSet(backlog) \ {h}
    BY <1>7, <2>h, Dequeued
  <2>3. /\ idx = 0 /\ UNCHANGED <<peer, fits, unsent, inbox, outbox>>
    BY <1>7 DEF Accept, At
  <2>4. \A q \in Peer : Side(q)' = Side(q)
    BY <2>3 DEF Side
  <2>5. /\ fd'[i] = h /\ events'[i] = "POLLIN" /\ revents'[i] = {} /\ ctx'[i] = Cleared
        /\ \A j \in Slot \ {i} : /\ fd'[j] = fd[j] /\ events'[j] = events[j]
                                 /\ ctx'[j] = ctx[j] /\ revents'[j] = revents[j]
    BY <1>m, <1>t, <2>1 DEF TypeOK
  <2>6. \A q \in Peer : peer'[q] \in {"new", "idle"} => Silent(Side(q)')
    BY <1>t, <2>3, <2>4 DEF StreamInv
  <2>7. \A q \in Peer : peer'[q] \in {"idle", "calling"} =>
          q \in ToSet(backlog') \/ \E j \in Slot : fd'[j] = q
    BY <1>t, <2>1, <2>2, <2>3, <2>5 DEF StreamInv
  <2>8. \A q \in ToSet(backlog') : Receiving(Side(q)', Cleared)
    BY <1>t, <1>b, <2>2, <2>4 DEF StreamInv
  <2>9. ASSUME NEW j \in Used' PROVE Talking(Side(fd[j])', ctx'[j], events'[j])
    <3>1. j \in Slot /\ fd'[j] # NULL
      BY <2>9 DEF Used
    <3>2. CASE j = i
      <4>1. Side(fd[j])' = Side(h)'
        BY <2>5, <3>2 DEF Side
      <4>2. Receiving(Side(h), Cleared) /\ Side(h)' = Side(h)
        BY <1>t, <2>2, <2>4 DEF StreamInv
      <4>3. QED
        BY <2>5, <3>2, <4>1, <4>2 DEF Talking
    <3>3. CASE j # i
      <4>1. /\ fd'[j] = fd[j] /\ ctx'[j] = ctx[j] /\ events'[j] = events[j]
            /\ j \in Used
        BY <1>b, <2>5, <3>1, <3>3
      <4>2. Side(fd[j])' = Side(fd[j])
        BY <2>3, <4>1 DEF Side
      <4>3. QED
        BY <1>t, <4>1, <4>2 DEF StreamInv
    <3>4. QED
      BY <3>2, <3>3
  <2>10. \A j \in Slot : j >= idx' => revents'[j] \subseteq {events'[j], "POLLERR"}
    BY <1>m, <1>t, <2>3, <2>5 DEF StreamInv
  <2>11. QED
    BY <2>6, <2>7, <2>8, <2>9, <2>10 DEF StreamInv
<1>8. CASE Refuse
  <2>h. PICK h \in Peer : h = Head(backlog)
    BY <1>8, Dequeued
  <2>1. /\ h \in Peer /\ h \in ToSet(backlog) /\ peer[h] # "new"
        /\ \A j \in Slot : fd[j] # h
        /\ ToSet(backlog') = ToSet(backlog) \ {h}
    BY <1>8, <2>h, Dequeued
  <2>2. /\ UNCHANGED <<fd, events, revents, ctx, fits, unsent, inbox, outbox>>
        /\ peer' = [peer EXCEPT ![h] = IF @ = "gone" THEN "gone" ELSE "refused"]
        /\ idx = 0
    BY <1>8, <2>h DEF Refuse, At
  <2>3. /\ peer'[h] \in {"gone", "refused"}
        /\ \A q \in Peer \ {h} : Side(q)' = Side(q) /\ peer'[q] = peer[q]
    BY <1>t, <2>1, <2>2 DEF Side, TypeOK
  <2>4. \A q \in Peer : peer'[q] \in {"new", "idle"} => Silent(Side(q)')
    BY <1>t, <2>3 DEF StreamInv
  <2>5. \A q \in Peer : peer'[q] \in {"idle", "calling"} =>
          q \in ToSet(backlog') \/ \E j \in Slot : fd'[j] = q
    BY <1>t, <2>1, <2>2, <2>3 DEF StreamInv
  <2>6. \A q \in ToSet(backlog') : Receiving(Side(q)', Cleared)
    BY <1>t, <1>b, <2>1, <2>3 DEF StreamInv
  <2>7. Used' = Used
    BY <2>2 DEF Used
  <2>8. ASSUME NEW j \in Used PROVE Side(fd[j])' = Side(fd[j])
    <3>1. PICK r \in Peer : r = fd[j] /\ r # h
      BY <1>b, <2>1, <2>8
    <3>2. Side(r)' = Side(r)
      BY <2>3, <3>1
    <3>3. Side(fd[j])' = Side(r)' /\ Side(fd[j]) = Side(r)
      BY <2>2, <3>1 DEF Side
    <3>4. QED
      BY <3>2, <3>3
  <2>9. \A j \in Used' : Talking(Side(fd[j])', ctx'[j], events'[j])
    BY <1>t, <2>2, <2>7, <2>8 DEF StreamInv
  <2>10. \A j \in Slot : j >= idx' => revents'[j] \subseteq {events'[j], "POLLERR"}
    BY <1>m, <1>t, <2>2 DEF StreamInv
  <2>11. QED
    BY <2>4, <2>5, <2>6, <2>9, <2>10 DEF StreamInv
<1>9. ASSUME NEW i \in 0..MaxConnections, Skip(i) PROVE StreamInv'
  <2>1. /\ UNCHANGED <<fd, ctx, events, revents, wire>>
        /\ idx' = idx + 1 /\ idx \in Nat
    BY <1>9, <1>m DEF Skip, At
  <2>2. \A j \in Slot : j >= idx' => revents'[j] \subseteq {events[j], "POLLERR"}
    BY <1>m, <1>t, <2>1 DEF StreamInv
  <2>3. QED
    BY <1>u, <2>1, <2>2
<1>10. ASSUME NEW i \in Slot, Killed(i) PROVE StreamInv'
  <2>1. /\ UNCHANGED <<fd, ctx, events, revents, wire>>
        /\ idx' = idx + 1 /\ idx \in Nat
    BY <1>10, <1>m DEF Killed, Writable, At
  <2>2. \A j \in Slot : j >= idx' => revents'[j] \subseteq {events[j], "POLLERR"}
    BY <1>m, <1>t, <2>1 DEF StreamInv
  <2>3. QED
    BY <1>u, <2>1, <2>2
<1>11. ASSUME NEW i \in Slot, CloseBroken(i) \/ CloseFull(i) \/ CloseEnded(i)
       PROVE  StreamInv'
  <2>1. /\ At(i) /\ revents[i] # {} /\ UNCHANGED <<backlog, revents, events>>
        /\ fd' = [fd EXCEPT ![i] = NULL]
        /\ \A j \in Slot \ {i} : ctx'[j] = ctx[j]
    BY <1>11, <1>t DEF CloseBroken, CloseFull, CloseEnded, CloseSlot, Readable, TypeOK
  <2>2. PICK p \in Peer : fd[i] = p
    BY <2>1, Visited
  <2>3. \A q \in Peer \ {p} : Side(q)' = Side(q)
    BY <1>11, <1>t, <2>2 DEF CloseBroken, CloseFull, CloseEnded, Side, TypeOK
  <2>4. peer'[p] \in {"gone", "cut"}
    <3>1. CASE CloseBroken(i)
      BY <2>1, <2>2, <3>1, Visited DEF CloseBroken
    <3>2. CASE CloseFull(i)
      BY <1>t, <2>2, <3>2 DEF CloseFull, TypeOK
    <3>3. CASE CloseEnded(i)
      BY <2>1, <2>2, <3>3, Visited DEF CloseEnded, Readable
    <3>4. QED
      BY <1>11, <3>1, <3>2, <3>3
  <2>5. /\ fd'[i] = NULL
        /\ \A j \in Slot \ {i} : fd'[j] = fd[j] /\ ctx'[j] = ctx[j] /\ events'[j] = events[j]
    BY <1>t, <2>1 DEF TypeOK
  <2>6. QED
    BY <1>d, <2>1, <2>2, <2>3, <2>4, <2>5
<1>r. ASSUME NEW i \in Slot, Receive(i), NEW p \in Peer, fd[i] = p
      PROVE  /\ At(i) /\ UNCHANGED <<fd, backlog, revents, peer>>
             /\ \A q \in Peer \ {p} : Side(q)' = Side(q)
             /\ Side(p)'.is = Side(p).is /\ Side(p)'.fits = Side(p).fits
             /\ Side(p)'.unsent = Side(p).unsent
             /\ Side(p)'.inbox = Side(p).inbox - Taken(i)
             /\ Side(p)'.outbox = Side(p).outbox
             /\ peer'[p] \notin {"new", "idle"}
  <2>1. /\ At(i) /\ UNCHANGED <<fd, backlog, revents, peer, fits, unsent, outbox>>
        /\ inbox' = [inbox EXCEPT ![p] = @ - Taken(i)] /\ inbox[p] > 0
    BY <1>r DEF Receive, Readable
  <2>2. \A q \in Peer \ {p} : Side(q)' = Side(q)
    BY <1>t, <2>1 DEF Side, TypeOK
  <2>3. peer[p] \notin {"new", "idle"}
    <3>1. peer[p] \in {"new", "idle"} => Silent(Side(p))
      BY <1>t DEF StreamInv
    <3>2. Silent(Side(p)) => inbox[p] = 0
      BY DEF Silent, Side
    <3>3. QED
      BY <2>1, <3>1, <3>2
  <2>4. QED
    BY <1>t, <2>1, <2>2, <2>3 DEF Side, TypeOK
<1>12. ASSUME NEW i \in Slot, ReceivePart(i) PROVE StreamInv'
  <2>1. PICK p \in Peer : fd[i] = p
    BY <1>12, Received DEF ReceivePart
  <2> DEFINE v == Side(p)
             n == Taken(i)
             c == ctx[i]
             d == Arrived(i)
  <2>2. /\ events[i] = "POLLIN" /\ Receiving(v, c)
        /\ n \in Nat /\ c.size \in Nat /\ c \in Context
    BY <1>12, <1>t, <2>1, Received DEF ReceivePart, TypeOK
  <2>3. /\ v'.is = v.is /\ v'.fits = v.fits /\ v'.unsent = v.unsent
        /\ v'.inbox = v.inbox - n /\ v'.outbox = v.outbox
        /\ peer'[p] \notin {"new", "idle"}
    BY <1>12, <1>r, <2>1 DEF ReceivePart
  <2>4. v.is # "idle" /\ v.inbox \in Nat /\ v.unsent \in Nat /\ n > 0 /\ n <= v.inbox
    <3>1. peer'[p] = peer[p]
      BY <1>12, <1>r, <2>1 DEF ReceivePart
    <3>2. n > 0 /\ n <= inbox[p]
      BY <1>12, <2>1, Received DEF ReceivePart
    <3>3. QED
      BY <1>t, <2>3, <3>1, <3>2 DEF Side, TypeOK
  <2>5. d.size = c.size + n
    BY <2>2 DEF Arrived, Context
  <2>6. v.fits => d.size < Pieces
    BY <1>12, <1>m, <2>1, <2>2, <2>5 DEF ReceivePart, Complete, Side
  <2>7. Receiving(v', d)
    <3> HIDE DEF v, n, c, d
    <3>1. CASE v.fits /\ v.is = "calling"
      BY <1>m, <2>2, <2>3, <2>4, <2>5, <2>6, <3>1 DEF Receiving
    <3>2. CASE ~v.fits \/ v.is # "calling"
      BY <1>m, <2>2, <2>3, <2>4, <2>5, <2>6, <3>2 DEF Receiving
    <3>3. QED
      BY <3>1, <3>2
  <2>8. ctx' = [ctx EXCEPT ![i] = d] /\ events' = events
    BY <1>12 DEF ReceivePart
  <2>9. /\ At(i) /\ UNCHANGED <<fd, backlog, revents>>
        /\ \A q \in Peer \ {p} : Side(q)' = Side(q)
    BY <1>12, <1>r, <2>1 DEF ReceivePart
  <2>10. ctx'[i] = d /\ \A j \in Slot \ {i} : ctx'[j] = ctx[j]
    BY <1>t, <2>8 DEF TypeOK
  <2>11. Talking(Side(p)', ctx'[i], events'[i])
    BY <2>2, <2>7, <2>8, <2>10 DEF Talking
  <2> HIDE DEF v, n, c, d
  <2>12. QED
    BY <1>d, <2>1, <2>3, <2>8, <2>9, <2>10, <2>11
<1>13. ASSUME NEW i \in Slot, Handle(i) PROVE StreamInv'
  <2>1. PICK p \in Peer : fd[i] = p
    BY <1>13, Received DEF Handle
  <2> DEFINE v == Side(p)
             n == Taken(i)
             c == ctx[i]
             d == [c EXCEPT !.of = {fd[i]}, !.size = Pieces, !.cur = 0]
  <2>2. /\ Receiving(v, c) /\ n \in Nat /\ c.size \in Nat /\ c \in Context
    BY <1>13, <1>t, <2>1, Received DEF Handle, TypeOK
  <2>3. /\ v'.is = v.is /\ v'.fits = v.fits /\ v'.unsent = v.unsent
        /\ v'.inbox = v.inbox - n /\ v'.outbox = v.outbox
        /\ peer'[p] \notin {"new", "idle"}
    BY <1>13, <1>r, <2>1 DEF Handle
  <2>4. v.is # "idle" /\ v.inbox \in Nat /\ v.unsent \in Nat /\ n > 0 /\ n <= v.inbox
    <3>1. peer'[p] = peer[p]
      BY <1>13, <1>r, <2>1 DEF Handle
    <3>2. n > 0 /\ n <= inbox[p]
      BY <1>13, <2>1, Received DEF Handle
    <3>3. QED
      BY <1>t, <2>3, <3>1, <3>2 DEF Side, TypeOK
  <2>5. v.fits /\ c.size + n >= Pieces
    <3>1. Arrived(i).size = c.size + n
      BY <2>2 DEF Arrived, Context
    <3>2. QED
      BY <1>13, <2>1, <3>1 DEF Handle, Complete, Side
  <2>6. d.size = Pieces /\ d.cur = 0
    BY <2>2 DEF Context
  <2>7. Answering(v', d)
    <3> HIDE DEF v, n, c, d
    <3>1. CASE v.is = "calling"
      <4>1. v.outbox = 0 /\ c.size + v.inbox + v.unsent = Pieces
        BY <2>2, <2>4, <2>5, <3>1 DEF Receiving
      <4>2. v.unsent = 0 /\ n = v.inbox
        BY <1>m, <2>2, <2>4, <2>5, <4>1
      <4>3. QED
        BY <1>m, <2>3, <2>4, <2>5, <2>6, <4>1, <4>2 DEF Answering
    <3>2. CASE v.is # "calling"
      BY <1>m, <2>3, <2>4, <2>5, <2>6, <3>2 DEF Answering
    <3>3. QED
      BY <3>1, <3>2
  <2>8. ctx' = [ctx EXCEPT ![i] = d] /\ events' = [events EXCEPT ![i] = "POLLOUT"]
    BY <1>13, <1>t, <2>2 DEF Handle, TypeOK
  <2>9. /\ At(i) /\ UNCHANGED <<fd, backlog, revents>>
        /\ \A q \in Peer \ {p} : Side(q)' = Side(q)
    BY <1>13, <1>r, <2>1 DEF Handle
  <2>10. /\ ctx'[i] = d /\ events'[i] = "POLLOUT"
         /\ \A j \in Slot \ {i} : ctx'[j] = ctx[j] /\ events'[j] = events[j]
    <3> HIDE DEF d
    <3>1. QED
      BY <1>t, <2>8 DEF TypeOK
  <2>11. Talking(Side(p)', ctx'[i], events'[i])
    BY <2>7, <2>10 DEF Talking
  <2> HIDE DEF v, n, c, d
  <2>12. QED
    BY <1>d, <2>1, <2>3, <2>9, <2>10, <2>11
<1>14. ASSUME NEW i \in Slot, Send(i) PROVE StreamInv'
  <2>1. At(i) /\ revents[i] = {"POLLOUT"}
    BY <1>14 DEF Send, Writable
  <2>2. PICK p \in Peer : fd[i] = p
    BY <2>1, Visited
  <2> DEFINE v == Side(p)
             c == ctx[i]
  <2>3. Answering(v, c) /\ c \in Context
    BY <2>1, <2>2, Visited DEF Talking
  <2>4. PICK k \in 1..(Pieces - c.cur) :
          /\ outbox' = [outbox EXCEPT ![p] = @ + k]
          /\ IF c.cur + k = c.size
             THEN /\ ctx' = [ctx EXCEPT ![i] = Cleared]
                  /\ events' = [events EXCEPT ![i] = "POLLIN"]
             ELSE /\ ctx' = [ctx EXCEPT ![i].cur = @ + k]
                  /\ UNCHANGED events
    BY <1>14, <2>2 DEF Send
  <2>5. UNCHANGED <<fd, revents, backlog, peer, fits, unsent, inbox>>
    BY <1>14 DEF Send
  <2>6. \A q \in Peer \ {p} : Side(q)' = Side(q)
    BY <1>t, <2>4, <2>5 DEF Side, TypeOK
  <2>7. /\ v'.is = v.is /\ v'.fits = v.fits /\ v'.unsent = v.unsent
        /\ v'.inbox = v.inbox /\ v'.outbox = v.outbox + k
    BY <1>t, <2>4, <2>5 DEF Side, TypeOK
  <2>8. peer'[p] \notin {"new", "idle"}
    BY <1>t, <2>2, <2>3, <2>5 DEF Answering, PlaceInv, Side
  <2>9. k \in Nat /\ k > 0 /\ k <= Pieces - c.cur /\ c.cur \in Nat /\ c.size \in Nat
    BY <1>m, <2>3, <2>4 DEF Context
  <2>10. \A j \in Slot \ {i} : fd'[j] = fd[j] /\ ctx'[j] = ctx[j] /\ events'[j] = events[j]
    BY <1>t, <2>4, <2>5 DEF TypeOK
  <2>11. Talking(Side(p)', ctx'[i], events'[i])
    <3>1. CASE c.cur + k = c.size
      <4>1. ctx'[i] = Cleared /\ events'[i] = "POLLIN"
        BY <1>t, <2>4, <3>1 DEF TypeOK
      <4> HIDE DEF v, c
      <4>2. Receiving(v', Cleared)
        BY <1>m, <2>3, <2>7, <2>9, <3>1 DEF Receiving, Answering, Cleared
      <4>3. QED
        BY <4>1, <4>2 DEF Talking, v
    <3>2. CASE c.cur + k # c.size
      <4>1. ctx'[i] = [c EXCEPT !.cur = @ + k] /\ events'[i] = events[i]
        BY <1>t, <2>4, <3>2 DEF TypeOK
      <4>2. ctx'[i].cur = c.cur + k /\ ctx'[i].size = c.size
        BY <2>3, <4>1 DEF Context
      <4>3. events[i] # "POLLIN"
        BY <2>1, Visited
      <4> DEFINE d == ctx'[i]
      <4>4. Answering(v', d)
        <5>1. d.cur = c.cur + k /\ d.size = c.size
          BY <4>2
        <5> HIDE DEF v, c, d
        <5>2. QED
          BY <1>m, <2>3, <2>7, <2>9, <3>2, <5>1 DEF Answering
      <4>5. QED
        BY <4>1, <4>3, <4>4 DEF Talking
    <3>3. QED
      BY <3>1, <3>2
  <2> HIDE DEF v, c
  <2>12. QED
    BY <1>d, <2>1, <2>2, <2>5, <2>6, <2>8, <2>10, <2>11
<1>15. CASE UNCHANGED vars
  <2>1. UNCHANGED <<fd, ctx, events, revents, idx, wire>>
    BY <1>15 DEF vars
  <2>2. \A i \in Slot : i >= idx' => revents'[i] \subseteq {events[i], "POLLERR"}
    BY <1>t, <2>1 DEF StreamInv
  <2>3. QED
    BY <1>u, <2>1, <2>2
<1>16. 0 \in 0..MaxConnections /\ Slot \subseteq 0..MaxConnections
  BY <1>m
<1>17. QED
  BY <1>1, <1>2, <1>3, <1>4, <1>5, <1>6, <1>7, <1>8, <1>9, <1>10, <1>11, <1>12,
     <1>13, <1>14, <1>15, <1>16 DEF Next, ServerRuns

(***************************************************************************)
(* Every step leaves a slot in use without an error, and with bytes of its *)
(* own connection.                                                         *)
(***************************************************************************)
LEMMA SlotStep ==
  ASSUME IInv, [Next]_vars
  PROVE  NoAssertionFails' /\ OwnBytes'
<1> USE DEF daemon, wire
<1> DEFINE Sound(c, p) == ~c.error /\ c.of \subseteq {p} /\ c.size <= Room
<1>t. TypeOK /\ NULL \notin Peer /\ Pieces \in Nat /\ Room \in Nat /\ Pieces <= Room
  BY ConnectionsAssumption DEF IInv
<1>c. \A i \in Used : Sound(ctx[i], fd[i])
  BY DEF IInv, NoAssertionFails, OwnBytes
<1>d. \A p : Sound(Cleared, p)
  BY <1>t DEF Cleared
<1>e. (\A i \in Used' : Sound(ctx'[i], fd'[i])) => NoAssertionFails' /\ OwnBytes'
  BY DEF NoAssertionFails, OwnBytes
<1>n. ASSUME NEW i \in Slot, NEW c, ctx' = [ctx EXCEPT ![i] = c],
             \A j \in Slot : j # i => fd'[j] = fd[j],
             i \in Used' => Sound(c, fd'[i])
      PROVE  NoAssertionFails' /\ OwnBytes'
  <2>1. \A j \in Slot : ctx'[j] = IF j = i THEN c ELSE ctx[j]
    BY <1>n, <1>t DEF TypeOK
  <2>2. \A j \in Used' : j \in Slot /\ (j # i => j \in Used)
    BY <1>n DEF Used
  <2> HIDE DEF Sound
  <2>3. \A j \in Used' : Sound(ctx'[j], fd'[j])
    BY <1>c, <1>n, <2>1, <2>2
  <2>4. QED
    BY <1>e, <2>3
<1>1. CASE Accept
  <2>1. PICK i \in Slot : /\ fd' = [fd EXCEPT ![i] = Head(backlog)]
                         /\ ctx' = [ctx EXCEPT ![i] = Cleared]
    BY <1>1, Accepted
  <2>2. \A j \in Slot : j # i => fd'[j] = fd[j]
    BY <1>t, <2>1 DEF TypeOK
  <2> HIDE DEF Sound
  <2>3. QED
    BY <1>d, <1>n, <2>1, <2>2
<1>2. ASSUME NEW i \in Slot, CloseBroken(i) \/ CloseFull(i) \/ CloseEnded(i)
      PROVE  NoAssertionFails' /\ OwnBytes'
  <2>1. /\ fd' = [fd EXCEPT ![i] = NULL]
        /\ \A j \in Slot : j # i => ctx'[j] = ctx[j]
    BY <1>2, <1>t DEF CloseBroken, CloseFull, CloseEnded, CloseSlot, TypeOK
  <2>2. \A j \in Used' : j \in Slot /\ j # i /\ j \in Used /\ fd'[j] = fd[j]
    BY <1>t, <2>1 DEF TypeOK, Used
  <2> HIDE DEF Sound
  <2>3. QED
    BY <1>c, <1>e, <2>1, <2>2
<1>3. ASSUME NEW i \in Slot, ReceivePart(i) PROVE NoAssertionFails' /\ OwnBytes'
  <2>1. ctx' = [ctx EXCEPT ![i] = Arrived(i)] /\ fd' = fd
    BY <1>3 DEF ReceivePart, Receive
  <2>2. fd[i] \in Peer /\ Sound(ctx[i], fd[i]) /\ ctx[i] \in Context
    BY <1>3, Visited DEF ReceivePart, Receive, Readable
  <2>4. Taken(i) \in Nat /\ Taken(i) <= Room - ctx[i].size
    BY <1>3, Received DEF ReceivePart
  <2>3. Sound(Arrived(i), fd[i])
    BY <1>t, <2>1, <2>2, <2>4 DEF Arrived, Context
  <2> HIDE DEF Sound
  <2>5. QED
    BY <1>n, <2>1, <2>3
<1>4. ASSUME NEW i \in Slot, Handle(i) PROVE NoAssertionFails' /\ OwnBytes'
  <2> DEFINE c == [ctx[i] EXCEPT !.of = {fd[i]}, !.size = Pieces, !.cur = 0]
  <2>1. ctx' = [ctx EXCEPT ![i] = c] /\ fd' = fd
    BY <1>4, <1>t DEF Handle, Receive, TypeOK
  <2>2. Sound(ctx[i], fd[i]) /\ ctx[i] \in Context
    BY <1>4, Visited DEF Handle, Receive, Readable
  <2>3. Sound(c, fd[i])
    BY <1>t, <2>2 DEF Context
  <2> HIDE DEF Sound, c
  <2>4. QED
    BY <1>n, <2>1, <2>3
<1>5. ASSUME NEW i \in Slot, Send(i) PROVE NoAssertionFails' /\ OwnBytes'
  <2>1. PICK k \in 1..(Pieces - ctx[i].cur) :
          \/ ctx' = [ctx EXCEPT ![i] = Cleared]
          \/ ctx' = [ctx EXCEPT ![i].cur = @ + k]
    BY <1>5 DEF Send
  <2>2. fd' = fd /\ Sound(ctx[i], fd[i]) /\ ctx[i] \in Context
    BY <1>5, Visited DEF Send, Writable
  <2>3. Sound([ctx[i] EXCEPT !.cur = @ + k], fd[i])
    BY <2>2 DEF Context
  <2>4. CASE ctx' = [ctx EXCEPT ![i] = Cleared]
    <3> HIDE DEF Sound
    <3>1. QED
      BY <1>d, <1>n, <2>2, <2>4
  <2>5. CASE ctx' = [ctx EXCEPT ![i].cur = @ + k]
    <3> DEFINE c == [ctx[i] EXCEPT !.cur = @ + k]
    <3>1. ctx' = [ctx EXCEPT ![i] = c]
      BY <2>5
    <3> HIDE DEF Sound, c
    <3>2. QED
      BY <1>n, <2>2, <2>3, <3>1 DEF c
  <2>6. QED
    BY <2>1, <2>4, <2>5
<1>6. CASE UNCHANGED <<fd, ctx>>
  BY <1>6 DEF IInv, NoAssertionFails, OwnBytes, Used
<1>7. QED
  BY <1>1, <1>2, <1>3, <1>4, <1>5, <1>6
     DEF Next, ServerRuns, Connect, Call, SendPiece, Return, Disconnect, Poll,
         Refuse, Skip, Killed, vars

-----------------------------------------------------------------------------
\* The invariant holds in every state, however many peers and slots there are,
\* and however often a slot is used again.
THEOREM Inductive == Spec => []IInv
<1>1. IInv /\ [Next]_vars => IInv'
  BY TypeStep, PlaceStep, PollStep, IdStep, StreamStep, SlotStep DEF IInv
<1>2. QED
  BY InitInv, <1>1, PTL DEF Spec

\* hf_message_recv_async and hf_message_send_async: the context of a slot in
\* use has no error of the connection before.
THEOREM AssertionsHold == Spec => []NoAssertionFails
BY Inductive, PTL DEF IInv

\* server_process_connections: a request is put together from bytes of one
\* connection only.
THEOREM BytesApart == Spec => []OwnBytes
BY Inductive, PTL DEF IInv

\* _alloc_connection: a client keeps one id, and no other client ever has it.
THEOREM IdsApart == Spec => []OneIdEach
<1>1. IInv => OneIdEach
  <2> SUFFICES ASSUME IInv, NEW p \in Peer
               PROVE  /\ Cardinality(ids[p]) <= 1
                      /\ \A q \in Peer : p # q => ids[p] \cap ids[q] = {}
    BY DEF OneIdEach
  <2>1. \A k, l \in ids[p] : k = l
    BY DEF IInv, IdInv
  <2>2. ASSUME ids[p] = {} PROVE Cardinality(ids[p]) <= 1
    BY <2>2, FS_EmptySet
  <2>3. ASSUME ids[p] # {} PROVE Cardinality(ids[p]) <= 1
    <3>1. PICK k \in ids[p] : TRUE
      BY <2>3
    <3>2. ids[p] = {k}
      BY <2>1, <3>1
    <3>3. Cardinality(ids[p]) = 1
      BY <3>2, FS_Singleton, Zenon
    <3>4. QED
      BY <3>3
  <2>4. Cardinality(ids[p]) <= 1
    BY <2>2, <2>3
  <2>5. QED
    BY <2>4 DEF IInv, IdInv
<1>2. QED
  BY <1>1, Inductive, PTL

\* server_process_connections, _handle_event_recv: nobody who is still there
\* and whose requests fit the buffer is hung up on, although what poll has
\* reported may be old, and although a full buffer closes a connection.
THEOREM ClosedAfterPeer == Spec => ClosesAfterPeer
<1> DEFINE After == \A i \in Slot : fd[i] # NULL /\ fd'[i] = NULL
                                     => peer[fd[i]] = "gone" \/ ~fits[fd[i]]
<1>1. ASSUME IInv, [Next]_vars PROVE After
  <2> USE DEF daemon, wire
  <2> SUFFICES ASSUME NEW i \in Slot, fd[i] # NULL, fd'[i] = NULL
               PROVE  peer[fd[i]] = "gone" \/ ~fits[fd[i]]
    OBVIOUS
  <2>t. TypeOK
    BY <1>1 DEF IInv
  <2>1. CASE Accept
    <3>1. PICK j \in Slot : fd[j] = NULL /\ fd' = [fd EXCEPT ![j] = Head(backlog)]
      BY <1>1, <2>1, Accepted
    <3>2. QED
      BY <2>t, <3>1 DEF TypeOK
  <2>2. ASSUME NEW j \in Slot, CloseBroken(j) PROVE peer[fd[i]] = "gone"
    <3>1. fd' = [fd EXCEPT ![j] = NULL] /\ peer[fd[j]] = "gone"
      BY <1>1, <2>2, Visited DEF CloseBroken, CloseSlot
    <3>2. QED
      BY <2>t, <3>1 DEF TypeOK
  <2>3. ASSUME NEW j \in Slot, CloseEnded(j) PROVE peer[fd[i]] = "gone"
    <3>1. fd' = [fd EXCEPT ![j] = NULL] /\ inbox[fd[j]] = 0
      BY <2>3 DEF CloseEnded, CloseSlot
    <3>2. peer[fd[j]] = "gone"
      BY <1>1, <2>3, <3>1, Visited DEF CloseEnded, Readable
    <3>3. QED
      BY <2>t, <3>1, <3>2 DEF TypeOK
  <2>5. ASSUME NEW j \in Slot, CloseFull(j)
        PROVE  peer[fd[i]] = "gone" \/ ~fits[fd[i]]
    <3>1. fd' = [fd EXCEPT ![j] = NULL] /\ ctx[j].size = Room
      BY <2>5 DEF CloseFull, CloseSlot
    <3>2. /\ "POLLIN" \in revents[j] /\ revents[j] \subseteq {events[j], "POLLERR"}
          /\ Talking(Side(fd[j]), ctx[j], events[j])
      BY <1>1, <2>5, Visited DEF CloseFull, Readable
    <3>3. fits[fd[j]] => ctx[j].size < Pieces
      BY <3>2 DEF Talking, Receiving, Side
    <3>4. ~fits[fd[j]]
      BY <3>1, <3>3, ConnectionsAssumption
    <3>5. QED
      BY <2>t, <3>1, <3>4 DEF TypeOK
  <2>4. QED
    BY <1>1, <2>1, <2>2, <2>3, <2>5
       DEF Next, ServerRuns, Connect, Call, SendPiece, Return, Disconnect, Poll,
           Refuse, Skip, Receive, ReceivePart, Handle, Send, Killed, vars
<1>2. IInv /\ [Next]_vars => [After]_vars
  BY <1>1
<1>3. QED
  BY <1>2, Inductive, PTL DEF Spec, ClosesAfterPeer

=============================================================================
