------------------------------ MODULE HfStream ------------------------------
(***************************************************************************)
(* One connection, byte by byte: the client library builds a request,      *)
(* sends it and waits for the reply (hf_message_send_sync and              *)
(* hf_message_recv_sync); the server thread receives and sends whatever    *)
(* poll lets it (the _async functions), and turns from POLLIN to POLLOUT   *)
(* and back.  The kernel may cut the stream anywhere.                      *)
(*                                                                         *)
(* A context (hf_context) is the buffer up to end, and cur.  Which bytes   *)
(* are in a line does not matter, apart from "\n" and NUL.                 *)
(***************************************************************************)
EXTENDS Integers, SequencesExt, FiniteSetsExt

CONSTANTS
  Requests,    \* the messages a client may build: sequences of lines
  Replies,     \* the messages the handlers may build
  BufferSize,  \* HF_BUFFER_SIZE
  SocketSize,  \* bound: bytes the kernel holds in either direction
  NULL

NL  == "\n"
NUL == "0"

\* The bytes of a message: its lines and the empty line that ends it.
Wire(m) == Append(FlattenSeq(m), NL)

VARIABLES
  client,    \* the context of the client library
  server,    \* the context of the connection in the daemon
  calling,   \* "no", "send" or "recv": where the client is in a call
  events,    \* "POLLIN" or "POLLOUT": what the server thread polls for
  toServer, toClient,  \* bytes on their way
  asked, handled, answer, returned  \* history: see RemoteCall

stream  == <<client, server, calling, events, toServer, toClient>>
history == <<asked, handled, answer, returned>>
vars    == <<stream, history>>

Cleared == [buf |-> <<>>, cur |-> 0, error |-> FALSE]

Init ==
  /\ client = Cleared /\ server = Cleared
  /\ calling = "no" /\ events = "POLLIN"
  /\ toServer = <<>> /\ toClient = <<>>
  /\ asked = NULL /\ handled = NULL /\ answer = NULL /\ returned = NULL

-----------------------------------------------------------------------------
(***************************************************************************)
(* Contexts.                                                               *)
(***************************************************************************)

\* __hf_append: vsnprintf keeps a byte for the NUL, so a text that fills the
\* buffer to the last byte is accepted, with a NUL for its own last byte.
AppendText(ctx, text) ==
  LET room == BufferSize - Len(ctx.buf) IN
  IF ctx.error \/ Len(text) > room THEN [ctx EXCEPT !.error = TRUE]
  ELSE [ctx EXCEPT !.buf = @ \o IF Len(text) < room THEN text
                                ELSE Append(Front(text), NUL)]

\* hf_message_build: the buffer is cleared, and the lines are appended one
\* after the other until one does not fit.  Every append leaves less room, and
\* none lets a line follow the NUL, so the lines may as well go in at once.
Build(m) == AppendText(Cleared, Wire(m))

LineByLine(m) == FoldLeft(AppendText, Cleared, Append(m, <<NL>>))

\* The offsets, from the given one on, at which "\n\n" stands.
Terminators(buf, from) ==
  {i \in from..(Len(buf) - 1) :
     i + 2 <= Len(buf) /\ buf[i + 1] = NL /\ buf[i + 2] = NL}

\* Replies are short ("OK", an id): they fit into the buffer with room to
\* spare.  Requests may be of any length.  No message has an empty line before
\* its last one: the library does not look into its texts, and a text with an
\* empty line ends the message there.
ASSUME StreamAssumption ==
  /\ BufferSize \in Nat /\ SocketSize \in Nat \ {0}
  /\ \A r \in Replies : Len(Wire(r)) < BufferSize
  /\ \A m \in Requests \cup Replies :
       /\ Wire(m) \in Seq(STRING)
       /\ Terminators(Wire(m), 0) = {Len(Wire(m)) - 2}
       /\ NULL \notin {m, Wire(m)}

\* Fault: the scan goes past the last byte, which may be half a terminator.
ScanToEnd(ctx) ==
  LET found == Terminators(ctx.buf, ctx.cur) IN
  [ctx EXCEPT !.cur = IF found # {} THEN Min(found) ELSE Len(ctx.buf)]

\* hf_message_received: cur stops at the terminator, or else at the last
\* byte, which may be the first half of one.
Scan(ctx) ==
  LET found == Terminators(ctx.buf, ctx.cur) IN
  [ctx EXCEPT !.cur = IF found # {} THEN Min(found)
                      ELSE Max({@, Len(ctx.buf) - 1})]

Received(ctx) == Terminators(ctx.buf, ctx.cur) # {}

\* hf_message_parse starts over and reads up to the first empty line.
Parsed(ctx) == SubSeq(ctx.buf, 1, Min(Terminators(ctx.buf, 0)) + 2)

\* How many bytes a recv, or a send, may take.
Receivable(ctx, socket) == 1..Min({Len(socket), BufferSize - Len(ctx.buf)})
Sendable(ctx, socket) == 1..Min({Len(ctx.buf) - ctx.cur, SocketSize - Len(socket)})

Taken(ctx, socket, k) == [ctx EXCEPT !.buf = @ \o SubSeq(socket, 1, k)]
Rest(socket, k) == SubSeq(socket, k + 1, Len(socket))
Put(ctx, socket, k) == socket \o SubSeq(ctx.buf, ctx.cur + 1, ctx.cur + k)
Sent(ctx, k) == [ctx EXCEPT !.cur = @ + k]

-----------------------------------------------------------------------------
(***************************************************************************)
(* The client library.                                                     *)
(***************************************************************************)

\* A message that does not fit is refused, and nothing is sent.
Call(m) ==
  /\ calling = "no" /\ ~Build(m).error
  /\ client' = Build(m)
  /\ calling' = "send"
  /\ asked' = m /\ returned' = NULL
  /\ UNCHANGED <<server, events, toServer, toClient, handled, answer>>

ClientSend ==
  /\ calling = "send" /\ client.cur < Len(client.buf)
  /\ \E k \in Sendable(client, toServer) :
       /\ toServer' = Put(client, toServer, k)
       /\ client' = Sent(client, k)
  /\ UNCHANGED <<server, calling, events, toClient, history>>

\* Fault: the buffer still holds the request.
RecvUncleared == client' = [client EXCEPT !.cur = 0]

\* hf_message_recv_sync clears the buffer first.
StartRecv == client' = Cleared

\* Fault: the call ends when the request has gone.
ReturnUnanswered ==
  /\ calling = "send" /\ client.cur = Len(client.buf)
  /\ calling' = "no"
  /\ StartRecv
  /\ UNCHANGED <<server, events, toServer, toClient, history>>

ClientSent ==
  /\ calling = "send" /\ client.cur = Len(client.buf)
  /\ calling' = "recv"
  /\ StartRecv
  /\ UNCHANGED <<server, events, toServer, toClient, history>>

ClientRecv ==
  /\ calling = "recv"
  /\ \E k \in Receivable(client, toClient) :
       LET ctx == Taken(client, toClient, k) IN
       /\ toClient' = Rest(toClient, k)
       /\ IF Received(ctx)
          THEN /\ returned' = Parsed(ctx)
               /\ asked' = NULL /\ handled' = NULL /\ answer' = NULL
               /\ calling' = "no" /\ client' = Cleared
          ELSE /\ client' = Scan(ctx)
               /\ UNCHANGED <<calling, history>>
  /\ UNCHANGED <<server, events, toServer>>

-----------------------------------------------------------------------------
(***************************************************************************)
(* The server thread.                                                      *)
(***************************************************************************)

\* A complete request is parsed, handled and replaced in the buffer by the
\* reply.  The handlers choose the reply; Daemon says how.
ServerRecv ==
  /\ events = "POLLIN"
  /\ \E k \in Receivable(server, toServer) :
       LET ctx == Taken(server, toServer, k) IN
       /\ toServer' = Rest(toServer, k)
       /\ IF Received(ctx)
          THEN \E r \in Replies :
                 /\ handled' = Parsed(ctx) /\ answer' = r
                 /\ server' = Build(r)
                 /\ events' = "POLLOUT"
          ELSE /\ server' = Scan(ctx)
               /\ UNCHANGED <<events, handled, answer>>
  /\ UNCHANGED <<client, calling, toClient, asked, returned>>

ServerSend ==
  /\ events = "POLLOUT"
  /\ \E k \in Sendable(server, toClient) :
       /\ toClient' = Put(server, toClient, k)
       /\ IF server.cur + k = Len(server.buf)
          THEN server' = Cleared /\ events' = "POLLIN"
          ELSE server' = Sent(server, k) /\ UNCHANGED events
  /\ UNCHANGED <<client, calling, toServer, history>>

-----------------------------------------------------------------------------
Next == \/ \E m \in Requests : Call(m)
        \/ ClientSend \/ ClientSent \/ ClientRecv
        \/ ServerRecv \/ ServerSend

\* Both ends keep running; nobody has to make a call.
Fairness == WF_vars(ClientSend) /\ WF_vars(ClientSent) /\ WF_vars(ClientRecv)
            /\ WF_vars(ServerRecv) /\ WF_vars(ServerSend)

Spec == Init /\ [][Next]_vars

FairSpec == Spec /\ Fairness

-----------------------------------------------------------------------------
\* A context that waits for more has not overlooked a terminator, wherever
\* the stream was cut.
NothingOverlooked ==
  /\ events = "POLLIN" => Terminators(server.buf, 0) = {}
  /\ calling = "recv" => Terminators(client.buf, 0) = {}

\* A reply is not built while bytes of the client are unread: those would be
\* thrown away.  The library keeps to this by waiting for each reply.
NothingDiscarded ==
  /\ events = "POLLOUT" =>
       toServer = <<>> /\ (calling = "send" => client.cur = Len(client.buf))
  /\ calling = "no" => toClient = <<>> /\ server = Cleared

\* Requests and replies cross whole, once, and in turn.
RemoteCalls == INSTANCE RemoteCall WITH
  Requests <- {Wire(m) : m \in Requests},
  Replies  <- {Wire(r) : r \in Replies},
  asked    <- IF asked = NULL THEN NULL ELSE Wire(asked),
  answer   <- IF answer = NULL THEN NULL ELSE Wire(answer)

ImplementsCall == RemoteCalls!Spec

\* A call returns, unless its request fills the buffer to the last byte.
CallReturns ==
  calling = "send" /\ Len(Wire(asked)) < BufferSize ~> calling = "no"

\* What hf_message_build has accepted ends with an empty line.
BuiltMessageEnds == calling = "send" => Terminators(client.buf, 0) # {}

=============================================================================
