--------------------------- MODULE HfStream_proofs ---------------------------
(***************************************************************************)
(* Proofs about HfStream.  While a call is under way, the bytes of its     *)
(* message are, in this order, in the buffer of the receiver, on their way *)
(* and in the buffer of the sender: nothing is lost or added.  The         *)
(* receiver finds the terminator, which only the end of the message is,    *)
(* when it has received everything; so each message is read whole, and     *)
(* nothing is left behind when a buffer is used again.                     *)
(***************************************************************************)
EXTENDS HfStream, SeqLemmas

Bytes == STRING \cup {NUL}

Contexts == [buf : Seq(Bytes), cur : Nat, error : BOOLEAN]

\* What the buffer holds of an accepted message.
Built(m) == Build(m).buf

\* The bytes the client, and the server thread, have still to send.
Unsent(ctx) == SubSeq(ctx.buf, ctx.cur + 1, Len(ctx.buf))
FromClient  == IF calling = "send" THEN Unsent(client) ELSE <<>>
FromServer  == IF events = "POLLOUT" THEN Unsent(server) ELSE <<>>

\* The bytes of the reply that the client has received.
AtClient == IF calling = "recv" THEN client.buf ELSE <<>>

\* A context that has been scanned, and holds no terminator.
Waiting(ctx) == /\ Terminators(ctx.buf, 0) = {}
                /\ ctx.cur = 0 \/ ctx.cur < Len(ctx.buf)

Types ==
  /\ client \in Contexts /\ server \in Contexts
  /\ calling \in {"no", "send", "recv"} /\ events \in {"POLLIN", "POLLOUT"}
  /\ toServer \in Seq(Bytes) /\ toClient \in Seq(Bytes)
  /\ asked \in Requests \cup {NULL} /\ answer \in Replies \cup {NULL}

\* Between two calls nothing is left of the last one.
Idle ==
  /\ calling = "no" <=> asked = NULL
  /\ asked = NULL =>
       /\ handled = NULL /\ answer = NULL
       /\ toServer = <<>> /\ toClient = <<>>
       /\ events = "POLLIN" /\ server = Cleared

\* The request is on its way to the daemon.
Upwards ==
  asked # NULL /\ handled = NULL =>
    /\ answer = NULL /\ toClient = <<>> /\ events = "POLLIN"
    /\ ~Build(asked).error
    /\ server.buf \o (toServer \o FromClient) = Built(asked)
    /\ calling = "recv" => client = Cleared

\* The daemon has read it, and the reply is on its way to the client.
Downwards ==
  handled # NULL =>
    /\ handled = Wire(asked) /\ answer \in Replies
    /\ toServer = <<>> /\ FromClient = <<>>
    /\ events = "POLLIN" => server = Cleared
    /\ AtClient \o (toClient \o FromServer) = Wire(answer)

Cursors ==
  /\ ~client.error /\ ~server.error
  /\ calling = "send" => client.cur <= Len(client.buf)
  /\ events = "POLLOUT" => handled # NULL /\ server.cur < Len(server.buf)
  /\ events = "POLLIN" => Waiting(server)
  /\ calling = "recv" => Waiting(client)

IInv == Types /\ Idle /\ Upwards /\ Downwards /\ Cursors

-----------------------------------------------------------------------------
(***************************************************************************)
(* Buffers.                                                                *)
(***************************************************************************)

\* Where terminators are, one by one.
LEMMA TerminatorsDef ==
  ASSUME NEW b \in Seq(Bytes), NEW from \in Nat
  PROVE  /\ \A i \in Terminators(b, from) :
              /\ i \in Nat /\ from <= i /\ i + 2 <= Len(b)
              /\ b[i + 1] = NL /\ b[i + 2] = NL
         /\ \A i \in Nat : from <= i /\ i + 2 <= Len(b)
                            /\ b[i + 1] = NL /\ b[i + 2] = NL
                            => i \in Terminators(b, from)
<1>1. Len(b) \in Nat
  BY LenProperties
<1>2. QED
  BY <1>1 DEF Terminators

\* A message has an empty line at its end.
LEMMA WireFacts ==
  ASSUME NEW m \in Requests \cup Replies
  PROVE  /\ Wire(m) \in Seq(Bytes) /\ Len(Wire(m)) \in Nat /\ 2 <= Len(Wire(m))
         /\ Terminators(Wire(m), 0) = {Len(Wire(m)) - 2}
         /\ m # NULL /\ Wire(m) # NULL
<1>1. /\ Wire(m) \in Seq(Bytes) /\ Terminators(Wire(m), 0) = {Len(Wire(m)) - 2}
      /\ m # NULL /\ Wire(m) # NULL
  <2>1. /\ Wire(m) \in Seq(STRING) /\ Terminators(Wire(m), 0) = {Len(Wire(m)) - 2}
        /\ m # NULL /\ Wire(m) # NULL
    BY StreamAssumption
  <2>2. STRING \subseteq Bytes
    BY DEF Bytes
  <2>3. Wire(m) \in Seq(Bytes)
    BY <2>1, <2>2, SeqMonotonic
  <2>4. QED
    BY <2>1, <2>3
<1>2. Len(Wire(m)) \in Nat
  BY <1>1, LenProperties
<1>3. Len(Wire(m)) - 2 \in Nat
  <2>1. Len(Wire(m)) - 2 \in Terminators(Wire(m), 0)
    BY <1>1
  <2> HIDE DEF Wire
  <2>2. QED
    BY <1>1, <2>1, TerminatorsDef
<1>4. QED
  BY <1>1, <1>2, <1>3

\* An accepted message stands in the buffer as it is, unless it fills the
\* buffer: then its last byte is a NUL, and no terminator is left.
LEMMA BuiltFacts ==
  ASSUME NEW m \in Requests \cup Replies, ~Build(m).error
  PROVE  /\ Build(m) = [buf |-> Built(m), cur |-> 0, error |-> FALSE]
         /\ Built(m) \in Seq(Bytes) /\ Len(Built(m)) = Len(Wire(m))
         /\ Terminators(Built(m), 0) \subseteq {Len(Built(m)) - 2}
         /\ Terminators(Built(m), 0) # {} => Built(m) = Wire(m)
<1> DEFINE w == Wire(m)
           cut == Append(Front(w), NUL)
<1>1. /\ w \in Seq(Bytes) /\ Len(w) \in Nat /\ 2 <= Len(w)
      /\ Terminators(w, 0) = {Len(w) - 2}
  BY WireFacts
<1> HIDE DEF w
<1>2. /\ cut \in Seq(Bytes) /\ Len(cut) = Len(w) /\ Terminators(cut, 0) = {}
  <2>1. /\ Front(w) \in Seq(Bytes) /\ Len(Front(w)) = Len(w) - 1
        /\ \A i \in 1..(Len(w) - 1) : Front(w)[i] = w[i]
    <3> DEFINE n == Len(w) - 1
    <3>1. 1 \in Int /\ n \in Int /\ \A i \in 1..n : w[i] \in Bytes
      BY <1>1, ElementOfSeq
    <3>2. /\ SubSeq(w, 1, n) \in Seq(Bytes)
          /\ Len(SubSeq(w, 1, n)) = IF 1 <= n THEN n - 1 + 1 ELSE 0
          /\ \A i \in 1..(n - 1 + 1) : SubSeq(w, 1, n)[i] = w[1 + i - 1]
      BY <3>1, SubSeqProperties
    <3>3. Front(w) = SubSeq(w, 1, n)
      BY DEF Front
    <3>4. QED
      BY <1>1, <3>2, <3>3
  <2>2. NUL \in Bytes /\ NL # NUL
    <3>1. NUL \in Bytes
      BY DEF Bytes, NUL
    <3>2. NL # NUL
      BY DEF NUL, NL
    <3>3. QED
      BY <3>1, <3>2
  <2>3. /\ cut \in Seq(Bytes) /\ Len(cut) = Len(w) - 1 + 1
        /\ \A i \in 1..(Len(w) - 1) : cut[i] = w[i]
        /\ cut[Len(w) - 1 + 1] = NUL
    BY <2>1, <2>2, AppendProperties
  <2> HIDE DEF cut
  <2>4. Len(cut) = Len(w) /\ cut[Len(w)] = NUL
    BY <1>1, <2>3
  <2>5. ASSUME NEW i \in Terminators(cut, 0)
        PROVE  FALSE
    <3>1. i \in Nat /\ i + 2 <= Len(w) /\ cut[i + 1] = NL /\ cut[i + 2] = NL
      BY <2>3, <2>4, <2>5, TerminatorsDef
    <3>2. i + 2 # Len(w)
      BY <2>2, <2>4, <3>1
    <3>3. i + 1 \in 1..(Len(w) - 1) /\ i + 2 \in 1..(Len(w) - 1)
      BY <1>1, <3>1, <3>2
    <3>4. w[i + 1] = NL /\ w[i + 2] = NL
      BY <2>3, <3>1, <3>3
    <3>5. i \in Terminators(w, 0)
      BY <1>1, <3>1, <3>4, TerminatorsDef
    <3>6. QED
      BY <1>1, <3>1, <3>2, <3>5
  <2>6. QED
    BY <2>3, <2>4, <2>5
<1> HIDE DEF cut
<1>3. /\ Len(w) <= BufferSize
      /\ Build(m) = [buf |-> IF Len(w) < BufferSize THEN w ELSE cut,
                     cur |-> 0, error |-> FALSE]
  <2>1. /\ Cleared.buf = <<>> /\ Cleared.cur = 0 /\ Cleared.error = FALSE
        /\ Len(<<>>) = 0 /\ BufferSize \in Nat
    BY StreamAssumption DEF Cleared
  <2> DEFINE held == IF Len(w) < BufferSize THEN w ELSE cut
  <2>2. BufferSize - Len(Cleared.buf) = BufferSize
    BY <2>1
  <2>3. ~(Len(w) > BufferSize)
    BY <2>1, <2>2 DEF Build, AppendText, w
  <2>4. Build(m) = [Cleared EXCEPT !.buf = @ \o held]
    BY <2>1, <2>2, <2>3 DEF Build, AppendText, w, cut
  <2>5. <<>> \o held = held
    BY <1>1, <1>2, ConcatEmptySeq
  <2> HIDE DEF held
  <2>6. Build(m) = [buf |-> held, cur |-> 0, error |-> FALSE]
    BY <2>4, <2>5 DEF Cleared
  <2>7. Len(w) <= BufferSize
    BY <1>1, <2>1, <2>3
  <2>8. QED
    BY <2>6, <2>7 DEF held
<1>4. Built(m) = IF Len(w) < BufferSize THEN w ELSE cut
  BY <1>3 DEF Built
<1>5. /\ Built(m) \in Seq(Bytes) /\ Len(Built(m)) = Len(w)
      /\ Terminators(Built(m), 0) \subseteq {Len(w) - 2}
      /\ Terminators(Built(m), 0) # {} => Built(m) = w
  BY <1>1, <1>2, <1>4
<1>6. QED
  BY <1>3, <1>4, <1>5 DEF w

\* Replies have room to spare.
LEMMA ReplyFacts ==
  ASSUME NEW r \in Replies
  PROVE  ~Build(r).error /\ Built(r) = Wire(r)
<1> DEFINE w == Wire(r)
<1>1. w \in Seq(Bytes) /\ Len(w) \in Nat
  BY WireFacts
<1>2. Len(w) < BufferSize /\ BufferSize \in Nat
  BY StreamAssumption
<1> HIDE DEF w
<1>3. Build(r) = [Cleared EXCEPT !.buf = @ \o w]
  BY <1>1, <1>2 DEF Build, AppendText, Cleared, w
<1>4. <<>> \o w = w
  BY <1>1, ConcatEmptySeq
<1>5. QED
  BY <1>3, <1>4 DEF Built, Cleared, w

\* A receiver that finds a terminator has received the whole message.
LEMMA Whole ==
  ASSUME NEW w \in Seq(Bytes), Terminators(w, 0) \subseteq {Len(w) - 2},
         NEW ctx \in Contexts, NEW rest \in Seq(Bytes), ctx.buf \o rest = w,
         Received(ctx)
  PROVE  /\ rest = <<>> /\ Terminators(w, 0) # {}
         /\ Parsed(ctx) = w
<1> DEFINE b == ctx.buf
           cur == ctx.cur
<1>1. b \in Seq(Bytes) /\ cur \in Nat /\ b \o rest = w /\ Terminators(b, cur) # {}
  BY DEF Contexts, Received
<1>2. Parsed(ctx) = SubSeq(b, 1, Min(Terminators(b, 0)) + 2)
  BY DEF Parsed
<1> HIDE DEF b, cur
<1>3. /\ Len(b) \in Nat /\ Len(rest) \in Nat /\ Len(w) \in Nat
      /\ Len(w) = Len(b) + Len(rest)
      /\ \A i \in 1..Len(b) : w[i] = b[i]
  <2>1. Len(b) \in Nat /\ Len(rest) \in Nat
    BY <1>1, LenProperties
  <2>2. \A i \in 1..(Len(b) + Len(rest)) :
          w[i] = IF i <= Len(b) THEN b[i] ELSE rest[i - Len(b)]
    BY <1>1, ConcatProperties
  <2>3. QED
    BY <1>1, <2>1, <2>2, ConcatProperties
<1>4. ASSUME NEW i \in Terminators(b, 0)
      PROVE  i = Len(w) - 2 /\ i \in Terminators(w, 0) /\ i + 2 <= Len(b) /\ i \in Nat
  <2>1. i \in Nat /\ i + 2 <= Len(b) /\ b[i + 1] = NL /\ b[i + 2] = NL
    BY <1>1, TerminatorsDef
  <2>2. w[i + 1] = NL /\ w[i + 2] = NL /\ i + 2 <= Len(w)
    BY <1>3, <2>1
  <2>3. i \in Terminators(w, 0)
    BY <2>1, <2>2, TerminatorsDef
  <2>4. QED
    BY <2>1, <2>3
<1>5. PICK i : i \in Terminators(b, 0)
  <2>1. PICK i : i \in Terminators(b, cur)
    BY <1>1
  <2>2. i \in Nat /\ i + 2 <= Len(b) /\ b[i + 1] = NL /\ b[i + 2] = NL
    BY <1>1, <2>1, TerminatorsDef
  <2>3. i \in Terminators(b, 0)
    BY <1>1, <2>2, TerminatorsDef
  <2>4. QED
    BY <2>3
<1>6. i = Len(w) - 2 /\ i \in Terminators(w, 0) /\ Len(b) = Len(w) /\ i + 2 = Len(b)
  BY <1>3, <1>4, <1>5
<1>7. rest = <<>> /\ b = w
  <2>1. rest = <<>>
    BY <1>3, <1>6, EmptySeq
  <2>2. QED
    BY <1>1, <2>1, ConcatEmptySeq
<1>8. Terminators(b, 0) = {i}
  BY <1>4, <1>5, <1>6
<1>9. Min({i}) = i
  BY <1>3, <1>4, <1>5 DEF Min
<1>10. SubSeq(b, 1, i + 2) = b
  BY <1>1, <1>6, SubSeqFull
<1>11. QED
  BY <1>2, <1>6, <1>7, <1>8, <1>9, <1>10

\* What a scan does that finds none.
LEMMA ScanIs ==
  ASSUME NEW b, NEW cur, NEW error, Terminators(b, cur) = {},
         NEW ctx, ctx = [buf |-> b, cur |-> cur, error |-> error]
  PROVE  Scan(ctx) = [buf |-> b, cur |-> Max({cur, Len(b) - 1}), error |-> error]
<1> DEFINE last == Max({cur, Len(b) - 1})
<1>1. ctx.buf = b /\ ctx.cur = cur
  OBVIOUS
<1>2. Scan(ctx) = [ctx EXCEPT !.cur = last]
  BY <1>1 DEF Scan
<1> HIDE DEF last
<1>3. Scan(ctx) = [buf |-> b, cur |-> last, error |-> error]
  BY <1>2
<1>4. QED
  BY <1>3 DEF last

\* A receiver that finds none, and goes on waiting, has overlooked none.
LEMMA ScanFacts ==
  ASSUME NEW ctx \in Contexts, NEW more \in Seq(Bytes), Waiting(ctx),
         NEW new, new = [ctx EXCEPT !.buf = @ \o more], ~Received(new)
  PROVE  /\ Scan(new) \in Contexts
         /\ Scan(new).buf = ctx.buf \o more /\ Scan(new).error = ctx.error
         /\ Waiting(Scan(new))
<1> DEFINE b == ctx.buf
           cur == ctx.cur
           c == ctx.buf \o more
<1>1. /\ b \in Seq(Bytes) /\ cur \in Nat /\ ctx.error \in BOOLEAN
      /\ ctx = [buf |-> b, cur |-> cur, error |-> ctx.error]
  BY DEF Contexts
<1>2. new = [buf |-> c, cur |-> cur, error |-> ctx.error]
  BY <1>1
<1>3. /\ Len(b) \in Nat /\ Len(more) \in Nat /\ c \in Seq(Bytes)
      /\ Len(c) = Len(b) + Len(more)
      /\ \A i \in 1..Len(b) : c[i] = b[i]
  <2>1. Len(b) \in Nat /\ Len(more) \in Nat
    BY <1>1, LenProperties
  <2>2. /\ c \in Seq(Bytes) /\ Len(c) = Len(b) + Len(more)
        /\ \A i \in 1..(Len(b) + Len(more)) :
             c[i] = IF i <= Len(b) THEN b[i] ELSE more[i - Len(b)]
    BY <1>1, ConcatProperties
  <2>3. QED
    BY <2>1, <2>2
<1>4. Terminators(b, 0) = {} /\ (cur = 0 \/ cur < Len(b)) /\ Terminators(c, cur) = {}
  BY <1>2 DEF Waiting, Received
<1> HIDE DEF b, cur, c
<1>5. Scan(new) = [buf |-> c, cur |-> Max({cur, Len(c) - 1}), error |-> ctx.error]
  BY <1>2, <1>4, ScanIs
<1>6. Max({cur, Len(c) - 1}) = IF cur >= Len(c) - 1 THEN cur ELSE Len(c) - 1
  BY <1>1, <1>3, MaxOfTwo
<1>7. Terminators(c, 0) = {}
  <2>1. SUFFICES ASSUME NEW i \in Terminators(c, 0)
                 PROVE  FALSE
    OBVIOUS
  <2>2. i \in Nat /\ i + 2 <= Len(c) /\ c[i + 1] = NL /\ c[i + 2] = NL
    BY <1>3, <2>1, TerminatorsDef
  <2>3. i < cur
    <3>1. \A j \in Nat : cur <= j /\ j + 2 <= Len(c)
                        /\ c[j + 1] = NL /\ c[j + 2] = NL
                        => j \in Terminators(c, cur)
      BY <1>1, <1>3, TerminatorsDef
    <3>2. ~(cur <= i)
      BY <1>4, <2>2, <3>1
    <3>3. QED
      BY <1>1, <2>2, <3>2
  <2>4. i + 2 <= Len(b)
    BY <1>1, <1>3, <1>4, <2>2, <2>3
  <2>5. b[i + 1] = NL /\ b[i + 2] = NL
    BY <1>3, <2>2, <2>4
  <2>6. i \in Terminators(b, 0)
    <3>1. \A j \in Nat : 0 <= j /\ j + 2 <= Len(b)
                        /\ b[j + 1] = NL /\ b[j + 2] = NL
                        => j \in Terminators(b, 0)
      BY <1>1, TerminatorsDef
    <3>2. 0 <= i
      BY <2>2
    <3>3. QED
      BY <2>2, <2>4, <2>5, <3>1, <3>2
  <2>7. QED
    BY <1>4, <2>6
<1>8. /\ Scan(new).buf = c /\ Scan(new).error = ctx.error
      /\ Scan(new).cur \in Nat /\ (Scan(new).cur = 0 \/ Scan(new).cur < Len(c))
  <2> DEFINE last == Max({cur, Len(c) - 1})
  <2>1. last \in Nat /\ (last = 0 \/ last < Len(c))
    BY <1>1, <1>3, <1>4, <1>6
  <2>2. Scan(new) = [buf |-> c, cur |-> last, error |-> ctx.error]
    BY <1>5
  <2> HIDE DEF last
  <2>3. QED
    BY <2>1, <2>2
<1>9. Scan(new) \in Contexts
  BY <1>1, <1>3, <1>5, <1>8 DEF Contexts
<1>10. QED
  BY <1>7, <1>8, <1>9 DEF Waiting, c

\* An empty buffer, cleared, waits.
LEMMA ClearedFacts ==
  /\ Cleared \in Contexts /\ Waiting(Cleared)
  /\ Cleared.buf = <<>> /\ Cleared.cur = 0 /\ ~Cleared.error
<1>1. /\ Cleared.buf = <<>> /\ Cleared.cur = 0 /\ ~Cleared.error
  BY DEF Cleared
<1>2. Cleared \in Contexts
  BY EmptySeq DEF Cleared, Contexts
<1>3. Terminators(<<>>, 0) = {}
  BY EmptySeq DEF Terminators
<1>4. QED
  BY <1>1, <1>2, <1>3 DEF Waiting

-----------------------------------------------------------------------------
(***************************************************************************)
(* Reading and writing.                                                    *)
(***************************************************************************)

LEMMA Associative ==
  ASSUME NEW s \in Seq(Bytes), NEW t \in Seq(Bytes), NEW u \in Seq(Bytes)
  PROVE  (s \o t) \o u = s \o (t \o u)
BY ConcatAssociative

\* A call takes something, and no more than there is.
LEMMA ReceivableFacts ==
  ASSUME NEW ctx \in Contexts, NEW socket \in Seq(Bytes),
         NEW k \in Receivable(ctx, socket)
  PROVE  k \in 1..Len(socket) /\ socket # <<>>
<1>1. Len(socket) \in Nat /\ Len(ctx.buf) \in Nat /\ BufferSize \in Nat
  BY LenProperties, StreamAssumption DEF Contexts
<1> DEFINE room == BufferSize - Len(ctx.buf)
<1>2. room \in Int /\ Len(socket) \in Int
  BY <1>1
<1>3. k \in 1..Min({Len(socket), room})
  BY DEF Receivable
<1> HIDE DEF room
<1>4. Min({Len(socket), room}) = IF Len(socket) <= room THEN Len(socket) ELSE room
  BY <1>2, MinOfTwo
<1>5. k \in 1..Len(socket)
  BY <1>1, <1>2, <1>3, <1>4
<1>6. Len(<<>>) = 0
  BY EmptySeq
<1>7. QED
  BY <1>5, <1>6

LEMMA SendableFacts ==
  ASSUME NEW ctx \in Contexts, NEW socket \in Seq(Bytes),
         NEW k \in Sendable(ctx, socket)
  PROVE  k \in 1..(Len(ctx.buf) - ctx.cur)
<1>1. /\ Len(socket) \in Nat /\ Len(ctx.buf) \in Nat /\ ctx.cur \in Nat
      /\ SocketSize \in Nat
  BY LenProperties, StreamAssumption DEF Contexts
<1> DEFINE left == Len(ctx.buf) - ctx.cur
           room == SocketSize - Len(socket)
<1>2. left \in Int /\ room \in Int
  BY <1>1
<1>3. k \in 1..Min({left, room})
  BY DEF Sendable
<1> HIDE DEF left, room
<1>4. Min({left, room}) = IF left <= room THEN left ELSE room
  BY <1>2, MinOfTwo
<1>5. k \in 1..left
  BY <1>2, <1>3, <1>4
<1>6. QED
  BY <1>5 DEF left

\* What a recv takes from the socket is in the buffer.
LEMMA TakenFacts ==
  ASSUME NEW ctx \in Contexts, NEW socket \in Seq(Bytes), NEW k \in 1..Len(socket),
         NEW tail \in Seq(Bytes)
  PROVE  /\ Taken(ctx, socket, k) \in Contexts
         /\ Rest(socket, k) \in Seq(Bytes)
         /\ Taken(ctx, socket, k).buf \o (Rest(socket, k) \o tail)
              = ctx.buf \o (socket \o tail)
         /\ \E more \in Seq(Bytes) :
              Taken(ctx, socket, k) = [ctx EXCEPT !.buf = @ \o more]
<1> DEFINE b == ctx.buf
           more == SubSeq(socket, 1, k)
           rest == SubSeq(socket, k + 1, Len(socket))
<1>1. b \in Seq(Bytes)
  BY DEF Contexts
<1>2. more \in Seq(Bytes) /\ rest \in Seq(Bytes) /\ more \o rest = socket
  <2>1. k \in 0..Len(socket)
    BY LenProperties
  <2>2. QED
    BY <2>1, CutFacts
<1>3. /\ Taken(ctx, socket, k) = [ctx EXCEPT !.buf = @ \o more]
      /\ Rest(socket, k) = rest
  BY DEF Taken, Rest
<1> HIDE DEF b, more, rest
<1>4. b \o more \in Seq(Bytes) /\ rest \o tail \in Seq(Bytes)
  BY <1>1, <1>2, ConcatProperties
<1>5. Taken(ctx, socket, k).buf = b \o more /\ Taken(ctx, socket, k) \in Contexts
  BY <1>3, <1>4 DEF Contexts, b
<1>6. (b \o more) \o (rest \o tail) = b \o (socket \o tail)
  <2>1. (b \o more) \o (rest \o tail) = b \o (more \o (rest \o tail))
    BY <1>1, <1>2, <1>4, Associative
  <2>2. more \o (rest \o tail) = socket \o tail
    BY <1>2, Associative
  <2>3. QED
    BY <2>1, <2>2
<1>7. QED
  BY <1>2, <1>3, <1>5, <1>6 DEF b

\* What a send puts into the socket is no longer to be sent.
LEMMA SentFacts ==
  ASSUME NEW ctx \in Contexts, ctx.cur <= Len(ctx.buf),
         NEW socket \in Seq(Bytes), NEW k \in 1..(Len(ctx.buf) - ctx.cur)
  PROVE  /\ Sent(ctx, k) \in Contexts
         /\ Sent(ctx, k).buf = ctx.buf /\ Sent(ctx, k).error = ctx.error
         /\ Sent(ctx, k).cur = ctx.cur + k /\ ctx.cur + k <= Len(ctx.buf)
         /\ Put(ctx, socket, k) \in Seq(Bytes)
         /\ Put(ctx, socket, k) \o Unsent(Sent(ctx, k)) = socket \o Unsent(ctx)
<1> DEFINE b == ctx.buf
           c == ctx.cur
           now == SubSeq(b, c + 1, c + k)
           later == SubSeq(b, c + k + 1, Len(b))
<1>1. b \in Seq(Bytes) /\ c \in Nat /\ Len(b) \in Nat /\ k \in Nat
  BY LenProperties DEF Contexts
<1>2. now \in Seq(Bytes) /\ later \in Seq(Bytes) /\ now \o later = Unsent(ctx)
  <2>1. c \in 0..Len(b) /\ k \in 0..(Len(b) - c)
    BY <1>1
  <2> HIDE DEF b, c
  <2>2. now \in Seq(Bytes) /\ later \in Seq(Bytes)
        /\ now \o later = SubSeq(b, c + 1, Len(b))
    BY <1>1, <2>1, CutBehind
  <2>3. QED
    BY <2>2 DEF Unsent, b, c
<1>3. /\ Sent(ctx, k).buf = b /\ Sent(ctx, k).error = ctx.error
      /\ Sent(ctx, k).cur = c + k /\ Sent(ctx, k) \in Contexts
  BY <1>1 DEF Sent, Contexts
<1>4. Unsent(Sent(ctx, k)) = later
  BY <1>3 DEF Unsent
<1>5. Put(ctx, socket, k) = socket \o now
  BY DEF Put
<1>6. c + k <= Len(b)
  BY <1>1
<1> HIDE DEF b, c, now, later
<1>7. /\ socket \o now \in Seq(Bytes)
      /\ (socket \o now) \o later = socket \o (now \o later)
  BY <1>2, ConcatProperties, Associative
<1>8. QED
  BY <1>2, <1>3, <1>4, <1>5, <1>6, <1>7 DEF b, c

\* A context that has sent everything has nothing left, and only then.
LEMMA UnsentFacts ==
  ASSUME NEW ctx \in Contexts, ctx.cur <= Len(ctx.buf)
  PROVE  Unsent(ctx) \in Seq(Bytes)
         /\ (Unsent(ctx) = <<>> <=> ctx.cur = Len(ctx.buf))
<1> DEFINE b == ctx.buf
           c == ctx.cur
<1>1. b \in Seq(Bytes) /\ c \in 0..Len(b) /\ Len(b) \in Nat
  BY LenProperties DEF Contexts
<1>2. Unsent(ctx) = SubSeq(b, c + 1, Len(b))
  BY DEF Unsent
<1> HIDE DEF b, c
<1>3. Unsent(ctx) \in Seq(Bytes) /\ Len(Unsent(ctx)) = Len(b) - c
  BY <1>1, <1>2, CutFacts
<1>4. Len(<<>>) = 0 /\ (Unsent(ctx) # <<>> => Len(Unsent(ctx)) # 0)
  BY <1>3, EmptySeq
<1>5. Unsent(ctx) = <<>> <=> c = Len(b)
  BY <1>1, <1>3, <1>4
<1>6. QED
  BY <1>3, <1>5 DEF b, c

LEMMA UnsentAll ==
  ASSUME NEW ctx \in Contexts, ctx.cur = 0
  PROVE  Unsent(ctx) = ctx.buf
BY SubSeqFull DEF Unsent, Contexts

\* Where nothing is on its way, the rest is all.
LEMMA Emptied ==
  ASSUME NEW s \in Seq(Bytes), NEW t \in Seq(Bytes)
  PROVE  /\ s \o <<>> = s /\ <<>> \o s = s
         /\ s \o t = <<>> <=> s = <<>> /\ t = <<>>
BY ConcatEmptySeq, ConcatEqualIffEmpty

-----------------------------------------------------------------------------
(***************************************************************************)
(* The invariant.                                                          *)
(***************************************************************************)
LEMMA FromTypes ==
  ASSUME IInv
  PROVE  /\ FromClient \in Seq(Bytes) /\ FromServer \in Seq(Bytes)
         /\ AtClient \in Seq(Bytes)
         /\ calling = "send" => (FromClient = <<>> <=> client.cur = Len(client.buf))
         /\ events = "POLLOUT" => FromServer # <<>>
<1>1. <<>> \in Seq(Bytes)
  BY EmptySeq
<1>2. client \in Contexts /\ server \in Contexts /\ client.buf \in Seq(Bytes)
  BY DEF IInv, Types, Contexts
<1>3. calling = "send" => Unsent(client) \in Seq(Bytes)
        /\ (Unsent(client) = <<>> <=> client.cur = Len(client.buf))
  BY <1>2, UnsentFacts DEF IInv, Cursors
<1>4. events = "POLLOUT" => Unsent(server) \in Seq(Bytes) /\ Unsent(server) # <<>>
  <2>1. SUFFICES ASSUME events = "POLLOUT"
                 PROVE  Unsent(server) \in Seq(Bytes) /\ Unsent(server) # <<>>
    OBVIOUS
  <2>2. server.cur < Len(server.buf) /\ server.cur \in Nat /\ Len(server.buf) \in Nat
    BY <1>2, <2>1, LenProperties DEF IInv, Cursors, Contexts
  <2>3. server.cur <= Len(server.buf) /\ server.cur # Len(server.buf)
    BY <2>2
  <2>4. QED
    BY <1>2, <2>3, UnsentFacts
<1>5. QED
  BY <1>1, <1>2, <1>3, <1>4 DEF FromClient, FromServer, AtClient

\* What the server thread receives is the request; it is complete when
\* nothing of it is left anywhere else.
LEMMA RequestRead ==
  ASSUME IInv, events = "POLLIN", NEW k \in Receivable(server, toServer),
         NEW ctx, ctx = Taken(server, toServer, k)
  PROVE  /\ asked \in Requests /\ asked # NULL /\ handled = NULL
         /\ Rest(toServer, k) \in Seq(Bytes)
         /\ Received(ctx) => /\ Rest(toServer, k) = <<>> /\ FromClient = <<>>
                             /\ Parsed(ctx) = Wire(asked)
         /\ ~Received(ctx) =>
              /\ Scan(ctx) \in Contexts /\ ~Scan(ctx).error /\ Waiting(Scan(ctx))
              /\ Scan(ctx).buf \o (Rest(toServer, k) \o FromClient) = Built(asked)
<1>1. server \in Contexts /\ toServer \in Seq(Bytes) /\ FromClient \in Seq(Bytes)
  BY FromTypes DEF IInv, Types
<1>2. k \in 1..Len(toServer) /\ toServer # <<>>
  BY <1>1, ReceivableFacts
<1>3. asked \in Requests /\ asked # NULL /\ handled = NULL
  BY <1>2 DEF IInv, Types, Idle, Downwards
<1>4. ~Build(asked).error /\ server.buf \o (toServer \o FromClient) = Built(asked)
  BY <1>3 DEF IInv, Upwards
<1>5. /\ ctx \in Contexts /\ Rest(toServer, k) \in Seq(Bytes)
      /\ ctx.buf \o (Rest(toServer, k) \o FromClient) = Built(asked)
      /\ \E more \in Seq(Bytes) : ctx = [server EXCEPT !.buf = @ \o more]
  <2> DEFINE got == Taken(server, toServer, k)
  <2>1. /\ got \in Contexts /\ Rest(toServer, k) \in Seq(Bytes)
        /\ got.buf \o (Rest(toServer, k) \o FromClient) = server.buf \o (toServer \o FromClient)
        /\ \E more \in Seq(Bytes) : got = [server EXCEPT !.buf = @ \o more]
    BY <1>1, <1>2, TakenFacts
  <2>2. ctx = got
    OBVIOUS
  <2> HIDE DEF got
  <2>3. QED
    BY <1>4, <2>1, <2>2
<1>6. ASSUME Received(ctx)
      PROVE  /\ Rest(toServer, k) = <<>> /\ FromClient = <<>>
             /\ Parsed(ctx) = Wire(asked)
  <2> DEFINE rest == Rest(toServer, k) \o FromClient
  <2>1. rest \in Seq(Bytes)
    BY <1>1, <1>5, ConcatProperties
  <2>2. /\ Built(asked) \in Seq(Bytes)
        /\ Terminators(Built(asked), 0) \subseteq {Len(Built(asked)) - 2}
        /\ Terminators(Built(asked), 0) # {} => Built(asked) = Wire(asked)
    BY <1>3, <1>4, BuiltFacts
  <2>3. rest = <<>> /\ Terminators(Built(asked), 0) # {} /\ Parsed(ctx) = Built(asked)
    <3> DEFINE w == Built(asked)
    <3>1. ctx.buf \o rest = w
      BY <1>5
    <3> HIDE DEF w, rest
    <3>2. QED
      BY <1>5, <1>6, <2>1, <2>2, <3>1, Whole DEF w
  <2>4. QED
    BY <1>1, <1>5, <2>2, <2>3, Emptied
<1>7. ASSUME ~Received(ctx)
      PROVE  /\ Scan(ctx) \in Contexts /\ ~Scan(ctx).error /\ Waiting(Scan(ctx))
             /\ Scan(ctx).buf \o (Rest(toServer, k) \o FromClient) = Built(asked)
  <2>1. Waiting(server) /\ ~server.error
    BY DEF IInv, Cursors
  <2>2. PICK more \in Seq(Bytes) : ctx = [server EXCEPT !.buf = @ \o more]
    BY <1>5
  <2>3. /\ Scan(ctx) \in Contexts /\ Waiting(Scan(ctx))
        /\ Scan(ctx).buf = server.buf \o more /\ Scan(ctx).error = server.error
    BY <1>1, <1>7, <2>1, <2>2, ScanFacts
  <2>4. ctx.buf = server.buf \o more
    BY <1>1, <2>2 DEF Contexts
  <2>5. QED
    BY <1>5, <2>1, <2>3, <2>4
<1>8. QED
  BY <1>3, <1>5, <1>6, <1>7

\* What the client receives is the reply.
LEMMA ReplyRead ==
  ASSUME IInv, calling = "recv", NEW k \in Receivable(client, toClient),
         NEW ctx, ctx = Taken(client, toClient, k)
  PROVE  /\ handled # NULL /\ answer \in Replies
         /\ Rest(toClient, k) \in Seq(Bytes)
         /\ Received(ctx) => /\ Rest(toClient, k) = <<>> /\ FromServer = <<>>
                             /\ Parsed(ctx) = Wire(answer)
         /\ ~Received(ctx) =>
              /\ Scan(ctx) \in Contexts /\ ~Scan(ctx).error /\ Waiting(Scan(ctx))
              /\ Scan(ctx).buf \o (Rest(toClient, k) \o FromServer) = Wire(answer)
<1>1. client \in Contexts /\ toClient \in Seq(Bytes) /\ FromServer \in Seq(Bytes)
  BY FromTypes DEF IInv, Types
<1>2. k \in 1..Len(toClient) /\ toClient # <<>>
  BY <1>1, ReceivableFacts
<1>3. handled # NULL
  BY <1>2 DEF IInv, Idle, Upwards
<1>4. /\ answer \in Replies
      /\ client.buf \o (toClient \o FromServer) = Wire(answer)
  BY <1>3 DEF IInv, Downwards, AtClient
<1>5. /\ ctx \in Contexts /\ Rest(toClient, k) \in Seq(Bytes)
      /\ ctx.buf \o (Rest(toClient, k) \o FromServer) = Wire(answer)
      /\ \E more \in Seq(Bytes) : ctx = [client EXCEPT !.buf = @ \o more]
  <2> DEFINE got == Taken(client, toClient, k)
  <2>1. /\ got \in Contexts /\ Rest(toClient, k) \in Seq(Bytes)
        /\ got.buf \o (Rest(toClient, k) \o FromServer) = client.buf \o (toClient \o FromServer)
        /\ \E more \in Seq(Bytes) : got = [client EXCEPT !.buf = @ \o more]
    BY <1>1, <1>2, TakenFacts
  <2>2. ctx = got
    OBVIOUS
  <2> HIDE DEF got
  <2>3. QED
    BY <1>4, <2>1, <2>2
<1>6. ASSUME Received(ctx)
      PROVE  /\ Rest(toClient, k) = <<>> /\ FromServer = <<>>
             /\ Parsed(ctx) = Wire(answer)
  <2> DEFINE rest == Rest(toClient, k) \o FromServer
             w == Wire(answer)
  <2>1. rest \in Seq(Bytes)
    BY <1>1, <1>5, ConcatProperties
  <2>2. w \in Seq(Bytes) /\ Terminators(w, 0) \subseteq {Len(w) - 2}
    BY <1>4, WireFacts
  <2>3. ctx.buf \o rest = w
    BY <1>5
  <2> HIDE DEF w, rest
  <2>4. rest = <<>> /\ Parsed(ctx) = w
    BY <1>5, <1>6, <2>1, <2>2, <2>3, Whole
  <2>5. QED
    BY <1>1, <1>5, <2>4, Emptied DEF rest, w
<1>7. ASSUME ~Received(ctx)
      PROVE  /\ Scan(ctx) \in Contexts /\ ~Scan(ctx).error /\ Waiting(Scan(ctx))
             /\ Scan(ctx).buf \o (Rest(toClient, k) \o FromServer) = Wire(answer)
  <2>1. Waiting(client) /\ ~client.error
    BY DEF IInv, Cursors
  <2>2. PICK more \in Seq(Bytes) : ctx = [client EXCEPT !.buf = @ \o more]
    BY <1>5
  <2>3. /\ Scan(ctx) \in Contexts /\ Waiting(Scan(ctx))
        /\ Scan(ctx).buf = client.buf \o more /\ Scan(ctx).error = client.error
    BY <1>1, <1>7, <2>1, <2>2, ScanFacts
  <2>4. ctx.buf = client.buf \o more
    BY <1>1, <2>2 DEF Contexts
  <2>5. QED
    BY <1>5, <2>1, <2>3, <2>4
<1>8. QED
  BY <1>3, <1>4, <1>5, <1>6, <1>7

LEMMA InitInv == Init => IInv
<1>1. SUFFICES ASSUME Init PROVE IInv
  OBVIOUS
<1>2. <<>> \in Seq(Bytes)
  BY EmptySeq
<1>3. Types /\ Idle
  BY <1>1, <1>2, ClearedFacts DEF Init, Types, Idle
<1>4. Upwards /\ Downwards
  BY <1>1 DEF Init, Upwards, Downwards
<1>5. Cursors
  BY <1>1, ClearedFacts DEF Init, Cursors
<1>6. QED
  BY <1>3, <1>4, <1>5 DEF IInv

\* A call starts with nothing on its way, and the whole request to be sent.
LEMMA CallKeeps ==
  ASSUME IInv, NEW m \in Requests, Call(m)
  PROVE  IInv'
<1>1. /\ calling = "no" /\ asked = NULL /\ handled = NULL /\ answer = NULL
      /\ toServer = <<>> /\ toClient = <<>> /\ events = "POLLIN" /\ server = Cleared
  BY DEF Call, IInv, Idle
<1>2. /\ client' = Build(m) /\ calling' = "send" /\ asked' = m
      /\ UNCHANGED <<server, events, toServer, toClient, handled, answer>>
  BY DEF Call
<1>3. /\ ~Build(m).error /\ Build(m).cur = 0 /\ Build(m) \in Contexts
      /\ Built(m) \in Seq(Bytes) /\ Build(m).buf = Built(m) /\ m # NULL
  <2>1. ~Build(m).error
    BY DEF Call
  <2>2. /\ Build(m) = [buf |-> Built(m), cur |-> 0, error |-> FALSE]
        /\ Built(m) \in Seq(Bytes)
    BY <2>1, BuiltFacts
  <2>3. m # NULL
    BY WireFacts
  <2>4. QED
    BY <2>1, <2>2, <2>3 DEF Contexts
<1>4. FromClient' = Built(m)
  <2>1. Unsent(Build(m)) = Built(m)
    BY <1>3, UnsentAll
  <2>2. QED
    BY <1>2, <2>1 DEF FromClient
<1>5. Types'
  BY <1>2, <1>3 DEF IInv, Types
<1>6. Idle'
  BY <1>2, <1>3 DEF Idle
<1>7. Upwards'
  <2>1. <<>> \o (<<>> \o Built(m)) = Built(m)
    BY <1>3, Emptied, EmptySeq
  <2>2. server'.buf \o (toServer' \o FromClient') = Built(m)
    BY <1>1, <1>2, <1>4, <2>1, ClearedFacts
  <2>3. QED
    BY <1>1, <1>2, <1>3, <2>2 DEF Upwards
<1>8. Downwards'
  BY <1>1, <1>2 DEF Downwards
<1>9. Cursors'
  <2>1. Len(Built(m)) \in Nat /\ client'.cur <= Len(client'.buf)
    BY <1>2, <1>3, LenProperties
  <2>2. QED
    BY <1>1, <1>2, <1>3, <2>1, ClearedFacts DEF Cursors
<1>10. QED
  BY <1>5, <1>6, <1>7, <1>8, <1>9 DEF IInv

\* What the client sends has not been handled yet.
LEMMA ClientSendKeeps ==
  ASSUME IInv, ClientSend
  PROVE  IInv'
<1>1. /\ calling = "send" /\ client.cur < Len(client.buf)
      /\ UNCHANGED <<server, calling, events, toClient, asked, handled, answer>>
  BY DEF ClientSend, history
<1>2. PICK k \in Sendable(client, toServer) :
        toServer' = Put(client, toServer, k) /\ client' = Sent(client, k)
  BY DEF ClientSend
<1>3. client \in Contexts /\ toServer \in Seq(Bytes) /\ client.cur <= Len(client.buf)
  BY <1>1 DEF IInv, Types, Cursors
<1>4. k \in 1..(Len(client.buf) - client.cur)
  BY <1>2, <1>3, SendableFacts
<1>5. /\ client' \in Contexts /\ client'.buf = client.buf
      /\ client'.error = client.error
      /\ client'.cur <= Len(client'.buf) /\ toServer' \in Seq(Bytes)
      /\ toServer' \o Unsent(client') = toServer \o Unsent(client)
  BY <1>2, <1>3, <1>4, SentFacts
<1>6. asked # NULL /\ handled = NULL
  <2>1. asked # NULL
    BY <1>1 DEF IInv, Idle
  <2>2. client.cur # Len(client.buf)
    BY <1>1, <1>3, LenProperties DEF Contexts
  <2>3. FromClient # <<>>
    BY <1>1, <2>2, FromTypes
  <2>4. QED
    BY <2>1, <2>3 DEF IInv, Downwards
<1>7. Types'
  BY <1>1, <1>5 DEF IInv, Types
<1>8. Idle'
  BY <1>1, <1>6 DEF IInv, Idle
<1>9. Upwards'
  <2>1. toServer' \o FromClient' = toServer \o FromClient
    BY <1>1, <1>5 DEF FromClient
  <2>2. QED
    BY <1>1, <1>6, <2>1 DEF IInv, Upwards
<1>10. Downwards'
  BY <1>1, <1>6 DEF Downwards
<1>11. Cursors'
  BY <1>1, <1>5 DEF IInv, Cursors
<1>12. QED
  BY <1>7, <1>8, <1>9, <1>10, <1>11 DEF IInv

\* The client turns to receiving when it has nothing left to send.
LEMMA ClientSentKeeps ==
  ASSUME IInv, ClientSent
  PROVE  IInv'
<1>1. /\ calling = "send" /\ client.cur = Len(client.buf)
      /\ calling' = "recv" /\ client' = Cleared
      /\ UNCHANGED <<server, events, toServer, toClient, asked, handled, answer>>
  BY DEF ClientSent, StartRecv, history
<1>2. FromClient = <<>> /\ FromClient' = <<>> /\ FromServer' = FromServer
  BY <1>1, FromTypes DEF FromClient, FromServer
<1>3. AtClient = <<>> /\ AtClient' = <<>>
  BY <1>1, ClearedFacts DEF AtClient
<1>4. Types'
  BY <1>1, ClearedFacts DEF IInv, Types
<1>5. Idle'
  BY <1>1 DEF IInv, Idle
<1>6. Upwards'
  BY <1>1, <1>2 DEF IInv, Upwards
<1>7. Downwards'
  BY <1>1, <1>2, <1>3 DEF IInv, Downwards
<1>8. Cursors'
  BY <1>1, ClearedFacts DEF IInv, Cursors
<1>9. QED
  BY <1>4, <1>5, <1>6, <1>7, <1>8 DEF IInv

\* The client reads on, or has read the whole reply: then nothing is left.
LEMMA ClientRecvKeeps ==
  ASSUME IInv, ClientRecv
  PROVE  IInv'
<1>1. calling = "recv" /\ UNCHANGED <<server, events, toServer>>
  BY DEF ClientRecv
<1>2. PICK k \in Receivable(client, toClient) :
        /\ toClient' = Rest(toClient, k)
        /\ IF Received(Taken(client, toClient, k))
           THEN /\ asked' = NULL /\ handled' = NULL /\ answer' = NULL
                /\ calling' = "no" /\ client' = Cleared
           ELSE /\ client' = Scan(Taken(client, toClient, k))
                /\ UNCHANGED <<calling, history>>
  BY DEF ClientRecv
<1> DEFINE ctx == Taken(client, toClient, k)
<1>3. ctx = Taken(client, toClient, k)
  OBVIOUS
<1> HIDE DEF ctx
<1>4. /\ handled # NULL /\ answer \in Replies
      /\ Rest(toClient, k) \in Seq(Bytes)
      /\ Received(ctx) => Rest(toClient, k) = <<>> /\ FromServer = <<>>
      /\ ~Received(ctx) =>
           /\ Scan(ctx) \in Contexts /\ ~Scan(ctx).error /\ Waiting(Scan(ctx))
           /\ Scan(ctx).buf \o (Rest(toClient, k) \o FromServer) = Wire(answer)
  BY <1>1, <1>3, ReplyRead
<1>5. FromServer' = FromServer
  BY <1>1 DEF FromServer
<1>6. ASSUME Received(ctx)
      PROVE  IInv'
  <2>1. /\ asked' = NULL /\ handled' = NULL /\ answer' = NULL
        /\ calling' = "no" /\ client' = Cleared /\ toClient' = <<>>
    BY <1>2, <1>3, <1>4, <1>6
  <2>2. events = "POLLIN"
    BY <1>4, <1>6, FromTypes DEF IInv, Types
  <2>3. server = Cleared /\ toServer = <<>>
    BY <1>4, <2>2 DEF IInv, Downwards
  <2>4. Types'
    BY <1>1, <2>1, ClearedFacts, EmptySeq DEF IInv, Types
  <2>5. Idle'
    BY <1>1, <2>1, <2>2, <2>3 DEF Idle
  <2>6. Upwards' /\ Downwards'
    BY <2>1 DEF Upwards, Downwards
  <2>7. Cursors'
    BY <1>1, <2>1, <2>2, <2>3, ClearedFacts DEF Cursors
  <2>8. QED
    BY <2>4, <2>5, <2>6, <2>7 DEF IInv
<1>7. ASSUME ~Received(ctx)
      PROVE  IInv'
  <2>1. /\ client' = Scan(ctx) /\ toClient' = Rest(toClient, k)
        /\ UNCHANGED <<calling, asked, handled, answer>>
    BY <1>2, <1>3, <1>7 DEF history
  <2>2. Types'
    BY <1>1, <1>4, <1>7, <2>1 DEF IInv, Types
  <2>3. Idle'
    BY <1>1, <1>4, <2>1 DEF IInv, Idle
  <2>4. Upwards'
    BY <1>4, <2>1 DEF Upwards
  <2>5. Downwards'
    <3>1. AtClient' = Scan(ctx).buf /\ FromClient' = <<>>
      BY <1>1, <2>1 DEF AtClient, FromClient
    <3>2. AtClient' \o (toClient' \o FromServer') = Wire(answer)
      BY <1>4, <1>5, <1>7, <2>1, <3>1
    <3>3. QED
      BY <1>1, <1>4, <2>1, <3>1, <3>2 DEF IInv, Downwards
  <2>6. Cursors'
    BY <1>1, <1>4, <1>7, <2>1 DEF IInv, Cursors
  <2>7. QED
    BY <2>2, <2>3, <2>4, <2>5, <2>6 DEF IInv
<1>8. QED
  BY <1>6, <1>7

\* The server thread reads on, or has read the whole request: then nothing of
\* it is left, and the reply takes its place.
LEMMA ServerRecvKeeps ==
  ASSUME IInv, ServerRecv
  PROVE  IInv'
<1>1. events = "POLLIN" /\ UNCHANGED <<client, calling, toClient, asked>>
  BY DEF ServerRecv
<1>2. PICK k \in Receivable(server, toServer) :
        /\ toServer' = Rest(toServer, k)
        /\ IF Received(Taken(server, toServer, k))
           THEN \E r \in Replies :
                  /\ handled' = Parsed(Taken(server, toServer, k)) /\ answer' = r
                  /\ server' = Build(r)
                  /\ events' = "POLLOUT"
           ELSE /\ server' = Scan(Taken(server, toServer, k))
                /\ UNCHANGED <<events, handled, answer>>
  BY DEF ServerRecv
<1> DEFINE ctx == Taken(server, toServer, k)
<1>3. ctx = Taken(server, toServer, k)
  OBVIOUS
<1> HIDE DEF ctx
<1>4. /\ asked \in Requests /\ asked # NULL /\ handled = NULL
      /\ Rest(toServer, k) \in Seq(Bytes)
      /\ Received(ctx) => /\ Rest(toServer, k) = <<>> /\ FromClient = <<>>
                          /\ Parsed(ctx) = Wire(asked)
      /\ ~Received(ctx) =>
           /\ Scan(ctx) \in Contexts /\ ~Scan(ctx).error /\ Waiting(Scan(ctx))
           /\ Scan(ctx).buf \o (Rest(toServer, k) \o FromClient) = Built(asked)
  BY <1>1, <1>3, RequestRead
<1>5. FromClient' = FromClient /\ AtClient' = AtClient
  BY <1>1 DEF FromClient, AtClient
<1>6. ASSUME Received(ctx)
      PROVE  IInv'
  <2>1. PICK r \in Replies :
          /\ handled' = Wire(asked) /\ answer' = r
          /\ server' = Build(r) /\ events' = "POLLOUT"
          /\ toServer' = <<>>
    BY <1>2, <1>3, <1>4, <1>6
  <2>2. /\ ~Build(r).error /\ Built(r) = Wire(r)
        /\ Build(r) \in Contexts /\ Build(r).cur = 0 /\ Build(r).buf = Wire(r)
        /\ Wire(r) \in Seq(Bytes) /\ 0 < Len(Wire(r))
    <3>1. ~Build(r).error /\ Built(r) = Wire(r)
      BY ReplyFacts
    <3>2. /\ Build(r) = [buf |-> Built(r), cur |-> 0, error |-> FALSE]
          /\ Built(r) \in Seq(Bytes)
      BY <3>1, BuiltFacts
    <3>3. 0 < Len(Wire(r))
      BY WireFacts
    <3>4. QED
      BY <3>1, <3>2, <3>3 DEF Contexts
  <2>3. Types'
    BY <1>1, <2>1, <2>2, EmptySeq DEF IInv, Types
  <2>4. Idle'
    BY <1>1, <1>4 DEF IInv, Idle
  <2>5. handled' # NULL
    BY <1>4, <2>1, WireFacts
  <2>6. Upwards'
    BY <2>5 DEF Upwards
  <2>7. Downwards'
    <3>1. toClient = <<>> /\ AtClient = <<>>
      BY <1>4, ClearedFacts DEF IInv, Upwards, AtClient
    <3>2. FromServer' = Wire(r)
      BY <2>1, <2>2, UnsentAll DEF FromServer
    <3>3. AtClient' \o (toClient' \o FromServer') = Wire(r)
      BY <1>1, <1>5, <2>2, <3>1, <3>2, Emptied, EmptySeq
    <3>4. QED
      BY <1>1, <1>4, <1>5, <1>6, <2>1, <3>3 DEF Downwards
  <2>8. Cursors'
    BY <1>1, <2>1, <2>2, <2>5 DEF IInv, Cursors
  <2>9. QED
    BY <2>3, <2>4, <2>6, <2>7, <2>8 DEF IInv
<1>7. ASSUME ~Received(ctx)
      PROVE  IInv'
  <2>1. /\ server' = Scan(ctx) /\ toServer' = Rest(toServer, k)
        /\ UNCHANGED <<events, handled, answer>>
    BY <1>2, <1>3, <1>7
  <2>2. Types'
    BY <1>1, <1>4, <1>7, <2>1 DEF IInv, Types
  <2>3. Idle'
    BY <1>1, <1>4 DEF IInv, Idle
  <2>4. Upwards'
    <3>1. server'.buf \o (toServer' \o FromClient') = Built(asked)
      BY <1>4, <1>5, <1>7, <2>1
    <3>2. QED
      BY <1>1, <1>4, <2>1, <3>1 DEF IInv, Upwards
  <2>5. Downwards'
    BY <1>4, <2>1 DEF Downwards
  <2>6. Cursors'
    BY <1>1, <1>4, <1>7, <2>1 DEF IInv, Cursors
  <2>7. QED
    BY <2>2, <2>3, <2>4, <2>5, <2>6 DEF IInv
<1>8. QED
  BY <1>6, <1>7

\* The server thread sends the reply, and clears its buffer after it.
LEMMA ServerSendKeeps ==
  ASSUME IInv, ServerSend
  PROVE  IInv'
<1>1. /\ events = "POLLOUT"
      /\ UNCHANGED <<client, calling, toServer, asked, handled, answer>>
  BY DEF ServerSend, history
<1>2. PICK k \in Sendable(server, toClient) :
        /\ toClient' = Put(server, toClient, k)
        /\ IF server.cur + k = Len(server.buf)
           THEN server' = Cleared /\ events' = "POLLIN"
           ELSE server' = Sent(server, k) /\ UNCHANGED events
  BY DEF ServerSend
<1>3. /\ server \in Contexts /\ toClient \in Seq(Bytes)
      /\ server.cur \in Nat /\ Len(server.buf) \in Nat /\ server.cur < Len(server.buf)
      /\ ~server.error /\ handled # NULL
  BY <1>1, LenProperties DEF IInv, Types, Cursors, Contexts
<1>4. k \in 1..(Len(server.buf) - server.cur)
  BY <1>2, <1>3, SendableFacts
<1> DEFINE left == Sent(server, k)
<1>5. /\ left \in Contexts /\ left.buf = server.buf /\ left.error = server.error
      /\ left.cur = server.cur + k /\ server.cur + k <= Len(server.buf)
      /\ toClient' \in Seq(Bytes)
      /\ toClient' \o Unsent(left) = toClient \o Unsent(server)
  <2>1. server.cur <= Len(server.buf)
    BY <1>3
  <2>2. QED
    BY <1>2, <1>3, <1>4, <2>1, SentFacts
<1> HIDE DEF left
<1>6. IF server.cur + k = Len(server.buf)
      THEN server' = Cleared /\ events' = "POLLIN"
      ELSE server' = left /\ events' = "POLLOUT" /\ left.cur < Len(left.buf)
  <2>1. ASSUME server.cur + k # Len(server.buf)
        PROVE  left.cur < Len(left.buf)
    <3>1. server.cur + k < Len(server.buf)
      <4>1. server.cur + k \in Nat /\ server.cur + k <= Len(server.buf)
        BY <1>3, <1>4
      <4>2. QED
        BY <1>3, <2>1, <4>1
    <3>2. QED
      BY <1>5, <3>1
  <2>2. QED
    BY <1>1, <1>2, <2>1 DEF left
<1>7. toClient' \o FromServer' = toClient \o FromServer
  <2>1. FromServer = Unsent(server)
    BY <1>1 DEF FromServer
  <2>2. FromServer' = Unsent(left)
    <3>1. server.cur + k = Len(server.buf) => Unsent(left) = <<>>
      BY <1>5, UnsentFacts
    <3>2. QED
      BY <1>6, <3>1 DEF FromServer
  <2>3. QED
    BY <1>5, <2>1, <2>2
<1>8. Types'
  BY <1>1, <1>5, <1>6, ClearedFacts DEF IInv, Types
<1>9. asked # NULL
  BY <1>3 DEF IInv, Idle
<1>10. Idle' /\ Upwards'
  BY <1>1, <1>3, <1>9 DEF IInv, Idle, Upwards
<1>11. Downwards'
  <2>1. FromClient' = FromClient /\ AtClient' = AtClient
    BY <1>1 DEF FromClient, AtClient
  <2>2. events' = "POLLIN" => server' = Cleared
    BY <1>6
  <2>3. QED
    BY <1>1, <1>3, <1>7, <2>1, <2>2 DEF IInv, Downwards
<1>12. Cursors'
  BY <1>1, <1>3, <1>5, <1>6, ClearedFacts DEF IInv, Cursors
<1>13. QED
  BY <1>8, <1>10, <1>11, <1>12 DEF IInv

LEMMA NextInv == IInv /\ [Next]_vars => IInv'
<1>1. SUFFICES ASSUME IInv, [Next]_vars PROVE IInv'
  OBVIOUS
<1>2. CASE Next
  BY <1>1, <1>2, CallKeeps, ClientSendKeeps, ClientSentKeeps, ClientRecvKeeps,
     ServerRecvKeeps, ServerSendKeeps DEF Next
<1>3. CASE UNCHANGED vars
  <2>1. UNCHANGED <<client, server, calling, events, toServer, toClient,
                    asked, handled, answer>>
    BY <1>3 DEF vars, stream, history
  <2>2. Types' /\ Idle' /\ Cursors'
    BY <1>1, <2>1 DEF IInv, Types, Idle, Cursors
  <2>3. UNCHANGED <<FromClient, FromServer, AtClient>>
    BY <2>1 DEF FromClient, FromServer, AtClient
  <2>4. Upwards' /\ Downwards'
    BY <1>1, <2>1, <2>3 DEF IInv, Upwards, Downwards
  <2>5. QED
    BY <2>2, <2>4 DEF IInv
<1>4. QED
  BY <1>1, <1>2, <1>3

-----------------------------------------------------------------------------
(***************************************************************************)
(* The theorems.                                                           *)
(***************************************************************************)

\* The invariant holds in every state, for any messages and buffers.
THEOREM Inductive == Spec => []IInv
BY InitInv, NextInv, PTL DEF Spec

\* A context that waits for more has not overlooked the end of its message,
\* wherever the stream was cut (hf_message_received).
THEOREM EndIsSeen == Spec => []NothingOverlooked
<1>1. IInv => NothingOverlooked
  BY DEF IInv, Cursors, Waiting, NothingOverlooked
<1>2. QED
  BY <1>1, Inductive, PTL

\* No byte is thrown away when a buffer is used for the reply, or for the
\* next call: everything that was sent has been read.
THEOREM NothingLost == Spec => []NothingDiscarded
<1>1. SUFFICES ASSUME IInv PROVE NothingDiscarded
  BY Inductive, PTL
<1>2. events = "POLLOUT" =>
        toServer = <<>> /\ (calling = "send" => client.cur = Len(client.buf))
  BY <1>1, FromTypes DEF IInv, Cursors, Downwards
<1>3. calling = "no" => toClient = <<>> /\ server = Cleared
  BY <1>1 DEF IInv, Idle
<1>4. QED
  BY <1>2, <1>3 DEF NothingDiscarded

-----------------------------------------------------------------------------
(***************************************************************************)
(* The byte streams implement calls.                                       *)
(***************************************************************************)
LEMMA InitMaps == Init => RemoteCalls!Init
BY DEF Init, RemoteCalls!Init

\* A call asks; the read that completes the request handles it, and the one
\* that completes the reply returns; all other steps are not seen.
LEMMA StepMaps == IInv /\ [Next]_vars => [RemoteCalls!Next]_(RemoteCalls!vars)
<1> DEFINE unseen == UNCHANGED <<asked, handled, answer, returned>>
<1>1. unseen => UNCHANGED RemoteCalls!vars
  BY DEF RemoteCalls!vars
<1> HIDE DEF unseen
<1>2. SUFFICES ASSUME IInv, [Next]_vars
               PROVE  RemoteCalls!Next \/ unseen
  BY <1>1
<1>3. \A m \in Requests \cup Replies : m # NULL /\ Wire(m) # NULL
  BY WireFacts
<1>4. ASSUME NEW m \in Requests, Call(m)
      PROVE  RemoteCalls!Ask(Wire(m))
  BY <1>2, <1>3, <1>4 DEF IInv, Idle, Call, RemoteCalls!Ask
<1>5. ASSUME ServerRecv
      PROVE  (\E r \in Replies : RemoteCalls!Handle(Wire(r))) \/ unseen
  <2>1. PICK k \in Receivable(server, toServer) :
          IF Received(Taken(server, toServer, k))
          THEN \E r \in Replies :
                 handled' = Parsed(Taken(server, toServer, k)) /\ answer' = r
          ELSE UNCHANGED <<handled, answer>>
    BY <1>5 DEF ServerRecv
  <2>2. UNCHANGED <<asked, returned>> /\ events = "POLLIN"
    BY <1>5 DEF ServerRecv
  <2> DEFINE ctx == Taken(server, toServer, k)
  <2>3. ctx = Taken(server, toServer, k)
    OBVIOUS
  <2> HIDE DEF ctx
  <2>4. /\ asked # NULL /\ handled = NULL
        /\ Received(ctx) => Parsed(ctx) = Wire(asked)
    BY <1>2, <2>2, <2>3, RequestRead
  <2>5. ASSUME Received(ctx)
        PROVE  \E r \in Replies : RemoteCalls!Handle(Wire(r))
    <3>1. PICK r \in Replies : handled' = Wire(asked) /\ answer' = r
      BY <2>1, <2>3, <2>4, <2>5
    <3>2. Wire(asked) # NULL /\ r # NULL
      BY <1>2, <1>3, <2>4 DEF IInv, Types
    <3>3. RemoteCalls!Handle(Wire(r))
      BY <2>2, <2>4, <3>1, <3>2 DEF RemoteCalls!Handle
    <3>4. QED
      BY <3>3
  <2>6. ASSUME ~Received(ctx)
        PROVE  unseen
    BY <2>1, <2>2, <2>3, <2>6 DEF unseen
  <2>7. QED
    BY <2>5, <2>6
<1>6. ASSUME ClientRecv
      PROVE  RemoteCalls!Return \/ unseen
  <2>1. PICK k \in Receivable(client, toClient) :
          IF Received(Taken(client, toClient, k))
          THEN /\ returned' = Parsed(Taken(client, toClient, k))
               /\ asked' = NULL /\ handled' = NULL /\ answer' = NULL
          ELSE UNCHANGED history
    BY <1>6 DEF ClientRecv
  <2>2. calling = "recv"
    BY <1>6 DEF ClientRecv
  <2> DEFINE ctx == Taken(client, toClient, k)
  <2>3. ctx = Taken(client, toClient, k)
    OBVIOUS
  <2> HIDE DEF ctx
  <2>4. /\ handled # NULL /\ answer \in Replies
        /\ Received(ctx) => Parsed(ctx) = Wire(answer)
    BY <1>2, <2>2, <2>3, ReplyRead
  <2>5. ASSUME Received(ctx)
        PROVE  RemoteCalls!Return
    <3>1. /\ returned' = Wire(answer)
          /\ asked' = NULL /\ handled' = NULL /\ answer' = NULL
      BY <2>1, <2>3, <2>4, <2>5
    <3>2. answer # NULL
      BY <1>3, <2>4
    <3>3. QED
      BY <2>4, <3>1, <3>2 DEF RemoteCalls!Return
  <2>6. ASSUME ~Received(ctx)
        PROVE  unseen
    BY <2>1, <2>3, <2>6 DEF unseen, history
  <2>7. QED
    BY <2>5, <2>6
<1>7. ASSUME ClientSend \/ ClientSent \/ ServerSend \/ UNCHANGED vars
      PROVE  unseen
  BY <1>7 DEF ClientSend, ClientSent, ServerSend, vars, history, unseen
<1>8. ASSUME NEW m \in Requests, RemoteCalls!Ask(Wire(m))
      PROVE  RemoteCalls!Next
  BY <1>8 DEF RemoteCalls!Next
<1>9. ASSUME NEW r \in Replies, RemoteCalls!Handle(Wire(r))
      PROVE  RemoteCalls!Next
  BY <1>9 DEF RemoteCalls!Next
<1>10. RemoteCalls!Return => RemoteCalls!Next
  BY DEF RemoteCalls!Next
<1>11. QED
  BY <1>2, <1>4, <1>5, <1>6, <1>7, <1>8, <1>9, <1>10 DEF Next

\* Every request crosses whole, is handled once, and its reply is what the
\* call returns.
THEOREM StreamsImplementCalls == Spec => ImplementsCall
<1>1. Spec => RemoteCalls!Init /\ [][RemoteCalls!Next]_(RemoteCalls!vars)
  BY InitMaps, StepMaps, Inductive, PTL DEF Spec
<1>2. QED
  BY <1>1 DEF ImplementsCall, RemoteCalls!Spec

=============================================================================
