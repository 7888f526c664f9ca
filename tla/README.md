# unotd, specified

TLA+ specifications of micronot: the notification daemon `unotd`, its client
library, and the HF message format between them. Paths below are relative to
the repository; `server.c:74` stands for `src/daemon/server.c`, line 74.

## 1. The system

`unotd` shows small notifications, each an indicator and a text in an X window
of its own, stacked in a corner of the screen. Clients connect to a Unix socket
and send requests: `NOT` opens a notification, `MOD` changes one by its id,
`DBG` prints the lists. A notification ends when it is clicked or when its
timeout runs out. If it is persistent it is then unmapped and *parked*, from
where a `MOD` of its owner brings it back; otherwise it is destroyed and freed.

| Component | State it keeps | Operations | What is hard about it | What makes it correct |
|---|---|---|---|---|
| The two threads (`main.c`, `server.c`) | `nlist_lock`, the conditions `nlist_empty` and `notif_open`, where each thread is | main: wait while nothing is open, one update pass, sleep 50 ms; server: poll, serve each ready connection | each thread sleeps on a condition the other signals; spurious wakeups; a node freed by one while the other holds a pointer to it | sections exclude each other; no wakeup is lost; nobody waits for ever |
| Command handlers (`command.c`) | none of their own; they change the lists and the notifications | `NOT`, `MOD`, `DBG`, each with early returns | unlocking on every path; reads after the unlock; ownership | a refused request changes nothing; the reply names the notification; only the owner modifies |
| Notification lists (`nlist.c`) | `head`, `tail`, `next` of `open` and `wait` | append, unlink, remove, find | unlinking while walking; moving between two lists; the tail | the pointers spell out two sequences without common nodes; nothing leaks or dangles |
| Notification windows (`notification.c`) | window, start and last time, queued button events, mapped or not | open, map, move, draw, update, close | a timeout or a click against a `MOD`; a redraw against the animation; unsigned milliseconds from two signed differences | the lists and the screen agree; a timeout ends the notification, on time; no frame is skipped |
| What a notification owns (`command.c`, `notification.c`) | pointers to strings, fonts and colours, some shared, and flags that tell which | replace a field, close | freeing the right ones, through any sequence of `MOD`s | nothing dangles, leaks or is freed twice |
| Connections (`server.c`) | `pfds`, `clients`, `next_client_id` | accept, refuse, receive, send, close | partial I/O; clients that go away at any moment, or send more than a buffer holds; reuse of a slot; three different counts of slots | nothing is carried over to the next connection of a slot; a client is hung up on only for a request that is too long; every other call is answered |
| HF framing (`hf.h`) | a buffer, `cur`, `end`, `error` | build, send, receive, scan for the end, parse | the stream may be cut anywhere; the buffer is finite | messages cross whole, once and in turn |
| Message schema (`hf_defs.h`) | – | headers, fields, and which fields a header may have | typed parsing, conversions | parse after build gives the message back |
| Client library (`client.c`) | one file descriptor | connect, a synchronous call per request, disconnect | – | a call returns the reply to its own request |
| Layout and stacking (`utils.c`) | position and size per notification, `needs_reposition` | layout, reposition | moving part of the stack in the middle of a pass | the stack has no overlap and no hole |
| Indicator strings (`indicator.c`) | the position of a frame in the string | validate, resolve a name, count frames, step a frame | four walks over one string that must agree | what validates is shown frame by frame, for ever |
| Configuration (`config.c`) | the settings and the named indicators | read once at start | quoting, sections, mistakes, long lines | an entry sets its field however it is written; a mistake changes nothing |

How they interact: the server thread receives bytes into the context of a
connection (HF framing), hands a complete request with the connection's client
id to the command handlers, and sends their reply. The handlers share the lists
and the notifications with the main thread under `nlist_lock`; `NOT` waits,
inside the handler, until the main thread has given its notification a window.
While it waits the server thread serves nobody else.

## 2. The modules

| Module | What it is |
|---|---|
| `Daemon` | the two threads, the handlers, and the notifications they share |
| `DaemonInv` | the inductive invariants of `Daemon`, in named parts |
| `NotificationService` | abstract: what the daemon promises its clients, without threads, locks or lists |
| `DaemonService` | the refinement mappings from `Daemon` to `NotificationService` and to `Lists` |
| `Daemon_proofs` | theorems about `Daemon`, with both refinements |
| `Lists` | abstract: two sequences and a pass that may take out what it visits |
| `NList`, `NListHistory` | `nlist.c` pointer by pointer; history variables, invariant, and the mapping to `Lists` |
| `NList_proofs` | theorems about `NList`, with the refinement of `Lists` |
| `Order` | the elements of a set of numbers, in order |
| `SeqLemmas` | facts about sequences, orders, maxima and minima, and about functions defined by recursion, that the proof modules use |
| `Connections` | the slots of the server thread, from accept to close |
| `Connections_proofs` | theorems about `Connections` |
| `RemoteCall` | abstract: one call of the client library |
| `HfStream` | one connection byte by byte, the client library at one end and the server thread at the other |
| `HfStream_proofs` | theorems about `HfStream`, with the refinement of `RemoteCall` |
| `HfMessage` | what messages mean: schema, building, parsing, the calls of the client library and the daemon's answers |
| `HfMessage_proofs` | theorems about `HfMessage` |
| `Window` | one notification against the clock: its timeout and its animation |
| `Stacking` | where the windows are, pass by pass |
| `Resources` | what the notifications own, through `NOT`, `MOD` and close |
| `Notification_proofs` | theorems about these three |
| `FrameCycle` | abstract: frames are shown one after the other and round again |
| `IndicatorStr` | indicator strings, byte by byte: the functions of `indicator.c` that look at one |
| `Indicator` | the indicator of a notification, and its pointers into such a string |
| `ConfigFile` | the configuration file, line by line |
| `Indicator_proofs` | theorems about these three, with the refinement of `FrameCycle` |
| `MCNotification` | instances of `Window`, `Stacking` and `Resources`, side by side |
| `MCText` | instances of `HfMessage`, of `Indicator`, and of `ConfigFile` with `Indicator` after it |
| other `MC*` | instances of one module |

How they fit together:

- `Daemon` has the lists as sequences and does to them only what `Lists` allows
  (proved); the pointers of `NList` implement `Lists` (proved). So what
  `Daemon` shows about notifications holds of the linked lists.
- `NList` has no lock: its actions run one at a time because `nlist_lock` is
  held around every walk, which is `MutualExclusion` of `Daemon` (proved).
- `Daemon` has whole requests and replies, and one client per connection with
  an id of its own. `HfStream` shows that requests and replies cross the socket
  whole and in turn (`ImplementsCall`); `Connections` shows that the bytes of a
  request come from one client only (`OwnBytes`) and that ids are never shared
  (`OneIdEach`).
- `Connections` measures a message, and a buffer, in pieces. It leaves the request it handles
  to `Daemon`, and the wait of a `NOT` inside the handler with it: a handler of
  `Connections` takes one step.
- `HfMessage` is what stands between the bytes of `HfStream` and the `Request` and
  `Reply` of `Daemon`: there a message has parsed or not, here is which do, and
  what values they carry. What a handler decides is any outcome its fields allow.
- `Window`, `Stacking` and `Resources` look at the same notifications as `Daemon`,
  each at other fields, which the threads' protocol does not depend on. All of
  them take a handler, or what a pass does with a notification, as one step,
  because `nlist_lock` is held then (`MutualExclusion`).
- `Window` has frames as numbers; `Indicator` shows that the pointers into the
  string go through these numbers in order (`ImplementsCycle`, the refinement of
  `FrameCycle`), so that `FramesInTurn` is about the picture.
- `ConfigFile` uses the validation of `IndicatorStr` on the entries of
  `[indicators]`. `indicators`, a variable of `IndicatorStr`, is shared: in `MCText` a
  file is read, and when it has been, messages name the indicators it has, which
  `Indicator` takes unchecked as the code does. What it relies on is
  `IndicatorsHaveFrames`; that the file reader ensures as much as the pointers need
  is proved (`FileAndPointersImplementCycle`).

### Daemon

State: `lock` is the owner of `nlist_lock`; `mpc` and `spc` are where the two
threads are; `open`, `wait` are the lists; `heap` says which nodes are
allocated; the fields of a notification that the handlers or the pass look at
(`state`, `window`, `client_id`, `is_persistent`, `timeout`) are functions of
the node. `timeout` is whether there is one, and `elapsed` whether it has run
out since `start_time`. `mapped` and `events` belong to the X server.

| Code | Actions |
|---|---|
| `main.c:50-63` | `MainLock`, `MainWait`, `MainSpuriousWakeup`, `StartPass`, `EndPass`, `EndSleep` |
| one iteration of `server_update_notifications` (`server.c:189-245`) | `VisitInit`, `VisitRedrawOrReopen`, `VisitUpdate`, `ParkPersistent`, `CloseCurr`: one step each, as the mutex is held |
| `server_handle`, `server_process_connections` | `Poll`, `Receive`, `Answer` |
| `_handle_command_notify` | `Refuse`, `CreateNode`, `ServerLock`, `NotifyInjectFails`, `NotifyAppend`, `NotifyWait`, `ServerRelock`, `NotifyUnlock`, `NotifyReply` |
| `_handle_command_modify` | `Refuse`, `StartLocked`, `ServerLock`, `ModifyOpen`, `ModifyWait`, `ModifyRefused` |
| `_handle_command_debug` | `StartLocked`, `ServerLock`, `Debug` |
| clients, mouse, clock | `Send`, `Click`, `Elapse` |

Reads of a node are the one place where the code does something undefined: after
`pthread_cond_wait`, and after the unlock, the node may have been freed.
`ReadWindow` then returns the old value, 0, or anything (`Garbage`), every time
it is read. In the same spirit `free` never gives a node back to `calloc`: a
freed node stays freed, so that "was freed" can be told; it is `Garbage` that
stands for memory in new hands.

`ModifyRefused` covers a `MOD` whose indicator is refused. What that leaves
behind in the notification (section 5) is not part of `Daemon`: the fields it
keeps are untouched, because `_inject_from_msg` reads the indicator first.

### NList

`mem` holds `head`, `tail` and `next`; `nlist_append` and `nlist_unlink` are
functions on it that follow `nlist.c` assignment by assignment. `prev` and `curr`
are the variables of the walk in progress: `server_update_notifications`
(`StartPass`, `KeepCurr`, `ParkCurr`, `RemoveCurr`, `EndPass`) or `nlist_find`
(`StartFind`, `FindNext`, `FindInWait`, `EndFind`, `MoveToOpen`). Which
notification ends, and whether a node that was found belongs to the client, is
left open: any choice is allowed.

`NListHistory` adds what the pointers are meant to represent, `contents` and
`at`; they are history variables, no action of `NList` looks at them.

### HfStream and Connections

`HfStream` has the buffer of both contexts, byte by byte. Of the bytes only
`\n` and NUL matter. The kernel may cut the stream anywhere: every `recv` and
`send` takes any number of bytes from 1 to what there is. `ServerRecv` and
`ClientRecv` do, in one step, everything the code does with what it has
received; parsing stops at the first empty line, and what follows is lost when
the buffer is used again. Replies are assumed to be shorter than the buffer
(`StreamAssumption`), which "OK" with an id is; and no message has an empty line
before its last one. A text with one would end the message there, as nothing
looks into the texts of a message when it is built (section 6).

`hf_message_build` appends line by line. `Build` appends all of the message at
once, because each append leaves less room and nothing follows the line that
does not fit; `LineByLine` is the fold over the lines, and TLC evaluates that the
two agree on every message of its instance (`BuiltLineByLine` in `MCHfStream`).
No proof uses that.

`Connections` has `pfds` and `clients` as functions of the slot, and `idx`, the
index of the loop in `server_process_connections`: between two slots anything
may happen. `revents` is a copy of what poll saw, and may be stale when a slot
is reached. A peer that goes away leaves its socket readable, with an error if
it had not read everything; `send` to it raises SIGPIPE, which `Killed` takes
for the end of the daemon. The history variable `ids` collects the ids under
which a peer's bytes were handled. A request that does not parse is handled like
any other here: the error it leaves is cleared in the same step (`server.c:131`).

A connection whose buffer is full, without the end of a message in it, is closed
although its client is still there (`CloseFull`, `hf.h:253-257` and
`server.c:115-119`). The library builds no request longer than its own buffer, so
only clients that write to the socket themselves (`Foreign`) send one; `fits` is
false for a peer while its last request is of that kind, and `"cut"` is a peer that
was closed on. A request that fills the buffer and has its end in it
(`Pieces = Room`) is handled. That a message of the library exactly as long as the
buffer loses its last newline, and so never ends, is in `HfStream`
(`BuiltMessageEnds`, section 5).

### HfMessage

A message on the wire is a header and lines, a line a key and a text; a text is a
sequence of symbols from `Words`: a digit, a minus sign, or a word as a whole. So
conversions of numbers are done and not assumed (`IntToText`, `TextToInt`), negative
ones included; that `strtoll` also takes leading spaces and a plus sign is left
out. A line without a colon, or with nothing behind it, has an empty text, and is
refused as the code refuses it. `attrs` are the `UnotAttrs` of one caller. `SetAttr` and `ClearAttrs` are
the setters of `client.h`; `unot_notify`, `unot_modify` and `unot_debug` are the
calls, up to the request; `Handle` or `Reject` is `_handle_event_recv`
(`server.c:121-137`); `Return` is the rest of the call. `Raw` is a request of a
program without the library. `asked`, `handled` and `done` are history: what the
caller meant, what `command_handle` was given, and what it did.

`Handle` builds its answer from the message that the request has been parsed
into, fields and all, as the code does; that only the id goes out is for the
masks of `HF_HEADERS` to see to.

### Window

`clock` is `CLOCK_MONOTONIC` in ticks; `Timespec` splits it as the kernel does, and
`Elapsed` is the expression at `notification.c:133-135`, with a signed difference of
the nanoseconds and an unsigned result (`% MaxUl`). `SetTimeout` stores a signed
field in an unsigned one. `Open`, `Redraw`, `Modify` and `ModifyParked` are the visits
and handlers that `Daemon` has as `VisitInit`, `VisitRedrawOrReopen`, `ModifyOpen` and
`ModifyWait`; `EndByClick`, `EndByTime`, `Animate` and `Stay` are the ways through
`notification_update`, in its order. A `MOD` also reaches a notification that another
`MOD` has just reopened and no pass has visited since: it becomes `REDRAW`, and
`on_screen` says that its window is not mapped yet. `RestartTimeout` is the second
reading of the clock by such a `MOD` and of any other of the open list, which only a
request with a timeout makes. `shown` is the frame in the picture.

`asked` and `begun` are history: the timeout the client has sent, and when that
began to count, which is at each opening, at each reopening, and at each `MOD` with a
timeout. No action looks at them. `start_time` is what the code makes of `begun`;
`EndsOnTime` is about `begun`, so that a reset the code forgot would show.

The run asks for the times that the code reaches; multiplying a timeout of
millions of years overflows an unsigned long, and `WindowAssumption` leaves that
out. `ToMs` rounds to zero as the division of C does, also below zero.

### Stacking

`win` are the fields `win_x` to `win_h`, `screen` what the last X requests have made of
the window: `notification_move` sends a position only. A pass is `StartPass`, then
one of `VisitNew` (also for `UNOT_NEED_REOPEN`), `VisitRedraw`, `VisitStays`, `VisitEnds`
for each notification, then `EndPass`; requests come between passes. The
content of a notification is two heights and a width; arithmetic is that of the
code.

### Resources

`live` is what is allocated, `ptr` the pointers and `custom` the flags
`custom_txt_font`, `custom_txt_color`, `ind.custom_color` and `ind.custom_string`.
`NOT` and `MOD` inject any subset of the fields, each freeing what the flags say
and allocating anew; what has been freed may be handed out again, so that a
pointer that was kept would show. `RefuseMOD` is a `MOD` whose indicator is
refused: `indicator_init_str` sets `ind->str` to NULL for an unknown name and
leaves it alone for a malformed string. `Close` is `notification_close`. The history
variable `spoilt` is set by the first refusal; what comes after it is section 5.

### IndicatorStr and Indicator

A position in a string is an index, and the NUL is one past the last. The
functions are those of `indicator.c`, with its own calls to `strchr`, `strstr` and
`mbtowc`. Of its results three are told apart: two bytes (`L`, `C`) that are one
character, a part of one, and any other byte. `CountFrames` has -1 frames where the
assertion on `mbtowc` would fail. The loops are functions of the position
(`Walk`, `Loop`); what the strings should mean is stated without them, as what is
between two delimiters that follow each other (`Frames`). `InitCustom`, `InitNamed` and `Refuse` are the ways
through `indicator_init_str`, `FreeStr` and `StepFrame` the two other functions.

The locale is taken to be UTF-8: the daemon asks for `en_US.utf8` (`main.c:30`) and
does not look whether it got it; without it `mbtowc` fails on other bytes. The
delimiter is a single byte, as the code has it; `docs/indicator.md` says
"character".

### ConfigFile

A line is a sequence of tokens: a space, a mark (`=`, `"`, `[`, `]`, `#`, `|`) or a
word. `ReadLine` is `fgets`, which reads a long line in parts; `NoLine` stands for the
end of the iteration before. Then one action is
taken for each way through the loop body: `SkipLine` (empty lines, comments and
the mistakes that end the iteration before the `switch`), `Header`, `IgnoredEntry`,
`Setting`, `UnknownField`, `IndicatorEntry`, and `AssertionFails` for a number without
a character.

`strtoul` and `strtod` skip spaces in front of a number (`Unpadded`), which quotes may
keep, and refuse those behind it. A sign is part of the word: `Decimal` says what
each parser makes of a word, `strtoul` taking the negative of an unsigned long. What
`strtoul` makes of the six characters of a colour, where it skips spaces too, is `Hex`.

## 3. What is checked

| Run | Module, configuration | Question |
|---|---|---|
| `daemon` | `MCDaemon`, `MCDaemon.cfg` | every interleaving of the two threads: lock, lists, screen, ownership, replies; they implement `NotificationService` and `Lists` |
| `daemon_live` | `MCDaemon`, `MCDaemonLive.cfg` | requests are answered, appended notifications are shown, timeouts end them |
| `nlist` | `MCNList`, `MCNList.cfg` | the pointers represent the sequences and implement `Lists` |
| `hf_stream` | `MCHfStream`, `MCHfStream.cfg` | messages cross whole, once and in turn; calls return |
| `connections` | `MCConnections`, `MCConnections.cfg` | reuse of a slot carries nothing over; ids are never shared; only clients that left, or sent too much, are hung up on |
| `connections_live` | `MCConnections`, `MCConnectionsLive.cfg` | a client that stays is answered, whatever the others do; one whose request is too long is cut off |
| `notification` | `MCNotification`, `MCNotification.cfg` | `Window`: timeouts and frames keep time, whatever comes between. `Stacking`: no overlap and no hole, at each corner of the screen. `Resources`: nothing dangles, leaks or is freed twice |
| `text` | `MCText`, `MCText.cfg` | `HfMessage`: what is handled is what was meant, and callers learn what was done. `Indicator`: the walks over a string agree, and frames are shown in turn. `ConfigFile`: entries set their fields, mistakes nothing |
| `reply_names_notification`, `reopened_is_shown`, `built_message_ends`, `refused_only_when_full` | the `MC*_<Property>.cfg` files | expected violations, section 5 |

The three modules of `notification` have no state in common, and neither have
messages and indicators in `text`: a variable (`view`, `about`), chosen at the
beginning, says which of them a behaviour is about, and the others stay as they
are. So each is checked as it would be in a run of its own. The two `MC` modules
extend the modules they are about, so their properties are checked as they are
proved; that is why these modules name their specifications `WindowSpec`,
`StackingSpec`, `MessagesSpec`, `FileSpec` and so on, and why the state is called
`life` in `Window` and the lists `held` in `Resources`.

### Bounds, and why they are enough

- `Daemon`, safety and refinement: 2 clients, 2 nodes, 3 requests, 2 queued events per window.
  Two clients are the owner and the other one; two nodes make a list with a
  first and a last element, and let one be visited while the other waits;
  three requests are `NOT`, `NOT`, `MOD` or `NOT`, `MOD`, `MOD`. Two events
  allow a click behind another. `PathRequests` has a request for each path
  through the handlers. `NodeLeft` keeps clients from sending a `NOT` for which
  the instance has no node left: `calloc` does not fail in the code either.
- `Daemon`, liveness: 2 clients, 2 nodes, 2 requests, 1 event, no symmetry.
- `NList`: 4 nodes, so that a list has a first, a last and two inner nodes and
  the other list is not empty.
- `HfStream`: a buffer of 8 bytes and a socket of 3, with requests that are short,
  one byte short of the buffer, as long as it, and longer. The socket is
  smaller than any message, so that every message is cut.
- `Connections`: 3 peers over `MaxConnections = 3`, which is 2 usable slots: a slot
  is used again, and one peer may be turned away. Two pieces make a message
  that arrives in parts; two calls make a connection that is used again. A buffer
  holds two pieces, so that a message may fill it, and a request that is too long
  has three; one of the peers is foreign. The liveness run has one piece, one call
  and a buffer of one piece.
- `HfMessage`: each field of the library with the values that differ in kind
  (0 and more than one digit, both booleans), and one request for each reason
  for which a request may be refused. `tfg` is read and written as `ifg` is, and
  occurs in requests of other programs only. The largest integer is 511: one
  three-digit number fits and one does not.
- `Window`: a tick is half a millisecond and a second has three milliseconds, so
  that rounding and the change of the second occur at every offset in 20 ticks.
  A frame lasts two milliseconds; timeouts are -1, 0, 1 and 2 seconds; there are
  indicators of 1 and of 3 frames. `MaxUl` is 64, more than any difference that
  is not negative: a negative one shows as a large one.
- `Stacking`: 3 notifications, so that one in the middle ends between two that
  stay, with two contents of which one is wider and the other higher; all four
  corners; all numbers of the configuration different from 0.
- `Resources`: 2 notifications and two things of each kind, so that what one
  frees the other may be given. Text and text font: the text has no flag and
  the font has one, and the code treats the two colours as it does the font.
- `Indicator`: every string of up to 7 characters over a delimiter, another byte
  and a character of two bytes, which has strings of three frames, of names
  with hints, of empty frames and without an end; three indicators in the
  configuration, two of one name, one with hints of its own.
- `ConfigFile`: files of up to 5 lines of 69: an entry in every way to write it,
  one for each mistake, an entry of each type, numbers with spaces and signs. Of a
  line 10 tokens are read at once, so that one indicator is read in two parts, and
  the rest of one comment is an entry.

Deadlock is checked for `Daemon` and for `NList`. The others may stop: when every
client has made its calls the server thread waits in `poll`, and a client whose
request lost its last byte waits for ever; a notification of `Window` ends, and so
does a file.

### Fairness

- `Daemon` (`Fairness`): both threads keep running (weak fairness of what they
  do while they do not wait for the mutex). Each gets the mutex in the end
  (strong fairness of the lock steps): the main thread sleeps 50 ms after every
  pass with the mutex free, and the server thread goes back to `poll` after
  every request, so neither keeps it. POSIX promises no more than that; a
  scheduler that never runs a thread in those 50 ms, pass after pass, is
  excluded. Time passes (weak fairness of `Elapse`). Nothing obliges clients to
  send, users to click, or waits to end without a signal.
- `HfStream` (`Fairness`): both ends keep running, and so does the kernel.
- `Connections` (`Fairness`): the server thread runs while the process lives, and a
  client that has begun a call goes on with it, or goes away. A client that sends
  more than fits goes on sending, too, until it is cut off; one that stops before
  the buffer is full would wait, as it does in the code.

### The abstract specifications

`NotificationService` says of each notification that it is queued, then shown,
then gone or parked, and of each request how it may be answered: a `NOT` not
before its notification has been shown, a `MOD` as one atomic change by the
owner, a refusal without any effect. `ImplementsService` maps `Daemon` to it;
the phase of a notification is read off the lists, the screen and the heap.
`Lists`, `RemoteCall` and `FrameCycle` are described above.

## 4. What is proved

With TLAPS, for every value of the constants that the assumptions of the modules
allow: any sets of clients, nodes, peers and messages, any number of slots, any
buffer, any clock, any configuration, and any bounds. Each module has an
inductive invariant (`IInv`, `HInv`, `WindowInv`, `MessageInv` and so on) and the
properties from it. TLC has checked each of them on the instance of its module's run.

`Daemon_proofs`, from `ConstantsAssumption` (the constants are of the right kind
and the special values differ) and `ServiceAssumption` (a request is not `NULL`):

- `Inductive`: `Spec => []IInv`. None of the safety properties is inductive by
  itself. `IInv` (module `DaemonInv`) adds what they rest on: that the server
  thread handles one request of a client that waits for it (`ServerInv`); that
  the notification a `NOT` has created is in no list until it is appended
  (`CreatedInv`), without which the append could link it twice; that a listed
  notification without a window is the one the server thread waits for
  (`WindowInv`), so that no lookup sees one; that what it waits for stays listed
  until it is freed, and is still without a window while the thread sleeps
  (`WaitInv`), which is that the signal of `notif_open` is not lost; and that
  the main thread does not sleep while a notification waits for its first
  window (`SleepInv`), which is that the signal of `nlist_empty` is not lost.
- `TypeCorrect`, `Mutex`, `SoundLists`, `SoundScreen`, `NoDeadlock`, `SoundLookup`:
  the invariants that the run `daemon` checks. `NoDeadlock` is `WaitInv` and
  `SleepInv` together: a sleeping server thread waits for a listed notification
  without a window, and a sleeping main thread has none.
- `Ownership`, `LiveReply`: the action properties of the same run, step by step
  from `IInv`.
- `ListsKept`: `Spec => ImplementsLists`. A visit is `Keep`, `Park` or `Close` of
  `Lists`; that a request never changes a list during a pass is
  `MutualExclusion`, and that a node which is appended is new is `CreatedInv`.
  With `PointersImplementSequences` below, what is proved of the sequences holds
  of the pointers.
- `ServiceKept`: `Spec => ImplementsService`. `ServiceInv` adds three facts to
  `IInv`: only what has been opened is on the screen; a `NOT` creates a
  notification of its own client; and by the time `NOT` is answered, the main
  thread has drawn the notification, or parked it or freed it since. The
  critical steps are `NotifyReply` (`ReplyMaps`: also a reply read from freed
  memory is one that `NotificationService` allows, as the notification is
  gone by then), and `ModifyOpen` and `ModifyWait` (`ModifyMaps`: both are the one
  atomic `Modify`).

`NList_proofs`, from `NodeAssumption` (`NULL` is not a node):

- `ListInductive`: `HSpec => []HInv`, by lemmas about `nlist_append` and
  `nlist_unlink` (`AppendRep`, `UnlinkRep`: what they do to the list they are
  given; `AppendOther`, `UnlinkOther`: that they leave the other one alone).
- `RepresentsLists`, `NoLeak`, `WalkIsSound`: the invariants of the run `nlist`.
- `PointersImplementSequences`: `HSpec => ImplementsLists`. Each action on pointers
  is the action of `Lists` on `contents`, or a stutter (the searches).

`Connections_proofs`, from `ConnectionsAssumption`:

- `Inductive`. `IInv` adds that a peer is in one place, the backlog or one slot
  (`PlaceInv`); that what poll has reported of the slots still to be visited has
  not become false, only possibly incomplete (`PollInv`); that ids go up
  (`IdInv`); and that what a peer has still to send, what is in its socket and what
  is in the buffer of its slot add up to the request it has begun (`StreamInv`), so
  that a buffer fills up only if the request is too long.
- `AssertionsHold`, `BytesApart`, `IdsApart`: the invariants of the run
  `connections`. The context of a slot outlives its connection; they hold
  because every way to a new one clears it.
- `ClosedAfterPeer`: its action property, `ClosesAfterPeer`. That a connection
  that has ended is one whose client is gone is `PollInv`; that one whose buffer is
  full belongs to a request that does not fit is `StreamInv`.

`HfStream_proofs`, from `StreamAssumption`:

- `Inductive`. During a call the buffer of the receiver, the bytes on their way
  and what the sender has left are, one after the other, the message that was
  built (`Upwards`, `Downwards`). The receiver's `cur` never passes the first byte
  of a terminator, so the scan, which starts there, cannot step over one that
  was cut in two.
- `EndIsSeen`, `NothingLost`: the invariants of the run `hf_stream`.
- `StreamsImplementCalls`: `Spec => ImplementsCall`. The terminator is in the
  receiver's buffer exactly when all of the message is, so that what is
  parsed is what was built; the steps before are stutters.

`Notification_proofs`, about `Window`, from `WindowAssumption`:

- `WindowInductive`: the clock does not go back, the timeout stored is the one asked
  for modulo `MaxUl`, `start_time` is when it began to count (`begun`), and the frame to
  be drawn next is the one in the picture or the one after.
- `TimeoutKept`, `AnimationInTime`, `EveryFrameShown`: `EndsOnTime`, `StepsOnTime`
  and `FramesInTurn`. Both of the first rest on one lemma about `Elapsed`: the
  two differences of timespecs, of which that of the nanoseconds may be negative
  and is rounded, come to the time passed within less than a millisecond, and
  never wrap (`ElapsedFacts`). This proof found that `ToMs` had rounded negative
  nanoseconds down instead of to zero; the model was corrected.

... about `Stacking`, from `StackingAssumption` (sizes and settings are natural
numbers; there is something to show):

- `StackingInductive`. During a pass only the visited part of the stack is in place.
  `Seated` says so, and that as long as nothing before them has changed
  (`needs_reposition` is false) the windows after it are in place too; `MappedFirst`
  says that windows not yet opened come last, so none ever opens between two
  others.
- `NeverOverlap`: `Stacked`, at every origin.

... about `Resources`, from `ResourcesAssumption` (a thing is not `NULL`):

- `ResourcesInductive`. A pointer that will be freed is to a thing of its own kind and
  notification, one that will not is to the shared one (`OwnKind`, `OpenInv`,
  `Apart`), and all that is allocated has an owner (`NothingLost`). What is shared
  stays even after a refused `MOD` (`SharedStay`).
- `FreedOnce`, `AllGivenBack`, `ReadsWhatIsThere`: `OneOwner`, `NoLeak` and
  `DrawableUnlessRefused`, whatever the allocator hands out again.

`HfMessage_proofs`, from `HfMessageAssumption` (the values of a caller are of their
types, ids are positive 64-bit integers, the schema's names and digits are words):

- `RoundTrip`: what `Build` makes of fields that the header allows is parsed, as
  those fields. It rests on `WriteFacts`, and that on `IntFacts`: for every 64-bit
  integer the text that `IntToText` writes is one that `IsInt` accepts and `TextToInt`
  reads as the same number. The digits of a number are written from the last to
  the first and read from the first to the last; `NumeralValue` is an induction
  over the number of the fact that a longer text has ten times the value of the
  text without its last digit, plus that digit.
- `MessagesKeepInv`: `MessagesSpec => []MessageInv`. While a request of the library
  is on its way it parses, as what its caller meant; the answer to it parses, and
  says what was done; and no answer has a string. In between, the attributes have
  their types, the id that `unot_modify` leaves behind among them (`Typed`).
- `RequestsReadAsMeant`, `CallersToldWhatWasDone`: `ReadAsMeant` and `ToldWhatWasDone`,
  from the invariant. `HandledWholeOrNot`: `WholeOrNothing`, for requests of any
  program, from `ParsedFacts`: every line has its key in the message, with the
  value of the last line of that key.

`Indicator_proofs`, from `IndicatorAssumption` (the strings of messages are whole
characters, perhaps but for the last) and `ConfigAssumption`:

- `PointersImplementCycle`: `IndicatorSpec /\ []KnownValid => ImplementsCycle`. The
  invariant (`IndInv`) is that the pointer stands behind the i-th delimiter, for
  some i that is not the last. That `Walk` accepts a string is, by induction from
  its end, that it has two delimiters and that no two are neighbours; so `strchr`
  leads from each delimiter to the next, and from the last one nowhere.
- `FramesReadAsWritten`: `ReadAsWritten`. The loop that counts goes by characters
  and not by bytes; by induction from the end of the string, it meets every
  delimiter, because a delimiter is never the second byte of a character
  (`WellFormed`), and stops behind the last.
- `FileKeepsValid`, `KnownIndicatorsHaveFrames`: `FileSpec => []KnownValid` and
  `FileSpec => []IndicatorsHaveFrames`, for files of any lines, however `fgets` cuts
  them (`FileInv`).
- `FileAndPointersImplementCycle`, `FileAndFramesReadAsWritten`: both together, the
  hypothesis `KnownValid` having been discharged. `KnownWellFormed`, that the
  indicators of the file are made of whole characters, stays a hypothesis of the
  second: it is up to who writes the file, and to `fgets`, which may cut a line of
  more than 255 bytes within a character.

How recursion is reasoned about. The induction theorems of the library take an
operator as a parameter, which the provers cannot instantiate. `SeqLemmas` has
instead: that a function defined by recursion over an interval satisfies its
equation (`RecursionExists`, from the least counterexample), and induction over
sets of numbers, upwards and downwards (`InductionUp`, `InductionDown`): a set is a
value, so a set of those numbers of which a fact holds can be given. The
functions of these modules are recursive functions, over finite intervals, for
that reason.

Only model-checked:

- the liveness properties (`RequestAnswered`, `TimedNotificationEnds`,
  `AppendedIsOpened`, `CallReturns`, `CallAnswered`): fairness and `ENABLED` are
  outside what is proved here;
- `EntriesSetFields` (`ConfigFile`): it compares the code's way through a line with
  a reference, every way to write an entry, whose table of values (`Meant`) is given
  for the lines of the instance. For lines of any tokens a word that is a mark
  would make it false, and to exclude those is to restate the parser;
- that `Build` of `HfStream` is the fold over the lines (`BuiltLineByLine`).

## 5. What the code does otherwise

- **The reply to `NOT` may carry a wrong id** (`ReplyNamesNotification`,
  `command.c:107` and `114`). The node is read after the lock has been given up;
  a notification that has ended by then has been freed. The same read of freed
  memory in the loop condition may leave the server thread asleep for good:
  `RequestAnswered` and `LiveReplyNamesNotification` state what holds unless
  the node has been freed.
- **A reopened notification may stay off the screen** (`ReopenedIsShown`,
  `command.c:164-165`). `MOD` puts it into the open list without signalling
  `nlist_empty`, so a main thread that sleeps there stays asleep until the next
  `NOT`. `TimedNotificationEnds` excuses that state (`Stranded`).
- **A message as long as the buffer loses its end** (`BuiltMessageEnds`,
  `hf.h:411`). `vsnprintf` keeps the last byte for its NUL, and the test `n > room`
  lets that pass: the client waits for a reply to a message the daemon does not
  see the end of. `CallReturns` is about shorter messages.
- **One connection fewer than `UNOT_MAX_CONNECTIONS`** (`RefusedOnlyWhenFull`,
  `server.c:74`). The loop stops before the last slot. That is as well: `poll`
  is not given that slot either (`server.c:20`), and `CallAnswered` would fail
  if it were used.

No run is about the following; the models show them in passing.

- **A refused `MOD` spoils the notification** (`RefuseMOD` of `Resources`,
  `command.c:10`). The old indicator has been freed when the new one is refused;
  the notification stays open with a font that is closed and a string that is
  freed or NULL, and the next pass that animates it draws with them. This is why
  `DrawableUnlessRefused`, `OneOwner` and `NoLeak` hold only until then (`spoilt`).
- **An empty number in quotes ends the daemon** (`AssertionFails` of `ConfigFile`,
  `config.c:147`). `timeout = ""` passes the check for a missing value and reaches
  the assertion at `utils.c:8`.
- **Colours are read in base 10** (`hf.h:496`). `docs/protocol.md:41-42` has them in
  hex; one of digits only becomes another colour, and others are refused.
- **`NTF` is not a command** (`hf_defs.h:16`). `docs/protocol.md:60` describes it; the
  code's is `NOT`. Its `RET` and `ERROR` are `OK` and `ERR` in the code.

## 6. What is not modelled, and why

- Drawing, font metrics, colour allocation, the X protocol: the X server's and
  Fontconfig's. The width of a notification is a number that its content has;
  how it is computed from glyphs (`utils.c:103-119`), and where text and indicator
  stand inside the window, matters to the picture only.
- The matching of fonts, and a font of a message that cannot be opened
  (`XftFontOpenName` at `command.c:27` is not checked): what Xft does is not in the
  code.
- Requests with the headers `OK` and `ERR`, which the client library never sends.
- Clients without the library that send several requests at once, or whose message
  fills the buffer of `Connections` but for its end and stops there: the first lose
  what follows the request that is handled (section 2), the others wait.
- Strings of more than one line, or empty, in the attributes of the client
  library: they are built as they are, and do not parse or parse as something
  else.
- Indicator strings with bytes that are not characters (`IndicatorAssumption`): the
  code does not look for them before the assertion on `mbtowc` does
  (`indicator.c:94`).
- The kinds of errors of `hf.h` and their texts; doubles, which no field uses.
- Timeouts that overflow an unsigned long in milliseconds.
- Failures of `poll`, `accept`, `socket`, `malloc`, and a configuration file that
  cannot be opened: the code exits, or asserts.
- Two daemons on one socket path; the set-up and tear-down of the process.

## 7. History and open ends

Written in this order: `Daemon`, `NotificationService`, `Lists`, `NList`, the proofs
of both, `RemoteCall`, `HfStream`, `Connections`; then `Indicator` with `FrameCycle`,
`Window`, `Stacking`, `Resources`, `HfMessage`, `ConfigFile`; then the proofs about
`Connections`, `Resources`, `Stacking`, `Window` and `HfStream`, and the two
refinements of `Daemon`; last those about `Indicator`, `ConfigFile` and `HfMessage`.
With them every safety property that a run checks is proved, but for
`EntriesSetFields`.

Open:

1. `NotificationService`: what clients may rely on (an answered `NOT` was shown,
   only owners modify) as invariants of the abstract service, which `ServiceKept`
   then carries over to `Daemon`; and the same for `RemoteCall`.
2. `EntriesSetFields` for all lines over an alphabet without marks in its words.
3. The width of a notification from those of its glyphs (`utils.c:103-119`).
