# Verification of ProxyServerHTTP1.1

TLA+ models of the proxy in `src/bin`: an HTTP/1.1 proxy that serves all its
connections from one `select` loop, resolves host names on threads, and may
pass response bodies through an external command.

## The system

| Component | Source | State | Operations |
|---|---|---|---|
| selector | `selector.c` | table of items (interest, handler, data), `max_fd`, master and slave sets, list of finished blocking jobs and its mutex | register, unregister, set interest, one iteration of the loop, notify |
| ring buffer | `buffer.c` | array, read, write and peek positions | write, read, peek data / line / until null, advance, reset, clean |
| passive socket | `proxyPassiveSocket.c` | none; the counter of connections | accept, reject, register |
| client active socket | `proxyClientActiveSocket.c` | request state, two buffers, `connection_data` | read (request head, CONNECT set-up, relay), write, block, `kill_client` |
| resolver thread | `open_origin_socket` | borrows the client's | resolve and connect, then notify, or report an error and kill the client |
| origin active socket | `proxyOriginActiveSocket.c` | parser and its buffer | read and re-chunk the response, write the request, `kill_origin` |
| transformation | `proxyTransformation.c` | two pipes, overflow buffer, child process | feed the command, read its output, `kill_transformation`, media type match |
| management protocol | `protocolV1.c`, `config*Socket.c` | login, expected structure, two buffers | login, metrics, transformation settings |
| management client | `client_example/` | a blocking socket | one request, one response |
| settings and metrics | `proxySettings.h`, global | counters, limits, media types, command | read and written by all the others |
| helpers, start-up | `helpers.c`, `main.c` | | error pages, logging, arguments, sockets |

The main thread runs every handler to completion, so handlers of different
connections do not interleave. What makes the code hard is the rest:

* Nothing flows by itself. Each descriptor has one interest at a time (nothing,
  read or write), and every handler sets the interests of *other* descriptors to
  hand over the turn. Progress depends on all these hand-overs fitting together
  in every order of events, with full buffers, and in every order of closing.
* Handlers change the selector's table while the loop is walking over it with
  the result of a `select` that is in the past.
* Resolver threads append to a list the loop empties, and wake it with a signal.
* A resolver thread whose resolution fails runs `kill_client` itself: on the
  table, the kernel's descriptors and the counters, without a lock.
* Buffers drop what does not fit, so each producer has to compute the room
  beforehand, for an encoding that makes the data longer.

## Modules

| Module | What it models |
|---|---|
| `Relay` | the relay phase of one connection: client, origin, re-chunking parser, filter process and its pipes, all buffers with their limits |
| `RequestHead` | the start of one connection: the head of the first request in pieces, the resolver thread, the block handler, the CONNECT set-up |
| `Response`, `MediaType` | the response parser with the data: header lines, the three framings, the filter, the match of content types |
| `ByteQueue` | what `buffer.h` promises: a bounded queue with a second reading position |
| `Buffer` | `buffer.c`; implements `ByteQueue` |
| `Selector` | `selector.c` with arbitrary handlers and resolver threads |
| `Connections` | the life of several connections: accept, limit, registration, resolver threads, `kill_client` |
| `ManagementService` | what the management protocol promises its clients |
| `Management` | `protocolV1.c`, the sessions' handlers and `client_example`; implements `ManagementService` |
| `Relay_proofs`, `RelayFilter_proofs`, `RequestHead_proofs`, `Buffer_proofs`, `Selector_proofs`, `Connections_proofs`, `Management_proofs`, `Service_proofs` | proofs |
| `MCRelay`, `MCBuffer`, `MCConnections`, `MCManagement`, `MCRequestHead`, `MCResponse` | values for TLC |

A connection goes through `Connections` (accepted, looked up, freed, beside the
others), and within that through `RequestHead`, then `Relay` and `Response`,
which are two views of the same handlers: `Relay` counts bytes and has every
limit, pause and close, `Response` has the bytes and no limits.

### Relay

`conn` is `connection_data` with what hangs from it: the interest of each of the
four descriptors (`"none"` when it is not registered), the connection state, the
fill of the four buffers, the parser's state and framing, the two pipes. `net`
is what the peers have sent and closed. Every handler is one action, since it
runs to completion: `ClientRead`, `ClientWrite`, `OriginRead`, `OriginWrite`,
`TransformationRead` and `TransformationWrite`. Functions of the code that
change the connection are operators from connection to connection
(`KillOrigin`, `ResetOriginData`, `Respond`, `SetInterest`...), so that the order
of the calls in a handler is the nesting in the action. The receive loops are
written in closed form; `ReadLimit` and `PipeLimit` say when their conditions
stop them. Data is counted in bytes. What the parser makes of the bytes is
nondeterministic within what their number allows: how many lines are complete,
which framing they announce, how much is payload, whether the body ends or is
malformed. `sent <= taken` because a `Content-Length` line is not forwarded. Lines are
of up to `MaxLine` bytes; the parser takes a line of up to `LineSize` (the array `aux`
of 1000 bytes), and nothing any more behind a longer one (`OverlongLine`).

`ended` and `lost` are history: the end chunks of the current response, and
whether bytes of a response were dropped while the connection goes on: by
`buffer_write_data`, when the filter's input is closed with bytes left to write
(`TransformationWritten`), or when the next response dismisses a filter or finds bytes left
of this one (`ResetOriginData`). The branch of `ClientRead`
with `space = 0` stands for the test of a variable that was never assigned
(`proxyClientActiveSocket.c:333`): the outcome is free.

### RequestHead

A head is a sequence of tokens; `EOL` ends a line, and the first token of a line
says what it leads to (an absolute URL, CONNECT, a path, a Host line, something
wrong). It arrives in any pieces. The read handler is split where it falls from
the first line into the search of the Host line (`searching`), with the receive
repeated in between as in the code. `Received` is the receive loop, which drops
what does not fit; `PeekLine` is `buffer_peek_line` with its limit. `Block` has
the failure branch. `ProcessSSL` is the loop over the CONNECT head in closed
form, up to the first line that is too long. `early` is history: the relay began
before the whole head was received. `PassSSL` is in the model because the code
has it, and never changes anything: a blank line that `process_ssl` did not find
at once is not received any more.

`TunnelAssumption` says what a CONNECT head is: its first empty line is its end,
for a client waits for the answer before it sends what goes through the tunnel.

`resolver = "missing"` is the thread that could not be started:
`pthread_create` returns a positive number then, and the code compares with -1.

### Response and MediaType

An origin server sends responses, one after the other, in any pieces. A header
line is one token, since `Relay` has lines in pieces; the lines of the chunked
encoding are tokens up to the `LF`, since the parser of chunks is cut anywhere,
even between `CR` and `LF`, and bodies hold `CR` and `LF` of their own. `p` is
`parser_data`; the parser's functions are operators on it, as in the code
(`ReadHeader`, `EndOfChunk`, `BeginningOfChunk`, `Take`, `read_unchunked`). With
a filter the body goes to a `pipe` of `PipeCap` tokens and comes back; what the pipe has
no room for waits in `tmp`, and the input is closed without it if the response has
finished. `cut` is history: the responses to which that has happened. The properties compare what
the client gets with `Given`, which is written from what a response *is* and not
from the parser.

`MediaType` is `media_type_match` character by character, with the state machine
of the code, against the reference `Listed`: some element of the list, up to a
comma or the zero byte, is the type, its main type with `*`, or `*`.
Both modules use recursive operators and serve TLC only.

### Buffer and ByteQueue

The loops over bytes are in closed form (`After`, `Ahead`, `Copied`). `fresh` is
history: peeking has a meaning only while the read position has not overtaken
the peek position. The peeks write a zero byte behind the line (`buffer.c:65` and
`:88`), for a line of exactly `size` bytes behind the end of the caller's array; that
array is not part of the state. All callers reset the peek position before they peek after a
read; the guard states this obligation. The refinement maps the queue to the
bytes from the read position on, and `seen` to how far the peek position is
ahead of it, or to `Stale`.

### Selector

The loop is split at every test of `handle_iteration` and at every job, and
between the test and the return of a handler any sequence of calls to the
selector's interface may happen (`HandlerRegisters`, `HandlerUnregisters`,
`HandlerSetsInterest`, `HandlerStartsWorker`). Resolver threads queue and signal
in two steps. The mutex is `MutexHeld`. `due` is history: the events `select`
reported and nobody took; an event of a descriptor that a handler changed is
withdrawn. A descriptor is open exactly while it is registered, and a client that
is being resolved is left alone. Both are what the handlers of the proxy do as
long as resolutions succeed; what happens when one fails is in `Connections`.

### Connections

Several clients, few descriptors, a limit. The main thread's handlers are one
action, except where a resolver thread can meet them: accept and registration
(`count`, `reject`, `register`, `name`) and the start of a resolver (`arm`).
`kill_client` on a resolver thread is split at each access to shared memory: the
close handler, the read and the write of the master sets (`word`), the clearing of
the item, the scan for `max_fd`, its assignment, the read and the write of the counter.
`master` is what `select` watches for reading or writing, all of it in one word of the
sets, as it is with descriptors below 64. `RelayTurns` is the part of `Relay` that
shows here, that clients are paused and resumed. Main thread accesses are not split at
the sets: a stale write of its own could only put back the bit of a client that is
being killed, which `Arm` has cleared or clears. The kernel gives out the lowest free
descriptor. Every client connects once, so the system stops when all have
come and gone, and deadlock is not checked.

Two histories: `usedFreed`, a handler has worked on a freed connection; and
`disturbed`, a resolver's `kill_client` has met the main thread at work or
another one. `NoDanglingItem`, the types, and the first half of `NoBadDescriptor` (an
item with a closed descriptor is that of a paused client) hold in every
interleaving. That the master sets hold no closed descriptor does not: a resolver
thread that has read a word while the main thread kills another client puts that
client's bit back, `select` fails with `EBADF`, and the proxy ends (`main.c:82`). That and
the others are promised until `disturbed`; failed resolutions that
have the process for themselves are among what they cover.

### Management

The server's sessions (`watched`, `loggedIn`, `expected`, two buffers each) and
the clients of `client_example`, which send a request in several sends and wait
for its answer. A read handler receives once and then reads one structure after
the other (`busy`), each an action. Bytes are numbers; a name or an argument is
short, and the buffers and fields are shrunk so that it may be too long for them.
A string may be longer than its field (`FieldSize`): `Copied` is `strcpy` into the layout of
`proxy_settings`, where the list of media types is followed by the command and that by
the error text. It may be longer than what the client takes (`AnswerSize`): the client
is told its beginning, marked `"CUT"`, and the rest is left in `downstream`.
Counters are any of `Counts`. `kill_socket` frees two pointers of a fresh
allocation, so `up` may become false there; and its callers go on with the
session of a closed descriptor: a request of another version is carried out all
the same. `ManagementService` has one request and one answer for each client, settings
shared by all, and `Lose` for the session that asks for a metric without a login:
`protocolV1.c:149` does not return to the header then, and whatever follows is
denied. It has the two lengths as well, for they show: `Changes` says which settings a
`Set` may change (the named one, and the other string only if one does not fit), `Shown`
what is told of a string.

`RequestAssumption` is what `client_example` may send: names and arguments have no
zero byte, and an `"odd"` request is one in which the parser never comes to the end
of a request (`NoRequest`: what the server refuses, too long a name or argument
among it). `FieldAssumption` says that names and arguments of the other requests fit
the server's fields, as the arrays of `clientMain.c:298` do (50 and 1000 bytes on
both sides), that two names fit a buffer, and that a client of another version sends
no more than its header before it is closed; and a command ends within the error
text behind its field, for one of 600 bytes or more is written over the status and the
counters too. `NoneAssumption` keeps the model's
`None` apart from clients and answers. TLC evaluates all of them on the run's
requests.

## Runs

| Run | What it asks | Bounds | Distinct states |
|---|---|---|---|
| `RelayPlain` | stranded bytes, pauses, reasons to be killed; HTTP and CONNECT, no filter | buffers of 5 bytes, reads of 2, six bytes each way: both buffers fill, wrap their limits and empty more than once, several responses follow one another | 401,000 |
| `RelayEnds` | the relay ends after either peer has closed | buffers of 3, two bytes each way; liveness | 4,600 |
| `RelayFilter` | release, order of closing, end chunks and where bytes are lost, with and without a filter | buffers of 6 with a reserve of 3, the least that suffices for their reads; pipes of 2: the filter's input and output fill up; lines of 2 bytes, as long as the parser takes: a longer one stalls | 469,000 |
| `RelayOverflow` | violated: a response byte is dropped | no encoding overhead | to the violation |
| `RelayStall` | violated: a paused origin is never resumed | filter, response larger than the buffer | to the violation |
| `RequestHead` | the head reaches the origin or the tunnel stands, in whatever pieces; liveness | fourteen heads, lines of up to 3 tokens and one longer, a buffer of 12 that one of them overflows and one fills | 5,000 |
| `Response` | heads, bodies and ends reach the client; media types | bodies of up to three bytes in up to two chunks, every framing, pairs of responses, reads of 2, a pipe of 2 that the larger bodies fill, every list of media types up to four characters and longer ones with a shorter one written over them | 217,000 |
| `Buffer` | the ring implements the queue | four slots, every content | 6,900 |
| `Selector` | nothing is missed, lost or slept on; every notification is handled | three descriptors | 499,000 |
| `Connections` | counter, table and descriptors | four clients, three descriptors, two at a time: rejections and reuse of descriptors, all of them in one word of the master sets | 366,000 |
| `ConnectionsAlone` | violated: freed data is used | the same | to the violation |
| `Management` | the sessions implement the service, stay in step and answer; liveness | two clients, two requests each: right and wrong logins, settings of either kind, requests that are none; pieces of 2, buffers of 7, strings of up to 2 bytes in fields that hold 1, of which 1 is told: they run into the other string and are cut | 285,000 |

`RelayPlain` does not start with a full request buffer, and its header lines are shorter
than `LineSize`, because the code misbehaves otherwise (a full buffer meets the
unassigned variable; a line longer than the array it is peeked into pauses the origin
for ever).
`MaxLine`, `ClientBytes`, `OriginBytes`, `SocketCap`, `Heads`, `Cases`,
`Requests`, `Asks`, `Quitters` and `Counts` are bounds of the model, as are `PipeCap`
(what the kernel takes) and that a client with the rest of an answer does not ask again;
the other constants are sizes in the code. Peers may stop at any time, and a freed
connection, a delivered response or a server whose clients have asked all they
may has nothing to do, so deadlock is checked in `Buffer` and `Selector` only.

Fairness. In `Relay`, each handler is weakly fair: an iteration of the selector
serves every ready descriptor (this is `EveryEventIsTaken` of `Selector`, proved),
and `OP_WRITE` is reported as long as the peer reads, which is assumed of the
client, as is a filter that runs. Nothing is assumed of what the peers send there.
In `Selector`, the loop and the return of a handler are weakly fair: `pselect` has a
timeout of ten seconds, handlers do not block, and the mutex is held for the
length of a list insertion. Resolver threads are not assumed to make progress.
In `RequestHead`, handlers are fair for the same reason, a resolver thread ends,
since lookups and `connect` have timeouts, and a client sends all of its head:
`PromptIsActedOn` is about such clients. In `Management`, the loop inside a
handler is weakly fair, and the handlers of a connection are strongly fair: the
one thread being busy with another client disables them for a while, but the
descriptor stays ready and the selector comes back to it. A client reads the
answer it has waited for; nobody has to ask, or to ask again.

Exceptions the liveness properties name, each a place where the code really
waits for ever: a head whose Host line is not the one after the first (one line
is looked at per read event); `Stuck`, a CONNECT head that was not complete or has
a long line when the connection was made, or a thread that did not start;
`UnknownStructure`, a management request of a structure that does not exist,
on which the handler loops; and what `kill_socket` frees.

## Findings

* **Response bytes are dropped** (`RelayOverflow`). The receive loop of the
  origin bounds what it reads by the room in the response buffer *before* the
  loop; only the parser buffer fills while it runs. `LossHasCause` says where this
  happens, and that it happens nowhere else but at the filter's input (below): a read into
  a response buffer that is in use, or one that begins with a response head, whose new
  `Transfer-Encoding` line the reserve of 80 bytes does not count, or one of the next
  response while the filter of the last has not done. With the sizes of the code (8000,
  80, 1000) a first read of 7919 bytes with a short head and no framing becomes
  7919 + 27 + 8 * 7 bytes, three more than an empty buffer holds.
* **A transformed response may stall for ever** (`RelayStall`). The client's
  write handler resumes the filter's output and nobody resumes the origin.
* **A handler may work on freed data** (`ConnectionsAlone`). The resolver thread
  runs `kill_client` beside the handlers.

Not runs of their own, but seen while modelling: a request head that fills the
buffer may kill the connection, for `ret` is tested without having been assigned
(`proxyClientActiveSocket.c:333`); an origin that closes within a response head
makes the client see an end chunk in it, and a filtered body that is broken off
is ended like a whole one (the cases of `EndedByClose`); a filtered response that
finishes while the pipe to the filter is full loses what was still to be written, for
`proxyTransformation.c:172-175` closes the pipe whatever `pipe_full` says, and is ended like
a whole one too (`cut`); a header line of more than 1000 bytes stalls the response; a list
of media types of 500 bytes or more runs into the transformation command, and strings
of more than 200 bytes leave the example client out of step; `content_type` is
uninitialised, and stale after the first response, for responses without a
type; a resolver that fails beside the main thread loses updates of the counter
and of `max_fd`, and may leave a closed descriptor watched (drop `~disturbed` from `Quiet` in `Connections` to see the traces).

With a filter, interests are overwritten across the pair. A client that fills the
request buffer is paused; `proxy_transformation_write` then sets the origin from
write to read, and the reader of the origin arms the client to write;
`proxy_client_active_socket_write` sets it to read with the buffer still full, and
the next read tests the unassigned `ret` and may kill the connection: this is why
`KillsHaveReasons` assumes that there is no transformation. In the same way
`proxy_origin_active_socket_write` sets the client from write to read while the
filter's output is paused on a full response buffer, which then stays full until
something arms the client again, close to what `RelayStall` shows.

## Proofs

All theorems hold for every value of the constants that satisfies the named
assumptions of the module.

* `Connections_proofs`: all seven properties of the run. `IInv` holds in every
  interleaving: threads and jobs belong to clients that are being resolved
  (`PhaseInv`), the client that is being accepted is untouched (`MainInv`), an item
  points to a client with that descriptor, open unless its thread is between the
  close handler and the clearing of the item, which is then that of a paused client
  (`ItemInv`), and no two clients hold
  one descriptor (`HolderInv`). The last is needed for the others: a close by
  number would hit somebody else's item without it. `UInv` adds what holds until
  `disturbed`: no thread is in `kill_client` unless the main thread is in its loop
  (`AloneInv`), holders are registered and nothing else is open (`DescriptorInv`),
  `max_fd`, or what a thread is about to store there, bounds the items
  (`SelectInv`), the master sets hold the descriptors of clients that are read from or
  about to be paused, and a thread writes what they still are (`WatchInv`), and the counter is the number of live connections but for the one
  being accepted (`CountInv`). `LimitKept` follows by counting: items inject
  into live connections.
* `RequestHead_proofs`: `TypeCorrect` (the buffer never overflows) and
  `HeadAlwaysKept`, for every set of heads, every cut and every size. A head that
  fits leaves room for all that is still to be received; the rest is associativity.
  `HeadIsKept` is inductive once it is known that nothing is a tunnel before its
  first line is read. `TunnelAlwaysClean` needs `TunnelInv`: while the connection is
  being made, what was sent is the buffer, the socket and what is to come, in this
  order, or has filled the buffer (`Waiting`); a connection is being made for a
  tunnel exactly if the head begins with CONNECT (`KnownTunnel`); a tunnel that
  stands has taken all of the head and sent nothing, and one that does not stand
  when the relay begins has no line left that `process_ssl` could read (`Standing`).
  The two lemmas that carry it are that `process_ssl` on a whole head stops at its
  end, the first blank line (`BlankIsTheEnd`), and that it leaves no line behind
  (`NoLineIsLeft`).
* `Buffer_proofs`: `TypeCorrect`, `PeekStaysInside` and `RingIsQueue`, that the ring
  implements `ByteQueue`. The invariant is the type of the fields together with the
  place of the peek position; the lemmas are the arithmetic of `After` and `Ahead`
  on the ring. For the refinement a ring is read as a sequence (`Ring`): advancing
  the read position drops a prefix of it (`RingDrop`), a read returns it
  (`RingTake`), a write appends to it, wherever it wraps (`RingPut`); each operation
  then has a lemma that it is the queue's.
* `Selector_proofs`: `TypeCorrect`, `SelectSeesAll` and `WatchedIsWanted` from
  `TableInv` (the items, `max_fd` and the sets agree); a scan up to the old
  `max_fd` finds the largest item because no used item lies above it.
  `WakeupsArrive` needs in addition that a job behind the main thread's back is
  always followed by its signal. `EventsAreTaken` says where the events still due
  are: at or above the cursor, and not above `last`, since `max_fd` bounds what
  `pselect` may report. `JobsAreKept` ties the list, what is left of it, and the
  mutex.
* `Relay_proofs`: `TypeCorrect`, `NothingEverLeaks` and `ClosedAlwaysDrains` from
  `LifecycleInv`, which says which descriptors a connection holds in each of its
  states; each helper has a lemma for the type it returns and one for the fields
  it leaves alone, each handler a lemma that it keeps the invariant.
  `NothingStranded` and `PausesEnd` hold without a transformation. `PlainInv` adds
  to the life cycle that client and origin are never both armed to write, that a
  paused client waits for an armed origin, and that the parser leaves less than a
  line in its buffer: a pause of the origin then means that there is a response
  to send. `PausesEnd` assumes that lines are shorter than `LineSize`, the 1000 bytes of the
  array they are peeked into, and that a line and the reserve fit the parser buffer: the
  code does not keep it for longer lines.
  `KillsHaveReasons` assumes no transformation, and that a request head leaves room in its
  buffer (`HeadsFit`) and adds to the invariant that a client that is read from
  always finds room: then `recv` is called and its result is what is tested.
* `RelayFilter_proofs`: `OneEndChunkEver`, `MustCloseAlwaysWatched` and
  `LossesHaveCauses`, with and without a filter, for every size. `FilterInv` adds two parts to the life cycle.
  `Once` is about the three that may end a body, the parser, the origin's close and
  the filter's end: while the connection lives, an end chunk was only written for a
  response that has finished, none while there is a filter, and a filter ends only
  after its input was closed, which needs a response that has finished (the close of
  the origin counts as that). `Watched` says that a living connection with a filter
  reads its output, or has paused it with a response buffer full up to the reserve.
  The last is what makes a pause harmless, and it rests on `LimitFills`: a read of
  the pipe that stops at its limit (`PipeLimit`, computed from what an encoding may
  add) has filled the response buffer up to the reserve, so that the client has
  something to drain.
  `LossesHaveCauses` assumes `ReserveSuffices`, that the reserve holds the encoding
  of one full read and an end chunk, as the code's 80 bytes do (5 + 8 * 7 = 61). Only
  `Respond` drops bytes, so each helper has a lemma that it loses nothing (`Keeps`)
  or loses nothing that fits. What waits for the filter is dropped when its input is closed
  with a full pipe, and then only, or when the next response begins (lemma
  `TransformationWriteLoses`). What is left is arithmetic: what one call of the
  receive loop brings fits an empty buffer, encoded and ended (`ReadFits`), and a
  read of the filter's pipe fits what was free, with room for the end unless it
  stopped at its limit (`LimitFits`, `PipeReadFits`). An end chunk written at the
  origin's close or the filter's end fits because that end is only seen by a loop
  that was not stopped by a full buffer.
* `Management_proofs`: `StaysInStep`. `StepInv` gives a session and its client three
  situations: nothing asked (`Idle`), a request under way (`Asking`: what was parsed,
  what is buffered and what is still to arrive make up the request), and an answer
  under way (`Served`: nothing of the request is left, and the answer is whole). A
  session that was closed, or has lost its place after a metric without a login, is
  exempt, as in `InStep`; a client that was told the beginning of a string has what is
  left of it behind its answer (`CutShort`). That a structure is taken whole and nothing follows
  it is the lemma about `Whole`; every answer fits its buffer because
  `FieldSize + ArgumentSize + 2 <= BufferSpace`, for a list of media types that runs
  over its field is read on to the end of the next command, and no further (`CopiedIsSettled`); each action has a lemma.
* `Service_proofs`: `ServiceIsKept`, that `Management` implements `ManagementService`
  for every set of clients and requests and all sizes. `ServiceInv` adds to `StepInv`
  that a handler that has returned or a session that is closed leaves no request
  it could still serve; that the client of a closed session still waits, with
  nothing on its way; that a lost session is sent denials only; and that the bytes
  under way to a client are the answer the service gave (`Kept`). One lemma per
  action shows its step to be the service's `Login`, `Report`, `Set`, `Get`, `Deny`,
  `Lose`, `Tell`, `Ask`, `HangUp` or `Disconnect`, or a stutter; the rest of
  the state is apart from it (`OthersAreSame`, `KeptApart`). The names and the
  argument the parser takes out of the buffer are those that were sent
  (`NamesAre`, from `TextIs`: up to the first zero byte), and what is copied changes no
  setting but the named one and the other string, that only if one does not fit
  (`CopiedChanges`).

Only model-checked: the liveness properties (`EndsAfter...`, `NotifiedIsHandled`,
`PromptIsActedOn`, `HungUpIsKilled`, `Answered`), which are out of the prover's
reach, and `Response` and `MediaType`: their operators are recursive, and what a
parser makes of every input is an induction over data.

## Not modelled

* Short sends: peers take all they are sent. Failures of `pipe` and `fork`; a
  filter that exits before the end of its input, which kills the proxy by SIGPIPE.
* A server that sends more than its length, answers before it is asked, or has a
  body where there is none (304, HEAD); trailers and extensions of chunks.
* Two connections with pipes in one selector: `connection_data` keeps the numbers
  of closed pipe ends, which may be another connection's by then.
* Management clients other than `client_example`: pipelined requests. Of its own, a
  command of 600 bytes or more, which the server copies over the status and the
  counters, and what a client makes of its next answers once the rest of a long string
  is before them; with a string of 200 bytes or more it also writes one byte behind its
  own array.
* The zero byte the peeks of the buffer write behind a line, past the caller's array for
  a line of exactly its size (`buffer.c:65`, `:88`, and `aux[ret]` in `parse_content`).
* What `FD_CLR` does with the `-1` of an item that a resolver thread has cleared while the
  main thread was about to pause its client.
* Growth of the selector's table: `selector_new(1024)` allocates an item for every
  descriptor `select` can take, which is the assumption `EveryFdHasAnItem`.
* Text: error pages, logging, URLs, hexadecimal sizes, what the example client
  prints. Start-up: arguments and sockets, straight-line I/O.

## What is left

The composition of `Relay` with `Selector` for two connections, for the stale
numbers of pipes, and short sends in `Relay`.
