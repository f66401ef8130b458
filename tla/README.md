# The resource broker in TLA+

`resbd` is a small daemon that watches the queues of a workload manager and,
when enough jobs are pending, asks registered servers (`rbserver`) to start
machines. Commands (`rbstatus`, `rbparams`) ask it for its status through a
library, `libresb`. This directory models what those processes do to each
other: who is connected to whom, what is on the wire, which descriptor means
what, and what happens when somebody dies half-way.

## The parts of the system

| part | code | state it keeps | operations | talks to |
|---|---|---|---|---|
| event loop | `daemon/resbd.c` | descriptors, the batch of events, the time of the last look at the queues | `epoll_wait`, `accept`, read a header, dispatch it, close | everyone, through epoll |
| request handlers | `daemon/clients.c` | `servers`, the list of registered servers | status, parameters, queue status (empty), registration | clients, servers |
| resource requests | `daemon/resources.c` | the queues' pending jobs and machines | look at every queue, compute the machines needed, ask the first server | servers, files with the number of jobs |
| configuration | `daemon/conf.c`, `lib/ini.c` | `res`, `params`, `queues` | one call of a handler per line of the file | start-up only |
| `rbserver` | `server/rbio.c`, `server/rbserver.c` | its connection, its machine file | connect, register, wait for requests, answer them | the daemon |
| client calls | `lib/libresb.c`, `nio_client_rw`, `cmd/*.c` | one connection per call | connect, send a header, read header and body, close | the daemon |
| connections | `lib/nio.c` | the private epoll descriptor | connect, `nio_readblock`, `nio_writeblock`, epoll | the kernel |
| lists | `lib/link.c` | a header and its chain | push, pop, enqueue, dequeue, find, remove | `queues`, `servers` |
| relays | `lib/nio2.c` (not built) | pools of controls and relays, the table of relays that wait for a client, a buffer per relay | one pass of `nioepoll`: accept, read or write a control, relay bytes; give out, start and shut relays | a daemon and programs that are not in the repository |
| intrusive lists | `lib/list.c` (not built) | `forw`, `back` and `num` of every list | make, insert, enqueue, push, take off, free | `relaycache`, `ctrlcache`, `ctrlist`, replies |

What is hard here, and what each part must guarantee:

- **One thread, blocking calls.** The daemon reads and writes with blocking
  calls in the order epoll reports. A read with nothing to read, or an
  `accept()` with nobody to accept, stops the service. Correct: what epoll
  reported still holds when its turn comes (`NeverWaitsForAHeader`), and the
  loop always comes back (`ReturnsToEpoll`).
- **Descriptors are names that change hands.** Handlers close and accept while
  a batch is walked; the list of servers keeps numbers for the life of the
  daemon. Correct: an event never meets another connection (`EventsFresh`); a
  boot request reaches the server it is meant for (`BootReachesServer`).
- **Framing.** Headers and bodies follow each other on one stream and three
  enumerations start at zero. Correct: the daemon is always in step with the
  stream (`Framed`), and answers what was asked (`ReplyMatches`).
- **Registration in pieces.** Header, body, reply and list entry are separate
  steps, each of which may fail (`RegisteredOnce`, `ReadyIsRegistered`,
  `ServersSettle`).
- **Partial transfers.** The kernel cuts reads where it likes and copies writes
  as there is room; either end may stop in between. Correct: the loops of
  `nio.c` stand at their place in the next message (`ReaderInStep`) and together
  move whole messages or report an end (`WholeMessages`).
- **Sessions of two.** A relay is given out, waits, is started by whoever brings
  its sid, and may be shut by its peer's end, by a reset or by the clock at each of
  these points, while events of the same batch still point at it. Correct: the
  pools and the table agree with the relays (`PoolsKept`), every socket has one
  owner, also while a control becomes a relay (`SocketsOwned`), a late client is
  refused (`LatePeerRefused`), and the loop comes back although it reads the first
  bytes of a client blocking (`LoopReturns`, `StartAnswered`).
- **Half writes between two sockets.** What one client sends waits in a buffer of
  the relay until the other's socket takes it. Correct: in order, once, nothing of
  anybody else (`BytesInOrder`), nothing left out (`NothingLostWhileUp`), and the
  rest goes out, unless the program that it goes to never stops sending
  (`HalfWrittenGoesOut`, `FlushedWhenWritable`).
- **Pointers.** A list is walked with one or two cursors and its cells come from
  `calloc()`. Correct: any history of calls leaves the sequence it should, no
  cell is lost or reached after `free()`, and `num`, which the daemon asks before
  it follows the first pointer, counts (`IsAList`, `NothingLeaksOrDangles`,
  `NumCounts`). The lists of `list.c` are walked both ways (`BothWays`, `AreDeques`).
- **Death.** Any process may die between two calls; writes to a dead peer are
  lost, then fail, then raise SIGPIPE (`ClosedPeersReaped`, `ClientsFinish`,
  `DeathNoticed`).
- **The workload.** The timer, the borrow factor and what was already given
  (`WorkloadChecked`, `RequestsTheDifference`).
- **Configuration by accumulation.** Sections may come back, in another
  spelling, in any order and broken off by an error; each key acts on what the
  keys before it left (`OneQueuePerName`, `QueuesAsWritten`, `ParamsFromTheFile`).

## The modules

- `Sockets` - the kernel's side of the connections and the wire format. A
  connection is named by the peer process that opened it (each opens one; a
  restarted `rbserver` is another member of `Servers`). `fds` is the daemon's
  descriptor table, `link` the daemon's end, `end` the peer's end as the
  daemon's kernel knows it (`open`, `fin` after an orderly close, `rst` with a
  reset pending, `broken` when a write raises SIGPIPE), `up` and `down` the two
  streams. A stream is a sequence of whole headers and bodies.
- `Resbd` - the daemon. `pc` is where its thread is; every action is one system
  call together with everything the code does up to the next one, so any peer
  may move between two calls. `ready` is the batch; an event carries the peer
  epoll meant, which the code cannot see and the properties compare. `timer`
  stands for `last` against the clock: not set, within the ten seconds, or due.
  `want` is `num_need`, `qi` the queue of the walk, `given` counts the machines
  servers reported (history, capped by `MaxGiven`).
- `RbServer`, `RbClient` - the other two programs, one action per call. The
  uninitialised index of `handle_broker_events` is `Slots`: `{0}` for a build
  that happens to read the right event, other values for the others.
- `BrokerSystem` - the composition, its fairness and all its properties.
- `MCBroker` - the instances TLC checks.
- `BrokerProofs` - the theorems about descriptors, events and blocking.
- `Streams` - where the daemon and each peer stand in the stream between them: the
  invariants behind the framing, the list of servers and the answers. `StreamProofs`
  proves first what holds whoever dies, then what holds while no server is killed.
- `Conf` - start-up: one action per kind of line `ini_parse_file` may read, each
  with the branch of `handler` it leads to. A line is what the scan makes of it
  (section, pair, nothing, or an error); a value is its text, the numbers in it
  and what separates them, which is all that `atoi` and `sscanf` can tell apart;
  the numbers may be negative. `Fold` is `strcasecmp` on names, `Upper` the loop of
  `toupper` over the value of `log_mask`.
  `file` is history: the properties compare `queues` and `params` with what its
  lines say. `MCConf` has the instances, `ConfProofs` the theorems. The core
  takes the queues and the borrow factors that `Conf` yields as constants, with
  factors that are not negative.

- `Framing` - headers, and the bodies they announce, as one end sends them.
- `Messages` - the abstract channel the programs count on: whole messages in
  order, and an error when the sender is gone and everything has been received.
- `NioBlock` - `nio_writeblock` at one end and `nio_readblock` at the other, down
  to what one `read()` takes and one `write()` copies. `left`, `off`, `want` and
  `need` are the locals of the two functions (`L2`, `buf`, `L2`, `L`); a byte of
  `stream` is the message it belongs to and its place there; `begun`, `from` and
  `got` are history. It implements `Messages`: the messages sent are those the
  kernel has completely. `NioProofs` has the theorems.

- `Lists` - what a list promises: a sequence, and what each call makes of it and
  returns.
- `Link` - `link.c` on a heap: `next` and `ptr` of the cells, `used` the memory in
  use, `p` and `q` the cursors of the loop that runs. A round of a loop is a step;
  a call without one is a single step. Freed memory holds `junk`. `Conf` and the core use the sequence for the list. `link_find` and
  `link_rm` are called only on a list that exists: they follow their argument
  without a check. `LinkProofs` has the theorems.
- `Deques` - what the lists of `list.c` promise: a sequence for each head, an
  element on one of them at a time.
- `DList` - `list.c` on a heap: `forw` and `back` of heads and elements, `ents` for
  `num`. A call is a step, the loop of `listfree` a step per element. It implements
  `Deques`: a list is the sequence that `forw` leads through, after what `listfree`
  has given away. `DListProofs` has the theorems.
- `MCLibresb` - the instance of `Link`, `DList`, `NioBlock` and, through `MCConf`,
  `Conf`. They share nothing, so a behaviour calls one of them (`library`).

- `RelayNet` - the other side of the relays' sockets: `conn` has the two ends of
  each connection and what is under way in it, `handouts` the sids that a
  controller was told, each with the question it answers. The programs are not in
  the repository; what they send is what `nio2.c` reads: a client begins with five
  bytes, a header and a body with its sid, and goes on with bytes to relay; a
  controller sends a header and waits for the answer. A client may come with any
  sid that was given, used ones too.
- `NioRelay` - relays: `niogetpeer`, `niostartrelay`, `nioshutrelay`, `niorelay`,
  `nioflush2peer`, `niorelayread`, `niofindidle`. `relay`, `relaycache` and
  `wpeers` are the pool, the list of relays that are not active and the hash
  table; `buf` and `x2` are the buffer up to `x1` and the place in it. A handler
  reads and writes several relays, some of them twice, so each function is an
  operator from a state of the pool to the next. `ask` is history: who was told the
  relay's sid last, in answer to which of its questions.
- `NioCtrl` - controls, in the same form: `nioacceptctrl`, `nioshutctrl`,
  `nioasyncread`, `niopreparewrite`, `nioasyncwrite`.
- `Nio2` - the loop: `Poll` is `epoll_wait`, which chooses at most `maxrelay` of
  the ready sockets; each event of `batch` is one action, in any order, since the
  order of the events is the kernel's. `five` is the control whose first bytes
  `read_five_bytes` waits for. Between two passes the daemon takes the messages
  off `ctrlist`, as the comments of `nio2.c` tell it to: it answers a controller
  with a pair of relays (`AnswerController`), starts a client's relay
  (`StartSession`), and calls `niofindidle` when it likes (`FindIdle`, which
  stands for the clock). `MCNio2` has the instances. `Nio2Proofs` has the theorems
  about pools and sockets, and `RelayProofs` on top of it those about sessions.

`Resbd`, `RbServer` and `RbClient` share only the variables of `Sockets`: the
processes interact through connections and nothing else, as in the code.
Operators marked *Mutant* are plausible mistakes in the definition that follows
them; each makes the property it is paired with in `PROJECT.json` fail.

### Granularity

A header is 16 bytes written by one `write()` on a loopback connection whose
buffer has room, so it arrives whole; the model moves headers and bodies whole.
`NioBlock` looks inside: the loops that move a message implement moving it whole
(`WholeMessages`, and `MessagesAreWhole` for every size).
A registration or a boot reply is two writes and two messages: the peer may die
between them. Two handlers end with more than one call in a step: the reply of a
registration is written and the server appended to the list (`clients.c` 119 and
127), and `params_info` closes its descriptor before `handle_connection` closes it
once more. The daemon has one thread that does not look at anything between the two,
and a server that has read its reply does nothing that meets the list, so nobody
can tell the order. In `Nio2` a header and a body, and the reply to a controller,
are whole too, while what is relayed moves a byte at a time, since half writes are
the matter there. The daemon binds 127.0.0.1 (`nio.c`), where the reset for a lost
write is queued before `write()` returns.

## The runs

| run | instance | what it shows |
|---|---|---|
| `healthy` | 2 servers, 2 clients (status, parameters), 3 descriptors, 1 queue, factor 5,2, nobody dies | types; a reply answers its request; a server that was told it is registered is on the list; a boot request reaches its server; the inductive invariant of the answers. Deadlock is checked |
| `crash` | 2 servers, 1 client, 2 descriptors, 2 queues (one without a factor), everybody may be killed, both kinds of `rbserver` build | the inductive invariants of descriptors and of streams; fresh events; no blocking header read; framing; one entry per server |
| `recover` | 1 server that may die, 2 clients (queue status, parameters), 3 descriptors, 1 queue, the daemon may be killed | the loop comes back, dead peers are reaped, a due check happens; calls and registrations end and requests are read while nobody is dead; no server waits for a dead daemon |
| `stale_descriptor` | 2 servers, 1 client, one server may die | the boot request goes to whoever got the dead server's descriptor |
| `over_request` | 1 server | machines already given are asked for again |
| `lost_request` | 1 server built so that the index is 1 | the request is never read |
| `borrow_factor` | the lines of the document | `5,2` is read as 5 and 0 |
| `libresb` | lists of up to 3 of 2 values (`link.c`); 2 lists over 3 elements (`list.c`); headers of 2 bytes, bodies of none, 1 and 3, a kernel that holds 2 bytes, 4 messages (`nio.c`); every file of up to 4 lines with 3 names, 2 of them equal to `strcasecmp` (`conf.c`) | any history of calls implements sequences, leaks nothing, reaches nothing that was freed, and each loop ends; however reads and writes are cut and whoever stops, the loops implement whole messages; one entry per queue, and queues and parameters are what the lines say, even when an error ends the file |
| `relays` | 2 relays, 2 controls, a controller that asks twice, 2 clients that send 2 bytes each, buffers of 2 bytes, a kernel that holds 1 | in every order of events and whoever leaves when: pools and owners stay right, bytes arrive in order and complete; the inductive invariant of the library (`NioInv`) was checked on it too |
| `relays_live` | the same with one question; one client sends 2 bytes, the other 1 | the loop comes back, half-written bytes go out, a start message is answered |
| `half_write` | as `relays_live` | a socket with half-written bytes is reported writable, and they are not written, since it is readable as well |
| `late_peer` | as `relays` | a client whose session was shut before it came is let in |

Bounds. Two servers are enough for a reused descriptor to be a server's, for
the list to have an order and for two registrations to interleave; a client
beside them takes the number a server left. Two descriptors with three peers
make `accept()` fail in `crash`. In `recover` there is one for everybody: with
`MaxFd = 1` TLC refutes `ClientsFinish`, since an accepted client starves behind an
`accept()` that fails and drops the batch with its events (no text in the
repository says what happens without descriptors). Jobs -1, 4 and 5 are no file,
below the factor and one step of it. `MaxGiven = 1` caps the history variable only. Peers of one kind
are interchangeable where `SYMMETRY` is used (never with a temporal property).

Deadlock is checked where nothing may be killed: the daemon's loop goes round
for ever, so a state without a successor would be everybody waiting. In the
other runs the daemon may be dead, or the file is read, and the system stops. In
`libresb` the callers and the writer, in `relays` the programs may do nothing more.
In `libresb` four lines of the file are two sections with a key each, or a section,
its keys and the section again, which is the shortest way to split a queue over two
entries. Three cells are a first, a last and one between, and two values make duplicates; three
elements on two lists leave a list with two and another that is not empty. A
header and a longer body do not fit the kernel's room, so that both loops of
`nio.c` go round more than once, and four messages are a header and a body twice.

In `relays` two relays are one session and the pool that is empty behind it, so
that the second question is refused, or answered with relays of a session that is
over; two controls are one for the controller and one that a client's connection
goes through, and run out when both clients come. A kernel with room for 1 and
buffers of 2 make half writes, full buffers, and bytes that wait for the peer to
be started. A controller that has asked twice stays (the bound is in `Leave`); it
leaves after the first question or while it waits for the answer. The two clients
are interchangeable, so `relays` uses `SYMMETRY`.

The library knows a client by its sid and nothing else, and a sid is an index of the
pool. `NothingLostWhileUp` is therefore stated while no late client has been let in,
and `BytesInOrder` while in addition no client has come with a sid that another
client of the same answer was started with. The peer of a late client may belong to
another session by then, and a client that comes again with an old answer's sid
enters whatever session has that sid now: with 3 relays and 3 clients TLC finds the
bytes of both at a stranger. `relays` has too few relays and clients to show
either; `late_peer` shows where the first starts.
`relays_live` has one question, for the sake of the temporal properties; half
writes, resets, refused clients and the late one happen in it. Bytes go both ways
(2 and 1), so that a socket with a rest to be written is readable as well. The
programs of a run send finitely many bytes: `HalfWrittenGoesOut` lets the rest wait
for a program that sends for ever, and in the run there is none, so TLC shows that
the rest goes out once the input that comes first is read. `half_write` has a pass in
which the socket is reported writable and the rest does not go out.

`ShortWrites` is FALSE in `libresb`. A blocking `write()` returns less than it was
given only if a signal comes after a part was copied and the kernel has no room
for the rest. The programs install no handlers, so that signal is one that stops
and continues the process in the middle of a write longer than the socket's
buffer. With `ShortWrites = TRUE` TLC refutes `ReaderInStep` and
`WholeMessages`: `nio_writeblock` goes on with `L` bytes where `L2` are left,
reads past its buffer and puts bytes of nothing between two messages (listed
under `hazards`; no text in the repository promises otherwise).

### Fairness

Weak fairness for each process and for the clock: the daemon and every peer that
has connected are ordinary processes that the scheduler runs, and a step that
stays enabled is a system call that can return. Starting a server or a client,
killing anything and nothing else are left unfair. In `libresb` the reader is
scheduled and its `read()` returns when there is something to return; nothing is
asked of the writer, which may stand still for ever, and the thread that made a
call on a list goes on with it.

`Nio2` assumes more, and names it in `Fairness`: the daemon's thread goes on
(`LoopGoesOn`, which is weak fairness of its steps in a form that TLC evaluates
quickly); a relay or a control that is ready again and again is among the events of
some `epoll_wait` (strong fairness of `Polls`: the kernel moves what it has
reported to the end of its ready list, and only `maxrelay` fit); the programs
read what they are sent; and a client that has connected sends its first bytes or
is gone. The last is an assumption about programs, not about this code: without
it `read_five_bytes` blocks the daemon for ever and `LoopReturns` is false.

### What was found

The six violation runs above (`stale_descriptor`, `over_request`,
`lost_request`, `borrow_factor`, `late_peer`, `half_write`), with the text they
contradict, are listed under `findings` in `PROJECT.json`. The last: `nioepoll` looks
at `EPOLLIN`, then goes on with the next event, so the `EPOLLOUT` of a relay that is
readable too is dropped. What its peer could write only in part stays in the buffer
for as long as the program it goes to keeps sending.

The models also contain, as the code does, some behaviour that no text promises
otherwise and no run calls an error:

- `init_params` sets the defaults again for every key of `[params]`, so that a line
  undoes all the lines before it, the working directory excepted.
  `ParamsFromTheFile` allows this: a parameter is what its own last line says or the
  default. No text says what several lines give together, and in the sample of the
  document and in the shipped file every line but the last one names a default or the
  working directory.

- `niogetpeer` marks the first idle relay before it looks for a second. With one
  left, that relay waits under a sid nobody was told and in no table: the pool is
  smaller by one for good.
- The event of a relay that was shut earlier in the same batch is looked at all
  the same, and with `EPOLLOUT` alone its `ev`, which is NULL, is followed
  (`StaleOut`).
- After a write that fails, `nioflush2peer` adds `cc`, which is -1, to `x2`.
- `nioasyncwrite` writes the reply at the back of the queue and takes off the one
  at the front. One question at a time hides it, and the comment at `nio2.c:1484`
  asks for that, so the controllers of `RelayNet` do so.
- What a client sent before its peer was started waits in the buffer until the
  client sends again, closes, or its peer's socket asks for it: starting the peer
  does not flush it. At its end of file what is left is tried once.

## What is proved

Every theorem below is checked to the last leaf and holds for every value of the
constants that the modules' named assumptions allow. An additional hypothesis is
named where there is one.

### The core

`BrokerProofs`, for every number of servers, clients, queues and descriptors:

- `Inductive`: `Spec => []IInv`.
- `TypeCorrect`, `BatchIsFresh`, `HeadersDoNotBlock`: the type invariant,
  `EventsFresh` and `NeverWaitsForAHeader`, which `IInv` contains.

The argument. Neither of the last two is inductive alone. `EventsFresh` needs
that a descriptor has at most one event in the batch and that every event names
an open one (`BatchOK`), that `accept()` only hands out free descriptors and a
connection has exactly one descriptor (`FdTableOK`), and that the descriptor
being served has no event left, so closing it disturbs no other (`ServingOK`).
`NeverWaitsForAHeader` needs in addition that a peer never takes back what epoll
reported: data, an end of file or a reset on an established connection stays
(`PeerKeepsReadable`), and a connection in the backlog leaves it only by
`accept()`. `CheckingOK` says that requests to servers happen with an empty
batch, a non-empty list and, while an answer is awaited, an open descriptor;
`StartedUnlinked` keeps `connect()` away from connections in use.

The proof follows the code: `OneFd(f)` says what the calls of a handler on
descriptor `f` may change, each kernel operation is shown to be one
(`ReceivedOneFd`, `WrittenOneFd`, `ClosedOneFd`, ...), and one lemma shows that
any `OneFd` step preserves the batch (`OneFdKeeps`). Steps of servers and
clients are reduced in the same way to `PeerNet` (`ServerStepEffect`,
`ClientStepEffect`, `PeerStepKeeps`).

`StreamProofs`, whoever is killed and whenever:

- `StreamsInductive`: `Spec => []StreamsOK`.
- `AlwaysFramed`, `AlwaysRegisteredOnce`: `Framed` and `RegisteredOnce`.

`Framed` looks at the next item of a stream; what makes it true is the whole of
what may be unread (`Shape`), together with the step the daemon is at (`Mode`),
the step the server is at and the number of messages the server has not read
(`Consistent`). The stale descriptor makes this long. A server on the list may
die, and another may be accepted on its descriptor and be sent a boot request
before its registration is read. The daemon then takes that registration for the
answer, and the server takes the request for its acknowledgement; both stay in
step, since each side's messages are a header and a text, and since every message to
a server reads as `BROKER_OK`. `Fresh` has the states before the registration is
read, by whichever call, `Late` those after it. `RegisteredOnce` needs
`ListedInStep`: a server that is on the list has no registration left to be read.

The second part of `StreamProofs`, provided that no server is killed (`NoServerKilled`; clients and the
daemon may be):

- `AnswersInductive`: `Spec => []AnswersOK`.
- `AnswersMatch`, `ReadyAreRegistered`, `BootRequestsArrive`: `ReplyMatches`,
  `ReadyIsRegistered` and `BootReachesServer`.

The hypothesis is needed: as soon as one server may die all three are false, for the
reason that `stale_descriptor` shows. A boot request may reach another server, which
takes it for its acknowledgement and waits, unlisted, or a client, which takes it
for the header of its answer. When no server dies, the connection of a process
that lives is ended by the daemon only (`OpenWhileJoined`), so the descriptors
on the list stay those of their servers (`EntriesOpen`), epoll reports a hang-up of
killed clients only (`NoHangUps`), and no call of the daemon on a server fails
(`NothingFails`). A client is then at the place in its answer that the daemon is at
(`Answering`), or the connection is closed with some part of the right answer
under way (`Answered`). To a client that was killed the daemon may still write, even
with a SIGPIPE that kills it; nobody else's answer is touched.

### The configuration

`ConfProofs`, for any lines, any names and any length of file:

- `QueuesAreUnique` (`OneQueuePerName`). `get_queue_by_name` appends
  only what it did not find (`WithQueueOK`), and no key changes a name
  (`ConfiguredQueue`). `ConfTypeCorrect` (`ConfTypeOK`). In particular the two
  numbers of a borrow factor are always numbers, whatever `sscanf` did not reach.
  Both come from `CInv`, their conjunction, which is inductive.
- `ParamsComeFromTheFile` (`ParamsFromTheFile`) and
  `QueuesFollowTheFile` (`QueuesAsWritten`). The handler sees one line and what it
  has made so far; the properties look back over the whole file. Between the two
  stand `AtSection` (the section that the scan remembers is that of the last section
  line), and what is in force exactly: of `[params]` the last line and the last
  working directory, since every line sets the defaults first (`ParamsInv`), and of a
  queue what the last line with each key says (`QueuesInv`). The lines of one key
  are lines of its section (`OwnLines`), which is how the property follows. A last
  line exists since the file is finite (`LastOfSome`); one more line is the last one and leaves the sections of the
  others alone (`LastIsNew`, `SectionsStay`).

### The loops of `nio.c`

For any sizes, any room in the kernel and any number of messages, assuming
`~ShortWrites` (see Bounds):

- `NioTypeCorrect`: `NioTypeOK`.
- `ReaderStaysInStep`: `ReaderInStep`.
- `MessagesAreWhole`: `NioSpec => Whole!MsgSafe`, the safety part of
  `WholeMessages`: each step of the loops is a step of `Messages` or unseen.

The argument is `NioInv`: every message is one its predecessor allows
(`FollowOK`), messages lie one behind the other in the stream in their own bytes
(`LayoutOK`), the writer's locals say how much of the last is there
(`WriterOK`), and what the reader has is a prefix of what was begun, with its
place at the start of the next message plus what it already holds (`ReaderOK`).
`ReaderOK` needs `LayoutOK`, since the length of a body is read out of the
bytes before it; there it matters that a header carries its own length intact.

### `link.c`

`LinkProofs`, for any memory and any values:

- `LinkTypeCorrect`, `LinkNeverLeaks`, `LinkCounts`: `LinkTypeOK`,
  `NothingLeaksOrDangles`, `NumCounts`.
- `LinkImplementsList`: `LinkSpec => IsAList`, the refinement of `Lists`: each
  call of the code is one call of a sequence, or none yet.

`LinkInv` says that there is an order of cells that starts at the header and ends at
NULL, that the memory in use is those cells, and one more while `link_enque` looks
for the end, and where on the order the cursors stand: `p` somewhere and the new
cell aside (`Enqueing`), `q` one behind `p` (`Dequeing`), and no match before `p`
(`Searching`). The last is what makes `link_rm` take off the first match. The
sequence of the refinement is chosen, so the proof needs that there is only one
such order: two of them agree from the first cell on.

### `list.c`

`DListProofs`, for any heads and any elements:

- `DListInductive`: `DListSpec => []DListInv`.
- `DListBothWays`: `BothWays`.
- `DListImplementsDeques`: `DListSpec => AreDeques`, the refinement of `Deques`: each
  call makes of one sequence what it should, and the loop of `listfree` shows nothing
  until its head is gone.

`DListInv` says that every head and its elements are one circle over `forw`, the same
over `back`, of `num` elements (`RingsOK`), and that no element is on two
(`Apart`). Neither does without the other: an insertion or a removal writes at two
neighbours, and only because the circles are apart is it known that they are not
on another list (`OtherNodes`, `OthersStay`). `JoinedRing` and `TakenRing` follow the
assignments around the circle in the order of the code. They ask nothing
of the pointers an element keeps when it is off a list, so the element that
`listfree` hands to its caller may be gone when the loop goes on. As for
`link.c` the sequence is chosen, and two of them agree (`ForwardsIs`).

### The relay library: pools and sockets

`Nio2Proofs`, for any pools, buffers, room in the kernel and programs:

- `Nio2Inductive`: `Spec => []NioInv`.
- `Nio2TypeCorrect`, `PoolsAlwaysKept`, `SocketsAlwaysOwned`: `Nio2TypeOK`,
  `PoolsKept`, `SocketsOwned`.

`NioInv` has five parts. `PoolOK`: an active relay and nobody else has its
connection, the cache has the others, the table only those that wait. `ControlsOK`:
a control that is not in the cache has a connection that is up, and those with a
complete message, and no others, are listed. `OneOwner`: a connection that is up is
a relay's or a control's and never both. `BatchOK`: the event of a control
finds the control in use and its message incomplete, at most one per control. This
is what keeps a control from being listed twice, or freed twice. `LoopOK`: the
loop's own state; at `epoll_wait` every message has been taken off the list.

A relay's handler may shut its own relay, its peer and both, in any order, so the
handlers are followed function by function with one statement about connections,
`Moves`: a handler takes none that was not a relay's, touches none but the relays',
and closes those it gives up. A control's handler does the same to one connection
(`Served`). Only `niostartrelay` moves a connection from one side to the other
(`HandOver`): the control that it leaves and the relay that it gets are changed in
the same step, which is why `OneOwner` holds between steps.

### The relay library: sessions

`RelayProofs`, for the same instances:

- `SessionsInductive`: `Spec => []Sessions`.
- `NothingEverLost`, `BytesAlwaysInOrder`: `NothingLostWhileUp`, `BytesInOrder`.

What a client receives has passed through the hands of every part of the library: its
partner's bytes came through a control until the start message was complete, then
the connection was handed to a relay, and from there they go through a buffer that
takes what it has room for, into a socket that does the same. Meanwhile the relays of
other sessions are shut, handed out again and named by events of the same batch.
`Sessions` is `NioInv` and three layers, each under the condition it needs and no
more.

- `Basics`, always. All that a client has sent before its relay is started is in its
  connection and its control, and nothing has been sent to it (`ConnsOK`, `CtrlsOK`);
  a controller's headers announce no body, so it is never taken for a client; and a
  relay's client has sent its whole start message (`RelaysOK`). This is what makes
  the first byte behind the start message the first one that the relay reads.
- `InTime`, while no late client has been let in. A relay that is active, or whose
  client may still come, has a peer that names it back and was given out in the same
  answer (`PairsOK`); an event left over from a relay that has been shut names
  nobody that such a relay depends on (`PendingOK`); and what a client has sent
  behind its start message is what its partner was told, what the buffer has from
  `x2` on, and what is in the socket (`Flows`). `NothingLostWhileUp` is the last for two relays that are up.
  `PairsOK` is what a late client breaks: its relay is out of the cache with a peer
  that may be given out again.
- `Once`, while besides no client comes with a sid that another client of the same
  answer was started with. A ticket is a sid as one answer promises it. Whatever is
  on the way to a controller, was received by it or was brought by a client has its
  relay still waiting for it or serving it, or the client that had it is gone
  (`PromisesOK`); a relay's client has the ticket of that relay (`GrantedOK`); what
  anybody was told is a prefix of what the other client of its answer has sent
  (`DeliveredOK`), which outlasts the session. `BytesInOrder` is `DeliveredOK`.
  `ask` is what ties a ticket to its relay: sids are given again, questions are not.

The conditions look back: whoever is late, or has come again, stays so
(`late` and the tickets are never taken back), so a step that meets them started in a
state that met them.

The handlers of relays are taken function by function as in `Nio2Proofs`. `Moved` is
what none of them changes, with or without late clients; `Keeps` says that the
sessions stay as they are or end (`Fewer`), and that what was told was told by the
partner. Reading and writing only move the border between the buffer and what is told or
still unread (`Handing`). Shutting a relay shuts its peer in the same step
(`Parted`), which is why no live relay is left with a peer that has been
given away. A control's step changes one connection and one control
(`Controlled`). Only two steps make sessions: an answer takes two idle relays, which
nobody depends on (`Newly`), and a start message gives a client the relay that it
names (`Comes`).

### Only model-checked

Every invariant that a run checks is proved. What is not: the liveness part of
`WholeMessages`, and the other liveness and action properties under fairness
(temporal reasoning under fairness and ENABLED are beyond the prover). The
properties of the violation runs are false.

## What is not modelled

- In the client's call: an answer whose header announces no body, after which
  `nio_client_rw` returns with its socket open (`nio.c` 215). The daemon never sends
  a client one.
- In the configuration: lines longer than `INI_MAX_LINE`, which `fgets` splits,
  names longer than their buffers, and the length of a section (49 characters).
  A pair before the first section meets an uninitialised buffer; it is taken to
  name no section.
- In `nio2.c`: the TLS variants of accept, read and write, whose steps depend on
  what the TLS library returns (the plain paths through the same functions are
  modelled); `nioshutall`, which ends the process; the timers and blocking helpers
  that the loop does not call; failures of `calloc()`. The library is not listed
  in `lib/Makefile.am`, some headers it includes are missing, and the daemon
  that calls it is not in the repository: `Nio2` gives it one thread that does what
  the comments ask for between two passes.
- Controllers leave with an orderly close only, and neither a header nor a body that the
  library reads is cut off in the middle; a reply to a controller, which is small, is
  written by one `write()`.
- Text: replies are members of `Contents`; host names, logging, option parsing.
- Start-up failures of `nio_server_init`, whose result `main` ignores: the
  models start with a listening socket.
- Integer overflow in `get_num_machines`, and an unset variable when the
  simulation file holds no number (see the hazards).
- Branches the code has and no run reaches, since no sequence of calls leads
  there: a registration answered by something other than `BROKER_OK`, a request
  other than a boot request to a server, a reset met exactly by the write of a
  reply's header or of a registration's reply.

## Plan

1. *(done)* Connections, daemon, server, client, their composition, liveness,
   the inductive invariant and its proof.
2. *(done)* Configuration: the parser and its handler line by line, against what the
   file says; the borrow factor as the file writes it.
3. *(done)* The read and write loops of `nio.c`, with partial transfers, shown to
   implement the whole messages that `Sockets` moves.
4. *(done)* `link.c` as a heap, refining a sequence.
5. *(done)* `list.c` as a heap, refining sequences; the relay library: the pools, the
   buffers, the loop and its batches, late peers, and what the programs see.
6. Proofs. *(done)* Framing, registration and answers for every instance; the
   configuration against the file; types of the loops of `nio.c`; `link.c` refines
   its sequence and `list.c` its sequences; the pools, the sockets and the sessions
   of the relay library. Every invariant that a run checks is proved.
7. *(left)* An abstract session (two clients and what each has received) that `Nio2`
   implements as long as no late client is let in.
