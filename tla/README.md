# Verification of network_backend

TLA+ models of the networking library in this repository, the TLC runs that check them and the
proofs TLAPS checks. The library gives its user one interface (`Network`: `run`, `register_handle`,
`close_handle`, `send_data` and four callbacks) over several transports. The Posix backend is
complete enough to have a behaviour worth verifying, and nearly all of it runs concurrently: one
thread is inside the event loop, any others call the interface.

Paths below are relative to the repository; `network/` holds the headers, `src/` the sources.

## Inventory

| component | state it keeps | operations | what makes it correct |
|---|---|---|---|
| message framing (`networkPosix.cpp` 114-158, 273-308) | `buf_struct` of each connection; `current_pos`, `bytes_recv` of a call | the two `send()` of `send_data`; `on_data` | each message reaches `on_data_cb` once, whole, in order; no access leaves the buffer; nothing spins |
| `Eventloop` (`eventloop.h`, `eventloop.cpp`) | `m_polled_fids`, `m_open_fds`, `ev_should_stop`, epoll's lists, the batch `m_events` | `register_fd`, `remove_fd`, `evloop_run`, `stop` | its tables agree with the kernel; an event meets the context registered for it; hang-ups are reported once; nobody starves; it ends after `stop` |
| `EvSignal` (`eventloop.h` 61-115) | an eventfd and a callback | constructor, `fire`, `exec`, `exec_once`, destructor | a fired signal is executed; nothing but its own descriptor is closed |
| send path (`networkPosix.cpp` 166-192, 234-308) | `m_connection_map`, `m_send_mutex_map`, `m_buf_map`, the sockets in handles | `send_data` with its three branches, `send_connect` | header and payload stay together; a message goes to the peer its handle names; no sender waits for ever |
| connection lifecycle (`networkPosix.cpp` 22-100, 194-231) | the same maps, `m_lsockets` | listen, accept, hang-up, `close_handle`, destructor | maps and event loop know the same connections; a failed step leaves nothing behind |
| Libfabric backend (`networkLibfabric.cpp`) | `m_lsockets`, `m_ssockets`, `m_send_domain` and its counter, event queues in the loop | constructor, `register_handle` with `init_listen`, `init_send`, `connect_endpoint`; `on_listen_socket_cm_event`; `run`, destructor. `send_data`, `close_handle` and the rest are empty | what the loop watches is initialised to the end; an address gets one attempt, whose outcome is final |
| UCX backend, `Network::create`, `EvTimer`, logger | none, or output only | | |
| ping-pong example (`ping_pong.h`, `main_ping_pong.cpp`) | server or client, their backend | constructor (listen, or connect and send), `on_data` | the two take turns, and the exchange goes on |
| unit tests (`unit_tests_posix.cpp`) | | use the interface | say how the library is meant to be used |

How they interact: the event loop calls `on_connection_request`, `on_data` and
`on_connection_closed` of the backend, which call the user's callbacks in the same thread; these may
call `send_data`. Other threads call `send_data`, `register_handle` and `close_handle`; they share
with the loop's thread the three maps (guarded by `m_mux` only where they are written), the tables
of the event loop (guarded by `m_fd_mutex`), the send mutexes and, through the kernel, the
descriptor numbers, which are handed out again as soon as they are closed.

The hard behaviours are: byte streams cut anywhere; send buffers that are nearly full; hang-ups that
overtake unread data; batches of events whose handlers invalidate each other; numbers and memory
used again; lookups repeated inside one call; first uses that race; chains of calls of which any may
fail, and failures that are logged and forgotten, as when epoll refuses a descriptor; descriptors
that run out; buffers that are full for ever. `PROJECT.json` lists them line by line under "hazards".

## Modules

| module | models | state and actions |
|---|---|---|
| `MessageChannel` | what a user of `Network` expects of one direction of a connection | `sent`, `received`; `Send`, `Deliver` |
| `Framing` | one direction of one TCP connection | A byte is its position in the stream, so no contents are modelled. `SendHeader`, `SendPayload` are the two `send()` under the mutex; `Arrive`, `ArriveFin`, `ArriveReset` the network; `Recv` is `on_data` up to its loop, and `ShortHeader`, `Incomplete`, `Callback`, `Drained` are its branches. `Return` is what `evloop_run` does afterwards. |
| `MessageStreams` | what the users of `send_data` expect of all connections together | `issued`, and of each connection the messages that are `whole` and the one that is `partial`; `Issue`, `Open`, `Begin`, `Complete` |
| `EventLoop` | `Eventloop` and `EvSignal` over epoll | A descriptor is a number, what is behind it a file with an identity. `polled` maps numbers to node addresses, `mem` says what an address holds, also after it was erased. `RegisterFd` may be refused by epoll; what then has a node and is not watched is `Refused`. `EpollWait` fills a batch, `OnData`, `Accept`, `Exec`, `ExecOnce`, `PeerClosed` handle its head, and `remove_fd` is two steps (`close`, then the rest) under the mutex. A connection may become `full`: from then on its `OnData` takes nothing. Threads create, register, fire, destroy and remove. |
| `SendPath` | `NetworkPosix` as a sender | Every lookup, lock and `send()` of `send_data` is a step: `Start` (`count()`), `Find` (`find_if()`), `TakeKey`, `FindMutex`, `InsertMutex`, `Lock`, `SendHeader`, `SendPayload`; `Connect`, `ConnectFails`, `Store`, `Register` are `send_connect`; `RegisterFd` makes a descriptor `registered` or, when epoll refuses it, `neglected` (`Polled` is both); `Accept`, `StoreAccepted`, `PeerClosed`, `DropEntry`, `Remove` are the loop's thread; `on_connection_closed` finds its entry in one step and erases it in another, as the code takes `m_mux` in between. Refines `MessageStreams` |
| `Closing` | the life of `NetworkPosix`'s sockets | The application's thread makes a socket (`Make`), fails (`Fails`) or goes on (`Listen`, `Connected`, `Register`); `close_handle` is `CloseHandle`, `RemoveListener`, `ForgetListener`, `MakeSignal`, `Fire`, `DestroySignal`; the destructor is `Destroy`, `RemoveNext`. The loop's thread takes an event (`EpollWait`) and handles it (`Accept`, `AcceptFails`, `PeerClosed`, `ExecOnce`), also when its context has been freed meanwhile (`FreedContext`). `Register`, `Accept` and `MakeSignal` go through `RegisterFd`, which epoll may refuse (`neglected`). |
| `PingPong` | the example, `Framing` under it | extends `Framing` for the direction to the server; the answers are a `MessageChannel` (`Back`), which `Framing` implements when one message is under way at a time. `ServerAnswers` is `Framing`'s `Callback` together with the `send_data` the example's `on_data` does in it; `ClientStarts`, `ClientAnswers` begin a frame; `Link(...)` is what the client's thread and the network do to the connection |
| `Registration` | what `register_handle` of the Libfabric backend amounts to | `status` of each key; `Settle` |
| `LibfabricInit` | the Libfabric backend | An initialisation is a sequence of library calls (`ListenCalls`, `SendCalls`), of which the next `Succeeds`, `Fails` or `Crashes`; an entry of the maps is the set of calls that succeeded for it. `Begin` is `register_handle` of an unknown key, `Exists` of a known one, `Register` the `register_fd` at the end of both chains, which epoll may refuse. `Raise` and `OnListenSocketEvent` are the library's events and their callback; `Run`, `LoopEnds`, `Destroy` the loop and the destructor. Refines `Registration` |
| `Erasing` | `v.erase(std::remove(...), v.end())`, used by `EventLoop` and `Closing` | `Without(s, S)` as a recursive function |
| `FramingProofs`, `PingPongProofs`, `EventLoopProofs`, `ClosingProofs`, `SendPathProofs`, `StreamProofs`, `LibfabricProofs`, `ErasingProofs` | | the theorems about `Framing`, `PingPong`, `EventLoop`, `Closing`, `SendPath` (both of its modules), `LibfabricInit` and `Erasing` |
| `MCFraming`, `MCPingPong`, `MCEventLoop`, `MCClosing`, `MCSendPath`, `MCLibfabricInit` | | what TLC needs besides: symmetry, sets of addresses |

`SendPath` takes `send()` to accept everything and the event loop to be a set of descriptors;
`Framing` takes the send mutex to exclude (its `sending`) and each event to be handled on its own;
`Framing` and `PingPong` are about a connection that epoll watches. `EventLoop` lets one `on_data`
take what has arrived, as its one `recv` does when there is room: what is more than that counts as
an arrival of its own; without room (`full`) nothing is taken. `Closing` takes `register_fd` and
`remove_fd` to be single steps, which `loop_tables` shows for whoever looks outside `m_fd_mutex`.
`send_threads`, `loop_events` and `framing_*` check the parts of each other these simplifications
stand for.

Operators named "Mutant" in a comment are plausible mistakes in the code. They are used by no
specification; replacing the definition beside them shows that the runs would notice.

### Decisions worth knowing

* **Header.** `snprintf("%zu")` into `HeaderSize` bytes keeps `HeaderSize - 1` digits. `Printed` is
  the number that is left, in base `Radix`; the runs use two bytes and base three, so a size of three
  is already too long. `HeaderLimit` is the constant `Radix^(HeaderSize-1)`, given apart so that
  proofs need no powers.
* **Misread headers.** If the bytes at `current_pos` are not one header, `strtol` may return anything
  of `Garbage`. The proofs hold for every set of numbers; a size of the model is never negative, as
  `msg_size` is unsigned (a negative number would be a huge one, and is then incomplete).
* **What strtol reads.** It has no length (line 140) and stops at the first byte that is no part of a
  number: in a header that is one of its own bytes, elsewhere it may be any byte from there to the
  end of the buffer and beyond. `Scanned` is the set of bytes it may look at.
* **Refused descriptors.** `epoll_ctl` may refuse to watch any descriptor (out of memory or of
  watches), and `register_fd` then logs and returns: the node stays in `m_polled_fids`, the
  descriptor does not come into `m_open_fds`, and the caller goes on as if nothing had happened.
  Every module in which `register_fd` is called has this outcome at every call (`Refused` in
  `EventLoop`, `neglected` in `Closing`, `SendPath` and `LibfabricInit`). Nothing ever removes such a
  descriptor: `remove_fd` knows what is in `m_open_fds` only, and no event reports its end.
* **Freed contexts.** Reading an erased node gives what it held until its address is used again.
  Other contents are possible in a build; all properties are about never reading one.
* **Racing insertions** into `m_send_mutex_map` are undefined behaviour; the outcomes modelled are
  those in which the program survives: the other thread's node is found or is replaced.
* **A null handle.** `close_handle` gives its signal no data, so `close_handle_ev` reads through NULL:
  `ExecOnce` of `Closing` ends the process, and what follows in `close_handle_ev` is never reached. A
  freed context of a listening socket either still works or ends the process.
* **Nothing ends the loop** of the Posix backend: only Libfabric's destructor calls `stop`. So
  `Stop` and `Exit` of `EventLoop` are about the class `Eventloop`, and `Destroy` of `Closing` is for a
  backend whose loop does not run, as in the unit tests.
* **Number 0.** `operator[]` on an erased entry of `m_connection_map` yields descriptor 0, which is
  not a connection: `send()` fails there.
* **Lost sockets.** A `connect` that is refused and one that is in progress when it is given up leave
  the same thing behind in this process: a descriptor in no table (`"failed"`). Which of them the
  kernel completes later is not told apart.
* **Libfabric's unfilled members.** `fi_fabric` and `fi_domain` are given the address of a local
  pointer, so they replace that pointer and `m_fabric`, `m_send_domain.fabric` and `.domain` stay as
  they were. Calls through them (`Undefined`) may succeed, fail or end the process. The same holds
  for `hints.ep_attr` in the constructor and for what the loop uses after the destructor.
* **register_handle** of a remote address has no local ip, and `inet_pton` of an empty string leaves
  `sin_addr` uninitialised, so it connects to an arbitrary ip (`Destination`).

## Runs

Passing:

| run | question | bounds |
|---|---|---|
| `framing_pingpong` | the example over the framing: do the two take turns, and does the exchange go on? Is one message under way at a time, and does the framing then implement `MessageChannel`, lose nothing at an orderly close, deliver every whole message and never spin? | 3 messages of 0-2 bytes and their answers, buffer of 5, kernel buffers of 3 (so payloads are cut by `send()`) |
| `framing_pipelined` | are the accidents named in `Intact` the only ones? Does every copy and index of `on_data` stay in its buffer whatever it reads, and does `strtol` stay within the bytes received as long as no accident happened? | 3 messages in flight, kernel buffers of 6: headers are cut and torn |
| `loop_tables` | do the tables agree with epoll, in every interleaving and whatever epoll refuses? | 2 threads, 2 numbers, 3 files, all kinds, late destructors, listeners closed by threads |
| `loop_events` | is each event handled with its own context and each hang-up reported once; are hang-ups removed, requests accepted when a descriptor is free again, signals executed, and does `stop` end the loop unless something nobody drains keeps it busy? | 1 thread, 3 numbers, batches of 2 (so one of three ready descriptors can be passed over), 3 files made and 1 arrival, also when all numbers are in use; no removal by threads |
| `closing_handles` | does every close hit what it was meant for, is `m_lsockets` right, is nothing lost but through a failure (of `bind`, `listen`, `connect`, or of epoll to watch it), and does the destructor leave nothing registered? | 2 handles to listen, 1 to connect, 1 peer, 3 numbers for 5 files |
| `send_threads` | do frames stay whole and go to their peer, if that has the handles' own ip, each into one connection and once (`ImplementsStreams`)? | 2 threads and the loop, 2 addresses, 4 calls, refusals; one first send per address at a time (`FirstAlone`) |
| `send_server` | does the map know exactly the live connections, those epoll refused included, when only callbacks send? | 2 numbers for 4 connections, 2 clients that hang up and come back, 3 replies |
| `send_live` | does every `send_data` end, and are the only sockets lost those whose `connect` failed or that epoll refused? | 2 threads and the loop, 2 calls, everything allowed |
| `libfabric_init` | is every socket the loop watches initialised to the end, is every listening one watched unless a call or epoll refused, is each key's one attempt final? | 2 handles to listen, which share a port, and 2 to send; every call may fail; 2 events; modes TCP and RDMA |

Fewer numbers than files over a run (`loop_tables`, `closing_handles`, `send_server`) make the
kernel hand a number out again; three messages make a torn header, a following message and its
consequences; two senders and the loop are all the roles there are. Steps the application starts
with stop at the bound, so `CHECK_DEADLOCK FALSE` is set everywhere: the application may stop
calling.

Failing, each a disagreement between the code and a comment, a message or a test (quoted in
`PROJECT.json` under "findings"):

| run | property | what happens |
|---|---|---|
| `framing_torn_header` | `InOrder` | `pos = bytes_recv` (line 137) counts consumed bytes, so a header torn behind a whole message is read from the wrong place |
| `closing_connection` | `ConnectionClosed` | `close_handle` destroys its signal, which epoll watches, before the loop has seen it, and the connection stays open |
| `send_first_sends` | `FramesWhole` | two first sends at once: the map's entry changes between header and payload |

### Known deviations

What else the models show when a passing run is given the constants it avoids. No run is kept for
them; the right column says what to change.

| code | what happens | how to see it |
|---|---|---|
| `networkPosix.cpp:278` | a size of 10^7 or more loses its last digits in the header, and the callback gets a prefix of the message | `framing_pingpong` with `Sizes = {1, 4}`, `BufferSize = 8`, `Capacity = 8`: `InOrder` |
| `networkPosix.cpp:141` | a message that does not fit the buffer with its header is waited for for ever, and the loop spins | `framing_pingpong` with `BufferSize = 3`: `EventuallyDelivered` |
| `networkPosix.cpp:141` | such a message fills the buffer, and the descriptor is ready for ever: `stop` does not end the loop | `loop_events`: `StopEnds` without the last line of `Undrained` |
| `networkPosix.cpp:140` | after an accident the bytes at `current_pos` need not end the number: `strtol` reads past the bytes received, and past a full buffer | `framing_pipelined`: `BufferBounds` without `Intact` |
| `eventloop.cpp:38` | a descriptor that epoll refuses is forgotten by everyone: its requests, data and hang-ups are not seen and nothing closes it; a listening socket stays in `m_lsockets` (pushed before, line 52 of `networkPosix.cpp`), a connection in the map | `closing_handles`: `ListenersKnown` with `openFds` alone in its second line; `send_server`: `MapMatches` with `registered` for `Polled` in its last line |
| `eventloop.cpp:82` | after one read of one buffer the descriptor of a closed connection is removed, whatever is unread | `framing_pipelined` with `BufferSize = 4`, `Capacity = 20`: `HangupLosesNothing` |
| `networkPosix.cpp:280` | `send()` takes a part of a header, then the whole payload: `send_data` reports full success for a message nobody can parse | `framing_pipelined`: `Intact` fails in this way |
| `eventloop.h:101` | `exec_once` has removed the signal's descriptor, the number is handed out again, and the signal's destructor closes it | `loop_tables`: `Destroy` is reached with another file behind `sig[t].fd` than `sig[t].file` |
| `networkPosix.cpp:197` | a loop that does see the signal of `close_handle` reads its handle through NULL | `closing_handles`: `ExecOnce` is reached |
| `networkPosix.cpp:214` | a listening socket is removed while its event waits in the batch, whose context is freed | `closing_handles`: `FreedContext` is reached |
| `eventloop.h:71` | nothing reads the eventfd of a repeating signal, so the loop is never without events and `stop` does not end it | `loop_events` with `Made = {"signal"}`: `StopEnds` without the second line of `Undrained` |
| `networkPosix.cpp:63` | `accept` without a free descriptor leaves the request pending: the loop spins and `stop` does not end it | `loop_events`: `StopEnds` without the first line of `Undrained` |
| `networkPosix.cpp:41`, `:250` | a socket whose `bind`, `listen` or `connect` failed is never closed | `closing_handles`: `Fails`; `send_live`: `ConnectFails` |
| `networkPosix.cpp:94` | `on_connection_closed` erases an entry that now belongs to a new connection of that port | `send_live`: `DropEntry` is reached with `connMap[pos] # own[Loop]` |
| `networkPosix.cpp:285` | two first senders on an accepted connection make two send mutexes | `send_threads` with `Remote <- None`, `Client <- Here1`, `MaxAccepts = 1`: `FramesWhole` |
| `networkPosix.cpp:268` | a client connection's entry outlives its descriptor, whose number is used again between header and payload | `send_threads` with `Remote <- Here1`, `Client <- There2`, `Events = {"hangup"}`, `MaxAccepts = 1`: `FramesWhole` |
| `networkPosix.cpp:257` | of two connections to one address the map knows one; a handle with the socket of the other makes `send_data` connect again | `send_first_sends`: `SocketIsKnown` |
| `networkUtilities.h:27` | addresses are compared by port only, so a message goes to another host's connection | `send_threads` with `Remote <- Here1`, `Client <- There1`, `MaxAccepts = 1`: `RightPeer` |
| `networkPosix.cpp:243` | the handle's local ip is the destination of `connect` | `send_threads` with `Remote <- There1`: `RightPeer` |
| `networkLibfabric.cpp:215`, `:222` | a socket that failed keeps its entry, so registering it again only logs that it exists | `ImplementsRegistration` states it: "dead" is final |
| `networkLibfabric.cpp:349` | `nb_sockets > 1` skips the domain for the first send socket and opens one for each later one (and `m_send_domain.domain` is never filled by it, 356) | `libfabric_init`: an entry is reached that has "endpoint" and not "domain" |
| `networkLibfabric.cpp:374` | the line after the `if` is its body: the context is assigned only when `FI_GETWAIT` fails, so descriptor 0 is registered and the queue's is not | `libfabric_init`: `Stdin \notin watched` fails |
| `networkLibfabric.cpp:442` | `FI_GETWAIT` fails after `fi_listen`: the socket listens unwatched | `libfabric_init`: second part of `WatchedIsComplete` with `{"listen"}` alone |
| `networkLibfabric.cpp:107`, `:139` | a connection request is read and dropped; `FI_CONNECTED` and `FI_SHUTDOWN` end the process | `libfabric_init`: `OnListenSocketEvent` |
| `networkLibfabric.cpp:202` | the destructor does not wait for the loop | `libfabric_init`: `LoopEnds` is reached with `pc = "gone"` |

Seen while reading and outside what a model here tells apart: `init_send` gives `fi_getinfo` the
local ip and a byte-swapped port (`networkLibfabric.cpp:338`), the hints of `init_listen` leak on
every early return, the first ping-pong message sends 21 bytes of a 10-byte string
(`ping_pong.h:41`), and the constructor of `NetworkPosix` sets the log level after the application
did (`networkPosix.cpp:16`).

### Fairness

`Framing!FairSpec`: the loop runs when its descriptor is ready (level-triggered epoll), a thread
inside `send_data` goes on (its sends do not block), the network delivers what it has accepted.
Nobody has to send or to close. `EventLoop!FairSpec`: the loop's thread runs, and a thread inside
`register_fd` or `remove_fd` gets on with it, as `m_fd_mutex` is held for a few system calls only.
`Closing!FairSpec`: a call that was begun goes on, and a loop that runs handles events.
`SendPath!FairSpec`: each thread goes on inside a call, and the loop's thread runs.
`PingPong!ExchangeSpec`: both threads run, both loops handle what is ready and the network delivers;
the client may go away or be reset at any time, and `GoesOn` says what may end the exchange. Weak
fairness is enough because the number of calls is bounded; with unbounded contention the send mutex
would have to be fair. Liveness is conditional where the code needs it. The loop ends only after a
wait without events, so `StopEnds` holds unless something `Undrained` is there for ever: a request
that finds no descriptor, a repeating signal, which nobody reads, or data for a full buffer. And
`OnceExecuted`, `RequestsServed` and `HangupRemoved` are about what epoll watches.

## Proofs

TLAPS proves every safety invariant, the action property and the three refinements that the passing runs
check, for all values of the constants that satisfy the module's assumption; where a property needs
a way of using the code, that is a named hypothesis of the theorem, and the run's constants satisfy
it.

### Framing

`FramingProofs`, under `FramingAssumption` (sizes of header and buffers, message sizes, what garbage
may be, window, bounds):

* `FramingTypeOK`: `TypeOK /\ IndexBounds` is inductive as it stands. `bytes_recv` never exceeds the
  buffer and `current_pos` never exceeds `bytes_recv`, whatever the stream holds, so no misread header
  makes `recv`, a copy or the callback's message leave the buffer.
* `FramingInvariant`, `FramingIntactInOrder`: `IntactInOrder` says nothing about the buffer, so it is
  not inductive. `FramingInv` adds `StreamInv` (frames lie in the stream without a gap, the last may
  be growing) and `ReceiverInv` (the buffer holds the stream from the first byte no message has
  consumed), both under `Intact`. The heart is `CallbackReceiver`: the bytes at `current_pos` are the
  header of the next message and of no other.
* `FramingBufferBounds`: `BufferBounds` adds what `strtol` reads, which has no bound of its own. It
  stays within the bytes received while `Intact` holds, because there is then a whole header to
  stop in (`HeaderComes`); so this needs the invariant about the stream, not only the indices.
* `FramingPingPong`, `FramingPingPongInOrder`, `FramingImplementsChannel`: under `PingPongUse` (one
  message at a time, and `HeadersFit`: a header fits the kernel's buffers, sizes fit the header) a
  header is sent only when everything before it was consumed, so it is accepted whole and no header
  is torn; hence `Intact` always, hence `InOrder`, and every step is a step of `MessageChannel` or a
  stutter.
* `FramingHangupLosesNothing`: under `PingPongUse` and `MessagesFit` (a message fits the receive
  buffer with its header; without it the property is false, see Known deviations). `evloop_run`
  removes the descriptor after one `on_data`, that is one `recv`, so what has to be shown is that
  this one takes all there is: what is unread when the FIN has come is part of one message
  (`UnreadFits`), and `HangupInv` carries it through `on_data`'s loop.

### Ping-pong

`PingPongProofs`, under `HeadersFit` alone: neither the window nor anything else of the framing's
constants keeps the example to one message at a time, the example does.

* `PingPongInvariant`, `PingPongAlternates`: `ExchangeInv` is `Alternates`, `SaidInv` (words, answers
  and what was heard correspond one to one) and the invariants of the framing. They need each other:
  the server's answer depends on what the framing hands to its callback (`ServerSaid`), and the
  framing delivers because the client waits for the answer (`ExchangeOneAtATime`).
* `PingPongImplementsChannel`, `PingPongHangupLosesNothing`: the same as for the framing, now for the
  example, as the run checks them. `ExchangeFrames`: each step of the example is a step of the
  framing or leaves it alone.

### Event loop

`EventLoopProofs`, under `EventLoopAssumption`:

* `EventLoopInvariant`, `EventLoopTypeOK`, `EventLoopBookkeeping`, whatever threads register, fire,
  destroy and remove. `Bookkeeping` is not inductive: it looks at the tables only while nobody is in
  `register_fd` or `remove_fd`. Between the two halves of `remove_fd` the descriptor is closed but
  still in the tables, and its number may already be somebody else's. `LoopInv` therefore says what
  holds of `Live` descriptors (those of `m_open_fds` no half-done `remove_fd` is about) and of `Known`
  ones (the same of `m_polled_fids`, which has the refused ones besides), that a number being made
  is its maker's alone (`MakingInv`), and who holds `m_fd_mutex` (`LockInv`).
* `EventLoopOwnContext`, `EventLoopToldOnce`, when no thread removes descriptors (`Removing = {}`, as
  in `loop_events`; a removal by another thread can free the context of an event that waits in the
  batch). Then only the loop removes, and only the file of the event at hand; `BatchInv` says that
  the events of a batch are of different files, so the others keep their addresses. `ToldInv` relates
  the calls of `on_closed_cb` to the connections that are closed.

### Opening and closing

`ClosingProofs`, under `ClosingAssumption`, whatever epoll refuses. `ClosingInv` has the conjuncts
`FilesInv` (what a file was made for; a file has one descriptor), `OwnInv` (what the application's
thread makes is its own until `register_fd`, after which it is watched or refused), `EventInv` (what
the loop's event is about), `HandleInv` and `ListInv` (the handles' sockets and `m_lsockets`, step
by step through `register_handle` and `close_handle`), `OffInv` and `DestructInv` (while no loop
runs, and in the destructor).

* `ClosingTypeOK`, `ClosingListenersKnown`, `ClosingOnlyFailuresLeak`, `ClosingNothingLeft`: the
  invariant implies each. The second and the fourth look at the state between calls, and
  `close_handle` and the destructor are many steps, so the rest of `ClosingInv` says what holds at
  each of these.
* `ClosingClosesOwn`, an action property: every `close` hits the file it was meant for, though the
  numbers are handed out again.

`ErasingProofs` has `WithoutRange` and its companions, which these proofs and those of the event loop
use: induction over a recursive function, for which a predicate is the set of the numbers that
satisfy it, as the library's induction theorems take an operator.

### Send path

`SendPathProofs`, under `SendPathAssumption`:

* `SendPathInvariant`, `SendPathTypeOK`, `SendPathHasBuffer`, `SendPathOnlyFailuresLeak` for every
  use. `SendInv` says of each open descriptor who has it: it is watched by the loop, or epoll refused
  it, or it is being made by exactly one `send_connect`, or its `connect` failed. `ApartInv` says that
  no descriptor is both watched and refused.
* `SendPathMapMatches` under `ServerUse`, which is what `send_server` does: no threads but the
  loop's, clients that differ in their ports (addresses are compared by port). `ServerInv` says what
  the map holds also in the middle of accepting and dropping a connection. A connection that epoll
  refused stays in the map as well, since its end is not reported; so the map is compared with
  `Polled`, not with what is watched.
* `SendPathSocketIsKnown` under `ServerUse` or `ThreadsUse`. The latter is what `send_threads` does:
  any number of threads send to addresses that differ in their ports, no peer connects or hangs up,
  no handles of remote addresses are registered, and a first send to an address is done before
  another starts.
* `SendPathFramesWhole`, `SendPathRightPeer` under either, by `SendPathStreams`. `RightPeer` needs
  `RemoteIsLocal` as well: every address sent to has the handles' own ip. `send_connect` connects to
  that ip whatever the address says (line 243), so for any other address the message goes to a
  connection with the right port on the wrong host, and `RightPeer` is false (Known deviations).
  What holds without it is `PortPeer`: a message goes to `Reached` of its port. `send_first_sends`
  shows that without the last condition of `ThreadsUse` `FramesWhole` is false, and Known deviations
  what happens without the others. `StreamsInv` says what the streams look like; that a part keeps it
  so follows from `SendsTo` alone: its sender knows the right connection and nobody else is between
  its own two `send` calls there (`PartSent`). The two uses have this for different reasons:
  * under `ThreadsUse`, `UseInv` says that the map, once it knows an address, never changes its mind
    (`UseMap`), that a descriptor has one send mutex, owned by the sender that is between its two
    `send` calls (`UseMutexes`), and what each sender has looked up so far (`UseSenders`); from it
    follows `Exclusive`: one sender at a time is between lock and unlock of a connection;
  * under `ServerUse` the loop is the only sender, but connections come and go and their numbers are
    used again. `ServerSending`: the descriptor a callback answers on is still the connection the
    message came from, as only the loop itself could drop it.
* `SendPathImplementsStreams` (in `StreamProofs`) under either: the send mutexes and the maps
  implement `MessageStreams`. That frames are whole does not say that a call sends but once, so there
  is one more invariant, for every use: `OnceInv`, a call under way is its sender's alone and nothing
  of it has been sent before its payload is due. `StepKinds` says of every step that it
  changes nothing that shows in the streams, makes a connection, begins a call or sends a part; each of
  these is an action of `MessageStreams` or, as when `send()` fails, a stutter.

### Libfabric

`LibfabricProofs`, for every set of handles and modes and any number of events
(`LibfabricAssumption`: a handle has an address):

* `LibfabricTypeOK`: `TypeOK` is inductive; it includes that `register_handle` works on an entry that
  exists.
* `LibfabricWatchedIsComplete`: `WatchedIsComplete` looks at sockets whose chain is over, so it is not
  inductive. `WatchedInv` adds what a chain that is not over has still to do: `ListenChain` (a call of
  `init_listen` is done or to do, and `FI_GETWAIT` is the last) and `SendChain` (nobody asks for the
  descriptor of a queue before the call that opens it), and that a chain which came to its end left
  its key in `watched` or, refused by epoll, in `neglected`. `SendCallsFacts` says of every position of
  the chain of `init_send`, with or without a domain, what `SendChain` needs.
* `LibfabricImplementsRegistration`: each step changes the status of at most one key, and only from
  "new" (`OneSettles`); a step outside the chains changes none, or settles the key of the chain that
  the end of the process cuts off.

### Only model-checked

Liveness, everywhere: `EventuallyDelivered`, `NoBusyLoop`, `GoesOn`, `HangupRemoved`, `RequestsServed`,
`OnceExecuted`, `StopEnds`, `SendReturns`. It rests on fairness, and so on `ENABLED`, which are
outside the prover's reach. The three disagreements are counterexamples TLC finds; that a property
fails needs no proof.

## Not modelled

The UCX backend, `EvTimer` and Libfabric's `send_data`, `close_handle`, `handle_connreq`,
`register_buffers` and `on_send_socket_cm_event` are empty functions; `Network::create` is a choice
of a constructor. The logger (`log.c`) and the test framework (`catch.hpp`, 17975 lines, most of all
the lines there are) are copies of other projects and carry none of this program's logic.

Signals of the operating system (`SIGPIPE` on a dead connection, `EINTR`) and the exit of the
process on a failing `epoll_wait`. The contents of messages. Callbacks that are not set
(`on_data_cb` is called without a test). What follows `epoll`'s own number being used again after
the loop has ended. What Libfabric does inside a call.

## Plan

Done: the framing, the event loop, opening and closing, the send path, the Libfabric backend and the
example over the framing are modelled and checked, and their safety properties proved. What is left
out above has no state of its own. What remains worth doing:

1. `FramesWhole` for threads and accepted connections together. `ThreadsUse` cannot simply admit peers
   that connect: an accepted connection has no send mutex before the first message goes into it, and
   two threads that answer on it may each make one (`networkPosix.cpp:285`, Known deviations). What
   could hold is a use in which only the loop answers on accepted connections, and ports of peers are
   no address threads send to.
2. Show that the other simplifications between the modules (end of Modules) are refinements: the send
   mutex is done (`MessageStreams` lets one message at a time into a connection, as `Framing` does with
   `sending`); the event loop that `SendPath` and `Closing` take for a set of descriptors is not.
