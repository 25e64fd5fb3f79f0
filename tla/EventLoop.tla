----------------------------- MODULE EventLoop ------------------------------
(***************************************************************************)
(* class Eventloop and class EvSignal: one thread waits on an epoll        *)
(* descriptor and runs the callbacks of the descriptors that are ready,    *)
(* other threads register and remove descriptors, fire signals and ask the *)
(* loop to stop.                                                           *)
(*                                                                         *)
(* A descriptor is a number that the kernel hands out again after close(); *)
(* what is behind it is a file, numbered in the order of opening.  The map *)
(* m_polled_fids holds the contexts, and epoll holds the addresses of its  *)
(* nodes.  A node that was erased keeps its contents until the address is  *)
(* used again, which is what reading freed memory gives when the program   *)
(* survives it.                                                            *)
(***************************************************************************)
EXTENDS Integers, Sequences, FiniteSets, Functions, Erasing

CONSTANTS
  MaxFd,      \* descriptors of the process are 1 .. MaxFd
  Thread,     \* the application's threads
  MaxEvents,  \* MAX_EPOLL_EVENTS
  Made,       \* kinds of descriptors the application makes
  Removing,   \* what threads remove: listening sockets, signals they destroy
  MaxFiles,   \* bound of the model: files ever opened
  MaxInputs   \* bound of the model: arrivals of data and connection requests

ASSUME EventLoopAssumption ==
  /\ MaxFd \in Nat \ {0} /\ MaxEvents \in Nat \ {0}
  /\ Thread \cap {"loop", "free"} = {}
  /\ MaxFiles \in Nat /\ MaxInputs \in Nat
  /\ Made \subseteq {"listen", "client", "once", "signal"}
  /\ Removing \subseteq {"listen", "signal"}

VARIABLES
  file,       \* kernel: the file behind each descriptor, 0 if it is closed
  kind,       \* what each file is: the callbacks its context is given
  watch,      \* kernel: epoll's interest list, file to address of the context
  ready,      \* kernel: epoll's ready list
  input,      \* files with something to read
  hung,       \* files whose peer has closed the connection
  inputs,     \* arrivals so far
  full,       \* connections whose buffer is full of a message not yet complete
  polled,     \* m_polled_fids: descriptor to the address of its node
  mem,        \* what the memory at a node's address holds: fd and kind
  openFds,    \* m_open_fds
  lock,       \* who holds m_fd_mutex
  shouldStop, \* ev_should_stop
  lpc, batch, \* the loop: where it is, the events left of m_events
  lfd,        \* the loop: the descriptor its callback works on
  told,       \* the files on_closed_cb was called for
  apc,        \* a thread: where it is
  own,        \* a thread: the descriptor it works on and the file it means
  sig         \* a thread's EvSignal: its descriptor, the file it opened, fired

kernel  == <<file, kind, watch, ready, input, hung>>
tables  == <<polled, mem, openFds, lock>>
loop    == <<shouldStop, lpc, batch, lfd, told>>
threads == <<apc, own, sig>>
traffic == <<inputs, full>>
vars    == <<kernel, traffic, tables, loop, threads>>

Fd        == 1 .. MaxFd
Address   == Fd                    \* nodes of m_polled_fids: one per descriptor
Free      == "free"
NoSignal  == [fd |-> 0, file |-> 0, fired |-> FALSE]
Kinds     == {"listen", "conn", "client", "once", "signal"}
Context   == [fd : Fd, kind : Kinds]
Files     == 1 .. Len(kind)
Open(f)   == \E fd \in Fd : file[fd] = f
IsReady(f) == f \in input \cup hung

-----------------------------------------------------------------------------
(* The kernel: descriptors, readiness, epoll.                              *)

Unused == {fd \in Fd : file[fd] = 0}

(* Connection requests waiting will each open a file.  Only where none can *)
(* be opened they may come when the bound is reached.                      *)
Requests == {f \in input : kind[f] = "listen"}
Budget   == Len(kind) + Cardinality(Requests) < MaxFiles

(* socket(), accept() and eventfd() take the lowest unused number.         *)
OpenFile(fd, k) ==
  /\ fd \in Unused /\ \A other \in Unused : fd <= other
  /\ file' = [file EXCEPT ![fd] = Len(kind) + 1]
  /\ kind' = Append(kind, k)

(* A file becomes ready; epoll lists it once.                              *)
Notify(f) ==
  ready' = IF f \in DOMAIN watch /\ f \notin Range(ready) THEN Append(ready, f) ELSE ready

(* close(): epoll forgets the files that are gone.                         *)
CloseAll(fds) ==
  LET gone == {file[fd] : fd \in fds} IN
    /\ file' = [fd \in Fd |-> IF fd \in fds THEN 0 ELSE file[fd]]
    /\ watch' = [f \in DOMAIN watch \ gone |-> watch[f]]
    /\ ready' = Without(ready, gone)
    /\ input' = input \ gone
    /\ hung' = hung \ gone

(* Data arrives on a connection, or a connection request.                  *)
Arrive(f) ==
  /\ inputs < MaxInputs /\ inputs' = inputs + 1
  /\ Open(f) /\ f \notin input \cup hung
  /\ \/ kind[f] \in {"conn", "client"}
     \/ kind[f] = "listen" /\ Budget
     \/ kind[f] = "listen" /\ Unused = {} /\ Len(kind) = MaxFiles
  /\ input' = input \cup {f}
  /\ Notify(f)
  /\ UNCHANGED <<file, kind, watch, hung, full, tables, loop, threads>>

(* The peer closes the connection: EPOLLIN and EPOLLRDHUP.                 *)
Hangup(f) ==
  /\ Open(f) /\ f \notin hung /\ kind[f] \in {"conn", "client"}
  /\ hung' = hung \cup {f}
  /\ Notify(f)
  /\ UNCHANGED <<file, kind, watch, input, traffic, tables, loop, threads>>

-----------------------------------------------------------------------------
(* Eventloop::register_fd and remove_fd.                                   *)

(* What m_polled_fids has a node of and epoll does not watch.              *)
Refused == DOMAIN polled \ openFds

(* The context is stored, in the node of that descriptor if there is one,  *)
(* before epoll is asked to watch it; only if epoll agrees the descriptor  *)
(* goes into m_open_fds.  It refuses what is closed or watched, and any    *)
(* other descriptor when it is out of memory or of watches: then the node  *)
(* stays, and the caller is not told.                                      *)
RegisterFd(fd, k) ==
  /\ lock = Free
  /\ \E a \in Address :
       /\ IF fd \in DOMAIN polled THEN a = polled[fd] ELSE a \notin Range(polled)
       /\ polled' = [d \in DOMAIN polled \cup {fd} |-> IF d = fd THEN a ELSE polled[d]]
       /\ mem' = [mem EXCEPT ![a] = [fd |-> fd, kind |-> k]]
       /\ \/ UNCHANGED <<watch, ready, openFds>>
          \/ LET f == file[fd] IN
               /\ lpc # "exited" /\ f # 0 /\ f \notin DOMAIN watch
               /\ watch' = [g \in DOMAIN watch \cup {f} |-> IF g = f THEN a ELSE watch[g]]
               /\ ready' = IF IsReady(f) THEN Append(ready, f) ELSE ready
               /\ openFds' = openFds \cup {fd}
  /\ UNCHANGED <<file, kind, input, hung, lock>>

(* The first half of remove_fd: under the mutex, a known descriptor is     *)
(* closed; from here on its number may be handed out again.                *)
RemoveClose(t, fd) ==
  /\ lock = Free /\ fd \in openFds
  /\ CloseAll({fd})
  /\ lock' = t
  /\ UNCHANGED <<kind, polled, mem, openFds>>

(* Mutant: the descriptor stays in m_open_fds.                             *)
EraseContextOnly(t, fd) ==
  /\ lock = t /\ lock' = Free
  /\ polled' = [d \in DOMAIN polled \ {fd} |-> polled[d]]
  /\ LET f == file[fd] IN
       /\ watch' = [g \in DOMAIN watch \ {f} |-> watch[g]]
       /\ ready' = Without(ready, {f})
  /\ UNCHANGED <<file, kind, input, hung, mem, openFds>>

(* The second half: epoll is told, the context is erased.                  *)
RemoveErase(t, fd) ==
  /\ lock = t /\ lock' = Free
  /\ polled' = [d \in DOMAIN polled \ {fd} |-> polled[d]]
  /\ openFds' = openFds \ {fd}
  /\ LET f == file[fd] IN
       /\ watch' = [g \in DOMAIN watch \ {f} |-> watch[g]]
       /\ ready' = Without(ready, {f})
  /\ UNCHANGED <<file, kind, input, hung, mem>>

(* remove_fd of a descriptor that is not in m_open_fds only warns.         *)
RemoveUnknown(fd) ==
  /\ lock = Free /\ fd \notin openFds
  /\ UNCHANGED <<kernel, tables>>

-----------------------------------------------------------------------------
(* The application's threads: createListenSocket, send_connect and the     *)
(* EvSignal constructor make a descriptor, then register it.               *)
New(t, k) ==
  /\ apc[t] = "idle" /\ Budget
  /\ \E fd \in Fd :
       /\ OpenFile(fd, k)
       /\ own' = [own EXCEPT ![t] = [fd |-> fd, file |-> Len(kind) + 1]]
       /\ IF k \in {"once", "signal"}
          THEN /\ sig[t] = NoSignal
               /\ sig' = [sig EXCEPT ![t] = [fd |-> fd, file |-> Len(kind) + 1, fired |-> FALSE]]
          ELSE UNCHANGED sig
  /\ apc' = [apc EXCEPT ![t] = "register"]
  /\ UNCHANGED <<watch, ready, input, hung, traffic, tables, loop>>

Register(t) ==
  /\ apc[t] = "register"
  /\ RegisterFd(own[t].fd, kind[own[t].file])
  /\ apc' = [apc EXCEPT ![t] = "idle"]
  /\ UNCHANGED <<traffic, loop, own, sig>>

(* EvSignal::fire writes to the eventfd.                                   *)
Fire(t) ==
  /\ apc[t] = "idle" /\ sig[t] # NoSignal /\ ~sig[t].fired
  /\ file[sig[t].fd] = sig[t].file
  /\ sig' = [sig EXCEPT ![t].fired = TRUE]
  /\ input' = input \cup {sig[t].file}
  /\ Notify(sig[t].file)
  /\ UNCHANGED <<file, kind, watch, hung, traffic, tables, loop, apc, own>>

(* ~EvSignal removes the number it was given, whatever has become of it.   *)
Destroy(t) ==
  /\ apc[t] = "idle" /\ "signal" \in Removing /\ sig[t] # NoSignal
  /\ apc' = [apc EXCEPT ![t] = "remove"]
  /\ own' = [own EXCEPT ![t] = [fd |-> sig[t].fd, file |-> sig[t].file]]
  /\ sig' = [sig EXCEPT ![t] = NoSignal]
  /\ UNCHANGED <<kernel, traffic, tables, loop>>

(* close_handle removes a listening socket in its caller's thread.         *)
CloseListener(t) ==
  /\ apc[t] = "idle" /\ "listen" \in Removing
  /\ \E fd \in openFds :
       /\ file[fd] # 0 /\ kind[file[fd]] = "listen"
       /\ own' = [own EXCEPT ![t] = [fd |-> fd, file |-> file[fd]]]
  /\ apc' = [apc EXCEPT ![t] = "remove"]
  /\ UNCHANGED <<kernel, traffic, tables, loop, sig>>

Close(t) ==
  /\ apc[t] = "remove"
  /\ \/ RemoveClose(t, own[t].fd) /\ apc' = [apc EXCEPT ![t] = "erase"]
     \/ RemoveUnknown(own[t].fd) /\ apc' = [apc EXCEPT ![t] = "idle"]
  /\ UNCHANGED <<traffic, loop, own, sig>>

Erase(t) ==
  /\ apc[t] = "erase"
  /\ RemoveErase(t, own[t].fd)
  /\ apc' = [apc EXCEPT ![t] = "idle"]
  /\ UNCHANGED <<traffic, loop, own, sig>>

(* Eventloop::stop.                                                        *)
Stop ==
  /\ ~shouldStop /\ shouldStop' = TRUE
  /\ UNCHANGED <<kernel, traffic, tables, lpc, batch, lfd, told, threads>>

-----------------------------------------------------------------------------
(* Eventloop::evloop_run.                                                  *)

(* What epoll_wait finds on its ready list.                                *)
Reported == Without(ready, Files \ (input \cup hung))

(* Mutant: EPOLLET, a file is reported when it becomes ready and not again. *)
EpollWaitEdge ==
  /\ lpc = "wait" /\ Reported # << >>
  /\ LET n == IF Len(Reported) < MaxEvents THEN Len(Reported) ELSE MaxEvents IN
       /\ batch' = [i \in 1 .. n |-> [addr |-> watch[Reported[i]],
                                     file |-> Reported[i],
                                     hup |-> Reported[i] \in hung]]
       /\ ready' = SubSeq(Reported, n + 1, Len(Reported))
  /\ lpc' = "event"
  /\ UNCHANGED <<file, kind, watch, input, hung, traffic, tables, shouldStop, lfd, told, threads>>

(* epoll_wait goes through the list in order and puts what it reports back *)
(* at its end (level-triggered).                                           *)
EpollWait ==
  /\ lpc = "wait" /\ Reported # << >>
  /\ LET n == IF Len(Reported) < MaxEvents THEN Len(Reported) ELSE MaxEvents IN
       /\ batch' = [i \in 1 .. n |-> [addr |-> watch[Reported[i]],
                                     file |-> Reported[i],
                                     hup |-> Reported[i] \in hung]]
       /\ ready' = SubSeq(Reported, n + 1, Len(Reported)) \o SubSeq(Reported, 1, n)
  /\ lpc' = "event"
  /\ UNCHANGED <<file, kind, watch, input, hung, traffic, tables, shouldStop, lfd, told, threads>>

(* No event before the timeout and a stop was asked for: the loop ends and *)
(* closes what it knows, but keeps it in m_open_fds.                       *)
Exit ==
  /\ lpc = "wait" /\ Reported = << >> /\ shouldStop
  /\ lpc' = "exited"
  /\ CloseAll(openFds)
  /\ UNCHANGED <<kind, traffic, tables, shouldStop, batch, lfd, told, threads>>

(* The context the event at hand points to.                                *)
Ctx == mem[Head(batch).addr]

(* After a callback: a hang-up is looked at, or the next event.            *)
Proceed ==
  IF Head(batch).hup
  THEN lpc' = "hup" /\ UNCHANGED batch
  ELSE batch' = Tail(batch) /\ lpc' = IF Len(batch) = 1 THEN "wait" ELSE "event"

(* Mutant: on_data removes the descriptor itself when the peer has gone.   *)
OnDataRemoves ==
  /\ lpc = "event" /\ Ctx.kind \in {"conn", "client"}
  /\ input' = input \ {file[Ctx.fd]}
  /\ IF Head(batch).hup
     THEN lpc' = "remove" /\ lfd' = Ctx.fd /\ batch' = [batch EXCEPT ![1].hup = FALSE]
     ELSE Proceed /\ UNCHANGED lfd
  /\ UNCHANGED <<file, kind, watch, ready, hung, traffic, tables, shouldStop, told, threads>>

(* Mutant: on_data leaves what arrived in the socket.                      *)
OnDataLeaves ==
  /\ lpc = "event" /\ Ctx.kind \in {"conn", "client"}
  /\ Proceed
  /\ UNCHANGED <<kernel, traffic, tables, shouldStop, lfd, told, threads>>

(* on_data takes what has come, once: what is too much for one recv() is   *)
(* an arrival of its own.  But when an unfinished message fills the buffer *)
(* there is no room for the rest of it, now and for ever.                  *)
OnData ==
  /\ lpc = "event" /\ Ctx.kind \in {"conn", "client"}
  /\ LET f == file[Ctx.fd] IN
       \/ f \notin full /\ input' = input \ {f} /\ UNCHANGED full
       \/ f \in input \cup full /\ full' = full \cup {f} /\ UNCHANGED input
  /\ Proceed
  /\ UNCHANGED <<file, kind, watch, ready, hung, inputs, tables, shouldStop, lfd, told, threads>>

(* on_connection_request of a listening socket, up to register_fd.         *)
Accept ==
  /\ lpc = "event" /\ Ctx.kind = "listen" /\ file[Ctx.fd] \in Requests
  /\ \E fd \in Fd : OpenFile(fd, "conn") /\ lfd' = fd
  /\ input' = input \ {file[Ctx.fd]}
  /\ lpc' = "register"
  /\ UNCHANGED <<watch, ready, hung, traffic, tables, shouldStop, batch, told, threads>>

(* accept() fails: no descriptor is left, or no request.                   *)
AcceptFails ==
  /\ lpc = "event" /\ Ctx.kind = "listen"
  /\ Unused = {} \/ file[Ctx.fd] \notin Requests
  /\ Proceed
  /\ UNCHANGED <<kernel, traffic, tables, shouldStop, lfd, told, threads>>

RegisterAccepted ==
  /\ lpc = "register"
  /\ RegisterFd(lfd, "conn")
  /\ Proceed
  /\ UNCHANGED <<traffic, shouldStop, lfd, told, threads>>

(* EvSignal::exec calls back; nothing reads the eventfd.                   *)
Exec ==
  /\ lpc = "event" /\ Ctx.kind = "signal"
  /\ Proceed
  /\ UNCHANGED <<kernel, traffic, tables, shouldStop, lfd, told, threads>>

(* Mutant: exec_once does not remove its descriptor.                       *)
ExecOnceKeeps ==
  /\ lpc = "event" /\ Ctx.kind = "once"
  /\ Proceed
  /\ UNCHANGED <<kernel, traffic, tables, shouldStop, lfd, told, threads>>

(* Mutant: exec_once removes the descriptor of a context that was reset.   *)
ExecOnceForgets ==
  /\ lpc = "event" /\ Ctx.kind = "once"
  /\ lfd' = 0 /\ lpc' = "remove"
  /\ UNCHANGED <<kernel, traffic, tables, shouldStop, batch, told, threads>>

(* EvSignal::exec_once calls back and removes its own descriptor.          *)
ExecOnce ==
  /\ lpc = "event" /\ Ctx.kind = "once"
  /\ lfd' = Ctx.fd /\ lpc' = "remove"
  /\ UNCHANGED <<kernel, traffic, tables, shouldStop, batch, told, threads>>

(* Mutant: the hang-up of one event is handled again after remove_fd.      *)
PeerClosedTwice ==
  /\ lpc = "hup"
  /\ told' = IF Ctx.kind = "conn" THEN Append(told, file[Ctx.fd]) ELSE told
  /\ lfd' = Ctx.fd /\ lpc' = "remove"
  /\ UNCHANGED <<kernel, traffic, tables, shouldStop, batch, threads>>

(* Mutant: on_closed_cb is left to remove the descriptor; clients have none. *)
PeerClosedTellsOnly ==
  /\ lpc = "hup"
  /\ IF Ctx.kind = "conn"
     THEN /\ told' = Append(told, file[Ctx.fd])
          /\ lfd' = Ctx.fd /\ lpc' = "remove"
          /\ batch' = [batch EXCEPT ![1].hup = FALSE]
     ELSE /\ batch' = Tail(batch) /\ lpc' = IF Len(batch) = 1 THEN "wait" ELSE "event"
          /\ UNCHANGED <<told, lfd>>
  /\ UNCHANGED <<kernel, traffic, tables, shouldStop, threads>>

(* EPOLLRDHUP: on_closed_cb, which only accepted connections have, then    *)
(* remove_fd.                                                              *)
PeerClosed ==
  /\ lpc = "hup"
  /\ told' = IF Ctx.kind = "conn" THEN Append(told, file[Ctx.fd]) ELSE told
  /\ lfd' = Ctx.fd /\ lpc' = "remove"
  /\ batch' = [batch EXCEPT ![1].hup = FALSE]
  /\ UNCHANGED <<kernel, traffic, tables, shouldStop, threads>>

LoopClose ==
  /\ lpc = "remove"
  /\ \/ RemoveClose("loop", lfd) /\ lpc' = "erase" /\ UNCHANGED batch
     \/ RemoveUnknown(lfd) /\ Proceed
  /\ UNCHANGED <<traffic, shouldStop, lfd, told, threads>>

LoopErase ==
  /\ lpc = "erase"
  /\ RemoveErase("loop", lfd)
  /\ Proceed
  /\ UNCHANGED <<traffic, shouldStop, lfd, told, threads>>

-----------------------------------------------------------------------------
Init ==
  /\ file = [fd \in Fd |-> 0] /\ kind = << >>
  /\ watch = << >> /\ ready = << >> /\ input = {} /\ hung = {} /\ inputs = 0 /\ full = {}
  /\ polled = << >> /\ openFds = {} /\ lock = Free
  /\ mem \in [Address -> {[fd |-> 1, kind |-> "signal"]}]
  /\ shouldStop = FALSE /\ lpc = "wait" /\ batch = << >> /\ lfd = 1 /\ told = << >>
  /\ apc = [t \in Thread |-> "idle"] /\ own = [t \in Thread |-> [fd |-> 1, file |-> 0]]
  /\ sig = [t \in Thread |-> NoSignal]

(* What a thread has begun it goes on with.                                *)
Continue(t) == Register(t) \/ Close(t) \/ Erase(t)

Begin(t) == (\E k \in Made : New(t, k)) \/ Fire(t) \/ Destroy(t) \/ CloseListener(t)

Run ==
  \/ EpollWait \/ Exit
  \/ OnData \/ Accept \/ AcceptFails \/ RegisterAccepted \/ Exec \/ ExecOnce
  \/ PeerClosed \/ LoopClose \/ LoopErase

Next ==
  \/ Run
  \/ \E t \in Thread : Begin(t) \/ Continue(t)
  \/ Stop
  \/ \E f \in Files : Arrive(f) \/ Hangup(f)

Spec == Init /\ [][Next]_vars

(* The loop's thread runs, and a thread inside a call gets on with it.     *)
FairSpec == Spec /\ WF_vars(Run) /\ \A t \in Thread : WF_vars(Continue(t))
-----------------------------------------------------------------------------
(* The values each part of the state may take.                             *)
TypeOK ==
  /\ file \in [Fd -> 0 .. Len(kind)] /\ kind \in Seq(Kinds)
  /\ DOMAIN watch \subseteq Files /\ Range(watch) \subseteq Address
  /\ Range(ready) \subseteq DOMAIN watch
  /\ input \subseteq Files /\ hung \subseteq Files /\ inputs \in 0 .. MaxInputs
  /\ full \subseteq Files /\ DOMAIN polled \subseteq Fd /\ Range(polled) \subseteq Address
  /\ mem \in [Address -> Context] /\ openFds \subseteq Fd
  /\ lock \in {Free, "loop"} \cup Thread
  /\ shouldStop \in BOOLEAN /\ lfd \in Fd
  /\ lpc \in {"wait", "event", "register", "hup", "remove", "erase", "exited"}
  /\ batch \in Seq([addr : Address, file : Files, hup : BOOLEAN])
  /\ Range(told) \subseteq Files \cup {0}
  /\ apc \in [Thread -> {"idle", "register", "remove", "erase"}]
  /\ own \in [Thread -> [fd : Fd, file : 0 .. Len(kind)]]
  /\ sig \in [Thread -> [fd : Fd \cup {0}, file : 0 .. Len(kind), fired : BOOLEAN]]

(* Outside register_fd and remove_fd the loop's tables and the kernel's    *)
(* agree: what is in m_open_fds is open, is watched, has one context, and  *)
(* the address epoll holds is the one of the context made for its file.    *)
(* What has a context and is not in m_open_fds was refused by epoll: it is *)
(* open and not watched, and its context is never another one's.           *)
Bookkeeping ==
  lock = Free /\ lpc # "exited" =>
    /\ openFds \subseteq DOMAIN polled
    /\ DOMAIN watch = {file[fd] : fd \in openFds}
    /\ \A fd \in openFds : watch[file[fd]] = polled[fd]
    /\ \A fd \in Refused : file[fd] \notin DOMAIN watch
    /\ \A fd \in DOMAIN polled :
         /\ file[fd] # 0
         /\ mem[polled[fd]] = [fd |-> fd, kind |-> kind[file[fd]]]
         /\ \A other \in DOMAIN polled \ {fd} : polled[other] # polled[fd]

(* An event is handled with the context registered for the file it is of,  *)
(* never with one that was erased, or that belongs to another descriptor.  *)
OwnContext ==
  lpc \in {"event", "hup"} =>
    LET fd == Ctx.fd IN
      /\ file[fd] = Head(batch).file
      /\ fd \in DOMAIN polled /\ polled[fd] = Head(batch).addr

(* on_closed_cb is called once for each accepted connection before its     *)
(* descriptor is closed, and for no other.                                 *)
ToldOnce ==
  /\ \A i, j \in DOMAIN told : told[i] = told[j] => i = j
  /\ \A f \in Range(told) : f \in Files /\ kind[f] = "conn"
  /\ lpc # "exited" =>
       \A f \in Files : kind[f] = "conn" /\ ~Open(f) => f \in Range(told)

(* Connections whose peer has closed them do not stay in the loop, however *)
(* many others are ready: there being finitely many, none is left at last. *)
HangupRemoved ==
  (hung \cap DOMAIN watch # {}) ~> (hung \cap DOMAIN watch = {})

(* A signal that epoll watches and that was fired is executed: exec_once   *)
(* removes its descriptor; a loop that has ended executes nothing.         *)
OnceExecuted ==
  \A t \in Thread :
    (sig[t].fired /\ kind[sig[t].file] = "once" /\ sig[t].file \in DOMAIN watch)
      ~> (~Open(sig[t].file) \/ lpc = "exited")

(* Every request to a socket that epoll watches is accepted at last,       *)
(* unless the process is out of descriptors or the loop ends: an accept()  *)
(* that failed is tried again, however many descriptors come and go.       *)
(* Arrivals being bounded, there comes a time without requests.            *)
RequestsServed ==
  (Requests \cap DOMAIN watch # {})
    ~> (Requests \cap DOMAIN watch = {} \/ Unused = {} \/ lpc = "exited")

(* What no callback takes away: requests without a descriptor for them,    *)
(* signals, which nobody reads, and data that does not fit the buffer.     *)
Undrained ==
  {f \in input \cap DOMAIN watch :
     \/ kind[f] = "listen" /\ Unused = {}
     \/ kind[f] = "signal"
     \/ f \in full}

(* stop() ends the loop, unless something undrained keeps it busy for ever *)
(* (it ends after a wait without events only).                             *)
StopEnds == shouldStop ~> (lpc = "exited" \/ [](Undrained # {}))
=============================================================================
