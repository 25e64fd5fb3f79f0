------------------------------ MODULE Closing -------------------------------
(***************************************************************************)
(* The life of NetworkPosix's sockets: one thread of the application makes *)
(* listening sockets and connections from its handles, closes handles and  *)
(* in the end the backend itself; the event loop's thread, if there is     *)
(* one, accepts connections, removes those whose peer has gone and         *)
(* executes the signals close_handle fires.                                *)
(*                                                                         *)
(* register_fd and remove_fd are one step each, as module EventLoop shows  *)
(* them to be under m_fd_mutex.  A descriptor is a number that the kernel  *)
(* hands out again; the files behind it are numbered in the order of       *)
(* opening.                                                                *)
(***************************************************************************)
EXTENDS Integers, Sequences, Functions, Erasing

CONSTANTS
  MaxFd,     \* descriptors are 1 .. MaxFd
  Local,     \* handles with a local address, to listen at
  Remote,    \* handles with a remote address, to connect to
  Peer,      \* addresses that connect to the listening sockets
  MaxFiles   \* bound of the model: files ever opened

ASSUME ClosingAssumption ==
  /\ MaxFd \in Nat \ {0} /\ MaxFiles \in Nat
  /\ (Local \cup Remote) \cap Peer = {}

VARIABLES
  file,      \* kernel: the file behind each descriptor, 0 if it is closed
  files,     \* what each file is, and the handle or peer it was opened for
  hung,      \* connections whose peer has closed them
  fired,     \* eventfds that were written to
  openFds,   \* m_open_fds of the event loop
  neglected, \* what it has a context of and epoll refused to watch
  lsockets,  \* m_lsockets
  connMap,   \* m_connection_map, by the address of a handle or a peer
  handles,   \* the application's handles: lsocket and socket
  pc, cur,   \* the application's thread: where it is, the handle at hand
  own,       \* the descriptor it makes and the file behind it
  left,      \* what the destructor has still to remove
  lpc, event \* the loop's thread: where it is, the event at hand

kernel == <<file, files, hung, fired>>
evloop == <<openFds, neglected>>
tables == <<evloop, lsockets, connMap, handles>>
app    == <<pc, cur, own, left>>
loop   == <<lpc, event>>
vars   == <<kernel, tables, app, loop>>

Handle   == Local \cup Remote
Fd       == 1 .. MaxFd
None     == -1
Files    == 1 .. Len(files)
Kinds    == {"listen", "client", "conn", "signal", "failed"}
Open(f)  == \E fd \in Fd : file[fd] = f
Crash    == pc' = "crashed" /\ lpc' = "crashed"   \* the process ends
Is(fd, k) == file[fd] # 0 /\ files[file[fd]].kind = k

-----------------------------------------------------------------------------
(* socket(), accept() and eventfd() take the lowest unused number.         *)
Unused == {fd \in Fd : file[fd] = 0}

OpenFile(fd, k, for) ==
  /\ fd \in Unused /\ \A other \in Unused : fd <= other
  /\ files' = Append(files, [kind |-> k, for |-> for])
  /\ file' = [file EXCEPT ![fd] = Len(files) + 1]

(* A call of close_handle will need a file for its signal.                 *)
Budget ==
  Len(files) + (IF pc \in {"remove", "forget", "signal"} THEN 1 ELSE 0) < MaxFiles

(* Mutant: the number is forgotten and never closed.                       *)
RemoveFdForgets(fd) ==
  openFds' = openFds \ {fd} /\ UNCHANGED <<file, neglected>>

(* Eventloop::register_fd: epoll may refuse to watch the descriptor, which *)
(* then is not in m_open_fds, and the caller is not told.                  *)
RegisterFd(fd) ==
  \/ openFds' = openFds \cup {fd} /\ UNCHANGED neglected
  \/ neglected' = neglected \cup {fd} /\ UNCHANGED openFds

(* Eventloop::remove_fd: what is not in m_open_fds is left alone.          *)
RemoveFd(fd) ==
  /\ IF fd \in openFds
     THEN openFds' = openFds \ {fd} /\ file' = [file EXCEPT ![fd] = 0]
     ELSE UNCHANGED <<openFds, file>>
  /\ UNCHANGED neglected

(* The peer closes the connection.                                         *)
Hangup(f) ==
  /\ pc # "crashed" /\ Open(f) /\ f \notin hung /\ files[f].kind \in {"client", "conn"}
  /\ hung' = hung \cup {f}
  /\ UNCHANGED <<file, files, fired, tables, app, loop>>

-----------------------------------------------------------------------------
(* createListenSocket and send_connect: the socket.                        *)
Make(h, k) ==
  /\ pc = "idle" /\ Budget
  /\ h \in IF k = "listen" THEN Local ELSE Remote
  /\ \E fd \in Fd : OpenFile(fd, k, h) /\ own' = [fd |-> fd, file |-> Len(files) + 1]
  /\ cur' = h /\ pc' = "made"
  /\ UNCHANGED <<hung, fired, tables, left, loop>>

(* bind(), listen() or connect() fails: an exception, the socket stays.    *)
Fails ==
  /\ pc = "made" /\ pc' = "idle"
  /\ files' = [files EXCEPT ![own.file].kind = "failed"]
  /\ UNCHANGED <<file, hung, fired, tables, cur, own, left, loop>>

(* createListenSocket: an address has one listening socket at a time, be   *)
(* it watched or not.                                                      *)
Listen ==
  /\ pc = "made" /\ files[own.file].kind = "listen"
  /\ \A fd \in Fd \ {own.fd} : Is(fd, "listen") => files[file[fd]].for # cur
  /\ handles' = [handles EXCEPT ![cur].lsocket = own.fd]
  /\ lsockets' = Append(lsockets, own.fd)
  /\ pc' = "register"
  /\ UNCHANGED <<kernel, evloop, connMap, cur, own, left, loop>>

Put(map, key, value) == [k \in DOMAIN map \cup {key} |-> IF k = key THEN value ELSE map[k]]

(* send_connect: the entry of the address is made or replaced.             *)
Connected ==
  /\ pc = "made" /\ files[own.file].kind = "client"
  /\ handles' = [handles EXCEPT ![cur].socket = own.fd]
  /\ connMap' = Put(connMap, cur, own.fd)
  /\ pc' = "register"
  /\ UNCHANGED <<kernel, evloop, lsockets, cur, own, left, loop>>

(* Both end with register_fd.                                              *)
Register ==
  /\ pc = "register" /\ pc' = "idle"
  /\ RegisterFd(own.fd)
  /\ UNCHANGED <<kernel, lsockets, connMap, handles, cur, own, left, loop>>

-----------------------------------------------------------------------------
(* close_handle: first the listening socket, in the caller's thread, ...   *)
CloseHandle(h) ==
  /\ pc = "idle" /\ Len(files) < MaxFiles
  /\ handles[h].lsocket # None \/ handles[h].socket # None
  /\ cur' = h
  /\ pc' = IF handles[h].lsocket # None THEN "remove" ELSE "signal"
  /\ UNCHANGED <<kernel, tables, own, left, loop>>

RemoveListener ==
  /\ pc = "remove" /\ pc' = "forget"
  /\ RemoveFd(handles[cur].lsocket)
  /\ UNCHANGED <<files, hung, fired, lsockets, connMap, handles, cur, own, left, loop>>

(* Mutant: m_lsockets keeps the number.                                    *)
ForgetHandleOnly ==
  /\ pc = "forget"
  /\ handles' = [handles EXCEPT ![cur].lsocket = None]
  /\ pc' = IF handles[cur].socket # None THEN "signal" ELSE "idle"
  /\ UNCHANGED <<kernel, evloop, lsockets, connMap, cur, own, left, loop>>

(* Mutant: the handle keeps the number.                                    *)
ForgetListOnly ==
  /\ pc = "forget"
  /\ lsockets' = Without(lsockets, {handles[cur].lsocket})
  /\ pc' = IF handles[cur].socket # None THEN "signal" ELSE "idle"
  /\ UNCHANGED <<kernel, evloop, connMap, handles, cur, own, left, loop>>

(* ... which is then taken out of m_lsockets and out of the handle.        *)
ForgetListener ==
  /\ pc = "forget"
  /\ lsockets' = Without(lsockets, {handles[cur].lsocket})
  /\ handles' = [handles EXCEPT ![cur].lsocket = None]
  /\ pc' = IF handles[cur].socket # None THEN "signal" ELSE "idle"
  /\ UNCHANGED <<kernel, evloop, connMap, cur, own, left, loop>>

(* A connection is left to the loop: close_handle makes a signal of its    *)
(* own on the stack; without a descriptor for it the process exits.        *)
MakeSignal ==
  /\ pc = "signal"
  /\ IF Unused = {}
     THEN Crash /\ UNCHANGED <<kernel, evloop, own>>
     ELSE /\ \E fd \in Fd :
               /\ OpenFile(fd, "signal", cur)
               /\ own' = [fd |-> fd, file |-> Len(files) + 1]
               /\ RegisterFd(fd)
          /\ pc' = "fire"
          /\ UNCHANGED <<hung, fired, lpc>>
  /\ UNCHANGED <<lsockets, connMap, handles, cur, left, event>>

Fire ==
  /\ pc = "fire" /\ pc' = "destroy"
  /\ fired' = fired \cup {own.file}
  /\ handles' = [handles EXCEPT ![cur].socket = None]
  /\ UNCHANGED <<file, files, hung, evloop, lsockets, connMap, cur, own, left, loop>>

(* The signal goes out of scope: ~EvSignal.                                *)
DestroySignal ==
  /\ pc = "destroy" /\ pc' = "idle"
  /\ RemoveFd(own.fd)
  /\ UNCHANGED <<files, hung, fired, lsockets, connMap, handles, cur, own, left, loop>>

(* Mutant: the destructor removes the listening sockets only.              *)
DestroyListeners ==
  /\ pc = "idle" /\ lpc = "off"
  /\ left' = Range(lsockets)
  /\ pc' = IF left' = {} THEN "gone" ELSE "destructor"
  /\ UNCHANGED <<kernel, tables, cur, own, loop>>

(* ~NetworkPosix, of a backend whose loop does not run: every listening    *)
(* socket, then every connection of the map, is removed.                   *)
Destroy ==
  /\ pc = "idle" /\ lpc = "off"
  /\ left' = Range(lsockets) \cup Range(connMap)
  /\ pc' = IF left' = {} THEN "gone" ELSE "destructor"
  /\ UNCHANGED <<kernel, tables, cur, own, loop>>

RemoveNext ==
  /\ pc = "destructor"
  /\ \E fd \in left : RemoveFd(fd) /\ left' = left \ {fd}
  /\ pc' = IF left' = {} THEN "gone" ELSE "destructor"
  /\ UNCHANGED <<files, hung, fired, lsockets, connMap, handles, cur, own, loop>>

-----------------------------------------------------------------------------
(* NetworkPosix::run.                                                      *)
Run ==
  /\ lpc = "off" /\ pc \notin {"destructor", "gone"}
  /\ lpc' = "wait"
  /\ UNCHANGED <<kernel, tables, app, event>>

(* epoll_wait: a connection request, a hang-up or a signal.                *)
EpollWait ==
  /\ lpc = "wait"
  /\ \E fd \in openFds :
       /\ \/ Is(fd, "listen") /\ Budget
          \/ file[fd] \in hung \cup fired
       /\ event' = [fd |-> fd, file |-> file[fd]]
  /\ lpc' = "event"
  /\ UNCHANGED <<kernel, tables, app>>

Event(k) == lpc = "event" /\ files[event.file].kind = k

(* on_connection_request: the new connection is registered, then stored.   *)
Accept ==
  /\ Event("listen") /\ Budget
  /\ event.fd \in openFds /\ Is(event.fd, "listen")
  /\ \E peer \in Peer, fd \in Fd :
       /\ \A f \in Files : files[f].for = peer => f \in hung \/ ~Open(f)
       /\ OpenFile(fd, "conn", peer)
       /\ RegisterFd(fd)
       /\ connMap' = Put(connMap, peer, fd)
  /\ lpc' = "wait"
  /\ UNCHANGED <<hung, fired, lsockets, handles, app, event>>

(* Mutant: the result of accept() is stored without a test.                *)
AcceptFailsStored ==
  /\ Event("listen") /\ lpc' = "wait"
  /\ \E peer \in Peer : connMap' = Put(connMap, peer, None)
  /\ UNCHANGED <<kernel, evloop, lsockets, handles, app, event>>

(* accept() fails: the peer gave up, no descriptor is left, or the         *)
(* listening socket has been closed by now.                                *)
AcceptFails ==
  /\ Event("listen") /\ lpc' = "wait"
  /\ UNCHANGED <<kernel, tables, app, event>>

(* The listening socket has been removed since epoll_wait: its context is  *)
(* freed memory.  The callback may still be found in it, or not.           *)
FreedContext ==
  /\ Event("listen") /\ file[event.fd] # event.file
  /\ Crash
  /\ UNCHANGED <<kernel, tables, cur, own, left, event>>

(* on_connection_closed, for accepted connections, and remove_fd.          *)
PeerClosed ==
  /\ Event("client") \/ Event("conn")
  /\ LET keys == {k \in DOMAIN connMap : connMap[k] = event.fd} IN
       IF Event("conn") /\ keys # {}
       THEN \E key \in keys :
              connMap' = [k \in DOMAIN connMap \ {key} |-> connMap[k]]
       ELSE UNCHANGED connMap
  /\ RemoveFd(event.fd)
  /\ lpc' = "wait"
  /\ UNCHANGED <<files, hung, fired, lsockets, handles, app, event>>

(* exec_once calls close_handle_ev with the data of the signal, which is   *)
(* NULL: reading the handle ends the process, and so does a signal that    *)
(* has been destroyed by now.                                              *)
ExecOnce ==
  /\ Event("signal")
  /\ Crash
  /\ UNCHANGED <<kernel, tables, cur, own, left, event>>

-----------------------------------------------------------------------------
Init ==
  /\ file = [fd \in Fd |-> 0] /\ files = << >> /\ hung = {} /\ fired = {}
  /\ openFds = {} /\ neglected = {} /\ lsockets = << >> /\ connMap = << >>
  /\ handles = [h \in Handle |-> [lsocket |-> None, socket |-> None]]
  /\ pc = "idle" /\ cur \in Handle /\ own = [fd |-> 1, file |-> 0] /\ left = {}
  /\ lpc = "off" /\ event = [fd |-> 1, file |-> 0]

(* A call of the application, and the rest of it.                          *)
Begin ==
  \/ \E h \in Handle : CloseHandle(h) \/ \E k \in {"listen", "client"} : Make(h, k)
  \/ Destroy

Continue ==
  \/ Fails \/ Listen \/ Connected \/ Register
  \/ RemoveListener \/ ForgetListener \/ MakeSignal \/ Fire \/ DestroySignal
  \/ RemoveNext

Loop ==
  \/ EpollWait \/ Accept \/ AcceptFails \/ FreedContext \/ PeerClosed \/ ExecOnce

Next ==
  \/ Begin \/ Continue
  \/ Run \/ Loop
  \/ \E f \in Files : Hangup(f)

Spec == Init /\ [][Next]_vars

(* A thread inside a call gets on with it; a loop that runs handles events.*)
FairSpec ==
  Spec /\ WF_vars(Continue) /\ WF_vars(Loop)
-----------------------------------------------------------------------------
(* The values each part of the state may take.                             *)
TypeOK ==
  /\ file \in [Fd -> 0 .. Len(files)]
  /\ files \in Seq([kind : Kinds, for : Handle \cup Peer])
  /\ hung \subseteq Files /\ fired \subseteq Files
  /\ openFds \subseteq Fd /\ neglected \subseteq Fd /\ lsockets \in Seq(Fd)
  /\ DOMAIN connMap \subseteq Remote \cup Peer /\ Range(connMap) \subseteq Fd
  /\ handles \in [Handle -> [lsocket : Fd \cup {None}, socket : Fd \cup {None}]]
  /\ pc \in {"idle", "made", "register", "remove", "forget", "signal", "fire",
             "destroy", "destructor", "gone", "crashed"}
  /\ cur \in Handle /\ own \in [fd : Fd, file : 0 .. Len(files)] /\ left \subseteq Fd
  /\ lpc \in {"off", "wait", "event", "crashed"} /\ event \in [fd : Fd, file : 0 .. Len(files)]

(* Outside the calls that change it, m_lsockets lists each listening       *)
(* socket of the event loop once, and no number that has become something  *)
(* else, whatever the loop has opened and closed meanwhile.  What it lists *)
(* and the loop does not know are sockets that listen and that epoll       *)
(* refused to watch: connection requests to them are never answered.       *)
ListenersKnown ==
  pc \in {"idle", "made", "signal", "fire", "destroy"} =>
    /\ {fd \in openFds : Is(fd, "listen")} \subseteq Range(lsockets)
    /\ \A fd \in Range(lsockets) : Is(fd, "listen") /\ fd \in openFds \cup neglected
    /\ \A i, j \in DOMAIN lsockets : lsockets[i] = lsockets[j] => i = j

(* Nothing is closed but what was meant: close_handle closes the listening *)
(* socket made for its handle and the signal it made itself, the loop      *)
(* closes connections whose peer has gone.  A number that was handed out   *)
(* again since it was stored in a handle or a table does no harm.          *)
ClosesOwn ==
  [][\A f \in Files : Open(f) /\ ~Open(f)' =>
       \/ pc = "remove" /\ files[f] = [kind |-> "listen", for |-> cur]
       \/ pc = "destroy" /\ f = own.file
       \/ pc = "destructor"
       \/ Event(files[f].kind) /\ f \in hung]_vars

(* No file is lost but through a failure: of bind(), listen(), connect(),  *)
(* or of epoll to watch it.  Any other is in the event loop or is still    *)
(* being made.  What bind(), listen() or connect() failed for is never     *)
(* registered, nor closed through a number in a handle or table; what      *)
(* epoll refused is not closed either, so its number is never another's.   *)
OnlyFailuresLeak ==
  \A fd \in Fd :
    /\ fd \in openFds \cup neglected => file[fd] # 0 /\ ~Is(fd, "failed")
    /\ fd \in neglected => fd \notin openFds
    /\ file[fd] # 0 /\ fd \notin openFds \cup neglected =>
         \/ Is(fd, "failed")
         \/ pc \in {"made", "register"} /\ own = [fd |-> fd, file |-> file[fd]]
         \/ pc = "crashed"

(* After the destructor nothing the event loop watched is open, except     *)
(* connections whose entry in the map was replaced by another one's.       *)
NothingLeft ==
  pc = "gone" =>
    \A fd \in openFds :
      Is(fd, "client") /\ connMap[files[file[fd]].for] # fd

(* close_handle closes the connection of its handle, if the loop runs and  *)
(* watches the signal that is to have it closed.                           *)
ConnectionClosed ==
  \A f \in 1 .. MaxFiles :
    (pc = "fire" /\ lpc # "off" /\ own.fd \in openFds /\ file[handles[cur].socket] = f)
      ~> (~Open(f) \/ pc = "crashed")
=============================================================================
