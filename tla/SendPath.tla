------------------------------ MODULE SendPath ------------------------------
(***************************************************************************)
(* NetworkPosix as a sender: the application's threads and the callbacks   *)
(* of the event loop call send_data, which finds the connection of a       *)
(* handle in m_connection_map or makes one, takes the connection's send    *)
(* mutex and sends a header and a payload; meanwhile the loop's thread     *)
(* accepts connections and removes those whose peer has gone.              *)
(*                                                                         *)
(* send() is taken to accept all it is given: module Framing has the rest. *)
(* The event loop is the sets of its descriptors: module EventLoop has the *)
(* rest.  A descriptor is a number that the kernel hands out again; the    *)
(* connections behind it are numbered in the order they were made.         *)
(***************************************************************************)
EXTENDS Integers, Sequences, FiniteSets

CONSTANTS
  MaxFd,      \* descriptors for connections are 1 .. MaxFd; 0 is stdin
  Thread,     \* the application's threads
  Loop,       \* the event loop's thread
  Address,    \* records with an ip and a port
  Remote,     \* the addresses the application sends to
  Client,     \* the addresses that connect to the listening socket
  Local,      \* the local ip of the application's handles
  Events,     \* what else may happen: peers hang up or refuse, the application
              \* registers handles of remote addresses
  FirstAlone, \* the application lets one thread at a time send to an address
              \* that is not connected
  MaxCalls,   \* bound of the model: calls of send_data and register_handle
  MaxAccepts  \* bound of the model: connections accepted

ASSUME SendPathAssumption ==
  /\ MaxFd \in Nat /\ MaxCalls \in Nat /\ MaxAccepts \in Nat
  /\ Loop \notin Thread /\ "nobody" \notin Thread \cup {Loop}
  /\ \A a \in Address : a = [ip |-> a.ip, port |-> a.port] /\ a.port \in Nat \ {0}
  /\ Remote \subseteq Address /\ Client \subseteq Address
  /\ Events \subseteq {"hangup", "refuse", "register"} /\ FirstAlone \in BOOLEAN

VARIABLES
  sock,       \* kernel: the connection behind each descriptor, 0 if closed
  conn,       \* connections: their peer, how they were made, still alive
  stream,     \* what was sent into each connection: parts of calls
  registered, \* the connections' descriptors the event loop watches
  neglected,  \* those it has a context of, and epoll refused to watch
  connMap,    \* m_connection_map: the key compares by port only
  mutexMap,   \* m_send_mutex_map: descriptor to mutex
  owner,      \* who holds each mutex
  bufs,       \* the descriptors with an entry in m_buf_map
  handles,    \* the socket in each thread's handle of an address, or -1
  calls,      \* calls so far: the address or the connection meant
  pc, call,   \* a sender: where it is, its call
  own, way,   \* its descriptor, and whether it looks that up by the address
  want,       \* the mutex it takes
  pos         \* on_connection_closed: the entry it found in m_connection_map, or 0

kernel  == <<sock, conn, stream>>
inside  == <<handles, calls, call, own, way, want, pos>>
senders == <<pc, inside>>
evloop  == <<registered, neglected>>
tables  == <<evloop, connMap, mutexMap, owner, bufs>>
vars    == <<kernel, tables, senders>>

Sender    == Thread \cup {Loop}
Fd        == 1 .. MaxFd
Nobody    == "nobody"
NoAddress == [ip |-> "", port |-> 0]
NoSocket  == -1
Conns     == 1 .. Len(conn)
Meant(s)  == calls[call[s]]

(* std::map's find, insert-or-assign and erase, for maps of either kind.   *)
Has(map, key)        == key \in DOMAIN map
Put(map, key, value) == [k \in DOMAIN map \cup {key} |-> IF k = key THEN value ELSE map[k]]
Drop(map, key)       == [k \in DOMAIN map \ {key} |-> map[k]]
KeysOf(map, value)   == {k \in DOMAIN map : map[k] = value}

-----------------------------------------------------------------------------
(* socket() and accept() take the lowest unused number.                    *)
Unused == {fd \in Fd : sock[fd] = 0}

OpenSocket(fd, peer, role, alive) ==
  /\ fd \in Unused /\ \A other \in Unused : fd <= other
  /\ conn' = Append(conn, [peer |-> peer, role |-> role, alive |-> alive])
  /\ sock' = [sock EXCEPT ![fd] = Len(conn) + 1]
  /\ stream' = Append(stream, << >>)

(* The peer closes the connection.                                         *)
Hangup(c) ==
  /\ "hangup" \in Events /\ conn[c].alive
  /\ conn' = [conn EXCEPT ![c].alive = FALSE]
  /\ UNCHANGED <<sock, stream, tables, senders>>

-----------------------------------------------------------------------------
(* The keys of the event loop's m_polled_fids.                             *)
Polled == registered \cup neglected

(* register_fd.  epoll_ctl may refuse a descriptor: it is logged, the      *)
(* context stays, and the caller goes on as if it were watched.            *)
RegisterFd(fd) ==
  \/ registered' = registered \cup {fd} /\ UNCHANGED neglected
  \/ neglected' = neglected \cup {fd} /\ UNCHANGED registered

-----------------------------------------------------------------------------
(* send_data: m_connection_map.count() of the handle's port, without any   *)
(* lock, decides between its first branch and the other two.               *)
Start(s, to, fd) ==
  /\ pc[s] = "idle" /\ Len(calls) < MaxCalls
  /\ calls' = Append(calls, [op |-> "send", to |-> to,
                             conn |-> IF to = NoAddress THEN sock[fd] ELSE 0])
  /\ call' = [call EXCEPT ![s] = Len(calls) + 1]
  /\ own' = [own EXCEPT ![s] = fd]
  /\ LET byAddr == Has(connMap, to.port) IN
       /\ way' = [way EXCEPT ![s] = IF byAddr THEN "addr" ELSE "socket"]
       /\ pc' = [pc EXCEPT ![s] = IF byAddr THEN "key" ELSE "find"]
  /\ UNCHANGED <<kernel, tables, handles, want, pos>>

(* std::find_if for an entry of the handle's socket, a second lookup.      *)
Find(s) ==
  /\ pc[s] = "find"
  /\ pc' = [pc EXCEPT ![s] = IF KeysOf(connMap, own[s]) # {} THEN "mutex" ELSE "connect"]
  /\ UNCHANGED <<kernel, tables, inside>>

(* A thread sends to an address with the handle it keeps for it.           *)
SendTo(t) ==
  \E to \in Remote :
    /\ FirstAlone => \A s \in Sender : pc[s] \in {"find", "connect", "store"} => Meant(s).to # to
    /\ Start(t, to, handles[t][to])

(* A callback, or a thread it told about the connection, sends with a      *)
(* handle that has nothing but the socket.                                 *)
Reply(s) ==
  \E fd \in Polled : sock[fd] # 0 /\ conn[sock[fd]].alive /\ Start(s, NoAddress, fd)

(* m_connection_map[addr]: an entry that has gone is made again, with 0.   *)
Touched(key) == IF Has(connMap, key) THEN connMap ELSE Put(connMap, key, 0)

(* The argument of m_send_mutex_map[...].                                  *)
TakeKey(s) ==
  /\ pc[s] = "key"
  /\ connMap' = Touched(Meant(s).to.port)
  /\ own' = [own EXCEPT ![s] = connMap'[Meant(s).to.port]]
  /\ pc' = [pc EXCEPT ![s] = "mutex"]
  /\ UNCHANGED <<kernel, evloop, mutexMap, owner, bufs, handles, calls, call, way, want, pos>>

(* m_send_mutex_map[...] finds the mutex of the descriptor, or not.        *)
FindMutex(s) ==
  /\ pc[s] = "mutex"
  /\ IF Has(mutexMap, own[s])
     THEN want' = [want EXCEPT ![s] = mutexMap[own[s]]] /\ pc' = [pc EXCEPT ![s] = "lock"]
     ELSE pc' = [pc EXCEPT ![s] = "insert"] /\ UNCHANGED want
  /\ UNCHANGED <<kernel, tables, handles, calls, call, own, way, pos>>

(* It puts one there.  Nothing orders two threads that do so at a time:    *)
(* one may find the node of the other or replace it by its own.            *)
InsertMutex(s) ==
  /\ pc[s] = "insert"
  /\ \/ /\ Has(mutexMap, own[s])
        /\ want' = [want EXCEPT ![s] = mutexMap[own[s]]]
        /\ UNCHANGED <<mutexMap, owner>>
     \/ /\ owner' = Append(owner, Nobody)
        /\ mutexMap' = Put(mutexMap, own[s], Len(owner) + 1)
        /\ want' = [want EXCEPT ![s] = Len(owner) + 1]
  /\ pc' = [pc EXCEPT ![s] = "lock"]
  /\ UNCHANGED <<kernel, evloop, connMap, bufs, handles, calls, call, own, way, pos>>

(* Mutant: a mutex that somebody holds is not waited for.                  *)
LockTries(s) ==
  /\ pc[s] = "lock"
  /\ owner' = [owner EXCEPT ![want[s]] = s]
  /\ pc' = [pc EXCEPT ![s] = "header"]
  /\ UNCHANGED <<kernel, evloop, connMap, mutexMap, bufs, inside>>

Lock(s) ==
  /\ pc[s] = "lock" /\ owner[want[s]] = Nobody
  /\ owner' = [owner EXCEPT ![want[s]] = s]
  /\ pc' = [pc EXCEPT ![s] = "header"]
  /\ UNCHANGED <<kernel, evloop, connMap, mutexMap, bufs, inside>>

(* send() to the descriptor; a handle with a known address has it looked   *)
(* up once more.  On 0 and on a closed descriptor send() fails.            *)
Transmit(s, part) ==
  /\ connMap' = IF way[s] = "addr" THEN Touched(Meant(s).to.port) ELSE connMap
  /\ LET fd == IF way[s] = "addr" THEN connMap'[Meant(s).to.port] ELSE own[s] IN
       stream' = IF fd \in Fd /\ sock[fd] # 0
                 THEN [stream EXCEPT ![sock[fd]] = Append(@, [call |-> call[s], part |-> part])]
                 ELSE stream
  /\ UNCHANGED <<sock, conn, evloop, mutexMap, bufs, inside>>

(* Mutant: the mutex is held for the header only.                          *)
SendHeaderUnlocks(s) ==
  /\ pc[s] = "header"
  /\ Transmit(s, "header")
  /\ owner' = [owner EXCEPT ![want[s]] = Nobody]
  /\ pc' = [pc EXCEPT ![s] = "payload"]

SendHeader(s) ==
  /\ pc[s] = "header"
  /\ Transmit(s, "header")
  /\ pc' = [pc EXCEPT ![s] = "payload"]
  /\ UNCHANGED owner

(* Mutant: the mutex is not released.                                      *)
SendPayloadKeepsLock(s) ==
  /\ pc[s] = "payload"
  /\ Transmit(s, "payload")
  /\ UNCHANGED owner
  /\ pc' = [pc EXCEPT ![s] = "idle"]

(* The mutex is released when send_data returns.                           *)
SendPayload(s) ==
  /\ pc[s] = "payload"
  /\ Transmit(s, "payload")
  /\ owner' = [owner EXCEPT ![want[s]] = Nobody]
  /\ pc' = [pc EXCEPT ![s] = "idle"]

-----------------------------------------------------------------------------
(* register_handle of a handle without a local ip.                         *)
RegisterHandle(t) ==
  /\ "register" \in Events /\ pc[t] = "idle" /\ Len(calls) < MaxCalls
  /\ \E to \in Remote : calls' = Append(calls, [op |-> "register", to |-> to, conn |-> 0])
  /\ call' = [call EXCEPT ![t] = Len(calls) + 1]
  /\ pc' = [pc EXCEPT ![t] = "connect"]
  /\ UNCHANGED <<kernel, tables, handles, own, way, want, pos>>

(* The ip send_connect takes: that of the handle's local address.  A       *)
(* handle to register has none, and inet_pton leaves sin_addr as it was.   *)
Destination(s) ==
  IF Meant(s).op = "register" THEN {a.ip : a \in Address} ELSE {Local}

(* send_connect up to the block under m_mux.                               *)
Connect(s) ==
  /\ pc[s] = "connect" /\ Meant(s).to # NoAddress
  /\ \E fd \in Fd, ip \in Destination(s) :
       /\ OpenSocket(fd, [ip |-> ip, port |-> Meant(s).to.port], "client", TRUE)
       /\ own' = [own EXCEPT ![s] = fd]
  /\ pc' = [pc EXCEPT ![s] = "store"]
  /\ UNCHANGED <<tables, handles, calls, call, way, want, pos>>

(* Mutant: the socket is in m_connection_map before connect() fails.       *)
ConnectFailsStored(s) ==
  /\ pc[s] = "connect" /\ Unused # {}
  /\ "refuse" \in Events \/ Meant(s).to = NoAddress
  /\ \E fd \in Fd :
       /\ OpenSocket(fd, NoAddress, "failed", FALSE)
       /\ connMap' = Put(connMap, Meant(s).to.port, fd)
  /\ pc' = [pc EXCEPT ![s] = "idle"]
  /\ UNCHANGED <<evloop, mutexMap, owner, bufs, inside>>

(* It throws: connect() fails and the socket stays open, or there is no    *)
(* descriptor left.  Port 0 is always refused.                             *)
ConnectFails(s) ==
  /\ pc[s] = "connect"
  /\ \/ Unused = {} /\ UNCHANGED kernel
     \/ /\ "refuse" \in Events \/ Meant(s).to = NoAddress
        /\ \E fd \in Fd : OpenSocket(fd, NoAddress, "failed", FALSE)
  /\ pc' = [pc EXCEPT ![s] = "idle"]
  /\ UNCHANGED <<tables, inside>>

(* Mutant: the receive buffer is left to the first send.                   *)
StoreNoBuffer(s) ==
  /\ pc[s] = "store"
  /\ handles' = [handles EXCEPT ![s][Meant(s).to] = own[s]]
  /\ connMap' = Put(connMap, Meant(s).to.port, own[s])
  /\ mutexMap' = Put(mutexMap, own[s], Len(owner) + 1)
  /\ owner' = Append(owner, Nobody)
  /\ pc' = [pc EXCEPT ![s] = "register"]
  /\ UNCHANGED <<kernel, evloop, bufs, calls, call, own, way, want, pos>>

(* The block under m_mux.                                                  *)
Store(s) ==
  /\ pc[s] = "store"
  /\ handles' = [handles EXCEPT ![s][Meant(s).to] = own[s]]
  /\ connMap' = Put(connMap, Meant(s).to.port, own[s])
  /\ IF Has(mutexMap, own[s])
     THEN UNCHANGED <<mutexMap, owner>>
     ELSE /\ mutexMap' = Put(mutexMap, own[s], Len(owner) + 1)
          /\ owner' = Append(owner, Nobody)
  /\ bufs' = bufs \cup {own[s]}
  /\ pc' = [pc EXCEPT ![s] = "register"]
  /\ UNCHANGED <<kernel, evloop, calls, call, own, way, want, pos>>

(* Mutant: the handle's socket is registered before it is assigned.        *)
RegisterUnset(s) ==
  /\ pc[s] = "register"
  /\ RegisterFd(NoSocket)
  /\ pc' = [pc EXCEPT ![s] = IF Meant(s).op = "send" THEN "mutex" ELSE "idle"]
  /\ UNCHANGED <<kernel, connMap, mutexMap, owner, bufs, inside>>

(* Mutant: send_data leaves register_fd to register_handle.                *)
RegisterHandleOnly(s) ==
  /\ pc[s] = "register"
  /\ IF Meant(s).op = "register" THEN RegisterFd(own[s]) ELSE UNCHANGED evloop
  /\ pc' = [pc EXCEPT ![s] = IF Meant(s).op = "send" THEN "mutex" ELSE "idle"]
  /\ UNCHANGED <<kernel, connMap, mutexMap, owner, bufs, inside>>

(* register_fd; send_data goes on with the socket of its handle.           *)
Register(s) ==
  /\ pc[s] = "register"
  /\ RegisterFd(own[s])
  /\ pc' = [pc EXCEPT ![s] = IF Meant(s).op = "send" THEN "mutex" ELSE "idle"]
  /\ UNCHANGED <<kernel, connMap, mutexMap, owner, bufs, inside>>

-----------------------------------------------------------------------------
(* The loop's thread between callbacks.                                    *)
LoopGoes(where, fd) ==
  /\ pc' = [pc EXCEPT ![Loop] = where]
  /\ own' = [own EXCEPT ![Loop] = fd]
  /\ UNCHANGED <<handles, calls, call, way, want>>

(* on_connection_request, up to and with register_fd.                      *)
Accept(from) ==
  /\ pc[Loop] = "idle"
  /\ Cardinality({c \in Conns : conn[c].role = "accepted"}) < MaxAccepts
  /\ \A c \in Conns : conn[c].peer = from => ~conn[c].alive
  /\ \E fd \in Fd :
       /\ OpenSocket(fd, from, "accepted", TRUE)
       /\ RegisterFd(fd)
       /\ LoopGoes("accepted", fd)
  /\ UNCHANGED <<connMap, mutexMap, owner, bufs, pos>>

(* Mutant: an accepted connection is known by its buffer only.             *)
StoreAcceptedBuffer ==
  /\ pc[Loop] = "accepted"
  /\ bufs' = bufs \cup {own[Loop]}
  /\ LoopGoes("idle", own[Loop])
  /\ UNCHANGED <<kernel, evloop, connMap, mutexMap, owner, pos>>

(* The block under m_mux.                                                  *)
StoreAccepted ==
  /\ pc[Loop] = "accepted"
  /\ bufs' = bufs \cup {own[Loop]}
  /\ connMap' = Put(connMap, conn[sock[own[Loop]]].peer.port, own[Loop])
  /\ LoopGoes("idle", own[Loop])
  /\ UNCHANGED <<kernel, evloop, mutexMap, owner, pos>>

(* Mutant: on_connection_closed only tells the user.                       *)
PeerClosedKeepsEntry ==
  /\ pc[Loop] = "idle"
  /\ \E fd \in registered :
       sock[fd] # 0 /\ ~conn[sock[fd]].alive /\ LoopGoes("remove", fd)
  /\ UNCHANGED <<kernel, tables, pos>>

(* EPOLLRDHUP.  on_connection_closed, which only accepted connections      *)
(* have, looks for the first entry of the descriptor, without a lock.      *)
PeerClosed ==
  /\ pc[Loop] = "idle"
  /\ \E fd \in registered :
       /\ sock[fd] # 0 /\ ~conn[sock[fd]].alive
       /\ LET keys == IF conn[sock[fd]].role = "accepted" THEN KeysOf(connMap, fd) ELSE {} IN
            \/ keys = {} /\ LoopGoes("remove", fd) /\ UNCHANGED pos
            \/ /\ pos' \in keys /\ \A key \in keys : pos' <= key
               /\ LoopGoes("drop", fd)
  /\ UNCHANGED <<kernel, tables>>

(* Under m_mux it erases what it has found, whatever is stored there now.  *)
DropEntry ==
  /\ pc[Loop] = "drop" /\ LoopGoes("remove", own[Loop])
  /\ connMap' = Drop(connMap, pos) /\ pos' = 0
  /\ UNCHANGED <<kernel, evloop, mutexMap, owner, bufs>>

(* remove_fd.                                                              *)
Remove ==
  /\ pc[Loop] = "remove"
  /\ sock' = [sock EXCEPT ![own[Loop]] = 0]
  /\ registered' = registered \ {own[Loop]} /\ UNCHANGED neglected
  /\ LoopGoes("idle", own[Loop])
  /\ UNCHANGED <<conn, stream, connMap, mutexMap, owner, bufs, pos>>

-----------------------------------------------------------------------------
Init ==
  /\ sock = [fd \in Fd |-> 0] /\ conn = << >> /\ stream = << >>
  /\ registered = {} /\ neglected = {}
  /\ connMap = << >> /\ mutexMap = << >> /\ owner = << >> /\ bufs = {}
  /\ handles = [t \in Thread |-> [a \in Remote |-> NoSocket]]
  /\ calls = << >>
  /\ pc = [s \in Sender |-> "idle"] /\ call = [s \in Sender |-> 0]
  /\ own = [s \in Sender |-> NoSocket] /\ way = [s \in Sender |-> "socket"]
  /\ want = [s \in Sender |-> 0] /\ pos = 0

(* What a sender does inside send_data.                                    *)
Continue(s) ==
  \/ Find(s) \/ TakeKey(s) \/ FindMutex(s) \/ InsertMutex(s) \/ Lock(s)
  \/ SendHeader(s) \/ SendPayload(s)
  \/ Connect(s) \/ ConnectFails(s) \/ Store(s) \/ Register(s)

LoopStep == (\E from \in Client : Accept(from)) \/ StoreAccepted
              \/ PeerClosed \/ DropEntry \/ Remove

Next ==
  \/ \E s \in Sender : Continue(s) \/ Reply(s)
  \/ \E t \in Thread : SendTo(t) \/ RegisterHandle(t)
  \/ LoopStep
  \/ \E c \in Conns : Hangup(c)

Spec == Init /\ [][Next]_vars

(* No thread stops inside a call, and the loop's thread runs.              *)
FairSpec ==
  /\ Spec
  /\ \A s \in Sender : WF_vars(Continue(s))
  /\ WF_vars(LoopStep)
-----------------------------------------------------------------------------
(* The values each part of the state may take.                             *)
TypeOK ==
  /\ sock \in [Fd -> 0 .. Len(conn)]
  /\ \A c \in Conns : conn[c].role \in {"client", "accepted", "failed"}
  /\ Len(stream) = Len(conn)
  /\ \A c \in Conns : \A i \in DOMAIN stream[c] :
       stream[c][i] \in [call : DOMAIN calls, part : {"header", "payload"}]
  /\ registered \subseteq Fd /\ neglected \subseteq Fd /\ bufs \subseteq Fd
  /\ \A k \in DOMAIN connMap : connMap[k] \in Fd \cup {0}
  /\ \A fd \in DOMAIN mutexMap : mutexMap[fd] \in DOMAIN owner
  /\ \A m \in DOMAIN owner : owner[m] \in Sender \cup {Nobody}
  /\ handles \in [Thread -> [Remote -> Fd \cup {NoSocket}]]
  /\ pc \in [Sender -> {"idle", "key", "find", "mutex", "insert", "lock", "header", "payload",
                        "connect", "store", "register", "accepted", "drop", "remove"}]
  /\ call \in [Sender -> 0 .. Len(calls)] /\ own \in [Sender -> Fd \cup {0, NoSocket}]
  /\ way \in [Sender -> {"addr", "socket"}] /\ want \in [Sender -> 0 .. Len(owner)]
  /\ pos \in {0} \cup DOMAIN connMap

(* On every connection that is alive each header is followed by the        *)
(* payload of the same call and by nothing else: what the send mutex is    *)
(* there for, and what the receiver's on_data relies on.                   *)
FramesWhole ==
  \A c \in Conns : conn[c].alive =>
    \A i \in DOMAIN stream[c] :
      IF i % 2 = 1
      THEN /\ stream[c][i].part = "header"
           /\ i = Len(stream[c]) => \E s \in Sender : pc[s] = "payload"
                                                     /\ call[s] = stream[c][i].call
      ELSE stream[c][i] = [call |-> stream[c][i - 1].call, part |-> "payload"]

(* What is sent to an address goes into a connection with that address,    *)
(* what is sent on a socket into the connection that the socket was.       *)
RightPeer ==
  \A c \in Conns : \A i \in DOMAIN stream[c] :
    LET m == calls[stream[c][i].call] IN
      IF m.to = NoAddress THEN c = m.conn ELSE conn[c].peer = m.to

(* A handle with a socket that is connected never makes send_data open a   *)
(* new connection.                                                         *)
SocketIsKnown ==
  \A s \in Sender : pc[s] = "connect" => Meant(s).to # NoAddress

(* Between callbacks m_connection_map knows every live connection the      *)
(* event loop has a context of, watched or refused by epoll, under the     *)
(* port of its peer alone, and no descriptor the loop has no context of.   *)
(* The loop never hears of a refused one's end, so its entry stays.        *)
MapMatches ==
  pc[Loop] \notin {"accepted", "drop", "remove"} =>
    /\ \A fd \in Polled :
         conn[sock[fd]].alive => KeysOf(connMap, fd) = {conn[sock[fd]].peer.port}
    /\ \A k \in DOMAIN connMap : connMap[k] \in Polled

(* When the loop is free to call on_data for a descriptor, the descriptor  *)
(* has a buffer.                                                           *)
HasBuffer == pc[Loop] # "accepted" => registered \subseteq bufs

(* Two failures lose a socket, open with nobody left to close it: that of  *)
(* connect(), which m_polled_fids never hears of, and that of epoll_ctl,   *)
(* which leaves it there unwatched.  Any other open descriptor is watched, *)
(* or in the hands of the send_connect that makes it.                      *)
OnlyFailuresLeak ==
  \A fd \in Fd :
    /\ fd \in Polled => sock[fd] # 0 /\ conn[sock[fd]].role # "failed"
    /\ fd \in neglected => fd \notin registered
    /\ sock[fd] # 0 /\ fd \notin Polled =>
         \/ conn[sock[fd]].role = "failed"
         \/ \E s \in Sender : own[s] = fd /\ pc[s] \in {"store", "register"}

(* What each connection has carried: the calls whose payload follows their *)
(* header, and the call of a last header without one.                      *)
Whole   == [c \in Conns |-> [i \in 1 .. Len(stream[c]) \div 2 |-> stream[c][2 * i].call]]
Partial == [c \in Conns |-> IF Len(stream[c]) % 2 = 1 THEN stream[c][Len(stream[c])].call
                                                      ELSE 0]

Streams == INSTANCE MessageStreams
             WITH issued <- Len(calls), whole <- Whole, partial <- Partial

(* Each call's header and payload go into one connection, once and with    *)
(* nothing between them, whichever threads and callbacks send meanwhile.   *)
ImplementsStreams == Streams!Spec

(* Every call of send_data comes to an end: no sender waits for a mutex    *)
(* for ever.                                                               *)
SendReturns ==
  \A s \in Sender :
    pc[s] \in {"key", "find", "mutex", "insert", "lock", "header", "payload", "connect",
              "store", "register"} ~> pc[s] = "idle"
=============================================================================
