--------------------------- MODULE LibfabricInit ----------------------------
(***************************************************************************)
(* NetworkLibfabric: the constructor, register_handle with init_listen,    *)
(* init_send and connect_endpoint, the callback of a listening socket's    *)
(* event queue, run and the destructor.  One thread of the application     *)
(* registers handles while the event loop runs in another one.             *)
(*                                                                         *)
(* An initialisation is a chain of library calls, each of which may fail;  *)
(* the chain is data, and a socket is known by the calls that succeeded.   *)
(* fi_fabric and fi_domain write to local pointers, so m_fabric and the    *)
(* members of m_send_domain are never filled: a call through them is       *)
(* undefined and may end the process or look like success or failure.      *)
(***************************************************************************)
EXTENDS Integers, Sequences

CONSTANTS
  Handle,    \* handles: records of a local and a remote address (ip, port)
  Modes,     \* values of network_config.mode
  MaxRaised  \* bound of the model: events on the queues of listening sockets

ASSUME LibfabricAssumption ==
  /\ \A h \in Handle : h.local.ip # "" \/ h.remote.ip # ""
  /\ Modes \subseteq {"TCP", "UDP", "RDMA", "SHMEM"} /\ MaxRaised \in Nat

VARIABLES
  entry,     \* m_lsockets and m_ssockets: the calls that succeeded for a key
  nbSockets, \* m_send_domain.nb_sockets
  pc,        \* the application's thread
  cur, todo, \* inside register_handle: its key, the calls that are left
  watched,   \* m_open_fds of the event loop: event queues by key, and stdin
  neglected, \* keys whose descriptor epoll refused: only in m_polled_fids
  loop,      \* the event loop: off, running, ended
  pending,   \* the event waiting in the queue of each listening socket
  raised     \* events so far

sockets == <<entry, nbSockets>>
app     == <<pc, cur, todo>>
evloop  == <<watched, neglected>>
events  == <<pending, raised>>
vars    == <<sockets, app, evloop, loop, events>>

(* The key of a handle: which map, and the port, as operator< of           *)
(* socket_addr looks at nothing else.                                      *)
KeyOf(h) == IF h.local.ip # "" THEN <<"listen", h.local.port>> ELSE <<"send", h.remote.port>>
Keys     == {KeyOf(h) : h \in Handle}
Listens(k)   == k[1] = "listen"
Done(k)      == IF k \in DOMAIN entry THEN entry[k] ELSE {}
Stdin        == <<"stdin", 0>>
CmEvents     == {"connreq", "connected", "shutdown", "error", "broken"}
ProcessEnds  == pc' = "ended" /\ loop' = "ended"

-----------------------------------------------------------------------------
(* init_listen.                                                            *)
ListenCalls == <<"getinfo", "fabric", "eq_open", "passive_ep", "pep_bind", "listen", "getwait">>

(* connect_endpoint.                                                       *)
ConnectCalls == <<"eq_open", "endpoint", "bind_eq", "cq_open", "bind_cq", "rcq_open",
                  "bind_rcq", "enable", "getwait">>

(* init_send after connect_endpoint, whether that failed or not.           *)
LastCalls == <<"connect", "getwait_again">>

(* init_send once fi_getinfo has succeeded, for the n-th such socket.      *)
SendCalls(n) ==
  (IF n > 1 THEN <<"fabric", "domain">> ELSE << >>) \o ConnectCalls \o LastCalls

(* All the calls there are.                                                *)
Calls == {"getinfo", "fabric", "eq_open", "passive_ep", "pep_bind", "listen", "getwait",
          "domain", "endpoint", "bind_eq", "cq_open", "bind_cq", "rcq_open", "bind_rcq",
          "enable", "connect", "getwait_again"}

(* Calls through m_fabric and m_send_domain.                               *)
Undefined == {"eq_open", "passive_ep", "domain", "endpoint", "cq_open", "rcq_open"}

(* fi_connect reads through the endpoint, NULL if there is none.           *)
NullCall == Head(todo) = "connect" /\ "endpoint" \notin entry[cur]

-----------------------------------------------------------------------------
(* The constructor.  A mode other than RDMA is refused with an exception,  *)
(* failures of fi_getinfo and fi_fabric are logged and forgotten, and it   *)
(* writes through hints.ep_attr, which is not initialised.                 *)
Construct ==
  /\ pc = "new"
  /\ \/ /\ pc' \in {IF mode = "RDMA" THEN "idle" ELSE "thrown" : mode \in Modes}
        /\ UNCHANGED loop
     \/ "RDMA" \in Modes /\ ProcessEnds
  /\ UNCHANGED <<sockets, cur, todo, evloop, events>>

(* Mutant: the entry is made anew each time.                               *)
BeginAgain(h) ==
  /\ pc = "idle"
  /\ entry' = [k \in DOMAIN entry \cup {KeyOf(h)} |-> IF k = KeyOf(h) THEN {} ELSE entry[k]]
  /\ cur' = KeyOf(h)
  /\ todo' = IF Listens(cur') THEN ListenCalls ELSE <<"getinfo">>
  /\ pc' = "call"
  /\ UNCHANGED <<nbSockets, evloop, loop, events>>

(* register_handle: an address that is not in its map gets an entry, ...   *)
Begin(h) ==
  /\ pc = "idle" /\ KeyOf(h) \notin DOMAIN entry
  /\ entry' = [k \in DOMAIN entry \cup {KeyOf(h)} |-> IF k = KeyOf(h) THEN {} ELSE entry[k]]
  /\ cur' = KeyOf(h)
  /\ todo' = IF Listens(cur') THEN ListenCalls ELSE <<"getinfo">>
  /\ pc' = "call"
  /\ UNCHANGED <<nbSockets, evloop, loop, events>>

(* ... one that is there is only logged, whatever became of it.            *)
Exists(h) ==
  /\ pc = "idle" /\ KeyOf(h) \in DOMAIN entry
  /\ UNCHANGED vars

(* A library call returns 0.  The first one of init_send is followed by    *)
(* the counter, which decides about the domain.                            *)
Succeeds ==
  /\ pc = "call" /\ todo # << >> /\ ~NullCall
  /\ entry' = [entry EXCEPT ![cur] = @ \cup {Head(todo)}]
  /\ IF ~Listens(cur) /\ Head(todo) = "getinfo"
     THEN nbSockets' = nbSockets + 1 /\ todo' = SendCalls(nbSockets')
     ELSE todo' = Tail(todo) /\ UNCHANGED nbSockets
  /\ UNCHANGED <<pc, cur, evloop, loop, events>>

InConnectEndpoint == ~Listens(cur) /\ Len(todo) > Len(LastCalls)
                       /\ Head(todo) \notin {"getinfo", "fabric", "domain"}

(* Mutant: a failed call is logged but does not return.                    *)
FailsGoesOn ==
  /\ pc = "call" /\ todo # << >> /\ ~NullCall
  /\ todo' = IF InConnectEndpoint THEN LastCalls ELSE Tail(todo)
  /\ UNCHANGED <<sockets, pc, cur, evloop, loop, events>>

(* It fails.  init_listen and init_send return and leave everything as it  *)
(* is, the entry included.  What connect_endpoint answers is ignored, and  *)
(* so is the failure of the last FI_GETWAIT.                               *)
Fails ==
  /\ pc = "call" /\ todo # << >> /\ ~NullCall
  /\ IF InConnectEndpoint
     THEN todo' = LastCalls /\ UNCHANGED pc
     ELSE todo' = << >> /\ pc' = IF Head(todo) = "getwait_again" THEN "call" ELSE "idle"
  /\ UNCHANGED <<sockets, cur, evloop, loop, events>>

(* The process does not survive an undefined call.                         *)
Crashes ==
  /\ pc = "call" /\ todo # << >>
  /\ NullCall \/ Head(todo) \in Undefined
  /\ ProcessEnds
  /\ UNCHANGED <<sockets, cur, todo, evloop, events>>

(* The descriptor given to register_fd.  The context of a send socket is   *)
(* assigned only if the last FI_GETWAIT failed; otherwise it is zero, and  *)
(* descriptor 0 is stdin.  Without any FI_GETWAIT it is -1.                *)
Registered ==
  IF Listens(cur) THEN {cur}
  ELSE IF "getwait_again" \in entry[cur] THEN {Stdin}
  ELSE IF "getwait" \in entry[cur] THEN {cur} ELSE {}

(* Mutant: a descriptor that epoll refuses goes into m_open_fds.           *)
RegisterRefused ==
  /\ pc = "call" /\ todo = << >> /\ pc' = "idle"
  /\ watched' = watched \cup IF Registered = {} THEN {<<"none", -1>>} ELSE Registered
  /\ UNCHANGED <<sockets, cur, todo, neglected, loop, events>>

(* register_fd, the last step of both chains.  epoll refuses -1 and what   *)
(* it watches already, and may refuse any other descriptor: the entry then *)
(* stays in m_polled_fids and register_handle is not told.                 *)
Register ==
  /\ pc = "call" /\ todo = << >> /\ pc' = "idle"
  /\ \/ /\ Registered # {} /\ Registered \cap watched = {}
        /\ watched' = watched \cup Registered
        /\ UNCHANGED neglected
     \/ /\ neglected' = neglected \cup {cur}
        /\ UNCHANGED watched
  /\ UNCHANGED <<sockets, cur, todo, loop, events>>

-----------------------------------------------------------------------------
(* run, in a thread of its own.                                            *)
Run ==
  /\ loop = "off" /\ pc \in {"idle", "call"} /\ loop' = "running"
  /\ UNCHANGED <<sockets, app, evloop, events>>

(* The destructor only asks the loop to stop.                              *)
Destroy ==
  /\ pc = "idle" /\ pc' = "gone"
  /\ UNCHANGED <<sockets, cur, todo, evloop, loop, events>>

(* A loop that was stopped ends when nothing is ready; until then it uses  *)
(* what has been freed.                                                    *)
LoopEnds ==
  /\ loop = "running" /\ pc = "gone"
  /\ \/ /\ \A k \in Keys \cap watched : pending[k] = "none"
        /\ loop' = "ended" /\ UNCHANGED pc
     \/ ProcessEnds
  /\ UNCHANGED <<sockets, cur, todo, evloop, events>>

(* The library reports something on the queue of a listening socket.       *)
Raise(k, e) ==
  /\ pc \notin {"ended", "gone"} /\ raised < MaxRaised
  /\ Listens(k) /\ "listen" \in Done(k) /\ pending[k] = "none"
  /\ pending' = [pending EXCEPT ![k] = e] /\ raised' = raised + 1
  /\ UNCHANGED <<sockets, app, evloop, loop>>

(* What read_cm_event may answer: after an error that it does not know the *)
(* event is not initialised.                                               *)
ReadCmEvent(k) == IF pending[k] = "broken" THEN CmEvents ELSE {pending[k]}

(* on_listen_socket_cm_event: connection requests and errors are read and  *)
(* dropped; FI_CONNECTED and FI_SHUTDOWN exit; an empty queue is waited    *)
(* for through m_fabric, and what an unknown error left is freed.          *)
OnListenSocketEvent(k) ==
  /\ loop = "running" /\ pc # "gone"
  /\ k \in watched /\ Listens(k)
  /\ \E event \in ReadCmEvent(k) :
       \/ /\ event \notin {"connected", "shutdown"}
          /\ UNCHANGED <<pc, loop>>
       \/ /\ event \in {"connected", "shutdown", "none", "broken"}
          /\ ProcessEnds
  /\ pending' = [pending EXCEPT ![k] = "none"]
  /\ UNCHANGED <<sockets, cur, todo, evloop, raised>>

-----------------------------------------------------------------------------
Init ==
  /\ entry = << >> /\ nbSockets = 0
  /\ pc = "new" /\ cur = Stdin /\ todo = << >>
  /\ watched = {} /\ neglected = {} /\ loop = "off"
  /\ pending = [k \in Keys |-> "none"] /\ raised = 0

Next ==
  \/ Construct
  \/ \E h \in Handle : Begin(h) \/ Exists(h)
  \/ Succeeds \/ Fails \/ Crashes \/ Register
  \/ Run \/ Destroy \/ LoopEnds
  \/ \E k \in Keys : OnListenSocketEvent(k) \/ \E e \in CmEvents : Raise(k, e)

Spec == Init /\ [][Next]_vars
-----------------------------------------------------------------------------
(* The values each part of the state may take.                             *)
TypeOK ==
  /\ DOMAIN entry \subseteq Keys /\ \A k \in DOMAIN entry : entry[k] \subseteq Calls
  /\ nbSockets \in Nat
  /\ pc \in {"new", "thrown", "idle", "call", "gone", "ended"}
  /\ cur \in Keys \cup {Stdin} /\ todo \in Seq(Calls)
  /\ pc = "call" => cur \in DOMAIN entry
  /\ watched \subseteq Keys \cup {Stdin} /\ neglected \subseteq Keys
  /\ loop \in {"off", "running", "ended"}
  /\ pending \in [Keys -> CmEvents \cup {"none"}] /\ raised \in 0 .. MaxRaised

(* A loop that watches a listening socket's event queue can use all of the *)
(* socket: every call of init_listen succeeded before its callback may run.*)
(* And requests to a listening socket are seen, unless the one call        *)
(* between fi_listen and register_fd failed or epoll refused the queue.    *)
WatchedIsComplete ==
  /\ \A k \in watched \ {Stdin} :
       IF Listens(k) THEN \A i \in DOMAIN ListenCalls : ListenCalls[i] \in Done(k)
                     ELSE {"eq_open", "getwait"} \subseteq Done(k)
  /\ pc = "idle" =>
       \A k \in Keys : Listens(k) /\ {"listen", "getwait"} \subseteq Done(k) =>
         k \in watched \cup neglected

(* What a user may take a key to be: the socket listens and is watched, or *)
(* it has asked for its connection; or its attempt came to nothing.        *)
Ready(k) == IF Listens(k) THEN k \in watched ELSE "connect" \in Done(k)
Dead(k)  == k \in DOMAIN entry /\ ~Ready(k) /\ ~(pc = "call" /\ cur = k)

Status   == [k \in Keys |-> IF Ready(k) THEN "ready" ELSE IF Dead(k) THEN "dead" ELSE "new"]

User == INSTANCE Registration WITH Key <- Keys, status <- Status

(* Every key gets one attempt whose outcome is final: a failed socket is   *)
(* not tried again, one that works is not lost, others are not touched.    *)
ImplementsRegistration == User!Spec
=============================================================================
