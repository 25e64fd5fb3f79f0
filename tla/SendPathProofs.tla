--------------------------- MODULE SendPathProofs ---------------------------
(***************************************************************************)
(* Theorems about SendPath, for any threads, addresses, events and bounds, *)
(* and about two ways of using it.                                         *)
(***************************************************************************)
EXTENDS SendPath, TLAPS

(* The inductive invariant.  TypeOK by groups of variables, and what it    *)
(* leaves open: which step a sender is at says what it has in hand.        *)
Port       == {a.port : a \in Address}
Ip         == {a.ip : a \in Address} \cup {Local, ""}
Connection == [peer : [ip : Ip, port : Port \cup {0}],
               role : {"client", "accepted", "failed"}, alive : BOOLEAN]
Part       == [call : Nat, part : {"header", "payload"}]
Call       == [op : {"send", "register"}, to : Remote \cup {NoAddress}, conn : Nat]

Sending    == {"key", "find", "mutex", "insert", "lock", "header", "payload"}
Connecting == {"connect", "store", "register"}
Accepting  == {"accepted", "drop", "remove"}

KernelTyped ==
  /\ sock \in [Fd -> 0 .. Len(conn)] /\ conn \in Seq(Connection)
  /\ \A c \in Conns : conn[c].role # "failed" => conn[c].peer.port \in Port
  /\ stream \in Seq(Seq(Part)) /\ Len(stream) = Len(conn)
  /\ \A c \in Conns : \A i \in DOMAIN stream[c] : stream[c][i].call \in DOMAIN calls

TablesTyped ==
  /\ Polled \subseteq Fd /\ bufs \subseteq Fd
  /\ DOMAIN connMap \subseteq Port
  /\ \A k \in DOMAIN connMap : connMap[k] \in Fd \cup {0}
  /\ owner \in Seq(Sender \cup {Nobody})
  /\ \A fd \in DOMAIN mutexMap : mutexMap[fd] \in DOMAIN owner

SendersTyped ==
  /\ handles \in [Thread -> [Remote -> Fd \cup {NoSocket}]]
  /\ calls \in Seq(Call)
  /\ pc \in [Sender -> {"idle"} \cup Sending \cup Connecting \cup Accepting]
  /\ call \in [Sender -> 0 .. Len(calls)] /\ own \in [Sender -> Fd \cup {0, NoSocket}]
  /\ way \in [Sender -> {"addr", "socket"}] /\ want \in [Sender -> 0 .. Len(owner)]
  /\ pos \in {0} \cup DOMAIN connMap
  /\ \A s \in Sender :
       /\ pc[s] \in Sending \cup Connecting => call[s] # 0
       /\ pc[s] = "key" => way[s] = "addr"
       /\ pc[s] \in Sending \cup Connecting /\ way[s] = "addr" => Meant(s).to \in Remote
       /\ pc[s] \in {"store", "register"} => Meant(s).to \in Remote
       /\ pc[s] \in {"lock", "header", "payload"} => want[s] # 0
       /\ pc[s] \in Accepting => s = Loop

(* Open descriptors.  One that is being made is its maker's alone, what    *)
(* the loop has a context of is open, and so is the descriptor it works on.*)
Making(s) == pc[s] \in {"store", "register"}

SocketsInv ==
  /\ \A fd \in Polled : sock[fd] # 0 /\ conn[sock[fd]].role # "failed"
  /\ \A s \in Sender : Making(s) =>
       /\ own[s] \in Fd /\ sock[own[s]] # 0 /\ conn[sock[own[s]]].role = "client"
       /\ own[s] \notin Polled
       /\ \A other \in Sender : Making(other) /\ own[other] = own[s] => other = s
  /\ pc[Loop] \in Accepting => own[Loop] \in Polled
  /\ \A fd \in Fd : sock[fd] # 0 /\ conn[sock[fd]].role # "failed" =>
       fd \in Polled \/ \E s \in Sender : Making(s) /\ own[s] = fd

(* A descriptor gets its buffer before the loop gets a context of it, or,  *)
(* if it was accepted, before the loop goes on.                            *)
BuffersInv ==
  /\ \A fd \in Polled : fd \in bufs \/ (pc[Loop] = "accepted" /\ fd = own[Loop])
  /\ \A s \in Sender : pc[s] = "register" => own[s] \in bufs

SendInv == KernelTyped /\ TablesTyped /\ SendersTyped /\ SocketsInv /\ BuffersInv

(* epoll has a descriptor or refused it, and the loop closes one only when *)
(* an event has come for it.                                               *)
ApartInv ==
  /\ registered \cap neglected = {}
  /\ pc[Loop] \in {"drop", "remove"} => own[Loop] \in registered

-----------------------------------------------------------------------------
LEMMA PutFacts ==
  ASSUME NEW map, NEW key, NEW value
  PROVE  /\ DOMAIN Put(map, key, value) = DOMAIN map \cup {key}
         /\ Put(map, key, value)[key] = value
         /\ \A k \in DOMAIN map \ {key} : Put(map, key, value)[k] = map[k]
BY DEF Put

LEMMA DropFacts ==
  ASSUME NEW map, NEW key
  PROVE  /\ DOMAIN Drop(map, key) = DOMAIN map \ {key}
         /\ \A k \in DOMAIN map \ {key} : Drop(map, key)[k] = map[k]
BY DEF Drop

LEMMA TouchedFacts ==
  ASSUME TablesTyped, NEW key \in Port
  PROVE  /\ DOMAIN Touched(key) = DOMAIN connMap \cup {key}
         /\ \A k \in DOMAIN connMap : Touched(key)[k] = connMap[k]
         /\ \A k \in DOMAIN Touched(key) : Touched(key)[k] \in Fd \cup {0}
         /\ Has(connMap, key) => Touched(key) = connMap
<1>1. CASE key \in DOMAIN connMap
  BY <1>1 DEF TablesTyped, Touched, Has
<1>2. CASE key \notin DOMAIN connMap
  <2> DEFINE map == Put(connMap, key, 0)
  <2>1. /\ DOMAIN map = DOMAIN connMap \cup {key} /\ map[key] = 0
        /\ \A k \in DOMAIN connMap \ {key} : map[k] = connMap[k]
    BY DEF Put
  <2>2. Touched(key) = map /\ ~Has(connMap, key)
    BY <1>2 DEF Touched, Has
  <2> HIDE DEF map
  <2> QED  BY <1>2, <2>1, <2>2 DEF TablesTyped
<1> QED  BY <1>1, <1>2

LEMMA AppendFacts ==
  ASSUME NEW S, NEW s \in Seq(S), NEW x \in S
  PROVE  /\ Append(s, x) \in Seq(S) /\ Len(Append(s, x)) = Len(s) + 1
         /\ DOMAIN Append(s, x) = 1 .. Len(s) + 1 /\ DOMAIN s = 1 .. Len(s) /\ Len(s) \in Nat
         /\ Append(s, x)[Len(s) + 1] = x
         /\ \A i \in 1 .. Len(s) : Append(s, x)[i] = s[i]
OBVIOUS

(* Senders, and their calls.                                               *)
LEMMA SenderFacts ==
  /\ Loop \in Sender /\ Thread \subseteq Sender /\ Loop \notin Thread /\ Nobody \notin Sender
  /\ MaxFd \in Nat /\ 0 \notin Port /\ Port \subseteq Nat /\ NoAddress \notin Remote
  /\ \A a \in Remote \cup Client :
       a \in Address /\ a = [ip |-> a.ip, port |-> a.port] /\ a.port \in Port /\ a.ip \in Ip
<1>1. \A a \in Address : a.port # 0
  BY SendPathAssumption
<1>2. NoAddress \notin Address
  BY <1>1 DEF NoAddress
<1> QED  BY <1>1, <1>2, SendPathAssumption DEF Sender, Port, Nobody, Ip

LEMMA CallFacts ==
  ASSUME SendersTyped, NEW s \in Sender, pc[s] \in Sending \cup Connecting
  PROVE  /\ call[s] \in DOMAIN calls /\ call[s] \in 1 .. Len(calls) /\ Len(calls) \in Nat
         /\ Meant(s) \in Call /\ Meant(s).to \in Remote \cup {NoAddress}
<1>1. call[s] \in 0 .. Len(calls) /\ call[s] # 0 /\ calls \in Seq(Call)
  BY DEF SendersTyped
<1>2. call[s] \in 1 .. Len(calls) /\ DOMAIN calls = 1 .. Len(calls) /\ Len(calls) \in Nat
  BY <1>1
<1>3. calls[call[s]] \in Call
  BY <1>1, <1>2
<1> QED  BY <1>2, <1>3 DEF Meant, Call

LEMMA InitSend == Init => SendInv /\ ApartInv
<1> SUFFICES ASSUME Init PROVE SendInv /\ ApartInv
  OBVIOUS
<1> USE SenderFacts
<1>1. KernelTyped
  BY DEF Init, KernelTyped, Conns
<1>2. TablesTyped
  BY DEF Init, TablesTyped, Polled
<1>3. SendersTyped
  <2>1. calls \in Seq(Call) /\ Len(calls) = 0 /\ owner = << >> /\ connMap = << >>
    BY DEF Init
  <2> QED  BY <2>1 DEF Init, SendersTyped, Sending, Connecting, Accepting
<1>4. SocketsInv
  BY DEF Init, SocketsInv, Making, Accepting, Polled
<1>5. BuffersInv
  BY DEF Init, BuffersInv, Polled
<1>6. ApartInv
  BY DEF Init, ApartInv
<1> QED  BY <1>1, <1>2, <1>3, <1>4, <1>5, <1>6 DEF SendInv

-----------------------------------------------------------------------------
(* Steps inside send_data that make and register nothing.                  *)
OthersStay(s) == \A u \in Sender \ {s} : pc'[u] = pc[u] /\ own'[u] = own[u]

LEMMA QuietStep ==
  ASSUME SendInv, NEW s \in Sender, OthersStay(s), UNCHANGED <<sock, conn, Polled, bufs>>,
         pc[s] \in {"idle"} \cup Sending \cup {"connect"},
         pc'[s] \in {"idle"} \cup Sending \cup {"connect"}
  PROVE  SocketsInv' /\ BuffersInv'
<1>1. /\ ~Making(s) /\ ~Making(s)' /\ pc[s] \notin Accepting /\ pc'[s] \notin Accepting
      /\ \A u \in Sender : Making(u)' <=> Making(u)
      /\ \A u \in Sender : Making(u) => own'[u] = own[u]
  BY DEF Making, OthersStay, Sending, Accepting
<1>2. pc'[Loop] \in Accepting => pc[Loop] = pc'[Loop] /\ own'[Loop] = own[Loop]
  BY <1>1, SenderFacts DEF OthersStay
<1>3. SocketsInv'
  BY <1>1, <1>2 DEF SendInv, SocketsInv
<1>4. \A u \in Sender : pc'[u] = "register" => pc[u] = "register" /\ own'[u] = own[u]
  BY <1>1 DEF Making, OthersStay
<1>5. /\ pc[Loop] = "accepted" => pc'[Loop] = "accepted"
      /\ pc[Loop] = "accepted" => own'[Loop] = own[Loop]
  BY <1>1, SenderFacts DEF OthersStay, Accepting
<1>6. BuffersInv'
  BY <1>4, <1>5, SenderFacts DEF SendInv, BuffersInv
<1> QED  BY <1>3, <1>6

LEMMA KernelStays ==
  ASSUME KernelTyped, UNCHANGED kernel, DOMAIN calls \subseteq DOMAIN calls'
  PROVE  KernelTyped'
BY DEF KernelTyped, kernel, Conns

LEMMA TablesStay ==
  ASSUME TablesTyped, UNCHANGED tables
  PROVE  TablesTyped'
BY DEF TablesTyped, tables, evloop, Polled

(* A new call, of a sender that is idle.                                   *)
LEMMA NewCall ==
  ASSUME SendInv, NEW s \in Sender, pc[s] = "idle", NEW c \in Call, NEW next \in Sending \cup {"connect"},
         calls' = Append(calls, c), call' = [call EXCEPT ![s] = Len(calls) + 1],
         pc' = [pc EXCEPT ![s] = next], UNCHANGED <<kernel, tables, handles, want, pos>>,
         way' \in [Sender -> {"addr", "socket"}], own' \in [Sender -> Fd \cup {0, NoSocket}],
         \A u \in Sender \ {s} : way'[u] = way[u] /\ own'[u] = own[u],
         next = "key" => way'[s] = "addr", way'[s] = "addr" => c.to \in Remote,
         next \notin {"lock", "header", "payload"}
  PROVE  SendInv'
<1> USE SenderFacts
<1>1. /\ calls \in Seq(Call) /\ pc \in [Sender -> {"idle"} \cup Sending \cup Connecting \cup Accepting]
      /\ call \in [Sender -> 0 .. Len(calls)] /\ want \in [Sender -> 0 .. Len(owner)]
  BY DEF SendInv, SendersTyped
<1>2. /\ calls' \in Seq(Call) /\ Len(calls') = Len(calls) + 1 /\ Len(calls) \in Nat
      /\ DOMAIN calls' = 1 .. Len(calls) + 1 /\ DOMAIN calls = 1 .. Len(calls)
      /\ calls'[Len(calls) + 1] = c /\ \A i \in 1 .. Len(calls) : calls'[i] = calls[i]
  BY <1>1, AppendFacts
<1>3. DOMAIN calls \subseteq DOMAIN calls'
  BY <1>2
<1>4. /\ pc'[s] = next /\ call'[s] = Len(calls) + 1
      /\ \A u \in Sender \ {s} : pc'[u] = pc[u] /\ call'[u] = call[u]
  BY <1>1
<1>5. KernelTyped' /\ TablesTyped'
  BY <1>3, KernelStays, TablesStay DEF SendInv
<1>6. SocketsInv' /\ BuffersInv'
  <2>1. OthersStay(s)
    BY <1>4 DEF OthersStay
  <2>2. UNCHANGED <<sock, conn, Polled, bufs>>
    BY DEF kernel, tables, evloop, Polled
  <2> QED  BY <1>4, <2>1, <2>2, QuietStep DEF Sending
<1>7. SendersTyped'
  <2>1. call' \in [Sender -> 0 .. Len(calls')]
    BY <1>1, <1>2
  <2>2. pc' \in [Sender -> {"idle"} \cup Sending \cup Connecting \cup Accepting]
    BY <1>1 DEF Connecting
  <2>3. want' \in [Sender -> 0 .. Len(owner')] /\ pos' \in {0} \cup DOMAIN connMap'
    BY <1>1 DEF SendInv, SendersTyped, tables, evloop, Polled
  <2>4. handles' \in [Thread -> [Remote -> Fd \cup {NoSocket}]]
    BY DEF SendInv, SendersTyped
  <2>5. Meant(s)' = c
    BY <1>2, <1>4 DEF Meant
  <2>6. ASSUME NEW u \in Sender \ {s}, pc[u] \in Sending \cup Connecting
        PROVE  Meant(u)' = Meant(u)
    <3>1. call[u] \in 1 .. Len(calls)
      BY <2>6, CallFacts DEF SendInv
    <3> QED  BY <3>1, <1>2, <1>4 DEF Meant
  <2>7. ASSUME NEW u \in Sender
        PROVE  /\ pc'[u] \in Sending \cup Connecting => call'[u] # 0
               /\ pc'[u] = "key" => way'[u] = "addr"
               /\ pc'[u] \in Sending \cup Connecting /\ way'[u] = "addr" => Meant(u)'.to \in Remote
               /\ pc'[u] \in {"store", "register"} => Meant(u)'.to \in Remote
               /\ pc'[u] \in {"lock", "header", "payload"} => want'[u] # 0
               /\ pc'[u] \in Accepting => u = Loop
    <3>1. CASE u = s
      BY <3>1, <1>2, <1>4, <2>5 DEF Sending, Accepting
    <3>2. CASE u # s
      <4>1. pc'[u] = pc[u] /\ call'[u] = call[u] /\ way'[u] = way[u] /\ want'[u] = want[u]
        BY <3>2, <1>4
      <4>2. pc[u] \in Sending \cup Connecting => Meant(u)' = Meant(u) /\ Meant(u) \in Call
        BY <3>2, <2>6, CallFacts DEF SendInv
      <4> QED  BY <4>1, <4>2 DEF SendInv, SendersTyped, Connecting
    <3> QED  BY <3>1, <3>2
  <2> QED  BY <1>2, <2>1, <2>2, <2>3, <2>4, <2>7 DEF SendersTyped
<1> QED  BY <1>5, <1>6, <1>7 DEF SendInv

LEMMA StartTyped ==
  ASSUME SendInv, NEW s \in Sender, NEW to \in Remote \cup {NoAddress}, NEW fd \in Fd \cup {NoSocket},
         to = NoAddress => fd \in Fd, Start(s, to, fd)
  PROVE  SendInv'
<1> USE SenderFacts
<1> DEFINE c      == [op |-> "send", to |-> to, conn |-> IF to = NoAddress THEN sock[fd] ELSE 0]
           byAddr == Has(connMap, to.port)
           next   == IF byAddr THEN "key" ELSE "find"
<1>1. c \in Call
  <2>1. to = NoAddress => sock[fd] \in Nat
    BY DEF SendInv, KernelTyped
  <2> QED  BY <2>1 DEF Call
<1>2. /\ pc[s] = "idle" /\ calls' = Append(calls, c) /\ call' = [call EXCEPT ![s] = Len(calls) + 1]
      /\ own' = [own EXCEPT ![s] = fd] /\ way' = [way EXCEPT ![s] = IF byAddr THEN "addr" ELSE "socket"]
      /\ pc' = [pc EXCEPT ![s] = next] /\ UNCHANGED <<kernel, tables, handles, want, pos>>
  BY DEF Start
<1>3. byAddr => to \in Remote
  <2>1. byAddr => to.port \in Port
    BY DEF Has, SendInv, TablesTyped
  <2>2. NoAddress.port = 0
    BY DEF NoAddress
  <2> QED  BY <2>1, <2>2
<1>4. /\ next \in Sending \cup {"connect"} /\ next \notin {"lock", "header", "payload"}
      /\ next = "key" => byAddr
  BY DEF Sending
<1>5. /\ way' \in [Sender -> {"addr", "socket"}] /\ own' \in [Sender -> Fd \cup {0, NoSocket}]
      /\ \A u \in Sender \ {s} : way'[u] = way[u] /\ own'[u] = own[u]
      /\ way'[s] = IF byAddr THEN "addr" ELSE "socket"
  BY <1>2 DEF SendInv, SendersTyped
<1>6. c.to = to
  OBVIOUS
<1> HIDE DEF c, byAddr, next
<1>7. /\ next = "key" => way'[s] = "addr"
      /\ way'[s] = "addr" => c.to \in Remote
  BY <1>3, <1>4, <1>5, <1>6
<1> QED  BY <1>1, <1>2, <1>4, <1>5, <1>7, NewCall

LEMMA SendToTyped ==
  ASSUME SendInv, NEW t \in Thread, SendTo(t)
  PROVE  SendInv'
<1>1. PICK to \in Remote : Start(t, to, handles[t][to])
  BY DEF SendTo
<1>2. handles[t][to] \in Fd \cup {NoSocket} /\ to # NoAddress /\ t \in Sender
  BY <1>1, SenderFacts DEF SendInv, SendersTyped
<1> QED  BY <1>1, <1>2, StartTyped

LEMMA ReplyTyped ==
  ASSUME SendInv, NEW s \in Sender, Reply(s)
  PROVE  SendInv'
<1>1. PICK fd \in Polled : Start(s, NoAddress, fd)
  BY DEF Reply
<1>2. fd \in Fd
  BY DEF SendInv, TablesTyped
<1> QED  BY <1>1, <1>2, StartTyped

LEMMA RegisterHandleTyped ==
  ASSUME SendInv, NEW t \in Thread, RegisterHandle(t)
  PROVE  SendInv'
<1> USE SenderFacts
<1>1. PICK to \in Remote : calls' = Append(calls, [op |-> "register", to |-> to, conn |-> 0])
  BY DEF RegisterHandle
<1> DEFINE c == [op |-> "register", to |-> to, conn |-> 0]
<1>2. c \in Call /\ c.to \in Remote /\ t \in Sender
  BY DEF Call
<1>3. /\ pc[t] = "idle" /\ call' = [call EXCEPT ![t] = Len(calls) + 1] /\ calls' = Append(calls, c)
      /\ pc' = [pc EXCEPT ![t] = "connect"] /\ UNCHANGED <<kernel, tables, handles, want, pos>>
      /\ UNCHANGED <<own, way>>
  BY <1>1 DEF RegisterHandle
<1>4. own' \in [Sender -> Fd \cup {0, NoSocket}] /\ way' \in [Sender -> {"addr", "socket"}]
  BY <1>3 DEF SendInv, SendersTyped
<1> HIDE DEF c
<1> QED  BY <1>2, <1>3, <1>4, NewCall

(* A sender whose call is under way takes a step and leaves the calls.     *)
LEMMA SameCalls ==
  ASSUME SendInv, NEW s \in Sender, pc[s] \in Sending \cup Connecting, NEW next,
         next \in {"idle"} \cup Sending \cup {"connect", "store", "register"},
         pc' = [pc EXCEPT ![s] = next], UNCHANGED <<calls, call, way>>,
         handles' \in [Thread -> [Remote -> Fd \cup {NoSocket}]],
         own' \in [Sender -> Fd \cup {0, NoSocket}], want' \in [Sender -> 0 .. Len(owner')],
         pos' \in {0} \cup DOMAIN connMap',
         \A u \in Sender \ {s} : want'[u] = want[u],
         next = "key" => way[s] = "addr", next \in {"store", "register"} => Meant(s).to \in Remote,
         next \in {"lock", "header", "payload"} => want'[s] # 0
  PROVE  SendersTyped' /\ pc'[s] = next /\ \A u \in Sender \ {s} : pc'[u] = pc[u]
<1>1. /\ pc \in [Sender -> {"idle"} \cup Sending \cup Connecting \cup Accepting]
      /\ calls \in Seq(Call) /\ call \in [Sender -> 0 .. Len(calls)]
      /\ way \in [Sender -> {"addr", "socket"}]
  BY DEF SendInv, SendersTyped
<1>2. /\ pc' \in [Sender -> {"idle"} \cup Sending \cup Connecting \cup Accepting]
      /\ pc'[s] = next /\ \A u \in Sender \ {s} : pc'[u] = pc[u]
  BY <1>1 DEF Connecting
<1>3. \A u \in Sender : Meant(u)' = Meant(u)
  BY DEF Meant
<1>4. ASSUME NEW u \in Sender
      PROVE  /\ pc'[u] \in Sending \cup Connecting => call'[u] # 0
             /\ pc'[u] = "key" => way'[u] = "addr"
             /\ pc'[u] \in Sending \cup Connecting /\ way'[u] = "addr" => Meant(u)'.to \in Remote
             /\ pc'[u] \in {"store", "register"} => Meant(u)'.to \in Remote
             /\ pc'[u] \in {"lock", "header", "payload"} => want'[u] # 0
             /\ pc'[u] \in Accepting => u = Loop
  <2>1. CASE u = s
    BY <2>1, <1>2, <1>3
       DEF SendInv, SendersTyped, Accepting, Sending, Connecting
  <2>2. CASE u # s
    BY <2>2, <1>2, <1>3 DEF SendInv, SendersTyped
  <2> QED  BY <2>1, <2>2
<1> QED  BY <1>1, <1>2, <1>4 DEF SendersTyped

LEMMA FindTyped ==
  ASSUME SendInv, NEW s \in Sender, Find(s)
  PROVE  SendInv'
<1>1. /\ pc[s] = "find" /\ UNCHANGED <<kernel, tables>>
      /\ UNCHANGED <<handles, calls, call, own, way, want, pos>>
  BY DEF Find, inside
<1>2. PICK next \in {"mutex", "connect"} : pc' = [pc EXCEPT ![s] = next]
  BY DEF Find
<1>3. pc[s] \in Sending \cup Connecting
  BY <1>1 DEF Sending
<1>4. KernelTyped' /\ TablesTyped'
  BY <1>1, KernelStays, TablesStay DEF SendInv
<1>5. SendersTyped' /\ pc'[s] = next /\ \A u \in Sender \ {s} : pc'[u] = pc[u]
  <2>1. /\ handles' \in [Thread -> [Remote -> Fd \cup {NoSocket}]]
        /\ own' \in [Sender -> Fd \cup {0, NoSocket}]
        /\ want' \in [Sender -> 0 .. Len(owner')] /\ pos' \in {0} \cup DOMAIN connMap'
    BY <1>1 DEF SendInv, SendersTyped, tables
  <2> QED  BY <1>1, <1>2, <1>3, <2>1, SameCalls DEF Sending
<1>6. UNCHANGED <<sock, conn, Polled, bufs>>
  BY <1>1 DEF kernel, tables, evloop, Polled
<1>7. SocketsInv' /\ BuffersInv'
  BY <1>1, <1>2, <1>5, <1>6, QuietStep DEF OthersStay, Sending
<1> QED  BY <1>4, <1>5, <1>7 DEF SendInv

LEMMA TakeKeyTyped ==
  ASSUME SendInv, NEW s \in Sender, TakeKey(s)
  PROVE  SendInv'
<1> USE SenderFacts
<1> DEFINE key == Meant(s).to.port
<1>1. /\ pc[s] = "key" /\ connMap' = Touched(key) /\ own' = [own EXCEPT ![s] = connMap'[key]]
      /\ pc' = [pc EXCEPT ![s] = "mutex"]
      /\ UNCHANGED <<kernel, Polled, mutexMap, owner, bufs, handles, calls, call, way, want, pos>>
  BY DEF TakeKey, evloop, Polled
<1>2. pc[s] \in Sending \cup Connecting /\ key \in Port
  BY <1>1 DEF SendInv, SendersTyped, Sending
<1> HIDE DEF key
<1>3. /\ DOMAIN connMap' = DOMAIN connMap \cup {key}
      /\ \A k \in DOMAIN connMap' : connMap'[k] \in Fd \cup {0}
  BY <1>1, <1>2, TouchedFacts DEF SendInv
<1>4. TablesTyped'
  BY <1>1, <1>2, <1>3 DEF SendInv, TablesTyped
<1>5. /\ own' \in [Sender -> Fd \cup {0, NoSocket}] /\ \A u \in Sender \ {s} : own'[u] = own[u]
  BY <1>1, <1>3 DEF SendInv, SendersTyped
<1>6. SendersTyped' /\ pc'[s] = "mutex" /\ \A u \in Sender \ {s} : pc'[u] = pc[u]
  <2>1. handles' \in [Thread -> [Remote -> Fd \cup {NoSocket}]] /\ want' \in [Sender -> 0 .. Len(owner')]
        /\ pos' \in {0} \cup DOMAIN connMap'
    BY <1>1, <1>3 DEF SendInv, SendersTyped
  <2> QED  BY <1>1, <1>2, <1>5, <2>1, SameCalls DEF Sending
<1>7. KernelTyped'
  BY <1>1, KernelStays DEF SendInv
<1>8. SocketsInv' /\ BuffersInv'
  BY <1>1, <1>5, <1>6, QuietStep DEF OthersStay, kernel, Sending
<1> QED  BY <1>4, <1>6, <1>7, <1>8 DEF SendInv

(* Steps that look for the mutex, take it or put one there.                *)
LEMMA MutexStep ==
  ASSUME SendInv, NEW s \in Sender, NEW next \in {"lock", "insert", "header"},
         pc[s] \in {"mutex", "insert", "lock"}, pc' = [pc EXCEPT ![s] = next],
         TablesTyped', want' \in [Sender -> 0 .. Len(owner')],
         \A u \in Sender \ {s} : want'[u] = want[u], next \in {"lock", "header"} => want'[s] # 0,
         UNCHANGED <<kernel, Polled, connMap, bufs, handles, calls, call, own, way, pos>>
  PROVE  SendInv'
<1>1. pc[s] \in Sending \cup Connecting /\ next \in Sending
  BY DEF Sending
<1>2. /\ handles' \in [Thread -> [Remote -> Fd \cup {NoSocket}]]
      /\ pos' \in {0} \cup DOMAIN connMap' /\ own' \in [Sender -> Fd \cup {0, NoSocket}]
  BY DEF SendInv, SendersTyped
<1>3. next # "key" /\ next \notin {"store", "register", "payload"}
  OBVIOUS
<1>4. SendersTyped' /\ pc'[s] = next /\ \A u \in Sender \ {s} : pc'[u] = pc[u]
  BY <1>1, <1>2, <1>3, SameCalls
<1>5. KernelTyped'
  BY KernelStays DEF SendInv
<1>6. SocketsInv' /\ BuffersInv'
  BY <1>1, <1>4, QuietStep DEF OthersStay, kernel, Sending
<1> QED  BY <1>4, <1>5, <1>6 DEF SendInv

LEMMA FindMutexTyped ==
  ASSUME SendInv, NEW s \in Sender, FindMutex(s)
  PROVE  SendInv'
<1>1. /\ pc[s] = "mutex"
      /\ UNCHANGED <<kernel, tables, handles, calls, call, own, way, pos>>
  BY DEF FindMutex
<1>2. TablesTyped' /\ want \in [Sender -> 0 .. Len(owner)] /\ owner' = owner
  BY <1>1, TablesStay DEF SendInv, SendersTyped, tables, evloop, Polled
<1>3. UNCHANGED <<Polled, connMap, bufs>>
  BY <1>1 DEF tables, evloop, Polled
<1>4. CASE Has(mutexMap, own[s])
  <2>1. mutexMap[own[s]] \in 1 .. Len(owner)
    BY <1>4 DEF SendInv, TablesTyped, Has
  <2>2. pc' = [pc EXCEPT ![s] = "lock"] /\ want' = [want EXCEPT ![s] = mutexMap[own[s]]]
    BY <1>4 DEF FindMutex
  <2>3. /\ want' \in [Sender -> 0 .. Len(owner')] /\ want'[s] # 0
        /\ \A u \in Sender \ {s} : want'[u] = want[u]
    BY <1>2, <2>1, <2>2
  <2> QED  BY <1>1, <1>2, <1>3, <2>2, <2>3, MutexStep
<1>5. CASE ~Has(mutexMap, own[s])
  <2>1. pc' = [pc EXCEPT ![s] = "insert"] /\ want' = want
    BY <1>5 DEF FindMutex
  <2> QED  BY <1>1, <1>2, <1>3, <2>1, MutexStep
<1> QED  BY <1>4, <1>5

LEMMA InsertMutexTyped ==
  ASSUME SendInv, NEW s \in Sender, InsertMutex(s)
  PROVE  SendInv'
<1> USE SenderFacts
<1>1. /\ pc[s] = "insert" /\ pc' = [pc EXCEPT ![s] = "lock"]
      /\ UNCHANGED <<kernel, Polled, connMap, bufs, handles, calls, call, own, way, pos>>
  BY DEF InsertMutex, evloop, Polled
<1>2. /\ owner \in Seq(Sender \cup {Nobody}) /\ Len(owner) \in Nat
      /\ want \in [Sender -> 0 .. Len(owner)] /\ own[s] \in Fd \cup {0, NoSocket}
  BY DEF SendInv, TablesTyped, SendersTyped
<1>3. CASE /\ Has(mutexMap, own[s]) /\ want' = [want EXCEPT ![s] = mutexMap[own[s]]]
           /\ UNCHANGED <<mutexMap, owner>>
  <2>1. mutexMap[own[s]] \in 1 .. Len(owner)
    BY <1>3 DEF SendInv, TablesTyped, Has
  <2>2. /\ want' \in [Sender -> 0 .. Len(owner')] /\ want'[s] # 0
        /\ \A u \in Sender \ {s} : want'[u] = want[u]
    BY <1>2, <1>3, <2>1
  <2>3. TablesTyped'
    BY <1>1, <1>3 DEF SendInv, TablesTyped
  <2> QED  BY <1>1, <2>2, <2>3, MutexStep
<1>4. CASE /\ owner' = Append(owner, Nobody) /\ mutexMap' = Put(mutexMap, own[s], Len(owner) + 1)
           /\ want' = [want EXCEPT ![s] = Len(owner) + 1]
  <2>1. /\ owner' \in Seq(Sender \cup {Nobody}) /\ Len(owner') = Len(owner) + 1
        /\ DOMAIN owner' = 1 .. Len(owner) + 1 /\ DOMAIN owner = 1 .. Len(owner)
    BY <1>2, <1>4, AppendFacts
  <2>2. /\ want' \in [Sender -> 0 .. Len(owner')] /\ want'[s] # 0
        /\ \A u \in Sender \ {s} : want'[u] = want[u]
    BY <1>2, <1>4, <2>1
  <2>3. /\ DOMAIN mutexMap' = DOMAIN mutexMap \cup {own[s]} /\ mutexMap'[own[s]] = Len(owner) + 1
        /\ \A k \in DOMAIN mutexMap \ {own[s]} : mutexMap'[k] = mutexMap[k]
    BY <1>4 DEF Put
  <2>4. \A fd \in DOMAIN mutexMap' : mutexMap'[fd] \in DOMAIN owner'
    BY <1>2, <2>1, <2>3 DEF SendInv, TablesTyped
  <2>5. TablesTyped'
    BY <1>1, <2>1, <2>4 DEF SendInv, TablesTyped
  <2> QED  BY <1>1, <2>2, <2>5, MutexStep
<1> QED  BY <1>3, <1>4 DEF InsertMutex

LEMMA LockTyped ==
  ASSUME SendInv, NEW s \in Sender, Lock(s)
  PROVE  SendInv'
<1>1. /\ pc[s] = "lock" /\ owner' = [owner EXCEPT ![want[s]] = s] /\ pc' = [pc EXCEPT ![s] = "header"]
      /\ UNCHANGED <<kernel, Polled, connMap, mutexMap, bufs, handles, calls, call, own, way, want, pos>>
  BY DEF Lock, inside, evloop, Polled
<1>2. owner \in Seq(Sender \cup {Nobody}) /\ want \in [Sender -> 0 .. Len(owner)] /\ want[s] # 0
  BY <1>1 DEF SendInv, TablesTyped, SendersTyped
<1>3. owner' \in Seq(Sender \cup {Nobody}) /\ Len(owner') = Len(owner) /\ DOMAIN owner' = DOMAIN owner
  BY <1>1, <1>2
<1>4. TablesTyped'
  BY <1>1, <1>3 DEF SendInv, TablesTyped
<1>5. want' \in [Sender -> 0 .. Len(owner')]
  BY <1>1, <1>2, <1>3
<1> QED  BY <1>1, <1>2, <1>4, <1>5, MutexStep

(* send() of a part: into an open connection, or nowhere.                  *)
LEMMA TransmitTyped ==
  ASSUME SendInv, NEW s \in Sender, NEW part \in {"header", "payload"}, pc[s] = part,
         NEW next \in {"payload", "idle"}, Transmit(s, part), pc' = [pc EXCEPT ![s] = next],
         owner' \in Seq(Sender \cup {Nobody}), Len(owner') = Len(owner)
  PROVE  SendInv'
<1> USE SenderFacts
<1> DEFINE key == Meant(s).to.port
           fd  == IF way[s] = "addr" THEN connMap'[key] ELSE own[s]
           p   == [call |-> call[s], part |-> part]
<1>1. /\ connMap' = IF way[s] = "addr" THEN Touched(key) ELSE connMap
      /\ stream' = IF fd \in Fd /\ sock[fd] # 0
                   THEN [stream EXCEPT ![sock[fd]] = Append(stream[sock[fd]], p)] ELSE stream
      /\ UNCHANGED <<sock, conn, Polled, mutexMap, bufs>>
      /\ UNCHANGED <<handles, calls, call, own, way, want, pos>>
  BY DEF Transmit, inside, evloop, Polled
<1>2. pc[s] \in Sending \cup Connecting
  BY DEF Sending
<1>3. /\ p \in Part /\ p.call = call[s] /\ call[s] \in DOMAIN calls
  BY <1>2, CallFacts DEF SendInv, Part
<1>4. way[s] = "addr" => key \in Port
  BY <1>2 DEF SendInv, SendersTyped
<1> HIDE DEF key, fd, p
<1>5. /\ DOMAIN connMap \subseteq DOMAIN connMap' /\ DOMAIN connMap' \subseteq Port
      /\ \A k \in DOMAIN connMap' : connMap'[k] \in Fd \cup {0}
  <2>1. CASE way[s] = "addr"
    <3>1. connMap' = Touched(key) /\ key \in Port /\ TablesTyped
      BY <2>1, <1>1, <1>4 DEF SendInv
    <3>2. /\ DOMAIN connMap' = DOMAIN connMap \cup {key}
          /\ \A k \in DOMAIN connMap' : connMap'[k] \in Fd \cup {0}
      BY <3>1, TouchedFacts
    <3> QED  BY <3>1, <3>2 DEF TablesTyped
  <2>2. CASE way[s] # "addr"
    BY <2>2, <1>1 DEF SendInv, TablesTyped
  <2> QED  BY <2>1, <2>2
<1>6. TablesTyped'
  BY <1>1, <1>5 DEF SendInv, TablesTyped
<1>7. SendersTyped' /\ pc'[s] = next /\ \A u \in Sender \ {s} : pc'[u] = pc[u]
  <2>1. /\ handles' \in [Thread -> [Remote -> Fd \cup {NoSocket}]]
        /\ want' \in [Sender -> 0 .. Len(owner')] /\ want'[s] # 0
        /\ pos' \in {0} \cup DOMAIN connMap' /\ own' \in [Sender -> Fd \cup {0, NoSocket}]
    BY <1>1, <1>5 DEF SendInv, SendersTyped
  <2> QED  BY <1>1, <1>2, <2>1, SameCalls DEF Sending
<1>8. SocketsInv' /\ BuffersInv'
  BY <1>1, <1>7, QuietStep DEF OthersStay, Sending
<1>9. KernelTyped'
  <2>1. /\ sock \in [Fd -> 0 .. Len(conn)] /\ stream \in Seq(Seq(Part)) /\ Len(stream) = Len(conn)
        /\ Len(conn) \in Nat
        /\ \A c \in Conns : \A i \in DOMAIN stream[c] : stream[c][i].call \in DOMAIN calls
    BY DEF SendInv, KernelTyped
  <2>2. CASE ~(fd \in Fd /\ sock[fd] # 0)
    BY <1>1, <2>2 DEF SendInv, KernelTyped, Conns
  <2>3. CASE fd \in Fd /\ sock[fd] # 0
    <3> DEFINE d == sock[fd]
               q == Append(stream[d], p)
    <3>1. d \in 1 .. Len(stream) /\ stream[d] \in Seq(Part)
      BY <2>1, <2>3
    <3>2. /\ q \in Seq(Part) /\ DOMAIN q = 1 .. Len(stream[d]) + 1
          /\ DOMAIN stream[d] = 1 .. Len(stream[d]) /\ Len(stream[d]) \in Nat
          /\ q[Len(stream[d]) + 1] = p /\ \A i \in 1 .. Len(stream[d]) : q[i] = stream[d][i]
      BY <1>3, <3>1, AppendFacts
    <3>3. stream' = [stream EXCEPT ![d] = q]
      BY <1>1, <2>3
    <3> HIDE DEF d, q
    <3>4. /\ stream' \in Seq(Seq(Part)) /\ Len(stream') = Len(stream)
          /\ stream'[d] = q /\ \A c \in 1 .. Len(stream) : c # d => stream'[c] = stream[c]
      BY <2>1, <3>1, <3>2, <3>3
    <3>5. \A i \in DOMAIN q : q[i].call \in DOMAIN calls
      <4> SUFFICES ASSUME NEW i \in DOMAIN q PROVE q[i].call \in DOMAIN calls
        OBVIOUS
      <4>1. CASE i = Len(stream[d]) + 1
        BY <4>1, <1>3, <3>2
      <4>2. CASE i \in 1 .. Len(stream[d])
        BY <4>2, <2>1, <3>1, <3>2 DEF Conns
      <4> QED  BY <4>1, <4>2, <3>2
    <3>6. \A c \in Conns : \A i \in DOMAIN stream'[c] : stream'[c][i].call \in DOMAIN calls
      <4> SUFFICES ASSUME NEW c \in Conns, NEW i \in DOMAIN stream'[c]
                   PROVE  stream'[c][i].call \in DOMAIN calls
        OBVIOUS
      <4>1. CASE c = d
        BY <4>1, <3>4, <3>5
      <4>2. CASE c # d
        BY <4>2, <2>1, <3>4 DEF Conns
      <4> QED  BY <4>1, <4>2
    <3> QED  BY <1>1, <3>4, <3>6 DEF SendInv, KernelTyped, Conns
  <2> QED  BY <2>2, <2>3
<1> QED  BY <1>6, <1>7, <1>8, <1>9 DEF SendInv

LEMMA SendHeaderTyped ==
  ASSUME SendInv, NEW s \in Sender, SendHeader(s)
  PROVE  SendInv'
<1>1. owner' \in Seq(Sender \cup {Nobody}) /\ Len(owner') = Len(owner)
  BY DEF SendHeader, SendInv, TablesTyped
<1> QED  BY <1>1, TransmitTyped DEF SendHeader

LEMMA SendPayloadTyped ==
  ASSUME SendInv, NEW s \in Sender, SendPayload(s)
  PROVE  SendInv'
<1>1. owner' = [owner EXCEPT ![want[s]] = Nobody] /\ owner \in Seq(Sender \cup {Nobody})
  BY DEF SendPayload, SendInv, TablesTyped
<1>2. want[s] \in 1 .. Len(owner)
  BY DEF SendPayload, SendInv, SendersTyped
<1>3. owner' \in Seq(Sender \cup {Nobody}) /\ Len(owner') = Len(owner)
  BY <1>1, <1>2
<1> QED  BY <1>3, TransmitTyped DEF SendPayload

-----------------------------------------------------------------------------
(* A descriptor is opened, closed or Polled.                           *)
LEMMA OpenSocketFacts ==
  ASSUME SendInv, NEW fd \in Fd, NEW peer \in [ip : Ip, port : Port \cup {0}],
         NEW role \in {"client", "accepted", "failed"}, NEW alive \in BOOLEAN,
         role # "failed" => peer.port \in Port, OpenSocket(fd, peer, role, alive), calls' = calls
  PROVE  /\ KernelTyped' /\ Len(conn) \in Nat /\ Len(conn') = Len(conn) + 1
         /\ sock[fd] = 0 /\ sock'[fd] = Len(conn) + 1
         /\ \A other \in Fd : /\ sock[other] \in 0 .. Len(conn)
                              /\ other # fd => sock'[other] = sock[other]
         /\ conn'[Len(conn) + 1] = [peer |-> peer, role |-> role, alive |-> alive]
         /\ \A c \in Conns : conn'[c] = conn[c] /\ stream'[c] = stream[c]
         /\ stream'[Len(conn) + 1] = << >>
<1> DEFINE r == [peer |-> peer, role |-> role, alive |-> alive]
<1>1. /\ sock \in [Fd -> 0 .. Len(conn)] /\ conn \in Seq(Connection) /\ stream \in Seq(Seq(Part))
      /\ Len(stream) = Len(conn)
      /\ \A c \in Conns : \A i \in DOMAIN stream[c] : stream[c][i].call \in DOMAIN calls
      /\ \A c \in Conns : conn[c].role # "failed" => conn[c].peer.port \in Port
  BY DEF SendInv, KernelTyped
<1>2. /\ sock[fd] = 0 /\ conn' = Append(conn, r) /\ sock' = [sock EXCEPT ![fd] = Len(conn) + 1]
      /\ stream' = Append(stream, << >>)
  BY DEF OpenSocket, Unused
<1>3. r \in Connection /\ r.role = role /\ r.peer = peer
  BY DEF Connection
<1>4. << >> \in Seq(Part)
  OBVIOUS
<1> HIDE DEF r
<1>5. /\ conn' \in Seq(Connection) /\ Len(conn') = Len(conn) + 1 /\ Len(conn) \in Nat
      /\ conn'[Len(conn) + 1] = r /\ \A c \in 1 .. Len(conn) : conn'[c] = conn[c]
  BY <1>1, <1>2, <1>3, AppendFacts
<1>6. /\ stream' \in Seq(Seq(Part)) /\ Len(stream') = Len(conn) + 1
      /\ stream'[Len(conn) + 1] = << >> /\ \A c \in 1 .. Len(conn) : stream'[c] = stream[c]
  BY <1>1, <1>2, <1>4, AppendFacts
<1>7. /\ sock' \in [Fd -> 0 .. Len(conn')] /\ sock'[fd] = Len(conn) + 1
      /\ \A other \in Fd : /\ sock[other] \in 0 .. Len(conn)
                           /\ other # fd => sock'[other] = sock[other]
  <2>1. \A other \in Fd : sock[other] \in 0 .. Len(conn)
    BY <1>1
  <2>2. sock'[fd] = Len(conn) + 1 /\ \A other \in Fd : other # fd => sock'[other] = sock[other]
    BY <1>1, <1>2
  <2>3. \A other \in Fd : sock'[other] \in 0 .. Len(conn')
    BY <2>1, <2>2, <1>5
  <2>4. sock' = [other \in Fd |-> sock'[other]]
    BY <1>1, <1>2
  <2> QED  BY <2>1, <2>2, <2>3, <2>4
<1>8. KernelTyped'
  <2> SUFFICES ASSUME NEW c \in 1 .. Len(conn')
               PROVE  /\ conn'[c].role # "failed" => conn'[c].peer.port \in Port
                      /\ \A i \in DOMAIN stream'[c] : stream'[c][i].call \in DOMAIN calls
    BY <1>5, <1>6, <1>7 DEF KernelTyped, Conns
  <2>1. CASE c = Len(conn) + 1
    <3>1. DOMAIN stream'[c] = {}
      BY <2>1, <1>6
    <3> QED  BY <2>1, <3>1, <1>3, <1>5
  <2>2. CASE c \in 1 .. Len(conn)
    BY <2>2, <1>1, <1>5, <1>6 DEF Conns
  <2> QED  BY <2>1, <2>2, <1>5
<1> QED  BY <1>2, <1>5, <1>6, <1>7, <1>8 DEF Conns, r

LEMMA ConnectTyped ==
  ASSUME SendInv, NEW s \in Sender, Connect(s)
  PROVE  SendInv'
<1> USE SenderFacts
<1>1. PICK fd \in Fd, ip \in Destination(s) :
        /\ OpenSocket(fd, [ip |-> ip, port |-> Meant(s).to.port], "client", TRUE)
        /\ own' = [own EXCEPT ![s] = fd]
  BY DEF Connect
<1>2. /\ pc[s] = "connect" /\ Meant(s).to # NoAddress /\ pc' = [pc EXCEPT ![s] = "store"]
      /\ UNCHANGED <<tables, handles, calls, call, way, want, pos>>
  BY DEF Connect
<1>3. pc[s] \in Sending \cup Connecting
  BY <1>2 DEF Connecting
<1>4. Meant(s).to \in Remote
  BY <1>2, <1>3, CallFacts DEF SendInv
<1> DEFINE peer == [ip |-> ip, port |-> Meant(s).to.port]
<1>5. peer \in [ip : Ip, port : Port \cup {0}] /\ peer.port \in Port
  <2>1. ip \in Ip
    BY DEF Destination, Ip
  <2> QED  BY <2>1, <1>4
<1>6. OpenSocket(fd, peer, "client", TRUE)
  BY <1>1
<1> HIDE DEF peer
<1>7. /\ KernelTyped' /\ Len(conn) \in Nat /\ sock[fd] = 0 /\ sock'[fd] = Len(conn) + 1
      /\ \A other \in Fd : /\ sock[other] \in 0 .. Len(conn)
                           /\ other # fd => sock'[other] = sock[other]
      /\ conn'[Len(conn) + 1].role = "client" /\ \A c \in 1 .. Len(conn) : conn'[c] = conn[c]
  <2>1. /\ KernelTyped' /\ Len(conn) \in Nat /\ sock[fd] = 0 /\ sock'[fd] = Len(conn) + 1
        /\ \A other \in Fd : /\ sock[other] \in 0 .. Len(conn)
                             /\ other # fd => sock'[other] = sock[other]
        /\ conn'[Len(conn) + 1] = [peer |-> peer, role |-> "client", alive |-> TRUE]
        /\ \A c \in Conns : conn'[c] = conn[c]
    BY <1>2, <1>5, <1>6, OpenSocketFacts
  <2> QED  BY <2>1 DEF Conns
<1>8. TablesTyped'
  BY <1>2, TablesStay DEF SendInv
<1>9. own \in [Sender -> Fd \cup {0, NoSocket}]
  BY DEF SendInv, SendersTyped
<1>10. /\ own' \in [Sender -> Fd \cup {0, NoSocket}] /\ own'[s] = fd
       /\ \A u \in Sender \ {s} : own'[u] = own[u]
  BY <1>1, <1>9
<1>11. SendersTyped' /\ pc'[s] = "store" /\ \A u \in Sender \ {s} : pc'[u] = pc[u]
  <2>1. /\ handles' \in [Thread -> [Remote -> Fd \cup {NoSocket}]]
        /\ want' \in [Sender -> 0 .. Len(owner')] /\ pos' \in {0} \cup DOMAIN connMap'
    BY <1>2 DEF SendInv, SendersTyped, tables, evloop, Polled
  <2> QED  BY <1>2, <1>3, <1>4, <1>10, <2>1, SameCalls DEF Sending
<1>12. Polled' = Polled /\ Polled \subseteq Fd /\ bufs' = bufs
  BY <1>2 DEF tables, evloop, Polled, SendInv, TablesTyped
<1>13. /\ Making(s)' /\ ~Making(s) /\ \A u \in Sender \ {s} : Making(u)' <=> Making(u)
       /\ \A u \in Sender : Making(u) => own[u] \in Fd /\ own[u] # fd
  BY <1>2, <1>7, <1>11 DEF Making, SendInv, SocketsInv
<1>14. pc'[Loop] \in Accepting => pc[Loop] = pc'[Loop] /\ own'[Loop] = own[Loop]
  BY <1>10, <1>11 DEF Accepting
<1>15. SocketsInv'
  <2>1. fd \notin Polled
    BY <1>7 DEF SendInv, SocketsInv
  <2>2. \A f \in Polled' : sock'[f] # 0 /\ conn'[sock'[f]].role # "failed"
    BY <2>1, <1>7, <1>12 DEF SendInv, SocketsInv
  <2>3. ASSUME NEW u \in Sender, Making(u)'
        PROVE  /\ own'[u] \in Fd /\ sock'[own'[u]] # 0 /\ conn'[sock'[own'[u]]].role = "client"
               /\ own'[u] \notin Polled'
               /\ \A other \in Sender : Making(other)' /\ own'[other] = own'[u] => other = u
    <3>1. CASE u = s
      BY <3>1, <2>1, <1>7, <1>10, <1>12, <1>13
    <3>2. CASE u # s
      <4>1. Making(u) /\ own'[u] = own[u] /\ own[u] \in Fd /\ own[u] # fd
        BY <3>2, <2>3, <1>10, <1>13
      <4>2. /\ sock[own[u]] # 0 /\ conn[sock[own[u]]].role = "client" /\ own[u] \notin Polled
            /\ \A other \in Sender : Making(other) /\ own[other] = own[u] => other = u
        BY <4>1 DEF SendInv, SocketsInv
      <4>3. sock'[own[u]] = sock[own[u]] /\ sock[own[u]] \in 1 .. Len(conn)
        BY <4>1, <4>2, <1>7
      <4> QED  BY <4>1, <4>2, <4>3, <1>7, <1>10, <1>12, <1>13
    <3> QED  BY <3>1, <3>2
  <2>4. pc'[Loop] \in Accepting => own'[Loop] \in Polled'
    BY <1>12, <1>14 DEF SendInv, SocketsInv
  <2>5. ASSUME NEW f \in Fd, sock'[f] # 0, conn'[sock'[f]].role # "failed"
        PROVE  f \in Polled' \/ \E u \in Sender : Making(u)' /\ own'[u] = f
    <3>1. CASE f = fd
      BY <3>1, <1>10, <1>13
    <3>2. CASE f # fd
      <4>1. sock[f] # 0 /\ conn[sock[f]].role # "failed"
        BY <3>2, <2>5, <1>7
      <4>2. f \in Polled \/ \E u \in Sender : Making(u) /\ own[u] = f
        BY <4>1 DEF SendInv, SocketsInv
      <4> QED  BY <4>2, <1>10, <1>12, <1>13
    <3> QED  BY <3>1, <3>2
  <2> QED  BY <2>2, <2>3, <2>4, <2>5 DEF SocketsInv
<1>16. BuffersInv'
  <2>1. \A u \in Sender : pc'[u] = "register" => pc[u] = "register" /\ own'[u] = own[u]
    BY <1>10, <1>11
  <2>2. pc[Loop] = "accepted" => pc'[Loop] = "accepted" /\ own'[Loop] = own[Loop]
    BY <1>2, <1>10, <1>11
  <2> QED  BY <1>12, <2>1, <2>2 DEF SendInv, BuffersInv
<1> QED  BY <1>7, <1>8, <1>11, <1>15, <1>16 DEF SendInv

LEMMA ConnectFailsTyped ==
  ASSUME SendInv, NEW s \in Sender, ConnectFails(s)
  PROVE  SendInv'
<1> USE SenderFacts
<1>1. /\ pc[s] = "connect" /\ pc' = [pc EXCEPT ![s] = "idle"]
      /\ UNCHANGED tables /\ UNCHANGED <<handles, calls, call, own, way, want, pos>>
  BY DEF ConnectFails, inside
<1>2. pc[s] \in Sending \cup Connecting
  BY <1>1 DEF Connecting
<1>3. TablesTyped'
  BY <1>1, TablesStay DEF SendInv
<1>4. SendersTyped' /\ pc'[s] = "idle" /\ \A u \in Sender \ {s} : pc'[u] = pc[u]
  <2>1. /\ handles' \in [Thread -> [Remote -> Fd \cup {NoSocket}]]
        /\ own' \in [Sender -> Fd \cup {0, NoSocket}]
        /\ want' \in [Sender -> 0 .. Len(owner')] /\ pos' \in {0} \cup DOMAIN connMap'
    BY <1>1 DEF SendInv, SendersTyped, tables, evloop, Polled
  <2> QED  BY <1>1, <1>2, <2>1, SameCalls DEF Sending
<1>5. UNCHANGED <<Polled, bufs>> /\ Polled \subseteq Fd
  BY <1>1 DEF tables, evloop, Polled, SendInv, TablesTyped
<1>6. CASE UNCHANGED kernel
  <2>1. KernelTyped'
    BY <1>1, <1>6, KernelStays DEF SendInv
  <2>2. SocketsInv' /\ BuffersInv'
    BY <1>1, <1>4, <1>5, <1>6, QuietStep DEF OthersStay, kernel, Sending
  <2> QED  BY <1>3, <1>4, <2>1, <2>2 DEF SendInv
<1>7. CASE \E fd \in Fd : OpenSocket(fd, NoAddress, "failed", FALSE)
  <2>1. PICK fd \in Fd : OpenSocket(fd, NoAddress, "failed", FALSE)
    BY <1>7
  <2>2. NoAddress \in [ip : Ip, port : Port \cup {0}]
    BY DEF NoAddress, Ip
  <2>3. /\ KernelTyped' /\ Len(conn) \in Nat /\ sock[fd] = 0 /\ sock'[fd] = Len(conn) + 1
        /\ \A other \in Fd : /\ sock[other] \in 0 .. Len(conn)
                             /\ other # fd => sock'[other] = sock[other]
        /\ conn'[Len(conn) + 1].role = "failed" /\ \A c \in 1 .. Len(conn) : conn'[c] = conn[c]
    <3>1. /\ KernelTyped' /\ Len(conn) \in Nat /\ sock[fd] = 0 /\ sock'[fd] = Len(conn) + 1
          /\ \A other \in Fd : /\ sock[other] \in 0 .. Len(conn)
                               /\ other # fd => sock'[other] = sock[other]
          /\ conn'[Len(conn) + 1] = [peer |-> NoAddress, role |-> "failed", alive |-> FALSE]
          /\ \A c \in Conns : conn'[c] = conn[c]
      BY <1>1, <2>1, <2>2, OpenSocketFacts
    <3> QED  BY <3>1 DEF Conns
  <2>4. /\ \A u \in Sender : Making(u)' <=> Making(u)
        /\ \A u \in Sender : own'[u] = own[u]
        /\ pc'[Loop] \in Accepting => pc[Loop] = pc'[Loop]
        /\ pc[Loop] = "accepted" => pc'[Loop] = "accepted"
        /\ \A u \in Sender : pc'[u] = "register" => pc[u] = "register"
    BY <1>1, <1>4 DEF Making, Accepting
  <2>5. SocketsInv'
    <3>1. fd \notin Polled /\ \A u \in Sender : Making(u) => own[u] \in Fd /\ own[u] # fd
      BY <2>3 DEF SendInv, SocketsInv
    <3>2. \A f \in Fd : f # fd /\ sock[f] # 0 => /\ sock'[f] = sock[f] /\ conn'[sock'[f]] = conn[sock[f]]
      <4> SUFFICES ASSUME NEW f \in Fd, f # fd, sock[f] # 0
                   PROVE  sock'[f] = sock[f] /\ conn'[sock'[f]] = conn[sock[f]]
        OBVIOUS
      <4>1. sock'[f] = sock[f] /\ sock[f] \in 1 .. Len(conn)
        BY <2>3
      <4> QED  BY <4>1, <2>3
    <3>3. \A f \in Polled : sock'[f] # 0 /\ conn'[sock'[f]].role # "failed"
      BY <3>1, <3>2, <1>5 DEF SendInv, SocketsInv
    <3>4. \A u \in Sender : Making(u) => sock'[own[u]] # 0 /\ conn'[sock'[own[u]]].role = "client"
      BY <3>1, <3>2 DEF SendInv, SocketsInv
    <3>5. \A f \in Fd : sock'[f] # 0 /\ conn'[sock'[f]].role # "failed" =>
            f \in Polled \/ \E u \in Sender : Making(u) /\ own[u] = f
      BY <3>2, <2>3 DEF SendInv, SocketsInv
    <3> QED  BY <3>1, <3>3, <3>4, <3>5, <2>4, <1>5 DEF SendInv, SocketsInv
  <2>6. BuffersInv'
    BY <2>4, <1>5 DEF SendInv, BuffersInv
  <2> QED  BY <1>3, <1>4, <2>3, <2>5, <2>6 DEF SendInv
<1> QED  BY <1>6, <1>7 DEF ConnectFails

LEMMA StoreTyped ==
  ASSUME SendInv, NEW s \in Sender, Store(s)
  PROVE  SendInv'
<1> USE SenderFacts
<1> DEFINE to == Meant(s).to
<1>1. /\ pc[s] = "store" /\ handles' = [handles EXCEPT ![s][to] = own[s]]
      /\ connMap' = Put(connMap, to.port, own[s]) /\ bufs' = bufs \cup {own[s]}
      /\ pc' = [pc EXCEPT ![s] = "register"]
      /\ UNCHANGED <<kernel, Polled, calls, call, own, way, want, pos>>
  BY DEF Store, evloop, Polled
<1>2. Making(s) /\ pc[s] \in Sending \cup Connecting
  BY <1>1 DEF Making, Connecting
<1>3. to \in Remote /\ to.port \in Port /\ own[s] \in Fd
  BY <1>1, <1>2 DEF SendInv, SendersTyped, SocketsInv
<1> HIDE DEF to
<1>4. /\ DOMAIN connMap' = DOMAIN connMap \cup {to.port}
      /\ \A k \in DOMAIN connMap' : connMap'[k] \in Fd \cup {0}
  <2>1. \A k \in DOMAIN connMap : connMap[k] \in Fd \cup {0}
    BY DEF SendInv, TablesTyped
  <2> QED  BY <1>1, <1>3, <2>1 DEF Put
<1>5. /\ owner' \in Seq(Sender \cup {Nobody}) /\ \A fd \in DOMAIN mutexMap' : mutexMap'[fd] \in DOMAIN owner'
      /\ Len(owner') \in Nat /\ Len(owner) <= Len(owner')
  <2>1. /\ owner \in Seq(Sender \cup {Nobody}) /\ Len(owner) \in Nat
        /\ \A fd \in DOMAIN mutexMap : mutexMap[fd] \in DOMAIN owner
    BY DEF SendInv, TablesTyped
  <2>2. CASE Has(mutexMap, own[s])
    BY <2>1, <2>2 DEF Store
  <2>3. CASE ~Has(mutexMap, own[s])
    <3>1. mutexMap' = Put(mutexMap, own[s], Len(owner) + 1) /\ owner' = Append(owner, Nobody)
      BY <2>3 DEF Store
    <3>2. /\ owner' \in Seq(Sender \cup {Nobody}) /\ Len(owner') = Len(owner) + 1
          /\ DOMAIN owner' = 1 .. Len(owner) + 1 /\ DOMAIN owner = 1 .. Len(owner)
      BY <2>1, <3>1, AppendFacts
    <3>3. /\ DOMAIN mutexMap' = DOMAIN mutexMap \cup {own[s]} /\ mutexMap'[own[s]] = Len(owner) + 1
          /\ \A k \in DOMAIN mutexMap \ {own[s]} : mutexMap'[k] = mutexMap[k]
      BY <3>1 DEF Put
    <3> QED  BY <2>1, <3>2, <3>3
  <2> QED  BY <2>2, <2>3
<1>6. TablesTyped'
  BY <1>1, <1>3, <1>4, <1>5 DEF SendInv, TablesTyped
<1>7. SendersTyped' /\ pc'[s] = "register" /\ \A u \in Sender \ {s} : pc'[u] = pc[u]
  <2>1. handles \in [Thread -> [Remote -> Fd \cup {NoSocket}]]
    BY DEF SendInv, SendersTyped
  <2>2. handles' \in [Thread -> [Remote -> Fd \cup {NoSocket}]]
    <3>1. CASE s \in Thread
      <4>1. [handles[s] EXCEPT ![to] = own[s]] \in [Remote -> Fd \cup {NoSocket}]
        BY <3>1, <2>1, <1>3
      <4> QED  BY <4>1, <3>1, <2>1, <1>1
    <3>2. CASE s \notin Thread
      BY <3>2, <2>1, <1>1
    <3> QED  BY <3>1, <3>2
  <2>3. /\ own' \in [Sender -> Fd \cup {0, NoSocket}] /\ pos' \in {0} \cup DOMAIN connMap'
        /\ want \in [Sender -> 0 .. Len(owner)]
    BY <1>1, <1>4 DEF SendInv, SendersTyped
  <2>4. want' \in [Sender -> 0 .. Len(owner')]
    <3>1. Len(owner) \in Nat
      BY DEF SendInv, TablesTyped
    <3>2. want' = want /\ \A u \in Sender : want[u] \in 0 .. Len(owner')
      BY <1>1, <1>5, <2>3, <3>1
    <3> QED  BY <2>3, <3>2
  <2>5. \A u \in Sender \ {s} : want'[u] = want[u]
    BY <1>1
  <2> QED  BY <1>1, <1>2, <1>3, <2>2, <2>3, <2>4, <2>5, SameCalls DEF to
<1>8. KernelTyped'
  BY <1>1, KernelStays DEF SendInv
<1>9. /\ \A u \in Sender : Making(u)' <=> Making(u)
      /\ pc'[Loop] \in Accepting => pc[Loop] = pc'[Loop]
      /\ pc[Loop] = "accepted" => pc'[Loop] = "accepted"
      /\ \A u \in Sender \ {s} : pc'[u] = "register" => pc[u] = "register"
  BY <1>1, <1>7 DEF Making, Accepting
<1>10. SocketsInv'
  BY <1>1, <1>9 DEF SendInv, SocketsInv, kernel
<1>11. BuffersInv'
  BY <1>1, <1>9 DEF SendInv, BuffersInv
<1> QED  BY <1>6, <1>7, <1>8, <1>10, <1>11 DEF SendInv

LEMMA RegisterTyped ==
  ASSUME SendInv, NEW s \in Sender, Register(s)
  PROVE  SendInv'
<1> USE SenderFacts
<1> DEFINE next == IF Meant(s).op = "send" THEN "mutex" ELSE "idle"
<1>1. /\ pc[s] = "register" /\ Polled' = Polled \cup {own[s]}
      /\ pc' = [pc EXCEPT ![s] = next]
      /\ UNCHANGED <<kernel, connMap, mutexMap, owner, bufs>>
      /\ UNCHANGED <<handles, calls, call, own, way, want, pos>>
  BY DEF Register, RegisterFd, Polled, inside
<1>2. Making(s) /\ pc[s] \in Sending \cup Connecting
  BY <1>1 DEF Making, Connecting
<1>3. own[s] \in Fd /\ sock[own[s]] # 0 /\ conn[sock[own[s]]].role = "client" /\ own[s] \in bufs
  BY <1>1, <1>2 DEF SendInv, SocketsInv, BuffersInv
<1>4. next \in {"idle", "mutex"}
  OBVIOUS
<1> HIDE DEF next
<1>5. TablesTyped'
  BY <1>1, <1>3 DEF SendInv, TablesTyped
<1>6. SendersTyped' /\ pc'[s] = next /\ \A u \in Sender \ {s} : pc'[u] = pc[u]
  <2>1. /\ handles' \in [Thread -> [Remote -> Fd \cup {NoSocket}]]
        /\ own' \in [Sender -> Fd \cup {0, NoSocket}] /\ pos' \in {0} \cup DOMAIN connMap'
        /\ want' \in [Sender -> 0 .. Len(owner')] /\ \A u \in Sender \ {s} : want'[u] = want[u]
    BY <1>1 DEF SendInv, SendersTyped
  <2> QED  BY <1>1, <1>2, <1>4, <2>1, SameCalls DEF Sending
<1>7. KernelTyped'
  BY <1>1, KernelStays DEF SendInv
<1>8. /\ ~Making(s)' /\ \A u \in Sender \ {s} : Making(u)' <=> Making(u)
      /\ pc'[Loop] \in Accepting => pc[Loop] = pc'[Loop]
      /\ pc[Loop] = "accepted" => pc'[Loop] = "accepted"
      /\ \A u \in Sender : pc'[u] = "register" => pc[u] = "register"
  BY <1>1, <1>4, <1>6 DEF Making, Accepting
<1>9. SocketsInv'
  <2>1. \A fd \in Polled' : sock[fd] # 0 /\ conn[sock[fd]].role # "failed"
    BY <1>1, <1>3 DEF SendInv, SocketsInv
  <2>2. ASSUME NEW u \in Sender, Making(u)'
        PROVE  /\ own[u] \in Fd /\ sock[own[u]] # 0 /\ conn[sock[own[u]]].role = "client"
               /\ own[u] \notin Polled'
               /\ \A other \in Sender : Making(other)' /\ own[other] = own[u] => other = u
    <3>1. u # s /\ Making(u)
      BY <2>2, <1>8
    <3>2. own[u] # own[s]
      BY <3>1, <1>2 DEF SendInv, SocketsInv
    <3> QED  BY <3>1, <3>2, <1>1, <1>8 DEF SendInv, SocketsInv
  <2>3. pc'[Loop] \in Accepting => own[Loop] \in Polled'
    BY <1>1, <1>8 DEF SendInv, SocketsInv
  <2>4. ASSUME NEW fd \in Fd, sock[fd] # 0, conn[sock[fd]].role # "failed"
        PROVE  fd \in Polled' \/ \E u \in Sender : Making(u)' /\ own[u] = fd
    <3>1. fd \in Polled \/ \E u \in Sender : Making(u) /\ own[u] = fd
      BY <2>4 DEF SendInv, SocketsInv
    <3> QED  BY <3>1, <1>1, <1>8
  <2>5. UNCHANGED <<sock, conn, own>>
    BY <1>1 DEF kernel
  <2> QED  BY <2>1, <2>2, <2>3, <2>4, <2>5 DEF SocketsInv
<1>10. BuffersInv'
  BY <1>1, <1>3, <1>8 DEF SendInv, BuffersInv
<1> QED  BY <1>5, <1>6, <1>7, <1>9, <1>10 DEF SendInv

-----------------------------------------------------------------------------
(* The loop's thread between callbacks.                                    *)
LEMMA LoopTyped ==
  ASSUME SendInv, NEW where \in {"idle"} \cup Accepting, NEW fd \in Fd \cup {0, NoSocket},
         pc[Loop] \in {"idle"} \cup Accepting, LoopGoes(where, fd),
         pos' \in {0} \cup DOMAIN connMap', owner' = owner
  PROVE  /\ SendersTyped' /\ pc'[Loop] = where /\ own'[Loop] = fd
         /\ \A u \in Sender \ {Loop} : pc'[u] = pc[u] /\ own'[u] = own[u]
         /\ ~Making(Loop) /\ \A u \in Sender : Making(u)' <=> Making(u)
         /\ \A u \in Sender : Making(u) => own'[u] = own[u]
         /\ \A u \in Sender : pc'[u] = "register" => pc[u] = "register" /\ u # Loop
<1> USE SenderFacts
<1>1. /\ pc' = [pc EXCEPT ![Loop] = where] /\ own' = [own EXCEPT ![Loop] = fd]
      /\ UNCHANGED <<handles, calls, call, way, want>>
  BY DEF LoopGoes
<1>2. /\ pc \in [Sender -> {"idle"} \cup Sending \cup Connecting \cup Accepting]
      /\ own \in [Sender -> Fd \cup {0, NoSocket}]
  BY DEF SendInv, SendersTyped
<1>3. /\ pc' \in [Sender -> {"idle"} \cup Sending \cup Connecting \cup Accepting]
      /\ pc'[Loop] = where /\ \A u \in Sender \ {Loop} : pc'[u] = pc[u]
  BY <1>1, <1>2
<1>4. /\ own' \in [Sender -> Fd \cup {0, NoSocket}]
      /\ own'[Loop] = fd /\ \A u \in Sender \ {Loop} : own'[u] = own[u]
  BY <1>1, <1>2
<1>5. /\ where \notin Sending \cup Connecting /\ ~Making(Loop) /\ ~Making(Loop)'
  BY <1>3 DEF Making, Accepting, Sending, Connecting
<1>6. ASSUME NEW u \in Sender
      PROVE  /\ pc'[u] \in Sending \cup Connecting => call'[u] # 0
             /\ pc'[u] = "key" => way'[u] = "addr"
             /\ pc'[u] \in Sending \cup Connecting /\ way'[u] = "addr" => Meant(u)'.to \in Remote
             /\ pc'[u] \in {"store", "register"} => Meant(u)'.to \in Remote
             /\ pc'[u] \in {"lock", "header", "payload"} => want'[u] # 0
             /\ pc'[u] \in Accepting => u = Loop
  <2>1. CASE u = Loop
    BY <2>1, <1>3, <1>5 DEF Sending, Connecting
  <2>2. CASE u # Loop
    <3>1. pc'[u] = pc[u] /\ call'[u] = call[u] /\ way'[u] = way[u] /\ Meant(u)' = Meant(u)
          /\ want'[u] = want[u]
      BY <2>2, <1>1, <1>3 DEF Meant
    <3> QED  BY <3>1 DEF SendInv, SendersTyped
  <2> QED  BY <2>1, <2>2
<1>7. SendersTyped'
  BY <1>1, <1>3, <1>4, <1>6 DEF SendInv, SendersTyped
<1>8. \A u \in Sender : Making(u)' <=> Making(u)
  BY <1>3, <1>5 DEF Making
<1> QED  BY <1>3, <1>4, <1>5, <1>7, <1>8 DEF Making, Accepting

LEMMA AcceptTyped ==
  ASSUME SendInv, NEW from \in Client, Accept(from)
  PROVE  SendInv'
<1> USE SenderFacts
<1>1. PICK fd \in Fd :
        /\ OpenSocket(fd, from, "accepted", TRUE) /\ Polled' = Polled \cup {fd}
        /\ LoopGoes("accepted", fd)
  BY DEF Accept, RegisterFd, Polled
<1>2. pc[Loop] = "idle" /\ UNCHANGED <<connMap, mutexMap, owner, bufs, pos>>
  BY DEF Accept
<1>3. /\ SendersTyped' /\ pc'[Loop] = "accepted" /\ own'[Loop] = fd
      /\ ~Making(Loop) /\ \A u \in Sender : Making(u)' <=> Making(u)
      /\ \A u \in Sender : Making(u) => own'[u] = own[u]
      /\ \A u \in Sender : pc'[u] = "register" => pc[u] = "register"
  <2>1. pos' \in {0} \cup DOMAIN connMap'
    BY <1>2 DEF SendInv, SendersTyped
  <2> QED  BY <1>1, <1>2, <2>1, LoopTyped DEF Accepting
<1>4. /\ KernelTyped' /\ Len(conn) \in Nat /\ sock[fd] = 0 /\ sock'[fd] = Len(conn) + 1
      /\ \A other \in Fd : /\ sock[other] \in 0 .. Len(conn)
                           /\ other # fd => sock'[other] = sock[other]
      /\ conn'[Len(conn) + 1].role = "accepted" /\ \A c \in 1 .. Len(conn) : conn'[c] = conn[c]
  <2>1. from \in [ip : Ip, port : Port \cup {0}] /\ from.port \in Port
    OBVIOUS
  <2>2. calls' = calls
    BY <1>1 DEF LoopGoes
  <2>3. /\ KernelTyped' /\ Len(conn) \in Nat /\ sock[fd] = 0 /\ sock'[fd] = Len(conn) + 1
        /\ \A other \in Fd : /\ sock[other] \in 0 .. Len(conn)
                             /\ other # fd => sock'[other] = sock[other]
        /\ conn'[Len(conn) + 1] = [peer |-> from, role |-> "accepted", alive |-> TRUE]
        /\ \A c \in Conns : conn'[c] = conn[c]
    BY <1>1, <2>1, <2>2, OpenSocketFacts
  <2> QED  BY <2>3 DEF Conns
<1>5. TablesTyped'
  BY <1>1, <1>2 DEF SendInv, TablesTyped
<1>6. SocketsInv'
  <2>1. \A f \in Fd : f # fd /\ sock[f] # 0 => /\ sock'[f] = sock[f] /\ conn'[sock'[f]] = conn[sock[f]]
    <3> SUFFICES ASSUME NEW f \in Fd, f # fd, sock[f] # 0
                 PROVE  sock'[f] = sock[f] /\ conn'[sock'[f]] = conn[sock[f]]
      OBVIOUS
    <3>1. sock'[f] = sock[f] /\ sock[f] \in 1 .. Len(conn)
      BY <1>4
    <3> QED  BY <3>1, <1>4
  <2>2. Polled \subseteq Fd /\ \A u \in Sender : Making(u) => own[u] \in Fd /\ own[u] # fd
    BY <1>4 DEF SendInv, SocketsInv, TablesTyped
  <2>3. \A f \in Polled' : sock'[f] # 0 /\ conn'[sock'[f]].role # "failed"
    BY <1>1, <1>4, <2>1, <2>2 DEF SendInv, SocketsInv
  <2>4. \A u \in Sender : Making(u) =>
          /\ sock'[own[u]] # 0 /\ conn'[sock'[own[u]]].role = "client" /\ own[u] \notin Polled'
    BY <1>1, <2>1, <2>2 DEF SendInv, SocketsInv
  <2>5. \A f \in Fd : sock'[f] # 0 /\ conn'[sock'[f]].role # "failed" =>
          f \in Polled' \/ \E u \in Sender : Making(u) /\ own[u] = f
    BY <1>1, <1>4, <2>1 DEF SendInv, SocketsInv
  <2> QED  BY <1>1, <1>3, <2>2, <2>3, <2>4, <2>5 DEF SendInv, SocketsInv
<1>7. BuffersInv'
  <2>1. \A f \in Polled : f \in bufs
    BY <1>2 DEF SendInv, BuffersInv
  <2>2. \A u \in Sender : pc'[u] = "register" => own'[u] \in bufs
    BY <1>3 DEF SendInv, BuffersInv, Making
  <2> QED  BY <1>1, <1>2, <1>3, <2>1, <2>2 DEF BuffersInv
<1> QED  BY <1>3, <1>4, <1>5, <1>6, <1>7 DEF SendInv

(* The loop goes on with a descriptor, and no descriptor changes.          *)
LEMMA LoopGoesOn ==
  ASSUME SendInv, NEW where \in {"idle"} \cup Accepting, NEW fd \in Fd,
         pc[Loop] \in {"idle"} \cup Accepting, LoopGoes(where, fd),
         pos' \in {0} \cup DOMAIN connMap', UNCHANGED <<kernel, Polled, mutexMap, owner>>,
         TablesTyped', bufs \subseteq bufs', pc[Loop] = "accepted" => own[Loop] \in bufs',
         where \in Accepting \ {"accepted"} => fd \in Polled, where # "accepted"
  PROVE  SendInv'
<1> USE SenderFacts
<1>1. /\ SendersTyped' /\ pc'[Loop] = where /\ own'[Loop] = fd
      /\ ~Making(Loop) /\ \A u \in Sender : Making(u)' <=> Making(u)
      /\ \A u \in Sender : Making(u) => own'[u] = own[u]
      /\ \A u \in Sender : pc'[u] = "register" => pc[u] = "register"
  BY LoopTyped
<1>2. KernelTyped'
  BY KernelStays DEF SendInv, LoopGoes
<1>3. SocketsInv'
  BY <1>1 DEF SendInv, SocketsInv, kernel
<1>4. BuffersInv'
  <2>1. \A f \in Polled : f \in bufs'
    BY DEF SendInv, BuffersInv
  <2>2. \A u \in Sender : pc'[u] = "register" => own'[u] \in bufs'
    BY <1>1 DEF SendInv, BuffersInv, Making
  <2> QED  BY <2>1, <2>2 DEF BuffersInv
<1> QED  BY <1>1, <1>2, <1>3, <1>4 DEF SendInv

LEMMA StoreAcceptedTyped ==
  ASSUME SendInv, StoreAccepted
  PROVE  SendInv'
<1> USE SenderFacts
<1> DEFINE fd   == own[Loop]
           port == conn[sock[fd]].peer.port
<1>1. /\ pc[Loop] = "accepted" /\ bufs' = bufs \cup {fd} /\ connMap' = Put(connMap, port, fd)
      /\ LoopGoes("idle", fd) /\ UNCHANGED <<kernel, Polled, mutexMap, owner, pos>>
  BY DEF StoreAccepted, evloop, Polled
<1>2. fd \in Polled /\ fd \in Fd
  BY <1>1 DEF SendInv, SocketsInv, TablesTyped, Accepting
<1>3. port \in Port
  <2>1. sock[fd] \in Conns /\ conn[sock[fd]].role # "failed"
    BY <1>2 DEF SendInv, SocketsInv, KernelTyped, Conns
  <2> QED  BY <2>1 DEF SendInv, KernelTyped
<1> HIDE DEF port
<1>4. /\ DOMAIN connMap' = DOMAIN connMap \cup {port}
      /\ \A k \in DOMAIN connMap' : connMap'[k] \in Fd \cup {0}
  <2>1. \A k \in DOMAIN connMap : connMap[k] \in Fd \cup {0}
    BY DEF SendInv, TablesTyped
  <2> QED  BY <1>1, <1>2, <2>1 DEF Put
<1>5. TablesTyped' /\ pos' \in {0} \cup DOMAIN connMap'
  BY <1>1, <1>2, <1>3, <1>4 DEF SendInv, TablesTyped, SendersTyped
<1> QED  BY <1>1, <1>2, <1>5, LoopGoesOn DEF Accepting

LEMMA PeerClosedTyped ==
  ASSUME SendInv, PeerClosed
  PROVE  SendInv'
<1>1. pc[Loop] = "idle" /\ UNCHANGED <<kernel, tables>> /\ UNCHANGED <<Polled, mutexMap, owner>>
  BY DEF PeerClosed, tables, evloop, Polled
<1>2. PICK fd \in Polled :
        \/ LoopGoes("remove", fd) /\ pos' = pos
        \/ LoopGoes("drop", fd) /\ pos' \in KeysOf(connMap, fd)
  BY DEF PeerClosed, Polled
<1>3. fd \in Fd /\ bufs' = bufs /\ connMap' = connMap
  BY <1>1 DEF SendInv, TablesTyped, tables, evloop, Polled
<1>4. pos' \in {0} \cup DOMAIN connMap'
  BY <1>2, <1>3 DEF KeysOf, SendInv, SendersTyped
<1>5. TablesTyped'
  BY <1>1, TablesStay DEF SendInv
<1>6. PICK where \in {"drop", "remove"} : LoopGoes(where, fd)
  BY <1>2
<1> QED  BY <1>1, <1>3, <1>4, <1>5, <1>6, LoopGoesOn DEF Accepting

LEMMA DropEntryTyped ==
  ASSUME SendInv, DropEntry
  PROVE  SendInv'
<1>1. /\ pc[Loop] = "drop" /\ LoopGoes("remove", own[Loop]) /\ connMap' = Drop(connMap, pos)
      /\ pos' = 0 /\ UNCHANGED <<kernel, Polled, mutexMap, owner, bufs>>
  BY DEF DropEntry, evloop, Polled
<1>2. own[Loop] \in Polled /\ own[Loop] \in Fd
  BY <1>1 DEF SendInv, SocketsInv, TablesTyped, Accepting
<1>3. TablesTyped'
  BY <1>1 DEF SendInv, TablesTyped, Drop
<1> QED  BY <1>1, <1>2, <1>3, LoopGoesOn DEF Accepting

LEMMA RemoveTyped ==
  ASSUME SendInv, ApartInv, Remove
  PROVE  SendInv'
<1> USE SenderFacts
<1> DEFINE fd == own[Loop]
<1>1. /\ pc[Loop] = "remove" /\ sock' = [sock EXCEPT ![fd] = 0] /\ Polled' = Polled \ {fd}
      /\ LoopGoes("idle", fd) /\ UNCHANGED <<conn, stream, connMap, mutexMap, owner, bufs, pos>>
  BY DEF Remove, ApartInv, Polled
<1>2. fd \in Polled /\ fd \in Fd
  BY <1>1 DEF SendInv, SocketsInv, TablesTyped, Accepting
<1>3. /\ SendersTyped' /\ pc'[Loop] = "idle" /\ own'[Loop] = fd
      /\ ~Making(Loop) /\ \A u \in Sender : Making(u)' <=> Making(u)
      /\ \A u \in Sender : Making(u) => own'[u] = own[u]
      /\ \A u \in Sender : pc'[u] = "register" => pc[u] = "register"
  <2>1. pos' \in {0} \cup DOMAIN connMap'
    BY <1>1 DEF SendInv, SendersTyped
  <2> QED  BY <1>1, <1>2, <2>1, LoopTyped DEF Accepting
<1>4. sock'[fd] = 0 /\ \A other \in Fd : other # fd => sock'[other] = sock[other]
  BY <1>1, <1>2 DEF SendInv, KernelTyped
<1>5. KernelTyped'
  <2>1. calls' = calls
    BY <1>1 DEF LoopGoes
  <2>2. sock \in [Fd -> 0 .. Len(conn)] /\ 0 \in 0 .. Len(conn)
    BY DEF SendInv, KernelTyped
  <2>3. sock' \in [Fd -> 0 .. Len(conn)]
    BY <1>1, <2>2
  <2> QED  BY <1>1, <2>1, <2>3 DEF SendInv, KernelTyped, Conns
<1>6. TablesTyped'
  BY <1>1 DEF SendInv, TablesTyped
<1> HIDE DEF fd
<1>7. SocketsInv'
  <2>1. Polled \subseteq Fd /\ \A u \in Sender : Making(u) => own[u] \in Fd /\ own[u] # fd
    BY <1>2 DEF SendInv, SocketsInv, TablesTyped
  <2>2. \A f \in Polled' : sock'[f] # 0 /\ conn[sock'[f]].role # "failed"
    BY <1>1, <1>4, <2>1 DEF SendInv, SocketsInv
  <2>3. \A u \in Sender : Making(u) =>
          /\ sock'[own[u]] # 0 /\ conn[sock'[own[u]]].role = "client" /\ own[u] \notin Polled'
    BY <1>1, <1>4, <2>1 DEF SendInv, SocketsInv
  <2>4. \A f \in Fd : sock'[f] # 0 /\ conn[sock'[f]].role # "failed" =>
          f \in Polled' \/ \E u \in Sender : Making(u) /\ own[u] = f
    BY <1>1, <1>4 DEF SendInv, SocketsInv
  <2>5. pc'[Loop] \notin Accepting
    BY <1>3 DEF Accepting
  <2> QED  BY <1>1, <1>3, <2>1, <2>2, <2>3, <2>4, <2>5 DEF SendInv, SocketsInv
<1>8. BuffersInv'
  <2>1. \A f \in Polled' : f \in bufs
    BY <1>1 DEF SendInv, BuffersInv
  <2>2. \A u \in Sender : pc'[u] = "register" => own'[u] \in bufs
    BY <1>3 DEF SendInv, BuffersInv, Making
  <2> QED  BY <1>1, <2>1, <2>2 DEF BuffersInv
<1> QED  BY <1>3, <1>5, <1>6, <1>7, <1>8 DEF SendInv

LEMMA HangupTyped ==
  ASSUME SendInv, NEW c \in Conns, Hangup(c)
  PROVE  SendInv'
<1>1. conn' = [conn EXCEPT ![c].alive = FALSE] /\ UNCHANGED <<sock, stream, tables, senders>>
  BY DEF Hangup
<1>2. /\ sock \in [Fd -> 0 .. Len(conn)] /\ conn \in Seq(Connection)
  BY DEF SendInv, KernelTyped
<1>3. /\ conn' \in Seq(Connection) /\ Len(conn') = Len(conn)
      /\ \A d \in Conns : conn'[d].role = conn[d].role /\ conn'[d].peer = conn[d].peer
  <2>1. conn[c] \in Connection /\ c \in 1 .. Len(conn)
    BY <1>2 DEF Conns
  <2>2. [conn[c] EXCEPT !.alive = FALSE] \in Connection
    BY <2>1 DEF Connection
  <2>3. conn' = [conn EXCEPT ![c] = [conn[c] EXCEPT !.alive = FALSE]]
    BY <1>1
  <2>4. conn' \in Seq(Connection) /\ Len(conn') = Len(conn)
    BY <1>2, <2>1, <2>2, <2>3
  <2>5. \A d \in Conns : conn'[d] = IF d = c THEN [conn[c] EXCEPT !.alive = FALSE] ELSE conn[d]
    BY <1>2, <2>3 DEF Conns
  <2> QED  BY <2>1, <2>4, <2>5 DEF Connection
<1>4. KernelTyped'
  BY <1>1, <1>3 DEF SendInv, KernelTyped, Conns, senders, inside
<1>5. TablesTyped'
  BY <1>1, TablesStay DEF SendInv
<1>6. SendersTyped'
  BY <1>1 DEF SendInv, SendersTyped, senders, inside, tables, evloop, Polled, Meant
<1>7. \A fd \in Fd : sock[fd] # 0 => conn'[sock[fd]].role = conn[sock[fd]].role
  BY <1>2, <1>3 DEF Conns
<1>8. UNCHANGED <<Polled, bufs, pc, own, sock>> /\ Polled \subseteq Fd
  BY <1>1 DEF tables, evloop, Polled, senders, inside, SendInv, TablesTyped
<1>9. SocketsInv'
  <2>1. \A u \in Sender : Making(u)' <=> Making(u)
    BY <1>8 DEF Making
  <2>2. \A fd \in Polled : sock[fd] # 0 /\ conn'[sock[fd]].role # "failed"
    BY <1>7, <1>8 DEF SendInv, SocketsInv
  <2>3. \A u \in Sender : Making(u) => sock[own[u]] # 0 /\ conn'[sock[own[u]]].role = "client"
    BY <1>7 DEF SendInv, SocketsInv
  <2> QED  BY <1>7, <1>8, <2>1, <2>2, <2>3 DEF SendInv, SocketsInv
<1>10. BuffersInv'
  BY <1>8 DEF SendInv, BuffersInv
<1> QED  BY <1>4, <1>5, <1>6, <1>9, <1>10 DEF SendInv

-----------------------------------------------------------------------------
LEMMA NextSend == SendInv /\ ApartInv /\ [Next]_vars => SendInv'
<1> SUFFICES ASSUME SendInv, ApartInv, [Next]_vars PROVE SendInv'
  OBVIOUS
<1>1. CASE UNCHANGED vars
  <2>1. UNCHANGED <<kernel, tables, senders, Polled, bufs, pc, own, sock, conn>>
    BY <1>1 DEF vars, kernel, tables, evloop, Polled, senders, inside
  <2>2. KernelTyped' /\ TablesTyped'
    BY <2>1, KernelStays, TablesStay DEF SendInv, senders, inside
  <2>3. SendersTyped'
    BY <2>1 DEF SendInv, SendersTyped, senders, inside, tables, evloop, Polled, Meant
  <2>4. SocketsInv' /\ BuffersInv'
    BY <2>1 DEF SendInv, SocketsInv, BuffersInv, Making
  <2> QED  BY <2>2, <2>3, <2>4 DEF SendInv
<1>2. ASSUME NEW s \in Sender, Continue(s) PROVE SendInv'
  BY <1>2, FindTyped, TakeKeyTyped, FindMutexTyped, InsertMutexTyped, LockTyped,
     SendHeaderTyped,
     SendPayloadTyped, ConnectTyped, ConnectFailsTyped, StoreTyped, RegisterTyped DEF Continue
<1>3. ASSUME LoopStep PROVE SendInv'
  BY <1>3, AcceptTyped, StoreAcceptedTyped, PeerClosedTyped, DropEntryTyped,
     RemoveTyped
     DEF LoopStep
<1>4. CASE Next
  BY <1>2, <1>3, <1>4, ReplyTyped, SendToTyped, RegisterHandleTyped,
     HangupTyped
     DEF Next
<1> QED  BY <1>1, <1>4

(* Steps that register nothing, and start no closing of a descriptor.      *)
LEMMA ApartStays ==
  ASSUME ApartInv, UNCHANGED evloop,
         pc'[Loop] \in {"drop", "remove"} =>
           pc[Loop] \in {"drop", "remove"} /\ own'[Loop] = own[Loop]
  PROVE  ApartInv'
BY DEF ApartInv, evloop

LEMMA ApartContinue ==
  ASSUME SendInv, ApartInv, NEW s \in Sender, Continue(s)
  PROVE  ApartInv'
<1> USE SenderFacts
<1>1. /\ pc[s] \in Sending \cup Connecting
      /\ \E next \in {"idle"} \cup Sending \cup Connecting : pc' = [pc EXCEPT ![s] = next]
      /\ own' = own \/ \E fd : own' = [own EXCEPT ![s] = fd]
  <2>1. CASE Find(s) \/ TakeKey(s) \/ FindMutex(s) \/ InsertMutex(s) \/ Lock(s)
    BY <2>1 DEF Find, TakeKey, FindMutex, InsertMutex, Lock, inside, Sending, Connecting
  <2>2. CASE SendHeader(s) \/ SendPayload(s)
    BY <2>2 DEF SendHeader, SendPayload, Transmit, inside, Sending
  <2>3. CASE Connect(s) \/ ConnectFails(s) \/ Store(s)
    BY <2>3 DEF Connect, ConnectFails, Store, inside, Connecting
  <2>4. CASE Register(s)
    BY <2>4 DEF Register, inside, Sending, Connecting
  <2> QED  BY <2>1, <2>2, <2>3, <2>4 DEF Continue
<1>2. /\ pc'[Loop] \in {"idle"} \cup Sending \cup Connecting \/ pc'[Loop] = pc[Loop]
      /\ pc'[Loop] \in {"drop", "remove"} => own'[Loop] = own[Loop]
  <2>1. /\ pc \in [Sender -> {"idle"} \cup Sending \cup Connecting \cup Accepting]
        /\ own \in [Sender -> Fd \cup {0, NoSocket}]
    BY DEF SendInv, SendersTyped
  <2>2. CASE s = Loop
    BY <1>1, <2>1, <2>2 DEF Sending, Connecting
  <2>3. CASE s # Loop
    BY <1>1, <2>1, <2>3
  <2> QED  BY <2>2, <2>3
<1>3. pc'[Loop] \in {"drop", "remove"} =>
        pc[Loop] \in {"drop", "remove"} /\ own'[Loop] = own[Loop]
  BY <1>2 DEF Sending, Connecting
<1>4. CASE UNCHANGED evloop
  BY <1>3, <1>4, ApartStays
<1>5. CASE Register(s)
  <2>1. Making(s) /\ RegisterFd(own[s])
    BY <1>5 DEF Register, Making
  <2>2. own[s] \notin registered /\ own[s] \notin neglected
    BY <2>1 DEF SendInv, SocketsInv, Polled
  <2> QED  BY <1>3, <2>1, <2>2 DEF ApartInv, RegisterFd
<1>6. UNCHANGED evloop \/ Register(s)
  BY DEF Continue, Find, TakeKey, FindMutex, InsertMutex, Lock, SendHeader, SendPayload,
         Transmit, Connect, ConnectFails, Store, tables
<1> QED  BY <1>4, <1>5, <1>6

LEMMA ApartLoop ==
  ASSUME SendInv, ApartInv, LoopStep
  PROVE  ApartInv'
<1> USE SenderFacts
<1>1. Loop \in DOMAIN pc /\ Loop \in DOMAIN own
  BY DEF SendInv, SendersTyped
<1>2. \A where, fd : LoopGoes(where, fd) => pc'[Loop] = where /\ own'[Loop] = fd
  BY <1>1 DEF LoopGoes
<1>3. ASSUME NEW from \in Client, Accept(from) PROVE ApartInv'
  <2>1. PICK fd \in Fd : /\ OpenSocket(fd, from, "accepted", TRUE) /\ RegisterFd(fd)
                         /\ LoopGoes("accepted", fd)
    BY <1>3 DEF Accept
  <2>2. fd \notin registered /\ fd \notin neglected
    BY <2>1 DEF OpenSocket, Unused, SendInv, SocketsInv, Polled
  <2> QED  BY <1>2, <2>1, <2>2 DEF ApartInv, RegisterFd
<1>4. CASE StoreAccepted
  BY <1>2, <1>4, ApartStays DEF StoreAccepted
<1>5. CASE PeerClosed
  <2>1. \E fd \in registered : LoopGoes("remove", fd) \/ LoopGoes("drop", fd)
    BY <1>5 DEF PeerClosed
  <2>2. UNCHANGED evloop
    BY <1>5 DEF PeerClosed, tables
  <2> QED  BY <1>2, <2>1, <2>2 DEF ApartInv, evloop
<1>6. CASE DropEntry
  BY <1>2, <1>6, ApartStays DEF DropEntry
<1>7. CASE Remove
  <2>1. /\ registered' = registered \ {own[Loop]} /\ neglected' = neglected
        /\ LoopGoes("idle", own[Loop])
    BY <1>7 DEF Remove
  <2> QED  BY <1>2, <2>1 DEF ApartInv
<1> QED  BY <1>3, <1>4, <1>5, <1>6, <1>7 DEF LoopStep

LEMMA NextApart == SendInv /\ ApartInv /\ [Next]_vars => ApartInv'
<1> SUFFICES ASSUME SendInv, ApartInv, [Next]_vars PROVE ApartInv'
  OBVIOUS
<1>1. CASE UNCHANGED vars
  BY <1>1, ApartStays DEF vars, tables, senders, inside
<1>2. ASSUME NEW s \in Sender, UNCHANGED tables,
             \E next \in {"key", "find", "connect"} : pc' = [pc EXCEPT ![s] = next],
             own' = own \/ \E fd : own' = [own EXCEPT ![s] = fd]
      PROVE  ApartInv'
  <2>1. /\ pc \in [Sender -> {"idle"} \cup Sending \cup Connecting \cup Accepting]
        /\ own \in [Sender -> Fd \cup {0, NoSocket}] /\ Loop \in Sender
    BY SenderFacts DEF SendInv, SendersTyped
  <2>2. pc'[Loop] \in {"drop", "remove"} => pc[Loop] = pc'[Loop] /\ s # Loop
    BY <1>2, <2>1
  <2>3. s # Loop => own'[Loop] = own[Loop]
    BY <1>2, <2>1
  <2> QED  BY <1>2, <2>2, <2>3, ApartStays DEF tables
<1>3. ASSUME NEW s \in Sender, NEW to, NEW fd, Start(s, to, fd) PROVE ApartInv'
  BY <1>2, <1>3 DEF Start
<1>4. ASSUME NEW s \in Sender, Reply(s) PROVE ApartInv'
  BY <1>3, <1>4 DEF Reply
<1>5. ASSUME NEW t \in Thread, SendTo(t) \/ RegisterHandle(t) PROVE ApartInv'
  BY <1>2, <1>3, <1>5, SenderFacts DEF SendTo, RegisterHandle
<1>6. ASSUME NEW c \in Conns, Hangup(c) PROVE ApartInv'
  BY <1>6, ApartStays DEF Hangup, tables, senders, inside
<1>7. CASE Next
  BY <1>4, <1>5, <1>6, <1>7, ApartContinue, ApartLoop DEF Next
<1> QED  BY <1>1, <1>7

(* Whatever threads, callbacks and peers do, and whichever descriptors     *)
(* epoll refuses, the state is typed and every descriptor belongs to the   *)
(* loop or to who makes it.                                                *)
THEOREM SendPathInvariant == Spec => [](SendInv /\ ApartInv)
BY InitSend, NextSend, NextApart, PTL DEF Spec

(* The values each part of the state may take, for all constants.          *)
THEOREM SendPathTypeOK == Spec => []TypeOK
<1>1. SendInv => TypeOK
  <2> SUFFICES ASSUME SendInv PROVE TypeOK
    OBVIOUS
  <2>1. \A c \in Conns : conn[c].role \in {"client", "accepted", "failed"}
    <3>1. \A c \in Conns : conn[c] \in Connection
      BY DEF SendInv, KernelTyped, Conns
    <3> QED  BY <3>1 DEF Connection
  <2>2. \A c \in Conns : \A i \in DOMAIN stream[c] :
          stream[c][i] \in [call : DOMAIN calls, part : {"header", "payload"}]
    <3> SUFFICES ASSUME NEW c \in Conns, NEW i \in DOMAIN stream[c]
                 PROVE  stream[c][i] \in [call : DOMAIN calls, part : {"header", "payload"}]
      OBVIOUS
    <3>1. stream[c] \in Seq(Part) /\ stream[c][i].call \in DOMAIN calls
      BY DEF SendInv, KernelTyped, Conns
    <3>2. stream[c][i] \in Part
      BY <3>1
    <3> QED  BY <3>1, <3>2 DEF Part
  <2>3. \A m \in DOMAIN owner : owner[m] \in Sender \cup {Nobody}
    BY DEF SendInv, TablesTyped
  <2> QED
    BY <2>1, <2>2, <2>3
       DEF SendInv, KernelTyped, TablesTyped, SendersTyped, TypeOK,
              Sending, Connecting, Accepting, Polled
<1> QED  BY <1>1, SendPathInvariant, PTL

(* Before on_data can be called for a descriptor it has its buffer.        *)
THEOREM SendPathHasBuffer == Spec => []HasBuffer
<1>1. SendInv => HasBuffer
  BY DEF SendInv, BuffersInv, HasBuffer, Polled
<1> QED  BY <1>1, SendPathInvariant, PTL

(* Nothing but a connect() that fails and an epoll_ctl() that refuses      *)
(* leaves a descriptor nobody closes, and which of the two it was shows.   *)
THEOREM SendPathOnlyFailuresLeak == Spec => []OnlyFailuresLeak
<1>1. SendInv /\ ApartInv => OnlyFailuresLeak
  <2> SUFFICES ASSUME SendInv, ApartInv, NEW fd \in Fd
               PROVE  /\ fd \in Polled => sock[fd] # 0 /\ conn[sock[fd]].role # "failed"
                      /\ fd \in neglected => fd \notin registered
                      /\ sock[fd] # 0 /\ fd \notin Polled =>
                           \/ conn[sock[fd]].role = "failed"
                           \/ \E s \in Sender : own[s] = fd /\ pc[s] \in {"store", "register"}
    BY DEF OnlyFailuresLeak
  <2> QED  BY DEF SendInv, SocketsInv, Making, ApartInv
<1> QED  BY <1>1, SendPathInvariant, PTL

-----------------------------------------------------------------------------
(* Threads that send to addresses that differ in their ports, each         *)
(* connected to for the first time before another thread may, while no     *)
(* peer connects or goes away.                                             *)
ThreadsUse ==
  /\ Client = {} /\ Events \subseteq {"refuse"} /\ FirstAlone
  /\ \A a, b \in Remote : a.port = b.port => a = b

(* The addresses sent to are at the handles' own ip, the only one that     *)
(* send_connect connects to: what makes it the right one.                  *)
RemoteIsLocal == \A a \in Remote : a.ip = Local

(* Where send_connect gets to for an address with this port.               *)
Reached(port) == [ip |-> Local, port |-> port]

(* Where a sender's parts go, once it has looked for its descriptor.       *)
Aimed(s)  == pc[s] \in {"mutex", "lock", "header", "payload"}
Odd(n)    == n % 2 = 1

(* m_connection_map knows one connection of each port, at the own ip,      *)
(* and never forgets or replaces it; a handle with a socket has been there.*)
UseMap ==
  /\ \A fd, other \in Fd : sock[fd] # 0 /\ sock[fd] = sock[other] => fd = other
  /\ \A fd \in Fd : sock[fd] # 0 /\ conn[sock[fd]].role # "failed" => conn[sock[fd]].alive
  /\ \A k \in DOMAIN connMap :
       /\ connMap[k] \in Fd /\ sock[connMap[k]] # 0
       /\ conn[sock[connMap[k]]].role = "client"
       /\ conn[sock[connMap[k]]].peer = Reached(k)
       /\ connMap[k] \in DOMAIN mutexMap
  /\ \A fd \in Polled : \E k \in DOMAIN connMap : connMap[k] = fd
  /\ \A t \in Thread, a \in Remote : handles[t][a] # NoSocket => a.port \in DOMAIN connMap

(* One mutex for each descriptor, and one sender inside.                   *)
UseMutexes ==
  /\ \A fd \in DOMAIN mutexMap : \E k \in DOMAIN connMap : connMap[k] = fd
  /\ \A fd, other \in DOMAIN mutexMap : mutexMap[fd] = mutexMap[other] => fd = other
  /\ \A s \in Sender :
       /\ pc[s] \in {"lock", "header", "payload"} => want[s] = mutexMap[own[s]]
       /\ pc[s] \in {"header", "payload"} => owner[want[s]] = s

(* A sender's descriptor is the one the map has for what it means to reach.*)
Placed(s) ==
  /\ pc[s] \notin Accepting \cup {"insert"}
  /\ pc[s] \in Sending \cup Connecting => Meant(s).op = "send"
  /\ pc[s] \in Connecting => s \in Thread /\ Meant(s).to \in Remote /\ way[s] = "socket"
  /\ pc[s] = "find" =>
       /\ way[s] = "socket"
       /\ IF Meant(s).to = NoAddress
          THEN /\ \E k \in DOMAIN connMap : connMap[k] = own[s]
               /\ sock[own[s]] = Meant(s).conn
          ELSE s \in Thread /\ Meant(s).to \in Remote /\ own[s] = NoSocket
  /\ pc[s] = "store" => conn[sock[own[s]]].peer = Reached(Meant(s).to.port)
  /\ pc[s] = "register" =>
       Meant(s).to.port \in DOMAIN connMap /\ own[s] = connMap[Meant(s).to.port]
  /\ pc[s] = "key" => Meant(s).to.port \in DOMAIN connMap
  /\ Aimed(s) =>
       /\ \E k \in DOMAIN connMap : connMap[k] = own[s]
       /\ way[s] = "addr" =>
            Meant(s).to.port \in DOMAIN connMap /\ own[s] = connMap[Meant(s).to.port]
       /\ IF Meant(s).to = NoAddress THEN sock[own[s]] = Meant(s).conn
          ELSE conn[sock[own[s]]].peer = Reached(Meant(s).to.port)

(* A sender that has not found the port of its address.                    *)
Seeks(s) == pc[s] \in {"find", "connect", "store"} /\ Meant(s).to # NoAddress

(* Nobody else connects to the address, which is not in the map yet.       *)
First(s) ==
  Seeks(s) =>
    /\ Meant(s).to.port \notin DOMAIN connMap
    /\ \A other \in Sender : Seeks(other) /\ Meant(other).to = Meant(s).to => other = s

UseSenders == \A s \in Sender : Placed(s) /\ First(s)

(* Headers at odd places, each with its payload behind it or on its way,   *)
(* and who is about to send a payload has sent its header last.            *)
UseStreams ==
  /\ \A c \in Conns : \A i \in DOMAIN stream[c] :
       IF Odd(i)
       THEN /\ stream[c][i].part = "header"
            /\ i = Len(stream[c]) =>
                 \E s \in Sender : /\ pc[s] = "payload" /\ sock[own[s]] = c
                                   /\ call[s] = stream[c][i].call
       ELSE stream[c][i] = [call |-> stream[c][i - 1].call, part |-> "payload"]
  /\ \A s \in Sender : pc[s] = "payload" =>
       LET parts == stream[sock[own[s]]] IN
         Odd(Len(parts)) /\ parts[Len(parts)].call = call[s]

(* What is sent to an address goes to its port at the own ip.              *)
PortPeer ==
  \A c \in Conns : \A i \in DOMAIN stream[c] :
    LET m == calls[stream[c][i].call] IN
      IF m.to = NoAddress THEN c = m.conn ELSE conn[c].peer = Reached(m.to.port)

StreamsInv == UseStreams /\ PortPeer

UseInv == UseMap /\ UseMutexes /\ UseSenders /\ UseStreams /\ PortPeer

LEMMA OddFacts ==
  /\ ~Odd(0)
  /\ \A n \in Nat : Odd(n + 1) <=> ~Odd(n)
BY DEF Odd

LEMMA InitUse ==
  ASSUME ThreadsUse, Init
  PROVE  UseInv
<1> USE SenderFacts
<1>1. /\ Conns = {} /\ DOMAIN connMap = {} /\ DOMAIN mutexMap = {} /\ Polled = {}
      /\ \A fd \in Fd : sock[fd] = 0
      /\ \A s \in Sender : pc[s] = "idle"
      /\ \A t \in Thread, a \in Remote : handles[t][a] = NoSocket
  BY DEF Init, Conns, Polled
<1>2. UseMap
  BY <1>1, Zenon DEF UseMap
<1>3. UseMutexes /\ UseSenders
  BY <1>1
     DEF UseMutexes, UseSenders, Placed, First, Seeks, Aimed, Sending, Connecting,
         Accepting
<1>4. UseStreams /\ PortPeer
  BY <1>1 DEF UseStreams, PortPeer
<1> QED  BY <1>2, <1>3, <1>4 DEF UseInv

(* What every step of this use does: descriptors stay what they are, and   *)
(* the maps keep their entries.                                            *)
Grows ==
  /\ \A fd \in Fd : sock[fd] # 0 => sock'[fd] = sock[fd] /\ conn'[sock[fd]] = conn[sock[fd]]
  /\ DOMAIN connMap \subseteq DOMAIN connMap' /\ \A k \in DOMAIN connMap : connMap'[k] = connMap[k]

LEMMA AimedFacts ==
  ASSUME SendInv, UseInv, NEW s \in Sender, Aimed(s)
  PROVE  /\ own[s] \in Fd /\ sock[own[s]] # 0 /\ sock[own[s]] \in Conns
         /\ own[s] \in DOMAIN mutexMap
         /\ way[s] = "addr" => /\ Meant(s).to.port \in DOMAIN connMap /\ Meant(s).to.port \in Port
                               /\ connMap[Meant(s).to.port] = own[s]
<1>1. Placed(s)
  BY DEF UseInv, UseSenders
<1>2. PICK k \in DOMAIN connMap : connMap[k] = own[s]
  BY <1>1 DEF Placed
<1>3. own[s] \in Fd /\ sock[own[s]] # 0 /\ own[s] \in DOMAIN mutexMap
  <2>1. UseMap
    BY DEF UseInv
  <2>2. connMap[k] \in Fd /\ sock[connMap[k]] # 0 /\ connMap[k] \in DOMAIN mutexMap
    BY <2>1 DEF UseMap
  <2> QED  BY <1>2, <2>2
<1>4. sock[own[s]] \in Conns
  <2>1. sock[own[s]] \in 0 .. Len(conn) /\ conn \in Seq(Connection)
    BY <1>3 DEF SendInv, KernelTyped
  <2> QED  BY <1>3, <2>1 DEF Conns
<1>5. DOMAIN connMap \subseteq Port
  BY DEF SendInv, TablesTyped
<1>6. way[s] = "addr" => Meant(s).to.port \in DOMAIN connMap /\ own[s] = connMap[Meant(s).to.port]
  BY <1>1 DEF Placed
<1> QED  BY <1>3, <1>4, <1>5, <1>6

(* One sender at a time is between Lock and the end of SendPayload on a    *)
(* connection.                                                             *)
LEMMA Exclusive ==
  ASSUME SendInv, UseInv, NEW s \in Sender, NEW u \in Sender,
         pc[s] \in {"header", "payload"}, pc[u] \in {"header", "payload"},
         sock[own[s]] = sock[own[u]]
  PROVE  s = u
<1>1. own[s] \in Fd /\ own[u] \in Fd /\ sock[own[s]] # 0
  BY AimedFacts DEF Aimed
<1>2. own[s] = own[u]
  BY <1>1 DEF UseInv, UseMap
<1>3. want[s] = mutexMap[own[s]] /\ want[u] = mutexMap[own[u]] /\ owner[want[s]] = s /\ owner[want[u]] = u
  BY DEF UseInv, UseMutexes
<1> QED  BY <1>2, <1>3

LEMMA OthersPlaced ==
  ASSUME SendInv, UseInv, Grows, NEW u \in Sender, pc'[u] = pc[u], own'[u] = own[u], way'[u] = way[u],
         pc[u] \in Sending \cup Connecting => Meant(u)' = Meant(u)
  PROVE  Placed(u)'
<1>1. Placed(u)
  BY DEF UseInv, UseSenders
<1>2. pc[u] = "store" => own[u] \in Fd /\ sock[own[u]] # 0
  BY DEF SendInv, SocketsInv, Making
<1>3. Aimed(u) \/ (pc[u] = "find" /\ Meant(u).to = NoAddress)
        => own[u] \in Fd /\ sock[own[u]] # 0
  <2>1. Aimed(u) => own[u] \in Fd /\ sock[own[u]] # 0
    BY AimedFacts
  <2>2. pc[u] = "find" /\ Meant(u).to = NoAddress => \E k \in DOMAIN connMap : connMap[k] = own[u]
    BY <1>1 DEF Placed
  <2>3. \A k \in DOMAIN connMap : connMap[k] \in Fd /\ sock[connMap[k]] # 0
    BY DEF UseInv, UseMap
  <2> QED  BY <2>1, <2>2, <2>3
<1>4. pc[u] \in Sending \cup Connecting \/ pc[u] = "idle"
  BY <1>1 DEF Placed, SendInv, SendersTyped
<1>5. CASE pc[u] = "idle"
  BY <1>5 DEF Placed, Aimed, Sending, Connecting, Accepting
<1>6. CASE pc[u] \in Connecting
  <2>1. Meant(u)' = Meant(u) /\ ~Aimed(u)'
    BY <1>6 DEF Aimed, Connecting
  <2>2. pc[u] # "find" /\ pc[u] # "key"
    BY <1>6 DEF Connecting
  <2> QED  BY <1>1, <1>2, <1>6, <2>1, <2>2 DEF Placed, Grows
<1>7. CASE pc[u] \in Sending
  <2>1. Meant(u)' = Meant(u) /\ pc[u] \notin Connecting /\ (Aimed(u)' <=> Aimed(u))
    BY <1>7 DEF Aimed, Sending, Connecting
  <2>2. Aimed(u) => sock'[own[u]] = sock[own[u]] /\ conn'[sock[own[u]]] = conn[sock[own[u]]]
    BY <1>3 DEF Grows
  <2>3. \A k \in DOMAIN connMap : k \in DOMAIN connMap' /\ connMap'[k] = connMap[k]
    BY DEF Grows
  <2>4. pc[u] # "store" /\ pc[u] # "register"
    BY <1>7 DEF Sending
  <2>5. pc[u] = "find" /\ Meant(u).to = NoAddress => sock'[own[u]] = sock[own[u]]
    BY <1>3 DEF Grows
  <2> QED  BY <1>1, <2>1, <2>2, <2>3, <2>4, <2>5 DEF Placed
<1> QED  BY <1>4, <1>5, <1>6, <1>7

(* Steps that send nothing leave the streams as they are, in any use.      *)
LEMMA StreamsHold ==
  ASSUME SendInv, StreamsInv, Conns \subseteq Conns',
         \A c \in Conns : stream'[c] = stream[c] /\ conn'[c].peer = conn[c].peer,
         \A c \in Conns' \ Conns : stream'[c] = << >>,
         \A i \in DOMAIN calls : calls'[i] = calls[i],
         \A u \in Sender :
           /\ pc'[u] = "payload" <=> pc[u] = "payload"
           /\ pc[u] = "payload" => /\ call'[u] = call[u] /\ sock'[own'[u]] = sock[own[u]]
                                   /\ sock[own[u]] \in Conns
  PROVE  UseStreams' /\ PortPeer'
<1>1. \A c \in Conns' \ Conns : DOMAIN stream'[c] = {}
  <2>1. DOMAIN << >> = {}
    OBVIOUS
  <2> QED  BY <2>1
<1>2. PortPeer'
  <2> SUFFICES ASSUME NEW c \in Conns, NEW i \in DOMAIN stream[c]
               PROVE  LET m == calls'[stream[c][i].call] IN
                        IF m.to = NoAddress THEN c = m.conn ELSE conn[c].peer = Reached(m.to.port)
    BY <1>1 DEF PortPeer
  <2>1. stream[c][i].call \in DOMAIN calls
    BY DEF SendInv, KernelTyped
  <2>2. calls'[stream[c][i].call] = calls[stream[c][i].call]
    BY <2>1
  <2> QED  BY <2>2 DEF StreamsInv, PortPeer
<1>3. UseStreams'
  <2>1. ASSUME NEW c \in Conns, NEW i \in DOMAIN stream[c]
        PROVE  IF Odd(i)
               THEN /\ stream[c][i].part = "header"
                    /\ i = Len(stream[c]) =>
                         \E s \in Sender : /\ pc'[s] = "payload" /\ sock'[own'[s]] = c
                                           /\ call'[s] = stream[c][i].call
               ELSE stream[c][i] = [call |-> stream[c][i - 1].call, part |-> "payload"]
    BY DEF StreamsInv, UseStreams
  <2>2. ASSUME NEW s \in Sender, pc'[s] = "payload"
        PROVE  LET parts == stream'[sock'[own'[s]]] IN
                 Odd(Len(parts)) /\ parts[Len(parts)].call = call'[s]
    <3>1. pc[s] = "payload" /\ call'[s] = call[s]
      BY <2>2
    <3>2. stream'[sock'[own'[s]]] = stream[sock[own[s]]]
      BY <3>1
    <3> QED  BY <3>1, <3>2 DEF StreamsInv, UseStreams
  <2>3. ASSUME NEW c \in Conns', NEW i \in DOMAIN stream'[c]
        PROVE  c \in Conns /\ i \in DOMAIN stream[c] /\ stream'[c] = stream[c]
    BY <1>1
  <2>4. ASSUME NEW c \in Conns', NEW i \in DOMAIN stream'[c]
        PROVE  IF Odd(i)
               THEN /\ stream'[c][i].part = "header"
                    /\ i = Len(stream'[c]) =>
                         \E s \in Sender : /\ pc'[s] = "payload" /\ sock'[own'[s]] = c
                                           /\ call'[s] = stream'[c][i].call
               ELSE stream'[c][i] = [call |-> stream'[c][i - 1].call, part |-> "payload"]
    <3>1. c \in Conns /\ i \in DOMAIN stream[c] /\ stream'[c] = stream[c]
      BY <2>3
    <3> QED  BY <3>1, <2>1
  <2> QED  BY <2>2, <2>4 DEF UseStreams
<1> QED  BY <1>2, <1>3

LEMMA StreamsStay ==
  ASSUME SendInv, UseInv, Grows, Conns \subseteq Conns',
         \A c \in Conns : stream'[c] = stream[c] /\ conn'[c] = conn[c],
         \A c \in Conns' \ Conns : stream'[c] = << >>,
         \A i \in DOMAIN calls : calls'[i] = calls[i],
         \A u \in Sender : /\ pc'[u] = "payload" <=> pc[u] = "payload"
                           /\ pc[u] = "payload" => own'[u] = own[u] /\ call'[u] = call[u]
  PROVE  UseStreams' /\ PortPeer'
<1>1. ASSUME NEW u \in Sender, pc[u] = "payload"
      PROVE  sock'[own'[u]] = sock[own[u]] /\ sock[own[u]] \in Conns
  BY <1>1, AimedFacts DEF Grows, Aimed
<1>2. StreamsInv
  BY DEF UseInv, StreamsInv
<1> QED  BY <1>1, <1>2, StreamsHold

(* Steps of a sender that change no table but the owners of the mutexes.   *)
LEMMA StillStep ==
  ASSUME SendInv, UseInv, NEW s \in Sender,
         UNCHANGED <<sock, conn, Polled, connMap, mutexMap, handles>>,
         \A u \in Sender \ {s} :
           /\ pc'[u] = pc[u] /\ own'[u] = own[u] /\ way'[u] = way[u] /\ want'[u] = want[u]
           /\ pc[u] \in Sending \cup Connecting => Meant(u)' = Meant(u)
           /\ pc[u] \in {"header", "payload"} => owner'[want[u]] = u,
         Placed(s)', pc'[s] # "store",
         Seeks(s)' =>
           /\ Meant(s)'.to.port \notin DOMAIN connMap
           /\ \A u \in Sender \ {s} : Seeks(u) => Meant(u).to # Meant(s)'.to,
         pc'[s] \in {"lock", "header", "payload"} => want'[s] = mutexMap[own'[s]],
         pc'[s] \in {"header", "payload"} => owner'[want'[s]] = s
  PROVE  UseMap' /\ UseMutexes' /\ UseSenders' /\ Grows
<1>1. UseMap'
  BY DEF UseInv, UseMap
<1>2. Grows
  BY DEF Grows
<1>3. UseMutexes'
  <2>1. \A fd \in DOMAIN mutexMap : \E k \in DOMAIN connMap : connMap[k] = fd
    BY DEF UseInv, UseMutexes
  <2>2. \A fd, other \in DOMAIN mutexMap : mutexMap[fd] = mutexMap[other] => fd = other
    BY DEF UseInv, UseMutexes
  <2>3. ASSUME NEW u \in Sender
        PROVE  /\ pc'[u] \in {"lock", "header", "payload"} => want'[u] = mutexMap[own'[u]]
               /\ pc'[u] \in {"header", "payload"} => owner'[want'[u]] = u
    BY DEF UseInv, UseMutexes
  <2> QED  BY <2>1, <2>2, <2>3 DEF UseMutexes
<1>4. \A u \in Sender : Placed(u)'
  BY <1>2, OthersPlaced
<1>5. ASSUME NEW u \in Sender, Seeks(u)'
      PROVE  /\ Meant(u)'.to.port \notin DOMAIN connMap
             /\ \A other \in Sender : Seeks(other)' /\ Meant(other)'.to = Meant(u)'.to => other = u
  <2>1. \A v \in Sender \ {s} : Seeks(v)' => Meant(v)' = Meant(v) /\ Seeks(v) /\ First(v)
    BY DEF Connecting, Sending, UseInv, UseSenders, Seeks
  <2>2. CASE u = s
    BY <2>1, <2>2, <1>5
  <2>3. CASE u # s
    BY <2>1, <2>3, <1>5 DEF First
  <2> QED  BY <2>2, <2>3
<1>6. \A u \in Sender : First(u)'
  BY <1>5 DEF First
<1> QED  BY <1>1, <1>2, <1>3, <1>4, <1>6 DEF UseSenders

LEMMA UseStart ==
  ASSUME SendInv, UseInv, NEW s \in Sender, NEW to \in Remote \cup {NoAddress}, NEW fd,
         Start(s, to, fd),
         to = NoAddress => \E k \in DOMAIN connMap : connMap[k] = fd,
         to # NoAddress /\ to.port \notin DOMAIN connMap =>
           /\ s \in Thread /\ fd = NoSocket
           /\ \A u \in Sender \ {s} : Seeks(u) => Meant(u).to # to
  PROVE  UseInv'
<1> USE SenderFacts
<1> DEFINE c      == [op |-> "send", to |-> to, conn |-> IF to = NoAddress THEN sock[fd] ELSE 0]
           byAddr == Has(connMap, to.port)
           next   == IF byAddr THEN "key" ELSE "find"
<1>1. /\ pc[s] = "idle" /\ calls' = Append(calls, c) /\ call' = [call EXCEPT ![s] = Len(calls) + 1]
      /\ own' = [own EXCEPT ![s] = fd] /\ way' = [way EXCEPT ![s] = IF byAddr THEN "addr" ELSE "socket"]
      /\ pc' = [pc EXCEPT ![s] = next] /\ UNCHANGED <<kernel, tables, handles, want, pos>>
  BY DEF Start
<1>2. c.op = "send" /\ c.to = to /\ (to = NoAddress => c.conn = sock[fd])
  OBVIOUS
<1>3. /\ byAddr => to \in Remote
      /\ byAddr <=> to.port \in DOMAIN connMap
  <2>1. byAddr => to.port \in Port
    BY DEF Has, SendInv, TablesTyped
  <2>2. NoAddress.port = 0
    BY DEF NoAddress
  <2> QED  BY <2>1, <2>2 DEF Has
<1>4. /\ next = IF byAddr THEN "key" ELSE "find"
      /\ to = NoAddress => ~byAddr
  BY <1>3
<1> HIDE DEF c, byAddr, next
<1>5. /\ calls \in Seq(Call) /\ Len(calls) \in Nat /\ DOMAIN calls = 1 .. Len(calls)
      /\ call \in [Sender -> 0 .. Len(calls)]
      /\ pc \in [Sender -> {"idle"} \cup Sending \cup Connecting \cup Accepting]
      /\ own \in [Sender -> Fd \cup {0, NoSocket}] /\ way \in [Sender -> {"addr", "socket"}]
  BY DEF SendInv, SendersTyped
<1>6. calls'[Len(calls) + 1] = c /\ \A i \in 1 .. Len(calls) : calls'[i] = calls[i]
  BY <1>1, <1>5
<1>7. /\ pc'[s] = next /\ own'[s] = fd /\ call'[s] = Len(calls) + 1
      /\ way'[s] = IF byAddr THEN "addr" ELSE "socket"
      /\ \A u \in Sender \ {s} : /\ pc'[u] = pc[u] /\ own'[u] = own[u] /\ way'[u] = way[u]
                                 /\ call'[u] = call[u]
  BY <1>1, <1>5
<1>8. Meant(s)' = c
  BY <1>6, <1>7 DEF Meant
<1>9. \A u \in Sender \ {s} : pc[u] \in Sending \cup Connecting => Meant(u)' = Meant(u)
  <2> SUFFICES ASSUME NEW u \in Sender \ {s}, pc[u] \in Sending \cup Connecting
               PROVE  Meant(u)' = Meant(u)
    OBVIOUS
  <2>1. call[u] \in 1 .. Len(calls)
    BY CallFacts DEF SendInv
  <2> QED  BY <2>1, <1>6, <1>7 DEF Meant
<1>10. UNCHANGED <<sock, conn, stream, Polled, connMap, mutexMap, owner, handles, want>>
  BY <1>1 DEF kernel, tables, evloop, Polled
<1>11. Placed(s)'
  <2>1. CASE to = NoAddress
    <3>1. /\ pc'[s] = "find" /\ way'[s] = "socket" /\ Meant(s)'.to = NoAddress
          /\ Meant(s)'.op = "send" /\ Meant(s)'.conn = sock[fd]
      BY <2>1, <1>2, <1>3, <1>4, <1>7, <1>8
    <3>2. pc'[s] \notin Connecting \cup Accepting /\ ~Aimed(s)'
      BY <3>1 DEF Connecting, Accepting, Aimed
    <3>3. PICK k \in DOMAIN connMap : connMap[k] = fd
      BY <2>1
    <3> QED  BY <3>1, <3>2, <3>3, <1>7, <1>10 DEF Placed
  <2>2. CASE to # NoAddress /\ byAddr
    <3>1. pc'[s] = "key" /\ Meant(s)'.op = "send" /\ Meant(s)'.to.port \in DOMAIN connMap'
      BY <2>2, <1>2, <1>3, <1>4, <1>7, <1>8, <1>10
    <3> QED  BY <3>1 DEF Placed, Aimed, Accepting, Connecting
  <2>3. CASE to # NoAddress /\ ~byAddr
    <3>1. /\ pc'[s] = "find" /\ Meant(s)'.op = "send" /\ s \in Thread /\ Meant(s)'.to \in Remote
          /\ way'[s] = "socket" /\ own'[s] = NoSocket /\ Meant(s)'.to # NoAddress
      BY <2>3, <1>2, <1>3, <1>4, <1>7, <1>8
    <3> QED  BY <3>1 DEF Placed, Aimed, Accepting, Connecting
  <2> QED  BY <2>1, <2>2, <2>3
<1>12. Seeks(s)' => /\ Meant(s)'.to.port \notin DOMAIN connMap
                    /\ \A u \in Sender \ {s} : Seeks(u) => Meant(u).to # Meant(s)'.to
  <2> SUFFICES ASSUME Seeks(s)'
               PROVE  /\ Meant(s)'.to.port \notin DOMAIN connMap
                      /\ \A u \in Sender \ {s} : Seeks(u) => Meant(u).to # Meant(s)'.to
    OBVIOUS
  <2>1. to # NoAddress /\ ~byAddr
    BY <1>2, <1>4, <1>7, <1>8 DEF Seeks
  <2> QED  BY <2>1, <1>2, <1>3, <1>8
<1>13. pc'[s] \in {"key", "find"}
  BY <1>3, <1>4, <1>7
<1>14. \A u \in Sender \ {s} : pc[u] \in {"header", "payload"} => owner'[want[u]] = u
  BY <1>10 DEF UseInv, UseMutexes
<1>15. UseMap' /\ UseMutexes' /\ UseSenders' /\ Grows
  BY <1>7, <1>9, <1>10, <1>11, <1>12, <1>13, <1>14, StillStep
<1>16. UseStreams' /\ PortPeer'
  <2>1. Conns' = Conns
    BY <1>10 DEF Conns
  <2>2. \A u \in Sender : /\ pc'[u] = "payload" <=> pc[u] = "payload"
                          /\ pc[u] = "payload" => own'[u] = own[u] /\ call'[u] = call[u]
    BY <1>1, <1>7, <1>13
  <2> QED  BY <1>5, <1>6, <1>10, <1>15, <2>1, <2>2, StreamsStay
<1> QED  BY <1>15, <1>16 DEF UseInv

LEMMA UseSendTo ==
  ASSUME SendInv, UseInv, ThreadsUse, NEW t \in Thread, SendTo(t)
  PROVE  UseInv'
<1> USE SenderFacts
<1>1. PICK to \in Remote :
        /\ \A s \in Sender : Seeks(s) => Meant(s).to # to
        /\ Start(t, to, handles[t][to])
  BY DEF SendTo, ThreadsUse, Seeks
<1>2. to.port \notin DOMAIN connMap => handles[t][to] = NoSocket
  BY DEF UseInv, UseMap
<1> QED  BY <1>1, <1>2, UseStart

LEMMA UseReply ==
  ASSUME SendInv, UseInv, NEW s \in Sender, Reply(s)
  PROVE  UseInv'
<1>1. PICK fd \in Polled : Start(s, NoAddress, fd)
  BY DEF Reply
<1>2. \E k \in DOMAIN connMap : connMap[k] = fd
  BY DEF UseInv, UseMap
<1> QED  BY <1>1, <1>2, UseStart

(* The steps that look for the descriptor and the mutex, and that take it. *)
LEMMA UseInside ==
  ASSUME SendInv, UseInv, NEW s \in Sender, NEW next \in {"mutex", "connect", "lock", "header"},
         pc[s] \in {"key", "find", "mutex", "lock"}, pc' = [pc EXCEPT ![s] = next],
         UNCHANGED <<kernel, Polled, connMap, mutexMap, handles, calls, call, way>>,
         \A u \in Sender \ {s} : /\ own'[u] = own[u] /\ want'[u] = want[u]
                                 /\ pc[u] \in {"header", "payload"} => owner'[want[u]] = u,
         next \in {"lock", "header"} => want'[s] = mutexMap[own'[s]],
         next = "header" => owner'[want'[s]] = s,
         next = "connect" => pc[s] = "find",
         Placed(s)'
  PROVE  UseInv'
<1> USE SenderFacts
<1>1. pc'[s] = next /\ \A u \in Sender \ {s} : pc'[u] = pc[u]
  BY DEF SendInv, SendersTyped
<1>2. \A u \in Sender : Meant(u)' = Meant(u)
  BY DEF Meant
<1>3. UNCHANGED <<sock, conn, stream>>
  BY DEF kernel
<1>4. UseMap' /\ UseMutexes' /\ UseSenders' /\ Grows
  <2>1. Seeks(s)' => Seeks(s) /\ First(s)
    BY <1>1, <1>2 DEF Seeks, UseInv, UseSenders
  <2>2. Seeks(s)' => /\ Meant(s)'.to.port \notin DOMAIN connMap
                     /\ \A u \in Sender \ {s} : Seeks(u) => Meant(u).to # Meant(s)'.to
    BY <1>2, <2>1 DEF First
  <2> QED  BY <1>1, <1>2, <1>3, <2>2, StillStep
<1>5. UseStreams' /\ PortPeer'
  <2>1. Conns' = Conns
    BY <1>3 DEF Conns
  <2>2. \A u \in Sender : /\ pc'[u] = "payload" <=> pc[u] = "payload"
                          /\ pc[u] = "payload" => own'[u] = own[u] /\ call'[u] = call[u]
    BY <1>1
  <2> QED  BY <1>3, <1>4, <2>1, <2>2, StreamsStay
<1> QED  BY <1>4, <1>5 DEF UseInv

LEMMA UseFind ==
  ASSUME SendInv, UseInv, NEW s \in Sender, Find(s)
  PROVE  UseInv'
<1> USE SenderFacts
<1>1. /\ pc[s] = "find" /\ UNCHANGED <<kernel, tables>>
      /\ UNCHANGED <<handles, calls, call, own, way, want>>
  BY DEF Find, inside
<1>2. UNCHANGED <<sock, conn, Polled, connMap, mutexMap, owner>>
  BY <1>1 DEF kernel, tables, evloop, Polled
<1>3. /\ Meant(s).op = "send" /\ way[s] = "socket"
      /\ IF Meant(s).to = NoAddress
         THEN /\ \E k \in DOMAIN connMap : connMap[k] = own[s]
              /\ sock[own[s]] = Meant(s).conn
         ELSE s \in Thread /\ Meant(s).to \in Remote /\ own[s] = NoSocket
  <2>1. Placed(s)
    BY DEF UseInv, UseSenders
  <2> QED  BY <1>1, <2>1 DEF Placed, Sending
<1>4. Meant(s)' = Meant(s)
  BY <1>1 DEF Meant
<1>5. \A u \in Sender : pc[u] \in {"header", "payload"} => owner'[want[u]] = u
  BY <1>2 DEF UseInv, UseMutexes
<1>6. CASE Meant(s).to = NoAddress
  <2>1. KeysOf(connMap, own[s]) # {}
    BY <1>3, <1>6 DEF KeysOf
  <2>2. pc' = [pc EXCEPT ![s] = "mutex"] /\ pc'[s] = "mutex"
    BY <2>1 DEF Find, SendInv, SendersTyped
  <2>3. Placed(s)'
    <3>1. pc'[s] \notin Accepting \cup Connecting
      BY <2>2 DEF Accepting, Connecting
    <3> QED  BY <1>1, <1>2, <1>3, <1>4, <1>6, <2>2, <3>1 DEF Placed
  <2> QED  BY <1>1, <1>2, <1>5, <2>2, <2>3, UseInside
<1>7. CASE Meant(s).to # NoAddress
  <2>1. \A k \in DOMAIN connMap : connMap[k] # NoSocket
    <3>1. NoSocket \notin Fd
      BY DEF NoSocket, Fd
    <3>2. \A k \in DOMAIN connMap : connMap[k] \in Fd
      BY DEF UseInv, UseMap
    <3> QED  BY <3>1, <3>2
  <2>2. KeysOf(connMap, own[s]) = {}
    BY <1>3, <1>7, <2>1 DEF KeysOf
  <2>3. pc' = [pc EXCEPT ![s] = "connect"] /\ pc'[s] = "connect"
    BY <2>2 DEF Find, SendInv, SendersTyped
  <2>4. Placed(s)'
    <3>1. pc'[s] \notin Accepting /\ ~Aimed(s)'
      BY <2>3 DEF Accepting, Aimed
    <3> QED  BY <1>1, <1>3, <1>4, <1>7, <2>3, <3>1 DEF Placed
  <2> QED  BY <1>1, <1>2, <1>5, <2>3, <2>4, UseInside
<1> QED  BY <1>6, <1>7

LEMMA UseTakeKey ==
  ASSUME SendInv, UseInv, NEW s \in Sender, TakeKey(s)
  PROVE  UseInv'
<1> USE SenderFacts
<1> DEFINE to == Meant(s).to
<1>1. /\ pc[s] = "key" /\ connMap' = Touched(to.port) /\ own' = [own EXCEPT ![s] = connMap'[to.port]]
      /\ pc' = [pc EXCEPT ![s] = "mutex"]
      /\ UNCHANGED <<kernel, Polled, mutexMap, owner, handles, calls, call, way, want>>
  BY DEF TakeKey, evloop, Polled
<1>2. Placed(s) /\ to.port \in DOMAIN connMap
  BY <1>1 DEF UseInv, UseSenders, Placed
<1>3. to \in Remote /\ way[s] = "addr" /\ Meant(s).op = "send"
  BY <1>1, <1>2 DEF SendInv, SendersTyped, Sending, Placed
<1>4. connMap' = connMap
  BY <1>1, <1>2 DEF Touched, Has
<1>5. own'[s] = connMap[to.port] /\ \A u \in Sender \ {s} : own'[u] = own[u]
  BY <1>1, <1>4 DEF SendInv, SendersTyped
<1>6. conn[sock[connMap[to.port]]].peer = Reached(to.port)
  BY <1>2 DEF UseInv, UseMap
<1>7. pc'[s] = "mutex" /\ Meant(s)' = Meant(s) /\ way'[s] = "addr" /\ UNCHANGED <<sock, conn>>
  BY <1>1, <1>3 DEF Meant, kernel, SendInv, SendersTyped
<1>8. Placed(s)'
  <2>1. pc'[s] \notin Accepting \cup Connecting
    BY <1>7 DEF Accepting, Connecting
  <2>2. to # NoAddress
    BY <1>3
  <2>3. \E k \in DOMAIN connMap' : connMap'[k] = own'[s]
    BY <1>2, <1>4, <1>5
  <2> QED  BY <2>1, <2>2, <2>3, <1>2, <1>3, <1>4, <1>5, <1>6, <1>7 DEF Placed
<1>9. \A u \in Sender : pc[u] \in {"header", "payload"} => owner'[want[u]] = u
  BY <1>1 DEF UseInv, UseMutexes
<1> QED  BY <1>1, <1>4, <1>5, <1>8, <1>9, UseInside

LEMMA UseFindMutex ==
  ASSUME SendInv, UseInv, NEW s \in Sender, FindMutex(s)
  PROVE  UseInv'
<1>1. pc[s] = "mutex" /\ UNCHANGED <<kernel, tables, handles, calls, call, own, way>>
  BY DEF FindMutex
<1>2. Has(mutexMap, own[s])
  BY <1>1, AimedFacts DEF Aimed, Has
<1>3. want' = [want EXCEPT ![s] = mutexMap[own[s]]] /\ pc' = [pc EXCEPT ![s] = "lock"]
  BY <1>2 DEF FindMutex
<1>4. /\ pc'[s] = "lock" /\ want'[s] = mutexMap[own[s]]
      /\ \A u \in Sender \ {s} : want'[u] = want[u]
  BY <1>3 DEF SendInv, SendersTyped
<1>5. UNCHANGED <<Polled, connMap, mutexMap, owner, sock, conn>>
  BY <1>1 DEF tables, evloop, Polled, kernel
<1>6. Placed(s)'
  <2>1. Placed(s) /\ Meant(s)' = Meant(s) /\ pc[s] \in Sending
    BY <1>1 DEF UseInv, UseSenders, Meant, Sending
  <2>2. Aimed(s) /\ Aimed(s)' /\ pc'[s] \notin Accepting \cup Connecting
    BY <1>1, <1>4 DEF Aimed, Accepting, Connecting
  <2> QED  BY <2>1, <2>2, <1>1, <1>4, <1>5 DEF Placed
<1>7. \A u \in Sender : pc[u] \in {"header", "payload"} => owner'[want[u]] = u
  BY <1>5 DEF UseInv, UseMutexes
<1> QED  BY <1>1, <1>3, <1>4, <1>5, <1>6, <1>7, UseInside

LEMMA UseLock ==
  ASSUME SendInv, UseInv, NEW s \in Sender, Lock(s)
  PROVE  UseInv'
<1> USE SenderFacts
<1>1. /\ pc[s] = "lock" /\ owner[want[s]] = Nobody /\ owner' = [owner EXCEPT ![want[s]] = s]
      /\ pc' = [pc EXCEPT ![s] = "header"]
      /\ UNCHANGED <<kernel, Polled, connMap, mutexMap, handles, calls, call, own, way, want>>
  BY DEF Lock, inside, evloop, Polled
<1>2. want[s] \in DOMAIN owner
  BY <1>1 DEF SendInv, SendersTyped, TablesTyped
<1>3. want[s] = mutexMap[own[s]]
  BY <1>1 DEF UseInv, UseMutexes
<1>4. owner'[want[s]] = s /\ \A m \in DOMAIN owner \ {want[s]} : owner'[m] = owner[m]
  BY <1>1, <1>2
<1>5. ASSUME NEW u \in Sender \ {s}, pc[u] \in {"header", "payload"}
      PROVE  owner'[want[u]] = u
  <2>1. owner[want[u]] = u /\ u # Nobody
    BY <1>5 DEF UseInv, UseMutexes
  <2>2. want[u] # want[s] /\ want[u] \in DOMAIN owner
    BY <2>1, <1>1, <1>5 DEF SendInv, SendersTyped, TablesTyped
  <2> QED  BY <2>1, <2>2, <1>4
<1>6. Placed(s)'
  <2>1. Placed(s) /\ Meant(s)' = Meant(s) /\ pc[s] \in Sending /\ pc'[s] = "header"
    BY <1>1 DEF UseInv, UseSenders, Meant, Sending, SendInv, SendersTyped
  <2>2. Aimed(s) /\ Aimed(s)' /\ pc'[s] \notin Accepting \cup Connecting
    BY <1>1, <2>1 DEF Aimed, Accepting, Connecting
  <2>3. UNCHANGED <<sock, conn>>
    BY <1>1 DEF kernel
  <2> QED  BY <2>1, <2>2, <2>3, <1>1 DEF Placed
<1> QED  BY <1>1, <1>3, <1>4, <1>5, <1>6, UseInside

(* A sender in the middle of sending: its descriptor is open and leads to  *)
(* the connection c, where it means to send and nobody else is sending.    *)
SendsTo(s, c) ==
  /\ own[s] \in Fd /\ sock[own[s]] = c /\ c # 0
  /\ way[s] = "addr" => /\ Meant(s).to.port \in DOMAIN connMap
                        /\ connMap[Meant(s).to.port] = own[s]
  /\ Meant(s).to = NoAddress => c = Meant(s).conn
  /\ Meant(s).to # NoAddress => conn[c].peer = Reached(Meant(s).to.port)
  /\ \A u \in Sender \ {s} : pc[u] = "payload" => sock[own[u]] # c /\ sock[own[u]] \in Conns

(* It adds a part to its connection.                                       *)
LEMMA PartSent ==
  ASSUME SendInv, StreamsInv, NEW s \in Sender, NEW part \in {"header", "payload"},
         pc[s] = part, Transmit(s, part), pc'[s] = "payload" <=> part = "header",
         \A u \in Sender \ {s} : pc'[u] = pc[u], NEW c \in Conns, SendsTo(s, c)
  PROVE  /\ UseStreams' /\ PortPeer'
         /\ connMap' = connMap /\ UNCHANGED <<sock, conn, Polled, mutexMap>>
         /\ UNCHANGED <<handles, calls, call, own, way, want>>
         /\ Conns' = Conns /\ \A d \in Conns : d # c => stream'[d] = stream[d]
         /\ Len(stream[c]) \in Nat /\ Len(stream'[c]) = Len(stream[c]) + 1
         /\ stream'[c][Len(stream[c]) + 1].call = call[s]
         /\ \A i \in 1 .. Len(stream[c]) : stream'[c][i] = stream[c][i]
         /\ part = "header" => ~Odd(Len(stream[c]))
         /\ part = "payload" => Odd(Len(stream[c])) /\ stream[c][Len(stream[c])].call = call[s]
<1> USE SenderFacts
<1> DEFINE p == [call |-> call[s], part |-> part]
           n == Len(stream[c])
<1> USE DEF SendsTo
<1>1. pc[s] \in Sending
  BY DEF Sending
<1>2. connMap' = connMap /\ UNCHANGED <<sock, conn, Polled, mutexMap>>
      /\ UNCHANGED <<handles, calls, call, own, way, want>>
  <2>1. connMap' = connMap
    BY DEF Transmit, Touched, Has
  <2> QED  BY <2>1 DEF Transmit, inside, evloop, Polled
<1>3. stream' = [stream EXCEPT ![c] = Append(stream[c], p)]
  <2> DEFINE fd == IF way[s] = "addr" THEN connMap'[Meant(s).to.port] ELSE own[s]
  <2>1. fd = own[s]
    BY <1>2
  <2>2. stream' = IF fd \in Fd /\ sock[fd] # 0
                  THEN [stream EXCEPT ![sock[fd]] = Append(stream[sock[fd]], p)] ELSE stream
    BY DEF Transmit
  <2> HIDE DEF fd
  <2> QED  BY <2>1, <2>2
<1>4. /\ stream \in Seq(Seq(Part)) /\ Len(stream) = Len(conn) /\ Len(conn) \in Nat
      /\ call[s] \in DOMAIN calls /\ call[s] \in Nat
      /\ \A d \in Conns : \A i \in DOMAIN stream[d] : stream[d][i].call \in DOMAIN calls
  BY <1>1, CallFacts DEF SendInv, KernelTyped
<1>5. p \in Part /\ p.call = call[s] /\ p.part = part
  BY <1>4 DEF Part
<1>6. stream[c] \in Seq(Part) /\ c \in 1 .. Len(stream)
  BY <1>4 DEF Conns
<1> HIDE DEF p
<1>7. /\ Len(stream'[c]) = n + 1 /\ DOMAIN stream'[c] = 1 .. n + 1 /\ DOMAIN stream[c] = 1 .. n
      /\ n \in Nat /\ stream'[c][n + 1] = p /\ \A i \in 1 .. n : stream'[c][i] = stream[c][i]
  <2>1. stream'[c] = Append(stream[c], p)
    BY <1>3, <1>4, <1>6
  <2> QED  BY <1>5, <1>6, <2>1, AppendFacts
<1>8. Conns' = Conns /\ \A d \in Conns : d # c => stream'[d] = stream[d]
  BY <1>2, <1>3, <1>4 DEF Conns
<1> HIDE DEF n
<1>9. \A i \in 1 .. n :
         IF Odd(i)
         THEN /\ stream[c][i].part = "header"
              /\ i = n => \E u \in Sender : /\ pc[u] = "payload" /\ sock[own[u]] = c
                                            /\ call[u] = stream[c][i].call
         ELSE stream[c][i] = [call |-> stream[c][i - 1].call, part |-> "payload"]
  <2>1. \A i \in DOMAIN stream[c] :
          IF Odd(i)
          THEN /\ stream[c][i].part = "header"
               /\ i = Len(stream[c]) => \E u \in Sender : /\ pc[u] = "payload" /\ sock[own[u]] = c
                                                          /\ call[u] = stream[c][i].call
          ELSE stream[c][i] = [call |-> stream[c][i - 1].call, part |-> "payload"]
    BY DEF StreamsInv, UseStreams
  <2>2. Len(stream[c]) = n /\ DOMAIN stream[c] = 1 .. n
    BY <1>7 DEF n
  <2> QED  BY <2>1, <2>2
<1>10. part = "header" => ~Odd(n)
  <2> SUFFICES ASSUME part = "header", Odd(n) PROVE FALSE
    OBVIOUS
  <2>1. n \in 1 .. n
    BY <1>7, OddFacts
  <2>2. PICK u \in Sender : pc[u] = "payload" /\ sock[own[u]] = c
    BY <2>1, <1>9
  <2> QED  BY <2>2
<1>11. part = "payload" => Odd(n) /\ n \in 1 .. n /\ stream[c][n].call = call[s]
  <2> SUFFICES ASSUME part = "payload" PROVE Odd(n) /\ n \in 1 .. n /\ stream[c][n].call = call[s]
    OBVIOUS
  <2>1. Odd(n) /\ stream[c][n].call = call[s]
    BY DEF StreamsInv, UseStreams, n
  <2> QED  BY <2>1, <1>7, OddFacts
<1>12. UseStreams'
  <2>1. ASSUME NEW i \in 1 .. n + 1
        PROVE  IF Odd(i)
               THEN /\ stream'[c][i].part = "header"
                    /\ i = n + 1 => \E u \in Sender : /\ pc'[u] = "payload" /\ sock[own[u]] = c
                                                      /\ call[u] = stream'[c][i].call
               ELSE stream'[c][i] = [call |-> stream'[c][i - 1].call, part |-> "payload"]
    <3>1. CASE i = n + 1 /\ part = "header"
      <4>1. Odd(i) /\ stream'[c][i].part = "header" /\ stream'[c][i].call = call[s]
        BY <3>1, <1>5, <1>7, <1>10, OddFacts
      <4>2. pc'[s] = "payload" /\ sock[own[s]] = c
        BY <3>1
      <4> QED  BY <4>1, <4>2
    <3>2. CASE i = n + 1 /\ part = "payload"
      <4>1. ~Odd(i) /\ stream'[c][i] = p
        BY <3>2, <1>7, <1>11, OddFacts
      <4>2. i - 1 = n /\ stream'[c][n] = stream[c][n] /\ stream[c][n].call = call[s]
        BY <3>2, <1>7, <1>11
      <4>3. p = [call |-> call[s], part |-> "payload"]
        BY <3>2 DEF p
      <4> QED  BY <4>1, <4>2, <4>3
    <3>3. CASE i \in 1 .. n
      <4>1. i # n + 1 /\ stream'[c][i] = stream[c][i]
        BY <3>3, <1>7
      <4>2. ~Odd(i) => i - 1 \in 1 .. n
        <5>1. ~Odd(i) => i # 1
          BY DEF Odd
        <5> QED  BY <5>1, <3>3, <1>7
      <4>3. ~Odd(i) => stream'[c][i - 1] = stream[c][i - 1]
        BY <4>2, <1>7
      <4> QED  BY <3>3, <4>1, <4>3, <1>9
    <3> QED  BY <1>7, <3>1, <3>2, <3>3
  <2>2. ASSUME NEW d \in Conns, d # c, NEW i \in DOMAIN stream[d]
        PROVE  IF Odd(i)
               THEN /\ stream[d][i].part = "header"
                    /\ i = Len(stream[d]) =>
                         \E u \in Sender : /\ pc'[u] = "payload" /\ sock[own[u]] = d
                                           /\ call[u] = stream[d][i].call
               ELSE stream[d][i] = [call |-> stream[d][i - 1].call, part |-> "payload"]
    <3>1. \A u \in Sender : sock[own[u]] = d => u # s
      BY <2>2
    <3>2. IF Odd(i)
          THEN /\ stream[d][i].part = "header"
               /\ i = Len(stream[d]) =>
                    \E u \in Sender : /\ pc[u] = "payload" /\ sock[own[u]] = d
                                      /\ call[u] = stream[d][i].call
          ELSE stream[d][i] = [call |-> stream[d][i - 1].call, part |-> "payload"]
      BY DEF StreamsInv, UseStreams
    <3> QED  BY <3>1, <3>2
  <2>3. ASSUME NEW u \in Sender, pc'[u] = "payload"
        PROVE  Odd(Len(stream'[sock[own[u]]]))
               /\ stream'[sock[own[u]]][Len(stream'[sock[own[u]]])].call = call[u]
    <3>1. CASE u = s
      <4>1. sock[own[u]] = c /\ part = "header"
        BY <2>3, <3>1
      <4> QED  BY <3>1, <4>1, <1>5, <1>7, <1>10, OddFacts
    <3>2. CASE u # s
      <4>1. pc[u] = "payload" /\ sock[own[u]] # c /\ sock[own[u]] \in Conns
        BY <2>3, <3>2
      <4>2. stream'[sock[own[u]]] = stream[sock[own[u]]]
        BY <4>1, <1>8
      <4> QED  BY <4>1, <4>2 DEF StreamsInv, UseStreams
    <3> QED  BY <3>1, <3>2
  <2>4. ASSUME NEW d \in Conns, NEW i \in DOMAIN stream'[d]
        PROVE  IF Odd(i)
               THEN /\ stream'[d][i].part = "header"
                    /\ i = Len(stream'[d]) =>
                         \E u \in Sender : /\ pc'[u] = "payload" /\ sock[own[u]] = d
                                           /\ call[u] = stream'[d][i].call
               ELSE stream'[d][i] = [call |-> stream'[d][i - 1].call, part |-> "payload"]
    <3>1. CASE d = c
      BY <3>1, <2>1, <1>7
    <3>2. CASE d # c
      <4>1. stream'[d] = stream[d]
        BY <3>2, <1>8
      <4> QED  BY <3>2, <4>1, <2>2
    <3> QED  BY <3>1, <3>2
  <2>5. ASSUME NEW u \in Sender, pc'[u] = "payload"
        PROVE  LET parts == stream'[sock'[own'[u]]] IN
                 Odd(Len(parts)) /\ parts[Len(parts)].call = call'[u]
    BY <2>3, <2>5, <1>2
  <2>6. ASSUME NEW d \in Conns', NEW i \in DOMAIN stream'[d]
        PROVE  IF Odd(i)
               THEN /\ stream'[d][i].part = "header"
                    /\ i = Len(stream'[d]) =>
                         \E u \in Sender : /\ pc'[u] = "payload" /\ sock'[own'[u]] = d
                                           /\ call'[u] = stream'[d][i].call
               ELSE stream'[d][i] = [call |-> stream'[d][i - 1].call, part |-> "payload"]
    BY <2>4, <1>2, <1>8
  <2> QED  BY <2>5, <2>6 DEF UseStreams
<1>13. PortPeer'
  <2>1. ASSUME NEW d \in Conns, NEW i \in DOMAIN stream'[d]
        PROVE  LET m == calls[stream'[d][i].call] IN
                 IF m.to = NoAddress THEN d = m.conn ELSE conn[d].peer = Reached(m.to.port)
    <3>1. CASE d = c /\ i = n + 1
      <4>1. stream'[d][i].call = call[s]
        BY <3>1, <1>5, <1>7
      <4>2. IF Meant(s).to = NoAddress THEN c = Meant(s).conn
            ELSE conn[c].peer = Reached(Meant(s).to.port)
        OBVIOUS
      <4> QED  BY <3>1, <4>1, <4>2 DEF Meant
    <3>2. CASE ~(d = c /\ i = n + 1)
      <4>1. i \in DOMAIN stream[d] /\ stream'[d][i] = stream[d][i]
        <5>1. CASE d = c
          BY <3>2, <5>1, <1>7
        <5>2. CASE d # c
          <6>1. stream'[d] = stream[d]
            BY <5>2, <1>8
          <6> QED  BY <6>1
        <5> QED  BY <5>1, <5>2
      <4> QED  BY <4>1 DEF StreamsInv, PortPeer
    <3> QED  BY <3>1, <3>2
  <2> QED  BY <2>1, <1>2, <1>8 DEF PortPeer
<1> QED  BY <1>2, <1>5, <1>7, <1>8, <1>10, <1>11, <1>12, <1>13 DEF n

LEMMA UseSends ==
  ASSUME SendInv, UseInv, NEW s \in Sender, pc[s] \in {"header", "payload"}
  PROVE  \E c \in Conns : SendsTo(s, c)
<1>1. Aimed(s)
  BY DEF Aimed
<1>2. /\ own[s] \in Fd /\ sock[own[s]] # 0 /\ sock[own[s]] \in Conns
      /\ way[s] = "addr" => /\ Meant(s).to.port \in DOMAIN connMap
                            /\ connMap[Meant(s).to.port] = own[s]
  BY <1>1, AimedFacts
<1>3. PICK c \in Conns : sock[own[s]] = c /\ c # 0
  BY <1>2
<1>4. ASSUME NEW u \in Sender \ {s}, pc[u] = "payload"
      PROVE  sock[own[u]] # c /\ sock[own[u]] \in Conns
  <2>1. sock[own[u]] # c
    BY <1>4, <1>3, Exclusive
  <2>2. Aimed(u)
    BY <1>4 DEF Aimed
  <2> QED  BY <2>1, <2>2, AimedFacts
<1>5. Placed(s)
  BY DEF UseInv, UseSenders
<1>6. /\ Meant(s).to = NoAddress => c = Meant(s).conn
      /\ Meant(s).to # NoAddress => conn[c].peer = Reached(Meant(s).to.port)
  BY <1>1, <1>3, <1>5 DEF Placed
<1> QED  BY <1>2, <1>3, <1>4, <1>6 DEF SendsTo

(* send() of a part goes to the end of the connection the sender is at.    *)
LEMMA UseTransmit ==
  ASSUME SendInv, UseInv, NEW s \in Sender, NEW part \in {"header", "payload"}, pc[s] = part,
         NEW next \in {"payload", "idle"}, next = "payload" <=> part = "header",
         Transmit(s, part), pc' = [pc EXCEPT ![s] = next],
         \A u \in Sender : pc'[u] \in {"header", "payload"} => owner'[want[u]] = u
  PROVE  UseInv'
<1> USE SenderFacts
<1>1. Aimed(s) /\ pc[s] \in Sending
  BY DEF Aimed, Sending
<1>2. PICK c \in Conns : SendsTo(s, c)
  BY UseSends
<1>3. Placed(s)
  BY DEF UseInv, UseSenders
<1>4. StreamsInv
  BY DEF UseInv, StreamsInv
<1>5. pc'[s] = next /\ \A u \in Sender \ {s} : pc'[u] = pc[u]
  BY DEF SendInv, SendersTyped
<1>6. /\ UseStreams' /\ PortPeer'
      /\ connMap' = connMap /\ UNCHANGED <<sock, conn, Polled, mutexMap>>
      /\ UNCHANGED <<handles, calls, call, own, way, want>>
  <2>1. /\ pc'[s] = "payload" <=> part = "header"
        /\ \A u \in Sender \ {s} : pc'[u] = pc[u]
    BY <1>5
  <2> QED  BY <2>1, <1>2, <1>4, PartSent
<1>7. \A u \in Sender : Meant(u)' = Meant(u)
  BY <1>6 DEF Meant
<1>8. Placed(s)'
  <2>1. CASE next = "idle"
    <3>1. pc'[s] \notin Accepting \cup Sending \cup Connecting \cup {"insert"} /\ ~Aimed(s)'
      BY <2>1, <1>5 DEF Aimed, Sending, Connecting, Accepting
    <3>2. pc'[s] = "idle"
      BY <2>1, <1>5
    <3> QED  BY <3>1, <3>2 DEF Placed
  <2>2. CASE next = "payload"
    <3>1. Aimed(s)' /\ pc'[s] \notin Accepting \cup Connecting
      BY <2>2, <1>5 DEF Aimed, Accepting, Connecting
    <3> QED  BY <2>2, <3>1, <1>1, <1>3, <1>5, <1>6, <1>7 DEF Placed
  <2> QED  BY <2>1, <2>2
<1>9. UseMap' /\ UseMutexes' /\ UseSenders'
  <2>1. pc[s] \in {"lock", "header", "payload"} => want[s] = mutexMap[own[s]]
    BY DEF UseInv, UseMutexes
  <2>2. ~Seeks(s)'
    BY <1>5 DEF Seeks
  <2> QED  BY <2>1, <2>2, <1>3, <1>5, <1>6, <1>7, <1>8, StillStep
<1> QED  BY <1>6, <1>9 DEF UseInv

LEMMA UseSendHeader ==
  ASSUME SendInv, UseInv, NEW s \in Sender, SendHeader(s)
  PROVE  UseInv'
<1>1. /\ pc[s] = "header" /\ Transmit(s, "header") /\ pc' = [pc EXCEPT ![s] = "payload"]
      /\ owner' = owner
  BY DEF SendHeader
<1>2. ASSUME NEW u \in Sender, pc'[u] \in {"header", "payload"}
      PROVE  owner'[want[u]] = u
  <2>1. pc[u] \in {"header", "payload"}
    BY <1>1, <1>2 DEF SendInv, SendersTyped
  <2> QED  BY <1>1, <2>1 DEF UseInv, UseMutexes
<1> QED  BY <1>1, <1>2, UseTransmit

LEMMA UseSendPayload ==
  ASSUME SendInv, UseInv, NEW s \in Sender, SendPayload(s)
  PROVE  UseInv'
<1>1. /\ pc[s] = "payload" /\ Transmit(s, "payload") /\ pc' = [pc EXCEPT ![s] = "idle"]
      /\ owner' = [owner EXCEPT ![want[s]] = Nobody]
  BY DEF SendPayload
<1>2. ASSUME NEW u \in Sender, pc'[u] \in {"header", "payload"}
      PROVE  owner'[want[u]] = u
  <2>1. pc[u] \in {"header", "payload"} /\ u # s
    BY <1>1, <1>2 DEF SendInv, SendersTyped
  <2>2. owner[want[u]] = u /\ owner[want[s]] = s
    BY <1>1, <2>1 DEF UseInv, UseMutexes
  <2>3. want[u] \in DOMAIN owner /\ owner \in Seq(Sender \cup {Nobody})
    BY <2>1 DEF SendInv, SendersTyped, TablesTyped
  <2> QED  BY <1>1, <2>1, <2>2, <2>3
<1> QED  BY <1>1, <1>2, UseTransmit

LEMMA UseConnect ==
  ASSUME SendInv, UseInv, NEW s \in Sender, Connect(s)
  PROVE  UseInv'
<1> USE SenderFacts
<1> DEFINE to == Meant(s).to
<1>1. /\ pc[s] = "connect" /\ pc' = [pc EXCEPT ![s] = "store"] /\ UNCHANGED tables
      /\ UNCHANGED <<handles, calls, call, way, want>>
  BY DEF Connect
<1>2. Placed(s) /\ First(s) /\ Meant(s).op = "send" /\ to \in Remote /\ s \in Thread /\ way[s] = "socket"
  <2>1. Placed(s) /\ First(s)
    BY DEF UseInv, UseSenders
  <2>2. pc[s] \in Connecting
    BY <1>1 DEF Connecting
  <2> QED  BY <2>1, <2>2 DEF Placed
<1> DEFINE peer == Reached(to.port)
<1>3. PICK fd \in Fd : OpenSocket(fd, peer, "client", TRUE) /\ own' = [own EXCEPT ![s] = fd]
  BY <1>2 DEF Connect, Destination, Reached
<1>4. peer \in [ip : Ip, port : Port \cup {0}] /\ peer.port \in Port
  BY <1>2 DEF Reached, Ip
<1> HIDE DEF peer
<1>5. OpenSocket(fd, peer, "client", TRUE)
  BY <1>3
<1> DEFINE n == Len(conn) + 1
<1>6. /\ Len(conn) \in Nat /\ Len(conn') = n /\ sock[fd] = 0 /\ sock'[fd] = n
      /\ \A other \in Fd : /\ sock[other] \in 0 .. Len(conn)
                           /\ other # fd => sock'[other] = sock[other]
      /\ conn'[n] = [peer |-> peer, role |-> "client", alive |-> TRUE]
      /\ \A c \in Conns : conn'[c] = conn[c] /\ stream'[c] = stream[c]
      /\ stream'[n] = << >>
  BY <1>1, <1>4, <1>5, OpenSocketFacts
<1> HIDE DEF to
<1>7. /\ \A f \in Fd : sock[f] # n /\ (sock[f] # 0 => sock[f] \in Conns)
      /\ Conns' = Conns \cup {n} /\ n # 0 /\ n \notin Conns
      /\ conn'[n].alive /\ conn'[n].peer = peer
  BY <1>6 DEF Conns
<1> HIDE DEF n
<1>8. UNCHANGED <<Polled, connMap, mutexMap, owner>>
  BY <1>1 DEF tables, evloop, Polled
<1>9. Grows
  BY <1>6, <1>7, <1>8 DEF Grows
<1>10. pc'[s] = "store" /\ own'[s] = fd
       /\ \A u \in Sender \ {s} : pc'[u] = pc[u] /\ own'[u] = own[u]
  BY <1>1, <1>3 DEF SendInv, SendersTyped
<1>11. \A u \in Sender : Meant(u)' = Meant(u)
  BY <1>1 DEF Meant
<1>12. UseMap'
  <2>1. ASSUME NEW f \in Fd, NEW g \in Fd, sock'[f] # 0, sock'[f] = sock'[g]
        PROVE  f = g
    BY <2>1, <1>6, <1>7 DEF UseInv, UseMap
  <2>2. ASSUME NEW f \in Fd, sock'[f] # 0, conn'[sock'[f]].role # "failed"
        PROVE  conn'[sock'[f]].alive
    BY <2>2, <1>6, <1>7 DEF UseInv, UseMap
  <2>3. \A k \in DOMAIN connMap :
          /\ connMap[k] \in Fd /\ sock'[connMap[k]] # 0 /\ conn'[sock'[connMap[k]]].role = "client"
          /\ conn'[sock'[connMap[k]]].peer = Reached(k)
          /\ connMap[k] \in DOMAIN mutexMap
    BY <1>9 DEF UseInv, UseMap, Grows
  <2>4. /\ \A f \in Polled : \E k \in DOMAIN connMap : connMap[k] = f
        /\ \A t \in Thread, a \in Remote : handles[t][a] # NoSocket => a.port \in DOMAIN connMap
    BY DEF UseInv, UseMap
  <2> QED  BY <1>1, <1>8, <2>1, <2>2, <2>3, <2>4 DEF UseMap
<1>13. UseMutexes'
  <2>1. ASSUME NEW u \in Sender
        PROVE  /\ pc'[u] \in {"lock", "header", "payload"} => want'[u] = mutexMap[own'[u]]
               /\ pc'[u] \in {"header", "payload"} => owner[want'[u]] = u
    BY <1>1, <1>10 DEF UseInv, UseMutexes
  <2> QED  BY <2>1, <1>8 DEF UseInv, UseMutexes
<1>14. UseSenders'
  <2>1. Placed(s)'
    <3>1. pc'[s] \in Connecting /\ pc'[s] \notin Accepting /\ ~Aimed(s)'
      BY <1>10 DEF Connecting, Accepting, Aimed
    <3>2. Meant(s)' = Meant(s) /\ way'[s] = "socket" /\ peer = Reached(Meant(s).to.port)
      BY <1>1, <1>2, <1>11 DEF to, peer
    <3>3. Meant(s)'.to \in Remote /\ Meant(s)'.op = "send"
      BY <3>2, <1>2 DEF to
    <3> QED  BY <3>1, <3>2, <3>3, <1>2, <1>6, <1>7, <1>10 DEF Placed
  <2>2. ASSUME NEW u \in Sender PROVE Placed(u)'
    <3>1. CASE u # s
      BY <3>1, <1>1, <1>9, <1>10, <1>11, OthersPlaced
    <3> QED  BY <2>1, <3>1
  <2>3. \A u \in Sender : Seeks(u)' <=> Seeks(u)
    BY <1>1, <1>10, <1>11 DEF Seeks
  <2>4. ASSUME NEW u \in Sender PROVE First(u)'
    <3>1. First(u)
      BY DEF UseInv, UseSenders
    <3> QED  BY <3>1, <2>3, <1>8, <1>11 DEF First
  <2> QED  BY <2>2, <2>4 DEF UseSenders
<1>15. UseStreams' /\ PortPeer'
  <2>1. /\ Conns \subseteq Conns' /\ \A c \in Conns' \ Conns : stream'[c] = << >>
        /\ \A u \in Sender : /\ pc'[u] = "payload" <=> pc[u] = "payload"
                             /\ pc[u] = "payload" => own'[u] = own[u] /\ call'[u] = call[u]
    BY <1>1, <1>6, <1>7, <1>10
  <2>2. \A i \in DOMAIN calls : calls'[i] = calls[i]
    BY <1>1
  <2> QED  BY <1>6, <1>9, <2>1, <2>2, StreamsStay
<1> QED  BY <1>12, <1>13, <1>14, <1>15 DEF UseInv

LEMMA UseConnectFails ==
  ASSUME SendInv, UseInv, NEW s \in Sender, ConnectFails(s)
  PROVE  UseInv'
<1> USE SenderFacts
<1>1. /\ pc[s] = "connect" /\ pc' = [pc EXCEPT ![s] = "idle"] /\ UNCHANGED tables
      /\ UNCHANGED <<handles, calls, call, own, way, want>>
      /\ UNCHANGED kernel \/ \E fd \in Fd : OpenSocket(fd, NoAddress, "failed", FALSE)
  BY DEF ConnectFails, inside
<1>2. UNCHANGED <<Polled, connMap, mutexMap, owner>>
  BY <1>1 DEF tables, evloop, Polled
<1>3. pc'[s] = "idle" /\ \A u \in Sender \ {s} : pc'[u] = pc[u]
  BY <1>1 DEF SendInv, SendersTyped
<1>4. \A u \in Sender : Meant(u)' = Meant(u)
  BY <1>1 DEF Meant
<1>5. /\ \A f \in Fd : sock[f] # 0 => sock'[f] = sock[f] /\ conn'[sock[f]] = conn[sock[f]]
      /\ \A f \in Fd : sock'[f] # 0 /\ sock[f] = 0 => conn'[sock'[f]].role = "failed"
      /\ \A f, g \in Fd : sock'[f] # 0 /\ sock'[f] = sock'[g] => f = g
      /\ Conns \subseteq Conns' /\ \A c \in Conns : conn'[c] = conn[c] /\ stream'[c] = stream[c]
      /\ \A c \in Conns' \ Conns : stream'[c] = << >>
  <2>1. \A f, g \in Fd : sock[f] # 0 /\ sock[f] = sock[g] => f = g
    BY DEF UseInv, UseMap
  <2>2. CASE UNCHANGED kernel
    BY <2>1, <2>2 DEF kernel, Conns
  <2>3. CASE \E fd \in Fd : OpenSocket(fd, NoAddress, "failed", FALSE)
    <3>1. PICK fd \in Fd : OpenSocket(fd, NoAddress, "failed", FALSE)
      BY <2>3
    <3>2. NoAddress \in [ip : Ip, port : Port \cup {0}]
      BY DEF NoAddress, Ip
    <3> DEFINE n == Len(conn) + 1
    <3>3. /\ Len(conn) \in Nat /\ Len(conn') = n /\ sock[fd] = 0 /\ sock'[fd] = n
          /\ \A other \in Fd : /\ sock[other] \in 0 .. Len(conn)
                               /\ other # fd => sock'[other] = sock[other]
          /\ conn'[n] = [peer |-> NoAddress, role |-> "failed", alive |-> FALSE]
          /\ \A c \in Conns : conn'[c] = conn[c] /\ stream'[c] = stream[c]
          /\ stream'[n] = << >>
      BY <1>1, <3>1, <3>2, OpenSocketFacts
    <3>4. /\ \A f \in Fd : sock[f] # n /\ (sock[f] # 0 => sock[f] \in Conns)
          /\ Conns' = Conns \cup {n} /\ n # 0 /\ n \notin Conns /\ conn'[n].role = "failed"
      BY <3>3 DEF Conns
    <3> HIDE DEF n
    <3> QED  BY <2>1, <3>3, <3>4
  <2> QED  BY <1>1, <2>2, <2>3
<1>6. Grows
  BY <1>2, <1>5 DEF Grows
<1>7. UseMap'
  <2>1. ASSUME NEW f \in Fd, sock'[f] # 0, conn'[sock'[f]].role # "failed"
        PROVE  conn'[sock'[f]].alive
    <3>1. sock[f] # 0
      BY <2>1, <1>5
    <3> QED  BY <2>1, <3>1, <1>5 DEF UseInv, UseMap
  <2>2. \A k \in DOMAIN connMap :
          /\ connMap[k] \in Fd /\ sock'[connMap[k]] # 0 /\ conn'[sock'[connMap[k]]].role = "client"
          /\ conn'[sock'[connMap[k]]].peer = Reached(k)
          /\ connMap[k] \in DOMAIN mutexMap
    BY <1>6 DEF UseInv, UseMap, Grows
  <2>3. /\ \A f \in Polled : \E k \in DOMAIN connMap : connMap[k] = f
        /\ \A t \in Thread, a \in Remote : handles[t][a] # NoSocket => a.port \in DOMAIN connMap
    BY DEF UseInv, UseMap
  <2>4. \A f, g \in Fd : sock'[f] # 0 /\ sock'[f] = sock'[g] => f = g
    BY <1>5
  <2> QED  BY <1>1, <1>2, <2>1, <2>2, <2>3, <2>4 DEF UseMap
<1>8. UseMutexes'
  <2>1. ASSUME NEW u \in Sender
        PROVE  /\ pc'[u] \in {"lock", "header", "payload"} => want'[u] = mutexMap[own'[u]]
               /\ pc'[u] \in {"header", "payload"} => owner[want'[u]] = u
    BY <1>1, <1>3 DEF UseInv, UseMutexes
  <2> QED  BY <2>1, <1>2 DEF UseInv, UseMutexes
<1>9. UseSenders'
  <2>1. Placed(s)'
    <3>1. pc'[s] \notin Accepting \cup Sending \cup Connecting \cup {"insert"} /\ ~Aimed(s)'
      BY <1>3 DEF Aimed, Sending, Connecting, Accepting
    <3> QED  BY <3>1, <1>3 DEF Placed
  <2>2. ASSUME NEW u \in Sender PROVE Placed(u)'
    <3>1. CASE u # s
      BY <3>1, <1>1, <1>3, <1>4, <1>6, OthersPlaced
    <3> QED  BY <2>1, <3>1
  <2>3. \A u \in Sender : Seeks(u)' => Seeks(u)
    BY <1>3, <1>4 DEF Seeks
  <2>4. ASSUME NEW u \in Sender PROVE First(u)'
    <3>1. First(u)
      BY DEF UseInv, UseSenders
    <3> QED  BY <3>1, <2>3, <1>2, <1>4 DEF First
  <2> QED  BY <2>2, <2>4 DEF UseSenders
<1>10. UseStreams' /\ PortPeer'
  <2>1. \A u \in Sender : /\ pc'[u] = "payload" <=> pc[u] = "payload"
                          /\ pc[u] = "payload" => own'[u] = own[u] /\ call'[u] = call[u]
    BY <1>1, <1>3
  <2>2. \A i \in DOMAIN calls : calls'[i] = calls[i]
    BY <1>1
  <2> QED  BY <1>5, <1>6, <2>1, <2>2, StreamsStay
<1> QED  BY <1>7, <1>8, <1>9, <1>10 DEF UseInv

LEMMA UseStore ==
  ASSUME SendInv, UseInv, ThreadsUse, NEW s \in Sender, Store(s)
  PROVE  UseInv'
<1> USE SenderFacts
<1> DEFINE to == Meant(s).to
           fd == own[s]
<1>1. /\ pc[s] = "store" /\ handles' = [handles EXCEPT ![s][to] = fd]
      /\ connMap' = Put(connMap, to.port, fd) /\ pc' = [pc EXCEPT ![s] = "register"]
      /\ UNCHANGED <<kernel, Polled, calls, call, own, way, want>>
  BY DEF Store, evloop, Polled
<1>2. UNCHANGED <<sock, conn, stream>>
  BY <1>1 DEF kernel
<1>3. /\ Placed(s) /\ to.port \notin DOMAIN connMap /\ Meant(s).op = "send" /\ to \in Remote
      /\ s \in Thread /\ way[s] = "socket" 
      /\ conn[sock[fd]].peer = Reached(to.port)
      /\ \A u \in Sender : Seeks(u) /\ Meant(u).to = to => u = s
  <2>1. Placed(s) /\ First(s)
    BY DEF UseInv, UseSenders
  <2>2. pc[s] \in Connecting
    BY <1>1 DEF Connecting
  <2>3. to \in Remote
    BY <2>1, <2>2 DEF Placed
  <2>4. Seeks(s)
    BY <2>3, <1>1 DEF Seeks
  <2> QED  BY <2>1, <2>2, <2>3, <2>4, <1>1 DEF Placed, First
<1>5. fd \in Fd /\ sock[fd] # 0 /\ conn[sock[fd]].role = "client"
  BY <1>1 DEF SendInv, SocketsInv, Making
<1> HIDE DEF to, fd
<1>6. /\ DOMAIN connMap' = DOMAIN connMap \cup {to.port} /\ connMap'[to.port] = fd
      /\ \A k \in DOMAIN connMap : connMap'[k] = connMap[k]
  BY <1>1, <1>3 DEF Put
<1>7. \A k \in DOMAIN connMap : connMap[k] # fd
  <2> SUFFICES ASSUME NEW k \in DOMAIN connMap, connMap[k] = fd PROVE FALSE
    OBVIOUS
  <2>1. Reached(to.port) = Reached(k)
    BY <1>3 DEF UseInv, UseMap
  <2>2. to.port = k
    BY <2>1 DEF Reached
  <2> QED  BY <2>2, <1>3
<1>8. fd \notin DOMAIN mutexMap
  BY <1>7 DEF UseInv, UseMutexes
<1>9. mutexMap' = Put(mutexMap, fd, Len(owner) + 1) /\ owner' = Append(owner, Nobody)
  BY <1>8 DEF Store, Has, fd
<1>10. /\ owner \in Seq(Sender \cup {Nobody}) /\ Len(owner) \in Nat /\ DOMAIN owner = 1 .. Len(owner)
       /\ \A f \in DOMAIN mutexMap : mutexMap[f] \in DOMAIN owner
       /\ want \in [Sender -> 0 .. Len(owner)]
  BY DEF SendInv, TablesTyped, SendersTyped
<1>11. \A m \in 1 .. Len(owner) : owner'[m] = owner[m]
  BY <1>9, <1>10
<1>12. /\ DOMAIN mutexMap' = DOMAIN mutexMap \cup {fd} /\ mutexMap'[fd] = Len(owner) + 1
       /\ \A f \in DOMAIN mutexMap : mutexMap'[f] = mutexMap[f] /\ mutexMap[f] # Len(owner) + 1
  BY <1>8, <1>9, <1>10 DEF Put
<1>13. Grows
  BY <1>2, <1>6 DEF Grows
<1>14. pc'[s] = "register" /\ \A u \in Sender \ {s} : pc'[u] = pc[u]
  BY <1>1 DEF SendInv, SendersTyped
<1>15. \A u \in Sender : Meant(u)' = Meant(u)
  BY <1>1 DEF Meant
<1>16. UseMap'
  <2>1. \A k \in DOMAIN connMap' :
          /\ connMap'[k] \in Fd /\ sock[connMap'[k]] # 0 /\ conn[sock[connMap'[k]]].role = "client"
          /\ conn[sock[connMap'[k]]].peer = Reached(k)
          /\ connMap'[k] \in DOMAIN mutexMap'
    <3>1. \A k \in DOMAIN connMap :
            /\ connMap[k] \in Fd /\ sock[connMap[k]] # 0 /\ conn[sock[connMap[k]]].role = "client"
            /\ conn[sock[connMap[k]]].peer = Reached(k)
            /\ connMap[k] \in DOMAIN mutexMap
      BY DEF UseInv, UseMap
    <3> QED  BY <3>1, <1>3, <1>5, <1>6, <1>12
  <2>2. \A f \in Polled : \E k \in DOMAIN connMap' : connMap'[k] = f
    BY <1>6 DEF UseInv, UseMap
  <2>3. ASSUME NEW t \in Thread, NEW a \in Remote, handles'[t][a] # NoSocket
        PROVE  a.port \in DOMAIN connMap'
    <3>1. CASE t = s /\ a = to
      BY <3>1, <1>6
    <3>2. CASE ~(t = s /\ a = to)
      <4>1. handles'[t][a] = handles[t][a]
        BY <3>2, <1>1 DEF SendInv, SendersTyped
      <4> QED  BY <4>1, <2>3, <1>6 DEF UseInv, UseMap
    <3> QED  BY <3>1, <3>2
  <2>4. /\ \A f, g \in Fd : sock[f] # 0 /\ sock[f] = sock[g] => f = g
        /\ \A f \in Fd : sock[f] # 0 /\ conn[sock[f]].role # "failed" => conn[sock[f]].alive
    BY DEF UseInv, UseMap
  <2> QED  BY <1>1, <1>2, <2>1, <2>2, <2>3, <2>4 DEF UseMap
<1>17. UseMutexes'
  <2>1. \A f \in DOMAIN mutexMap' : \E k \in DOMAIN connMap' : connMap'[k] = f
    <3>1. \A f \in DOMAIN mutexMap : \E k \in DOMAIN connMap : connMap[k] = f
      BY DEF UseInv, UseMutexes
    <3> QED  BY <3>1, <1>6, <1>12
  <2>2. \A f, g \in DOMAIN mutexMap' : mutexMap'[f] = mutexMap'[g] => f = g
    <3>1. \A f, g \in DOMAIN mutexMap : mutexMap[f] = mutexMap[g] => f = g
      BY DEF UseInv, UseMutexes
    <3> QED  BY <3>1, <1>12
  <2>3. ASSUME NEW u \in Sender
        PROVE  /\ pc'[u] \in {"lock", "header", "payload"} => want'[u] = mutexMap'[own'[u]]
               /\ pc'[u] \in {"header", "payload"} => owner'[want'[u]] = u
    <3>1. pc'[u] \in {"lock", "header", "payload"} => pc[u] = pc'[u] /\ Aimed(u)
      BY <1>14 DEF Aimed
    <3>2. pc'[u] \in {"lock", "header", "payload"} => own[u] \in DOMAIN mutexMap /\ want[u] = mutexMap[own[u]]
      BY <3>1, AimedFacts DEF UseInv, UseMutexes
    <3>3. pc'[u] \in {"header", "payload"} => owner[want[u]] = u
      BY <3>1 DEF UseInv, UseMutexes
    <3> QED  BY <3>2, <3>3, <1>1, <1>10, <1>11, <1>12
  <2> QED  BY <2>1, <2>2, <2>3 DEF UseMutexes
<1>18. UseSenders'
  <2>1. Placed(s)'
    <3>1. pc'[s] \in Connecting /\ pc'[s] \notin Accepting /\ ~Aimed(s)' /\ pc'[s] # "insert"
      BY <1>14 DEF Connecting, Accepting, Aimed
    <3>2. Meant(s)' = Meant(s) /\ way'[s] = "socket" /\ Meant(s).to = to /\ own'[s] = fd
      BY <1>1, <1>3, <1>15 DEF to, fd
    <3>3. pc'[s] \notin {"find", "store", "key"}
      BY <1>14
    <3> QED  BY <3>1, <3>2, <3>3, <1>3, <1>6 DEF Placed
  <2>2. ASSUME NEW u \in Sender PROVE Placed(u)'
    <3>1. CASE u # s
      BY <3>1, <1>1, <1>13, <1>14, <1>15, OthersPlaced
    <3> QED  BY <2>1, <3>1
  <2>3. ASSUME NEW u \in Sender, Seeks(u)'
        PROVE  /\ Meant(u).to.port \notin DOMAIN connMap'
               /\ \A v \in Sender : Seeks(v)' /\ Meant(v).to = Meant(u).to => v = u
    <3>1. u # s /\ Seeks(u) /\ First(u) /\ Placed(u)
      BY <2>3, <1>14, <1>15 DEF UseInv, UseSenders, Seeks
    <3>2. Meant(u).to \in Remote
      BY <3>1 DEF Placed, Connecting, Seeks
    <3>3. Meant(u).to # to
      BY <3>1, <1>3
    <3>4. Meant(u).to.port # to.port
      BY <3>2, <3>3, <1>3 DEF ThreadsUse
    <3>5. \A v \in Sender : Seeks(v)' => Seeks(v)
      BY <1>14, <1>15 DEF Seeks
    <3> QED  BY <3>1, <3>4, <3>5, <1>6 DEF First
  <2>4. \A u \in Sender : First(u)'
    BY <2>3, <1>15 DEF First
  <2> QED  BY <2>2, <2>4 DEF UseSenders
<1>19. UseStreams' /\ PortPeer'
  <2>1. /\ Conns' = Conns
        /\ \A u \in Sender : /\ pc'[u] = "payload" <=> pc[u] = "payload"
                             /\ own'[u] = own[u] /\ call'[u] = call[u]
    BY <1>1, <1>2, <1>14 DEF Conns
  <2>2. \A i \in DOMAIN calls : calls'[i] = calls[i]
    BY <1>1
  <2> QED  BY <1>2, <1>13, <2>1, <2>2, StreamsStay
<1> QED  BY <1>16, <1>17, <1>18, <1>19 DEF UseInv

LEMMA UseRegister ==
  ASSUME SendInv, UseInv, NEW s \in Sender, Register(s)
  PROVE  UseInv'
<1> USE SenderFacts
<1> DEFINE to == Meant(s).to
<1>1. /\ pc[s] = "register" /\ Polled' = Polled \cup {own[s]}
      /\ UNCHANGED <<kernel, connMap, mutexMap, owner>>
      /\ UNCHANGED <<handles, calls, call, own, way, want>>
      /\ pc' = [pc EXCEPT ![s] = IF Meant(s).op = "send" THEN "mutex" ELSE "idle"]
  BY DEF Register, RegisterFd, inside, Polled
<1>2. UNCHANGED <<sock, conn, stream>>
  BY <1>1 DEF kernel
<1>3. /\ Placed(s) /\ Meant(s).op = "send" /\ to \in Remote /\ way[s] = "socket"
      /\ to.port \in DOMAIN connMap /\ own[s] = connMap[to.port]
  <2>1. Placed(s) /\ pc[s] \in Connecting
    BY <1>1 DEF UseInv, UseSenders, Connecting
  <2> QED  BY <2>1, <1>1 DEF Placed
<1>4. to # NoAddress /\ conn[sock[own[s]]].peer = Reached(to.port)
  BY <1>3 DEF UseInv, UseMap
<1>5. pc'[s] = "mutex" /\ \A u \in Sender \ {s} : pc'[u] = pc[u]
  BY <1>1, <1>3 DEF SendInv, SendersTyped
<1>6. \A u \in Sender : Meant(u)' = Meant(u)
  BY <1>1 DEF Meant
<1>7. Grows
  BY <1>1, <1>2 DEF Grows
<1>8. UseMap'
  <2>1. \A f \in Polled' : \E k \in DOMAIN connMap : connMap[k] = f
    BY <1>1, <1>3 DEF UseInv, UseMap
  <2> QED  BY <2>1, <1>1, <1>2 DEF UseInv, UseMap
<1>9. UseMutexes'
  <2>1. ASSUME NEW u \in Sender
        PROVE  /\ pc'[u] \in {"lock", "header", "payload"} => want[u] = mutexMap[own[u]]
               /\ pc'[u] \in {"header", "payload"} => owner[want[u]] = u
    BY <1>5 DEF UseInv, UseMutexes
  <2> QED  BY <2>1, <1>1 DEF UseInv, UseMutexes
<1>10. UseSenders'
  <2>1. Placed(s)'
    <3>1. pc'[s] \notin Connecting \cup Accepting
      BY <1>5 DEF Connecting, Accepting
    <3>2. Meant(s)' = Meant(s) /\ way'[s] = "socket" /\ Meant(s).to = to /\ own'[s] = own[s]
      BY <1>1, <1>3, <1>6
    <3>3. \E k \in DOMAIN connMap : connMap[k] = own[s]
      BY <1>3
    <3>4. pc'[s] \notin {"find", "store", "key"} /\ pc'[s] # "register" /\ pc'[s] # "insert"
      BY <1>5
    <3> QED  BY <3>1, <3>2, <3>3, <3>4, <1>1, <1>2, <1>3, <1>4 DEF Placed
  <2>2. ASSUME NEW u \in Sender PROVE Placed(u)'
    <3>1. CASE u # s
      BY <3>1, <1>1, <1>5, <1>6, <1>7, OthersPlaced
    <3> QED  BY <2>1, <3>1
  <2>3. \A u \in Sender : Seeks(u)' => Seeks(u)
    BY <1>5, <1>6 DEF Seeks
  <2>4. ASSUME NEW u \in Sender PROVE First(u)'
    <3>1. First(u)
      BY DEF UseInv, UseSenders
    <3> QED  BY <3>1, <2>3, <1>1, <1>6 DEF First
  <2> QED  BY <2>2, <2>4 DEF UseSenders
<1>11. UseStreams' /\ PortPeer'
  <2>1. /\ Conns' = Conns
        /\ \A u \in Sender : /\ pc'[u] = "payload" <=> pc[u] = "payload"
                             /\ own'[u] = own[u] /\ call'[u] = call[u]
    BY <1>1, <1>2, <1>5 DEF Conns
  <2>2. \A i \in DOMAIN calls : calls'[i] = calls[i]
    BY <1>1
  <2> QED  BY <1>2, <1>7, <2>1, <2>2, StreamsStay
<1> QED  BY <1>8, <1>9, <1>10, <1>11 DEF UseInv

(* What this use leaves out: nothing is accepted or closed by itself, and  *)
(* a descriptor always finds its mutex.                                    *)
LEMMA UseNever ==
  ASSUME SendInv, UseInv, ThreadsUse
  PROVE  /\ \A s \in Sender : ~InsertMutex(s)
         /\ \A t \in Thread : ~RegisterHandle(t)
         /\ ~LoopStep /\ \A c \in Conns : ~Hangup(c)
<1>1. \A s \in Sender : pc[s] \notin Accepting \cup {"insert"}
  BY DEF UseInv, UseSenders, Placed
<1>2. \A s \in Sender : ~InsertMutex(s)
  BY <1>1 DEF InsertMutex
<1>3. \A t \in Thread : ~RegisterHandle(t)
  BY DEF RegisterHandle, ThreadsUse
<1>4. \A c \in Conns : ~Hangup(c)
  BY DEF Hangup, ThreadsUse
<1>5. \A fd \in Polled : sock[fd] # 0 => conn[sock[fd]].alive
  BY DEF SendInv, SocketsInv, TablesTyped, UseInv, UseMap
<1>6. ~LoopStep
  <2>1. ~PeerClosed
    BY <1>5 DEF PeerClosed, Polled
  <2>2. ~StoreAccepted /\ ~DropEntry /\ ~Remove
    BY <1>1, SenderFacts DEF StoreAccepted, DropEntry, Remove, Accepting
  <2> QED  BY <2>1, <2>2 DEF LoopStep, ThreadsUse
<1> QED  BY <1>2, <1>3, <1>4, <1>6

LEMMA NextUse ==
  ASSUME ThreadsUse
  PROVE  SendInv /\ UseInv /\ [Next]_vars => UseInv'
<1> SUFFICES ASSUME SendInv, UseInv, [Next]_vars PROVE UseInv'
  OBVIOUS
<1>1. CASE UNCHANGED vars
  <2>1. UNCHANGED <<sock, conn, stream, Polled, connMap, mutexMap, owner, handles, calls, pc,
                    call, own, way, want>>
    BY <1>1 DEF vars, kernel, tables, evloop, Polled, senders, inside
  <2>2. UseMap' /\ UseMutexes'
    BY <2>1 DEF UseInv, UseMap, UseMutexes
  <2>3. UseSenders'
    BY <2>1 DEF UseInv, UseSenders, Placed, First, Seeks, Aimed, Meant
  <2>4. UseStreams /\ PortPeer
    BY DEF UseInv
  <2>5. UseStreams'
    BY <2>1, <2>4 DEF UseStreams, Conns
  <2>6. PortPeer'
    BY <2>1, <2>4 DEF PortPeer, Conns
  <2> QED  BY <2>2, <2>3, <2>5, <2>6 DEF UseInv
<1>2. ASSUME NEW s \in Sender, Continue(s) PROVE UseInv'
  <2>1. CASE Find(s) \/ TakeKey(s) \/ FindMutex(s) \/ Lock(s)
    BY <2>1, UseFind, UseTakeKey, UseFindMutex, UseLock
  <2>2. CASE SendHeader(s) \/ SendPayload(s)
    BY <2>2, UseSendHeader, UseSendPayload
  <2>3. CASE Connect(s) \/ ConnectFails(s) \/ Store(s) \/ Register(s)
    BY <2>3, UseConnect, UseConnectFails, UseStore, UseRegister
  <2>4. ~InsertMutex(s)
    BY UseNever
  <2> QED  BY <1>2, <2>1, <2>2, <2>3, <2>4, Zenon DEF Continue
<1>3. CASE Next
  <2>1. ~LoopStep /\ \A c \in Conns : ~Hangup(c)
    BY UseNever
  <2>2. \A t \in Thread : ~RegisterHandle(t)
    BY UseNever
  <2>3. ASSUME NEW s \in Sender, Reply(s) PROVE UseInv'
    BY <2>3, UseReply
  <2>4. ASSUME NEW t \in Thread, SendTo(t) PROVE UseInv'
    BY <2>4, UseSendTo
  <2> QED  BY <1>2, <1>3, <2>1, <2>2, <2>3, <2>4, Zenon DEF Next
<1> QED  BY <1>1, <1>3

-----------------------------------------------------------------------------
(* A server whose callbacks are all that sends, for clients that differ in *)
(* their ports.                                                            *)
ServerUse ==
  Thread = {} /\ \A a, b \in Client : a.port = b.port => a = b

(* All connections are accepted, a client has one alive at a time.         *)
ServerConns ==
  /\ \A c \in Conns : conn[c].role = "accepted" /\ conn[c].peer \in Client
  /\ \A c, d \in Conns :
       conn[c].alive /\ conn[d].alive /\ conn[c].peer = conn[d].peer => c = d
  /\ \A fd, other \in Fd : sock[fd] # 0 /\ sock[fd] = sock[other] => fd = other
  /\ pc[Loop] \notin Connecting \cup {"key"} /\ way[Loop] = "socket"

(* The map, also while the loop is at work: the connection it has just     *)
(* accepted is not there yet, and the one it closes is there until it is   *)
(* dropped.                                                                *)
ServerMap ==
  /\ \A k \in DOMAIN connMap :
       connMap[k] \in Polled /\ conn[sock[connMap[k]]].peer.port = k
  /\ \A fd \in Polled :
       conn[sock[fd]].alive /\ ~(pc[Loop] = "accepted" /\ own[Loop] = fd) =>
         LET port == conn[sock[fd]].peer.port IN
           port \in DOMAIN connMap /\ connMap[port] = fd
  /\ pc[Loop] = "accepted" =>
       /\ \A k \in DOMAIN connMap : connMap[k] # own[Loop]
       /\ \A c \in Conns : conn[c].alive /\ conn[c].peer = conn[sock[own[Loop]]].peer
            => c = sock[own[Loop]]
  /\ pc[Loop] = "drop" => pos \in DOMAIN connMap /\ connMap[pos] = own[Loop]
  /\ pc[Loop] \in {"drop", "remove"} => ~conn[sock[own[Loop]]].alive
  /\ pc[Loop] = "remove" => \A k \in DOMAIN connMap : connMap[k] # own[Loop]
  /\ pc[Loop] = "find" => \E k \in DOMAIN connMap : connMap[k] = own[Loop]

ServerInv == ServerConns /\ ServerMap

LEMMA ServerFacts ==
  ASSUME SendInv, ServerInv, ServerUse
  PROVE  /\ Sender = {Loop} /\ \A s \in Sender : ~Making(s)
         /\ \A fd \in Polled : /\ fd \in Fd /\ sock[fd] \in Conns /\ sock[fd] # 0
                               /\ conn[sock[fd]].peer \in Client
<1>1. Sender = {Loop}
  BY DEF ServerUse, Sender
<1>2. \A s \in Sender : ~Making(s)
  BY <1>1 DEF ServerInv, ServerConns, Making, Connecting
<1>3. ASSUME NEW fd \in Polled
      PROVE  fd \in Fd /\ sock[fd] \in Conns /\ sock[fd] # 0 /\ conn[sock[fd]].peer \in Client
  <2>1. fd \in Fd /\ sock[fd] # 0 /\ sock[fd] \in 0 .. Len(conn)
    BY DEF SendInv, TablesTyped, KernelTyped, SocketsInv
  <2>2. sock[fd] \in Conns
    BY <2>1 DEF Conns
  <2> QED  BY <2>1, <2>2 DEF ServerInv, ServerConns
<1> QED  BY <1>1, <1>2, <1>3

LEMMA InitServer ==
  ASSUME ServerUse, Init
  PROVE  ServerInv
<1>1. /\ pc[Loop] = "idle" /\ way[Loop] = "socket" /\ conn = << >> /\ Conns = {}
      /\ DOMAIN connMap = {} /\ Polled = {} /\ \A fd \in Fd : sock[fd] = 0
  BY SenderFacts DEF Init, Conns, Polled
<1> QED  BY <1>1 DEF ServerInv, ServerConns, ServerMap, Connecting

(* Steps of the loop's thread inside send_data.                            *)
LEMMA ServerQuiet ==
  ASSUME ServerInv, UNCHANGED <<sock, conn, Polled, connMap>>, way'[Loop] = "socket",
         pc[Loop] \in {"idle"} \cup Sending, pc'[Loop] \in {"idle"} \cup (Sending \ {"key"}),
         pc'[Loop] = "find" => \E k \in DOMAIN connMap : connMap[k] = own'[Loop]
  PROVE  ServerInv'
<1>1. pc'[Loop] \notin Connecting \cup {"key"} \cup Accepting /\ pc[Loop] \notin Accepting
  BY DEF Sending, Connecting, Accepting
<1>2. ServerConns'
  BY <1>1 DEF ServerInv, ServerConns, Conns
<1>3. ServerMap'
  BY <1>1 DEF ServerInv, ServerMap, Accepting
<1> QED  BY <1>2, <1>3 DEF ServerInv

LEMMA ServerReply ==
  ASSUME SendInv, ServerInv, ServerUse, Reply(Loop)
  PROVE  ServerInv'
<1> USE SenderFacts
<1>1. PICK fd \in Polled : conn[sock[fd]].alive /\ Start(Loop, NoAddress, fd)
  BY DEF Reply
<1>2. /\ pc[Loop] = "idle" /\ UNCHANGED <<kernel, tables>>
      /\ way' = [way EXCEPT ![Loop] = IF Has(connMap, NoAddress.port) THEN "addr" ELSE "socket"]
      /\ pc' = [pc EXCEPT ![Loop] = IF Has(connMap, NoAddress.port) THEN "key" ELSE "find"]
      /\ own' = [own EXCEPT ![Loop] = fd]
  BY <1>1 DEF Start
<1>3. ~Has(connMap, NoAddress.port)
  <2>1. NoAddress.port = 0
    BY DEF NoAddress
  <2> QED  BY <2>1 DEF Has, SendInv, TablesTyped
<1>4. \E k \in DOMAIN connMap : connMap[k] = fd
  BY <1>1, <1>2 DEF ServerInv, ServerMap
<1>5. way'[Loop] = "socket" /\ pc'[Loop] = "find" /\ own'[Loop] = fd
  BY <1>2, <1>3, <1>4 DEF SendInv, SendersTyped
<1>6. UNCHANGED <<sock, conn, Polled, connMap>>
  BY <1>2 DEF kernel, tables, evloop, Polled
<1> QED  BY <1>2, <1>4, <1>5, <1>6, ServerQuiet DEF Sending

LEMMA ServerContinue ==
  ASSUME SendInv, ServerInv, ServerUse, Continue(Loop)
  PROVE  ServerInv'
<1> USE SenderFacts
<1>1. pc[Loop] \notin Connecting \cup {"key"} /\ way[Loop] = "socket"
  BY DEF ServerInv, ServerConns
<1>2. pc \in [Sender -> {"idle"} \cup Sending \cup Connecting \cup Accepting]
  BY DEF SendInv, SendersTyped
<1>3. CASE FindMutex(Loop) \/ InsertMutex(Loop) \/ Lock(Loop)
  <2>1. UNCHANGED <<sock, conn, Polled, connMap, way>>
    BY <1>3 DEF FindMutex, InsertMutex, Lock, kernel, tables, evloop, Polled, inside
  <2>2. pc[Loop] \in Sending /\ pc'[Loop] \in {"lock", "insert", "header"}
    BY <1>2, <1>3 DEF FindMutex, InsertMutex, Lock, Sending
  <2> QED  BY <1>1, <2>1, <2>2, ServerQuiet DEF Sending
<1>4. CASE SendHeader(Loop) \/ SendPayload(Loop)
  <2>1. UNCHANGED <<sock, conn, Polled, way>> /\ connMap' = connMap
    BY <1>1, <1>4 DEF SendHeader, SendPayload, Transmit, inside, evloop, Polled
  <2>2. pc[Loop] \in Sending /\ pc'[Loop] \in {"payload", "idle"}
    BY <1>2, <1>4 DEF SendHeader, SendPayload, Sending
  <2> QED  BY <1>1, <2>1, <2>2, ServerQuiet DEF Sending
<1>5. ~TakeKey(Loop) /\ ~Connect(Loop) /\ ~ConnectFails(Loop) /\ ~Store(Loop) /\ ~Register(Loop)
  BY <1>1 DEF TakeKey, Connect, ConnectFails, Store, Register, Connecting
<1>6. CASE Find(Loop)
  <2>1. pc[Loop] = "find" /\ UNCHANGED <<sock, conn, Polled, connMap, way>>
    BY <1>6 DEF Find, kernel, tables, evloop, Polled, inside
  <2>2. KeysOf(connMap, own[Loop]) # {}
    BY <2>1 DEF ServerInv, ServerMap, KeysOf
  <2>3. pc'[Loop] = "mutex"
    BY <1>2, <1>6, <2>2 DEF Find
  <2> QED  BY <1>1, <2>1, <2>3, ServerQuiet DEF Sending
<1> QED  BY <1>3, <1>4, <1>5, <1>6 DEF Continue

LEMMA ServerAccept ==
  ASSUME SendInv, ServerInv, ServerUse, NEW from \in Client, Accept(from)
  PROVE  ServerInv'
<1> USE SenderFacts
<1>1. PICK fd \in Fd :
        /\ OpenSocket(fd, from, "accepted", TRUE) /\ Polled' = Polled \cup {fd}
        /\ LoopGoes("accepted", fd)
  BY DEF Accept, RegisterFd, Polled
<1>2. /\ pc[Loop] = "idle" /\ connMap' = connMap /\ pos' = pos
      /\ \A c \in Conns : conn[c].peer = from => ~conn[c].alive
  BY DEF Accept
<1>3. pc'[Loop] = "accepted" /\ own'[Loop] = fd /\ way'[Loop] = "socket"
  BY <1>1 DEF LoopGoes, SendInv, SendersTyped, ServerInv, ServerConns
<1> DEFINE n == Len(conn) + 1
<1>4. /\ Len(conn) \in Nat /\ Len(conn') = n /\ sock[fd] = 0 /\ sock'[fd] = n
      /\ \A other \in Fd : /\ sock[other] \in 0 .. Len(conn)
                           /\ other # fd => sock'[other] = sock[other]
      /\ conn'[n] = [peer |-> from, role |-> "accepted", alive |-> TRUE]
      /\ \A c \in Conns : conn'[c] = conn[c]
  <2>1. from \in [ip : Ip, port : Port \cup {0}] /\ from.port \in Port /\ calls' = calls
    BY <1>1 DEF LoopGoes
  <2> QED  BY <1>1, <2>1, OpenSocketFacts
<1>5. Conns' = Conns \cup {n} /\ n \notin Conns
  BY <1>4 DEF Conns
<1>6. conn'[n].peer = from /\ conn'[n].role = "accepted" /\ conn'[n].alive
  BY <1>4
<1> HIDE DEF n
<1>7. ServerConns'
  <2>1. \A c \in Conns' : conn'[c].role = "accepted" /\ conn'[c].peer \in Client
    BY <1>4, <1>5, <1>6 DEF ServerInv, ServerConns
  <2>2. ASSUME NEW c \in Conns', NEW d \in Conns', conn'[c].alive, conn'[d].alive,
               conn'[c].peer = conn'[d].peer
        PROVE  c = d
    <3>1. \A e \in Conns : conn'[e] = conn[e]
      BY <1>4
    <3>2. \A e \in Conns : ~(conn'[e].alive /\ conn'[e].peer = from)
      BY <1>2, <3>1
    <3>3. CASE c = n \/ d = n
      BY <2>2, <1>5, <1>6, <3>2, <3>3
    <3>4. CASE c # n /\ d # n
      <4>1. c \in Conns /\ d \in Conns
        BY <1>5, <3>4
      <4> QED  BY <2>2, <3>1, <4>1 DEF ServerInv, ServerConns
    <3> QED  BY <3>3, <3>4
  <2>3. ASSUME NEW f \in Fd, NEW g \in Fd, sock'[f] # 0, sock'[f] = sock'[g]
        PROVE  f = g
    <3>1. \A h \in Fd : sock[h] # n
      BY <1>4 DEF n
    <3> QED  BY <2>3, <3>1, <1>4 DEF ServerInv, ServerConns
  <2>4. pc'[Loop] \notin Connecting \cup {"key"} /\ way'[Loop] = "socket"
    BY <1>3 DEF Connecting
  <2> QED  BY <2>1, <2>2, <2>3, <2>4 DEF ServerConns
<1>8. ServerMap'
  <2>1. /\ fd \notin Polled
        /\ \A f \in Polled : /\ f \in Fd /\ f # fd /\ sock[f] \in Conns /\ sock'[f] = sock[f]
                             /\ conn'[sock'[f]] = conn[sock[f]]
    BY <1>4, ServerFacts
  <2>2. \A k \in DOMAIN connMap : connMap[k] \in Polled /\ conn[sock[connMap[k]]].peer.port = k
    BY DEF ServerInv, ServerMap
  <2>3. \A f \in Polled : conn[sock[f]].alive =>
          LET port == conn[sock[f]].peer.port IN port \in DOMAIN connMap /\ connMap[port] = f
    BY <1>2 DEF ServerInv, ServerMap
  <2>4. ASSUME NEW c \in Conns', conn'[c].alive, conn'[c].peer = conn'[n].peer
        PROVE  c = n
    BY <2>4, <1>2, <1>4, <1>5, <1>6
  <2>5. ASSUME NEW f \in Polled', conn'[sock'[f]].alive, f # fd
        PROVE  /\ conn'[sock'[f]].peer.port \in DOMAIN connMap'
               /\ connMap'[conn'[sock'[f]].peer.port] = f
    BY <2>5, <1>1, <1>2, <2>1, <2>3
  <2>6. \A k \in DOMAIN connMap' : /\ connMap'[k] \in Polled' /\ connMap'[k] # fd
                                  /\ conn'[sock'[connMap'[k]]].peer.port = k
    BY <1>1, <1>2, <2>1, <2>2
  <2> QED  BY <1>3, <1>4, <2>4, <2>5, <2>6 DEF ServerMap
<1> QED  BY <1>7, <1>8 DEF ServerInv

LEMMA ServerStoreAccepted ==
  ASSUME SendInv, ServerInv, ServerUse, StoreAccepted
  PROVE  ServerInv'
<1> USE SenderFacts
<1> DEFINE fd   == own[Loop]
           port == conn[sock[fd]].peer.port
<1>1. /\ pc[Loop] = "accepted" /\ connMap' = Put(connMap, port, fd)
      /\ LoopGoes("idle", fd) /\ UNCHANGED <<kernel, Polled>>
  BY DEF StoreAccepted, evloop, Polled
<1>2. pc'[Loop] = "idle" /\ way'[Loop] = "socket" /\ UNCHANGED <<sock, conn>>
  BY <1>1 DEF LoopGoes, kernel, SendInv, SendersTyped, ServerInv, ServerConns
<1>3. fd \in Polled
  BY <1>1 DEF SendInv, SocketsInv, Accepting
<1>4. ServerConns'
  BY <1>2 DEF ServerInv, ServerConns, Conns, Connecting
<1>5. ServerMap'
  <2>1. /\ DOMAIN connMap' = DOMAIN connMap \cup {port} /\ connMap'[port] = fd
        /\ \A k \in DOMAIN connMap \ {port} : connMap'[k] = connMap[k]
    BY <1>1 DEF Put
  <2>2. \A k \in DOMAIN connMap : connMap[k] \in Polled /\ conn[sock[connMap[k]]].peer.port = k
    BY DEF ServerInv, ServerMap
  <2>3. \A k \in DOMAIN connMap' : connMap'[k] \in Polled /\ conn[sock[connMap'[k]]].peer.port = k
    BY <2>1, <2>2, <1>3
  <2>4. ASSUME NEW f \in Polled, conn[sock[f]].alive
        PROVE  /\ conn[sock[f]].peer.port \in DOMAIN connMap'
               /\ connMap'[conn[sock[f]].peer.port] = f
    <3>1. CASE f = fd
      BY <3>1, <2>1
    <3>2. CASE f # fd
      <4>1. conn[sock[f]].peer.port \in DOMAIN connMap /\ connMap[conn[sock[f]].peer.port] = f
        BY <3>2, <2>4 DEF ServerInv, ServerMap
      <4>2. CASE conn[sock[f]].peer.port # port
        BY <4>1, <4>2, <2>1
      <4>3. CASE conn[sock[f]].peer.port = port
        <5>1. /\ conn[sock[f]].peer \in Client /\ conn[sock[fd]].peer \in Client
              /\ sock[f] \in Conns /\ sock[f] # 0 /\ f \in Fd /\ fd \in Fd
          BY <1>3, ServerFacts
        <5>2. conn[sock[f]].peer = conn[sock[fd]].peer
          BY <4>3, <5>1 DEF ServerUse
        <5>3. sock[f] = sock[fd]
          BY <2>4, <1>1, <5>1, <5>2 DEF ServerInv, ServerMap
        <5> QED  BY <3>2, <5>1, <5>3 DEF ServerInv, ServerConns
      <4> QED  BY <4>2, <4>3
    <3> QED  BY <3>1, <3>2
  <2> QED  BY <1>1, <1>2, <2>3, <2>4 DEF ServerMap, Accepting
<1> QED  BY <1>4, <1>5 DEF ServerInv

LEMMA ServerPeerClosed ==
  ASSUME SendInv, ServerInv, ServerUse, PeerClosed
  PROVE  ServerInv'
<1> USE SenderFacts
<1>1. /\ pc[Loop] = "idle" /\ UNCHANGED <<sock, conn, Polled, connMap>>
  BY DEF PeerClosed, kernel, tables, evloop, Polled
<1>2. PICK fd \in Polled :
        /\ sock[fd] # 0 /\ ~conn[sock[fd]].alive
        /\ LET keys == IF conn[sock[fd]].role = "accepted" THEN KeysOf(connMap, fd) ELSE {} IN
             \/ keys = {} /\ LoopGoes("remove", fd) /\ UNCHANGED pos
             \/ /\ pos' \in keys /\ \A key \in keys : pos' <= key
                /\ LoopGoes("drop", fd)
  BY DEF PeerClosed, Polled
<1>3. conn[sock[fd]].role = "accepted"
  BY ServerFacts DEF ServerInv, ServerConns
<1>4. \/ KeysOf(connMap, fd) = {} /\ LoopGoes("remove", fd)
      \/ pos' \in KeysOf(connMap, fd) /\ LoopGoes("drop", fd)
  BY <1>2, <1>3
<1>5. /\ pc'[Loop] \in {"drop", "remove"} /\ own'[Loop] = fd /\ way'[Loop] = "socket"
      /\ pc'[Loop] = "drop" => pos' \in DOMAIN connMap /\ connMap[pos'] = fd
      /\ pc'[Loop] = "remove" => \A k \in DOMAIN connMap : connMap[k] # fd
  BY <1>4 DEF LoopGoes, KeysOf, SendInv, SendersTyped, ServerInv, ServerConns
<1>6. ServerConns'
  BY <1>1, <1>5 DEF ServerInv, ServerConns, Conns, Connecting
<1>7. ServerMap'
  BY <1>1, <1>2, <1>5 DEF ServerInv, ServerMap
<1> QED  BY <1>6, <1>7 DEF ServerInv

LEMMA ServerDropEntry ==
  ASSUME SendInv, ServerInv, ServerUse, DropEntry
  PROVE  ServerInv'
<1> USE SenderFacts
<1> DEFINE fd == own[Loop]
<1>1. /\ pc[Loop] = "drop" /\ LoopGoes("remove", fd) /\ connMap' = Drop(connMap, pos)
      /\ UNCHANGED <<sock, conn, Polled>>
  BY DEF DropEntry, kernel, evloop, Polled
<1>2. pc'[Loop] = "remove" /\ own'[Loop] = fd /\ way'[Loop] = "socket"
  BY <1>1 DEF LoopGoes, SendInv, SendersTyped, ServerInv, ServerConns
<1>3. pos \in DOMAIN connMap /\ connMap[pos] = fd /\ ~conn[sock[fd]].alive
  BY <1>1 DEF ServerInv, ServerMap
<1>4. /\ DOMAIN connMap' = DOMAIN connMap \ {pos}
      /\ \A k \in DOMAIN connMap' : connMap'[k] = connMap[k]
  BY <1>1 DEF Drop
<1>5. ServerConns'
  BY <1>1, <1>2 DEF ServerInv, ServerConns, Conns, Connecting
<1>6. ServerMap'
  <2>1. \A k \in DOMAIN connMap : connMap[k] \in Polled /\ conn[sock[connMap[k]]].peer.port = k
    BY DEF ServerInv, ServerMap
  <2>2. \A k \in DOMAIN connMap' : /\ connMap'[k] \in Polled /\ connMap'[k] # fd
                                  /\ conn[sock[connMap'[k]]].peer.port = k
    BY <2>1, <1>3, <1>4
  <2>3. ASSUME NEW f \in Polled, conn[sock[f]].alive
        PROVE  /\ conn[sock[f]].peer.port \in DOMAIN connMap'
               /\ connMap'[conn[sock[f]].peer.port] = f
    <3>1. conn[sock[f]].peer.port \in DOMAIN connMap /\ connMap[conn[sock[f]].peer.port] = f
      BY <2>3, <1>1 DEF ServerInv, ServerMap
    <3>2. conn[sock[f]].peer.port # pos
      BY <2>3, <3>1, <1>3
    <3> QED  BY <3>1, <3>2, <1>4
  <2> QED  BY <1>1, <1>2, <1>3, <2>2, <2>3 DEF ServerMap
<1> QED  BY <1>5, <1>6 DEF ServerInv

LEMMA ServerRemove ==
  ASSUME SendInv, ApartInv, ServerInv, ServerUse, Remove
  PROVE  ServerInv'
<1> USE SenderFacts
<1> DEFINE fd == own[Loop]
<1>1. /\ pc[Loop] = "remove" /\ sock' = [sock EXCEPT ![fd] = 0] /\ Polled' = Polled \ {fd}
      /\ LoopGoes("idle", fd) /\ UNCHANGED <<conn, connMap>>
  <2>1. /\ pc[Loop] = "remove" /\ sock' = [sock EXCEPT ![fd] = 0]
        /\ registered' = registered \ {fd} /\ neglected' = neglected
        /\ LoopGoes("idle", fd) /\ UNCHANGED <<conn, connMap>>
    BY DEF Remove
  <2>2. fd \notin neglected
    BY <2>1 DEF ApartInv
  <2> QED  BY <2>1, <2>2 DEF Polled
<1>2. pc'[Loop] = "idle" /\ way'[Loop] = "socket"
  BY <1>1 DEF LoopGoes, SendInv, SendersTyped, ServerInv, ServerConns
<1>3. \A f \in Fd : sock'[f] = IF f = fd THEN 0 ELSE sock[f]
  BY <1>1 DEF SendInv, KernelTyped
<1>4. \A k \in DOMAIN connMap : connMap[k] # fd
  BY <1>1 DEF ServerInv, ServerMap
<1> HIDE DEF fd
<1>5. ServerConns'
  BY <1>1, <1>2, <1>3 DEF ServerInv, ServerConns, Conns, Connecting
<1>6. ServerMap'
  <2>1. \A k \in DOMAIN connMap : /\ connMap[k] \in Polled /\ connMap[k] \in Fd
                                  /\ conn[sock[connMap[k]]].peer.port = k
    BY ServerFacts DEF ServerInv, ServerMap
  <2>2. \A k \in DOMAIN connMap : /\ connMap[k] \in Polled'
                                  /\ conn[sock'[connMap[k]]].peer.port = k
    BY <1>1, <1>3, <1>4, <2>1
  <2>3. ASSUME NEW f \in Polled', conn[sock'[f]].alive
        PROVE  /\ conn[sock'[f]].peer.port \in DOMAIN connMap
               /\ connMap[conn[sock'[f]].peer.port] = f
    <3>1. f \in Polled /\ sock'[f] = sock[f]
      BY <1>1, <1>3, ServerFacts
    <3> QED  BY <3>1, <2>3, <1>1 DEF ServerInv, ServerMap
  <2> QED  BY <1>1, <1>2, <2>2, <2>3 DEF ServerMap
<1> QED  BY <1>5, <1>6 DEF ServerInv

LEMMA ServerHangup ==
  ASSUME SendInv, ServerInv, ServerUse, NEW c \in Conns, Hangup(c)
  PROVE  ServerInv'
<1> USE SenderFacts
<1>1. /\ conn' = [conn EXCEPT ![c].alive = FALSE]
      /\ UNCHANGED <<sock, Polled, connMap, pc, own, way, pos>>
  BY DEF Hangup, tables, evloop, Polled, senders, inside
<1>2. conn \in Seq(Connection) /\ Len(conn) \in Nat
  BY DEF SendInv, KernelTyped
<1>3. /\ Conns' = Conns
      /\ \A d \in Conns : /\ conn'[d].role = conn[d].role /\ conn'[d].peer = conn[d].peer
                          /\ conn'[d].alive => conn[d].alive
  <2>1. conn[c] \in Connection
    BY <1>2 DEF Conns
  <2>2. /\ [conn[c] EXCEPT !.alive = FALSE].role = conn[c].role
        /\ [conn[c] EXCEPT !.alive = FALSE].peer = conn[c].peer
        /\ ~[conn[c] EXCEPT !.alive = FALSE].alive
    BY <2>1 DEF Connection
  <2>3. conn' = [conn EXCEPT ![c] = [conn[c] EXCEPT !.alive = FALSE]]
    BY <1>1
  <2>4. Len(conn') = Len(conn)
    BY <1>2, <2>3
  <2>5. \A d \in Conns : conn'[d] = IF d = c THEN [conn[c] EXCEPT !.alive = FALSE] ELSE conn[d]
    BY <1>2, <2>3 DEF Conns
  <2> QED  BY <2>2, <2>4, <2>5 DEF Conns
<1>4. ServerConns'
  BY <1>1, <1>3 DEF ServerInv, ServerConns
<1>5. ServerMap'
  <2>1. \A f \in Polled : /\ sock[f] \in Conns /\ conn'[sock[f]].peer = conn[sock[f]].peer
                          /\ conn'[sock[f]].alive => conn[sock[f]].alive
    <3>1. \A f \in Polled : sock[f] \in Conns
      BY ServerFacts
    <3>2. \A d \in Conns : conn'[d].peer = conn[d].peer /\ (conn'[d].alive => conn[d].alive)
      BY <1>3
    <3> QED  BY <3>1, <3>2
  <2>2. /\ pc[Loop] \in Accepting => own[Loop] \in Polled
        /\ \A k \in DOMAIN connMap : connMap[k] \in Polled
    BY DEF SendInv, SocketsInv, ServerInv, ServerMap
  <2>3. \A k \in DOMAIN connMap : conn'[sock[connMap[k]]].peer.port = k
    BY <2>1, <2>2 DEF ServerInv, ServerMap
  <2>4. ASSUME NEW fd \in Polled, conn'[sock[fd]].alive, ~(pc[Loop] = "accepted" /\ own[Loop] = fd)
        PROVE  /\ conn'[sock[fd]].peer.port \in DOMAIN connMap
               /\ connMap[conn'[sock[fd]].peer.port] = fd
    BY <2>4, <2>1 DEF ServerInv, ServerMap
  <2>5. ASSUME pc[Loop] = "accepted"
        PROVE  \A d \in Conns : conn'[d].alive /\ conn'[d].peer = conn'[sock[own[Loop]]].peer
                 => d = sock[own[Loop]]
    <3>1. conn'[sock[own[Loop]]].peer = conn[sock[own[Loop]]].peer
      BY <2>1, <2>2, <2>5 DEF Accepting
    <3>2. \A d \in Conns : conn[d].alive /\ conn[d].peer = conn[sock[own[Loop]]].peer
            => d = sock[own[Loop]]
      BY <2>5 DEF ServerInv, ServerMap
    <3>3. \A d \in Conns : conn'[d].peer = conn[d].peer /\ (conn'[d].alive => conn[d].alive)
      BY <1>3
    <3> QED  BY <3>1, <3>2, <3>3
  <2>6. pc[Loop] \in {"drop", "remove"} => ~conn'[sock[own[Loop]]].alive
    BY <2>1, <2>2 DEF ServerInv, ServerMap, Accepting
  <2>7. /\ pc[Loop] = "drop" => pos \in DOMAIN connMap /\ connMap[pos] = own[Loop]
        /\ pc[Loop] = "remove" => \A k \in DOMAIN connMap : connMap[k] # own[Loop]
    BY DEF ServerInv, ServerMap
  <2>8. UNCHANGED <<Polled, connMap, own, pc, pos, sock>>
    BY <1>1, <1>3
  <2>9. \A k \in DOMAIN connMap' :
          connMap'[k] \in Polled' /\ conn'[sock'[connMap'[k]]].peer.port = k
    BY <2>2, <2>3, <2>8
  <2>10. \A fd \in Polled' :
           conn'[sock'[fd]].alive /\ ~(pc'[Loop] = "accepted" /\ own'[Loop] = fd) =>
             /\ conn'[sock'[fd]].peer.port \in DOMAIN connMap'
             /\ connMap'[conn'[sock'[fd]].peer.port] = fd
    BY <2>4, <2>8
  <2>11. pc'[Loop] = "accepted" =>
           /\ \A k \in DOMAIN connMap' : connMap'[k] # own'[Loop]
           /\ \A d \in Conns' : conn'[d].alive /\ conn'[d].peer = conn'[sock'[own'[Loop]]].peer
                => d = sock'[own'[Loop]]
    <3>1. pc[Loop] = "accepted" => \A k \in DOMAIN connMap : connMap[k] # own[Loop]
      BY DEF ServerInv, ServerMap
    <3> QED  BY <3>1, <2>5, <2>8, <1>3
  <2>12. /\ pc'[Loop] = "drop" => pos' \in DOMAIN connMap' /\ connMap'[pos'] = own'[Loop]
         /\ pc'[Loop] \in {"drop", "remove"} => ~conn'[sock'[own'[Loop]]].alive
         /\ pc'[Loop] = "remove" => \A k \in DOMAIN connMap' : connMap'[k] # own'[Loop]
    BY <2>6, <2>7, <2>8
  <2>13. pc'[Loop] = "find" => \E k \in DOMAIN connMap' : connMap'[k] = own'[Loop]
    BY <2>8 DEF ServerInv, ServerMap
  <2> QED  BY <2>9, <2>10, <2>11, <2>12, <2>13 DEF ServerMap
<1> QED  BY <1>4, <1>5 DEF ServerInv

LEMMA NextServer ==
  ASSUME ServerUse
  PROVE  SendInv /\ ApartInv /\ ServerInv /\ [Next]_vars => ServerInv'
<1> SUFFICES ASSUME SendInv, ApartInv, ServerInv, [Next]_vars PROVE ServerInv'
  OBVIOUS
<1>1. Sender = {Loop} /\ Thread = {}
  BY DEF ServerUse, Sender
<1>2. CASE UNCHANGED vars
  <2>1. UNCHANGED <<sock, conn, Polled, connMap, pc, own, way, pos>>
    BY <1>2 DEF vars, kernel, tables, evloop, Polled, senders, inside
  <2> QED  BY <2>1 DEF ServerInv, ServerConns, ServerMap, Conns
<1>3. CASE LoopStep
  BY <1>3, ServerAccept, ServerStoreAccepted, ServerPeerClosed,
     ServerDropEntry, ServerRemove
     DEF LoopStep
<1>4. CASE Next
  BY <1>1, <1>3, <1>4, ServerReply, ServerContinue, ServerHangup DEF Next
<1> QED  BY <1>2, <1>4

(* A server that only answers knows, between callbacks, its live           *)
(* connections, those included that epoll refused, under the ports of      *)
(* their peers and no other descriptor.                                    *)
THEOREM SendPathMapMatches ==
  ASSUME ServerUse
  PROVE  Spec => []MapMatches
<1>1. SendInv /\ ServerInv => MapMatches
  <2> SUFFICES ASSUME SendInv, ServerInv, pc[Loop] \notin Accepting PROVE
         /\ \A fd \in Polled :
              conn[sock[fd]].alive => KeysOf(connMap, fd) = {conn[sock[fd]].peer.port}
         /\ \A k \in DOMAIN connMap : connMap[k] \in Polled
    BY DEF MapMatches, Accepting
  <2>1. \A k \in DOMAIN connMap : connMap[k] \in Polled /\ conn[sock[connMap[k]]].peer.port = k
    BY DEF ServerInv, ServerMap
  <2>2. ASSUME NEW fd \in Polled, conn[sock[fd]].alive
        PROVE  KeysOf(connMap, fd) = {conn[sock[fd]].peer.port}
    <3>1. conn[sock[fd]].peer.port \in DOMAIN connMap /\ connMap[conn[sock[fd]].peer.port] = fd
      BY <2>2 DEF ServerInv, ServerMap, Accepting
    <3> QED  BY <3>1, <2>1 DEF KeysOf
  <2> QED  BY <2>1, <2>2
<1> QED  BY <1>1, SendPathInvariant, InitServer, NextServer, PTL DEF Spec

-----------------------------------------------------------------------------
(* In either use a handle with a connected socket finds its entry: only a  *)
(* handle of an address that is not connected makes send_data connect.     *)
THEOREM SendPathSocketIsKnown ==
  ASSUME ThreadsUse \/ ServerUse
  PROVE  Spec => []SocketIsKnown
<1>1. ServerUse /\ ServerInv => SocketIsKnown
  BY DEF ServerInv, ServerConns, SocketIsKnown, ServerUse, Sender, Connecting
<1>2. UseInv => SocketIsKnown
  BY SenderFacts DEF UseInv, UseSenders, Placed, Connecting, SocketIsKnown
<1>3. CASE ServerUse
  BY <1>1, <1>3, SendPathInvariant, InitServer, NextServer, PTL DEF Spec
<1>4. CASE ThreadsUse
  BY <1>2, <1>4, SendPathInvariant, InitUse, NextUse, PTL DEF Spec
<1> QED  BY <1>3, <1>4

(* What a callback sends goes into the connection it answers, and into no  *)
(* other: there is one sender, and it does not close what it sends to.     *)
ServerSending ==
  pc[Loop] \in Sending =>
    own[Loop] \in Polled /\ Meant(Loop).to = NoAddress /\ Meant(Loop).conn = sock[own[Loop]]

LEMMA InitServerStreams ==
  ASSUME Init
  PROVE  StreamsInv /\ ServerSending
<1>1. Conns = {} /\ pc[Loop] = "idle" /\ \A s \in Sender : pc[s] = "idle"
  BY SenderFacts DEF Init, Conns
<1> QED  BY <1>1 DEF StreamsInv, UseStreams, PortPeer, ServerSending, Sending

LEMMA ServerStreamsReply ==
  ASSUME SendInv, ServerInv, ServerUse, StreamsInv, ServerSending, Reply(Loop)
  PROVE  StreamsInv' /\ ServerSending'
<1> USE SenderFacts
<1>1. PICK fd \in Polled : Start(Loop, NoAddress, fd)
  BY DEF Reply
<1> DEFINE c == [op |-> "send", to |-> NoAddress, conn |-> sock[fd]]
<1>2. /\ pc[Loop] = "idle" /\ calls' = Append(calls, c) /\ call' = [call EXCEPT ![Loop] = Len(calls) + 1]
      /\ own' = [own EXCEPT ![Loop] = fd] /\ UNCHANGED <<sock, conn, stream, Polled>>
      /\ pc'[Loop] # "payload"
  <2>1. pc' = [pc EXCEPT ![Loop] = IF Has(connMap, NoAddress.port) THEN "key" ELSE "find"]
    BY <1>1 DEF Start
  <2>2. pc'[Loop] # "payload"
    BY <2>1 DEF SendInv, SendersTyped
  <2> QED  BY <1>1, <2>2 DEF Start, kernel, tables, evloop, Polled
<1>3. c.to = NoAddress /\ c.conn = sock[fd]
  OBVIOUS
<1> HIDE DEF c
<1>4. /\ call'[Loop] = Len(calls) + 1 /\ own'[Loop] = fd /\ calls'[Len(calls) + 1] = c
      /\ \A i \in DOMAIN calls : calls'[i] = calls[i]
  BY <1>2 DEF SendInv, SendersTyped
<1>5. ServerSending'
  <2>1. Meant(Loop)' = c
    BY <1>4 DEF Meant
  <2> QED  BY <2>1, <1>2, <1>3, <1>4 DEF ServerSending
<1>6. StreamsInv'
  <2>1. \A u \in Sender : pc[u] # "payload" /\ pc'[u] # "payload"
    BY <1>2, ServerFacts
  <2>2. Conns' = Conns
    BY <1>2 DEF Conns
  <2> QED  BY <1>2, <1>4, <2>1, <2>2, StreamsHold DEF StreamsInv
<1> QED  BY <1>5, <1>6

LEMMA ServerSends ==
  ASSUME SendInv, ServerInv, ServerUse, ServerSending, pc[Loop] \in {"header", "payload"}
  PROVE  \E c \in Conns : SendsTo(Loop, c)
<1>1. own[Loop] \in Polled /\ Meant(Loop).to = NoAddress /\ Meant(Loop).conn = sock[own[Loop]]
  BY DEF ServerSending, Sending
<1>2. PICK c \in Conns : c = sock[own[Loop]] /\ c # 0 /\ own[Loop] \in Fd
  BY <1>1, ServerFacts
<1>3. way[Loop] # "addr"
  BY DEF ServerInv, ServerConns
<1>4. Sender = {Loop}
  BY ServerFacts
<1> QED  BY <1>1, <1>2, <1>3, <1>4 DEF SendsTo

LEMMA ServerStreamsContinue ==
  ASSUME SendInv, ServerInv, ServerUse, StreamsInv, ServerSending, Continue(Loop)
  PROVE  StreamsInv' /\ ServerSending'
<1> USE SenderFacts
<1>1. pc[Loop] \notin Connecting \cup {"key"} /\ way[Loop] = "socket"
  BY DEF ServerInv, ServerConns
<1>2. Sender = {Loop} /\ \A fd \in Polled : fd \in Fd /\ sock[fd] \in Conns /\ sock[fd] # 0
  BY ServerFacts
<1>3. CASE Find(Loop) \/ FindMutex(Loop) \/ InsertMutex(Loop) \/ Lock(Loop)
  <2>1. UNCHANGED <<sock, conn, stream, Polled, own, calls, call>>
    BY <1>3 DEF Find, FindMutex, InsertMutex, Lock, kernel, tables, evloop, Polled, inside
  <2>2. pc[Loop] \in Sending /\ pc[Loop] # "payload" /\ pc'[Loop] # "payload"
    BY <1>3 DEF Find, FindMutex, InsertMutex, Lock, Sending, SendInv, SendersTyped
  <2>3. ServerSending'
    BY <2>1, <2>2 DEF ServerSending, Meant
  <2>4. Conns' = Conns
    BY <2>1 DEF Conns
  <2> QED  BY <1>2, <2>1, <2>2, <2>3, <2>4, StreamsHold DEF StreamsInv
<1>4. ASSUME NEW part \in {"header", "payload"}, pc[Loop] = part, Transmit(Loop, part),
             pc' = [pc EXCEPT ![Loop] = IF part = "header" THEN "payload" ELSE "idle"]
      PROVE  StreamsInv' /\ ServerSending'
  <2>1. own[Loop] \in Polled /\ Meant(Loop).to = NoAddress /\ Meant(Loop).conn = sock[own[Loop]]
    BY <1>4 DEF ServerSending, Sending
  <2>2. PICK c \in Conns : SendsTo(Loop, c)
    BY <1>4, ServerSends
  <2>3. \A u \in Sender \ {Loop} : pc'[u] = pc[u]
    BY <1>2
  <2>4. pc'[Loop] = "payload" <=> part = "header"
    BY <1>4 DEF SendInv, SendersTyped
  <2>5. /\ UseStreams' /\ PortPeer' /\ UNCHANGED <<sock, Polled>>
        /\ UNCHANGED <<calls, call, own>>
    BY <1>4, <2>2, <2>3, <2>4, PartSent
  <2> QED  BY <2>1, <2>5 DEF StreamsInv, ServerSending, Meant
<1>5. CASE SendHeader(Loop)
  BY <1>4, <1>5 DEF SendHeader
<1>6. CASE SendPayload(Loop)
  BY <1>4, <1>6 DEF SendPayload
<1>7. ~TakeKey(Loop) /\ ~Connect(Loop) /\ ~ConnectFails(Loop) /\ ~Store(Loop) /\ ~Register(Loop)
  BY <1>1 DEF TakeKey, Connect, ConnectFails, Store, Register, Connecting
<1> QED  BY <1>3, <1>5, <1>6, <1>7 DEF Continue

LEMMA ServerStreamsLoop ==
  ASSUME SendInv, ServerInv, ServerUse, StreamsInv, LoopStep
  PROVE  StreamsInv' /\ ServerSending'
<1> USE SenderFacts
<1>1. /\ pc[Loop] \in {"idle"} \cup Accepting /\ calls' = calls
      /\ \E where \in {"idle"} \cup Accepting : pc' = [pc EXCEPT ![Loop] = where]
  BY DEF LoopStep, Accept, StoreAccepted, PeerClosed, DropEntry, Remove, LoopGoes, Accepting
<1>2. pc'[Loop] \in {"idle"} \cup Accepting
  BY <1>1 DEF SendInv, SendersTyped
<1>3. ServerSending' /\ \A u \in Sender : pc[u] # "payload" /\ pc'[u] # "payload"
  BY <1>1, <1>2, ServerFacts DEF ServerSending, Sending, Accepting
<1>4. ASSUME NEW from \in Client, Accept(from) PROVE StreamsInv'
  <2>1. PICK fd \in Fd : OpenSocket(fd, from, "accepted", TRUE)
    BY <1>4 DEF Accept
  <2>2. from \in [ip : Ip, port : Port \cup {0}] /\ from.port \in Port
    OBVIOUS
  <2>3. /\ Len(conn) \in Nat /\ Len(conn') = Len(conn) + 1 /\ stream'[Len(conn) + 1] = << >>
        /\ \A c \in Conns : conn'[c] = conn[c] /\ stream'[c] = stream[c]
    BY <1>1, <2>1, <2>2, OpenSocketFacts
  <2>4. Conns \subseteq Conns' /\ \A c \in Conns' \ Conns : stream'[c] = << >>
    BY <2>3 DEF Conns
  <2> QED  BY <1>1, <1>3, <2>3, <2>4, StreamsHold DEF StreamsInv
<1>5. CASE StoreAccepted \/ PeerClosed \/ DropEntry \/ Remove
  <2>1. UNCHANGED <<conn, stream>>
    BY <1>5 DEF StoreAccepted, PeerClosed, DropEntry, Remove, kernel
  <2>2. Conns' = Conns
    BY <2>1 DEF Conns
  <2> QED  BY <1>1, <1>3, <2>1, <2>2, StreamsHold DEF StreamsInv
<1> QED  BY <1>3, <1>4, <1>5 DEF LoopStep

LEMMA ServerStreamsHangup ==
  ASSUME SendInv, StreamsInv, ServerSending, NEW c \in Conns, Hangup(c)
  PROVE  StreamsInv' /\ ServerSending'
<1>1. /\ conn' = [conn EXCEPT ![c].alive = FALSE]
      /\ UNCHANGED <<sock, stream, Polled, pc, own, calls, call>>
  BY DEF Hangup, tables, evloop, Polled, senders, inside
<1>2. conn \in Seq(Connection)
  BY DEF SendInv, KernelTyped
<1>3. Conns' = Conns /\ \A d \in Conns : conn'[d].peer = conn[d].peer
  <2>1. conn[c] \in Connection
    BY <1>2 DEF Conns
  <2>2. [conn[c] EXCEPT !.alive = FALSE].peer = conn[c].peer
    BY <2>1 DEF Connection
  <2>3. conn' = [conn EXCEPT ![c] = [conn[c] EXCEPT !.alive = FALSE]]
    BY <1>1
  <2>4. Len(conn') = Len(conn)
    BY <1>2, <2>3
  <2>5. \A d \in Conns : conn'[d] = IF d = c THEN [conn[c] EXCEPT !.alive = FALSE] ELSE conn[d]
    BY <1>2, <2>3 DEF Conns
  <2> QED  BY <2>2, <2>4, <2>5 DEF Conns
<1>4. UseStreams' /\ PortPeer'
  <2>1. UseStreams /\ PortPeer
    BY DEF StreamsInv
  <2>2. UNCHANGED <<sock, stream, calls, pc, own, call>> /\ Conns' = Conns
    BY <1>1, <1>3
  <2>3. UseStreams'
    BY <2>1, <2>2 DEF UseStreams
  <2>4. \A d \in Conns : conn'[d].peer = conn[d].peer
    BY <1>3
  <2>5. PortPeer'
    BY <2>1, <2>2, <2>4 DEF PortPeer
  <2> QED  BY <2>3, <2>5
<1>5. ServerSending'
  BY <1>1 DEF ServerSending, Meant
<1> QED  BY <1>4, <1>5 DEF StreamsInv

LEMMA NextServerStreams ==
  ASSUME ServerUse
  PROVE  SendInv /\ ServerInv /\ StreamsInv /\ ServerSending /\ [Next]_vars
           => StreamsInv' /\ ServerSending'
<1> SUFFICES ASSUME SendInv, ServerInv, StreamsInv, ServerSending, [Next]_vars
             PROVE  StreamsInv' /\ ServerSending'
  OBVIOUS
<1>1. Sender = {Loop} /\ Thread = {}
  BY ServerFacts DEF ServerUse
<1>2. CASE UNCHANGED vars
  <2>1. UNCHANGED <<sock, conn, stream, Polled, calls, pc, call, own>>
    BY <1>2 DEF vars, kernel, tables, evloop, Polled, senders, inside
  <2>2. UseStreams /\ PortPeer
    BY DEF StreamsInv
  <2>3. Conns' = Conns
    BY <2>1 DEF Conns
  <2>4. UseStreams'
    BY <2>1, <2>2, <2>3 DEF UseStreams
  <2>5. PortPeer'
    BY <2>1, <2>2, <2>3 DEF PortPeer
  <2>6. ServerSending'
    BY <2>1 DEF ServerSending, Meant
  <2> QED  BY <2>4, <2>5, <2>6 DEF StreamsInv
<1>3. CASE Next
  BY <1>1, <1>3, ServerStreamsReply, ServerStreamsContinue, ServerStreamsLoop,
     ServerStreamsHangup DEF Next
<1> QED  BY <1>2, <1>3

-----------------------------------------------------------------------------
(* In either use the streams are as they should be, and what is sent to an *)
(* address goes to its port, at the handles' own ip.                       *)
THEOREM SendPathStreams ==
  ASSUME ThreadsUse \/ ServerUse
  PROVE  Spec => []StreamsInv
<1>1. UseInv => StreamsInv
  BY DEF UseInv, StreamsInv
<1>2. CASE ThreadsUse
  BY <1>1, <1>2, SendPathInvariant, InitUse, NextUse, PTL DEF Spec
<1>3. CASE ServerUse
  BY <1>3, SendPathInvariant, InitServer, NextServer, InitServerStreams,
     NextServerStreams, PTL DEF Spec
<1> QED  BY <1>2, <1>3

(* Used like this, threads and callbacks never mix headers and payloads.   *)
THEOREM SendPathFramesWhole ==
  ASSUME ThreadsUse \/ ServerUse
  PROVE  Spec => []FramesWhole
<1>1. StreamsInv => FramesWhole
  <2> SUFFICES ASSUME StreamsInv, NEW c \in Conns, NEW i \in DOMAIN stream[c]
               PROVE  IF i % 2 = 1
                      THEN /\ stream[c][i].part = "header"
                           /\ i = Len(stream[c]) => \E s \in Sender : pc[s] = "payload"
                                                                     /\ call[s] = stream[c][i].call
                      ELSE stream[c][i] = [call |-> stream[c][i - 1].call, part |-> "payload"]
    BY DEF FramesWhole
  <2>1. IF Odd(i)
        THEN /\ stream[c][i].part = "header"
             /\ i = Len(stream[c]) =>
                  \E s \in Sender : /\ pc[s] = "payload" /\ sock[own[s]] = c
                                    /\ call[s] = stream[c][i].call
        ELSE stream[c][i] = [call |-> stream[c][i - 1].call, part |-> "payload"]
    BY DEF StreamsInv, UseStreams
  <2> QED  BY <2>1 DEF Odd
<1> QED  BY <1>1, SendPathStreams, PTL

(* And where all that is sent to is at the handles' own ip, it arrives     *)
(* where it was meant to go.                                               *)
THEOREM SendPathRightPeer ==
  ASSUME ThreadsUse \/ ServerUse, RemoteIsLocal
  PROVE  Spec => []RightPeer
<1>1. SendInv /\ StreamsInv => RightPeer
  <2> SUFFICES ASSUME SendInv, StreamsInv, NEW c \in Conns, NEW i \in DOMAIN stream[c]
               PROVE  LET m == calls[stream[c][i].call] IN
                        IF m.to = NoAddress THEN c = m.conn ELSE conn[c].peer = m.to
    BY DEF RightPeer
  <2> DEFINE m == calls[stream[c][i].call]
  <2>1. m.to \in Remote \cup {NoAddress}
    <3>1. stream[c][i].call \in DOMAIN calls /\ calls \in Seq(Call)
      BY DEF SendInv, KernelTyped, SendersTyped
    <3>2. m \in Call
      BY <3>1
    <3> QED  BY <3>2 DEF Call
  <2>2. IF m.to = NoAddress THEN c = m.conn ELSE conn[c].peer = Reached(m.to.port)
    BY DEF StreamsInv, PortPeer
  <2> HIDE DEF m
  <2>3. m.to # NoAddress => m.to = Reached(m.to.port)
    <3>1. m.to # NoAddress => m.to = [ip |-> m.to.ip, port |-> m.to.port] /\ m.to.ip = Local
      BY <2>1, SenderFacts DEF RemoteIsLocal
    <3> QED  BY <3>1 DEF Reached
  <2>4. IF m.to = NoAddress THEN c = m.conn ELSE conn[c].peer = m.to
    BY <2>2, <2>3
  <2> QED  BY <2>4 DEF m
<1> QED  BY <1>1, SendPathInvariant, SendPathStreams, PTL
=============================================================================
