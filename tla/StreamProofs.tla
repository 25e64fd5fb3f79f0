---------------------------- MODULE StreamProofs ----------------------------
(***************************************************************************)
(* SendPath implements MessageStreams, in the two uses of SendPathProofs.  *)
(***************************************************************************)
EXTENDS SendPathProofs

(* A call that is under way is its sender's alone, and has sent nothing    *)
(* until its sender is about to send the payload.                          *)
InCall(s) == pc[s] \in Sending \cup Connecting

OnceInv ==
  /\ \A s, u \in Sender : InCall(s) /\ InCall(u) /\ call[s] = call[u] => s = u
  /\ \A s \in Sender : InCall(s) /\ pc[s] # "payload" =>
       \A c \in Conns : \A i \in DOMAIN stream[c] : stream[c][i].call # call[s]

LEMMA InitOnce == Init => OnceInv
<1> SUFFICES ASSUME Init PROVE OnceInv
  OBVIOUS
<1>1. Conns = {} /\ \A s \in Sender : pc[s] = "idle"
  BY DEF Init, Conns
<1>2. \A s \in Sender : ~InCall(s)
  BY <1>1 DEF InCall, Sending, Connecting
<1> QED  BY <1>1, <1>2 DEF OnceInv

(* Steps that neither begin a call nor send anything.                      *)
LEMMA OnceStays ==
  ASSUME OnceInv, call' = call, Conns \subseteq Conns',
         \A c \in Conns : stream'[c] = stream[c],
         \A c \in Conns' \ Conns : stream'[c] = << >>,
         \A u \in Sender : InCall(u)' => InCall(u) /\ (pc[u] = "payload" => pc'[u] = "payload")
  PROVE  OnceInv'
<1>1. \A c \in Conns' \ Conns : DOMAIN stream'[c] = {}
  <2>1. DOMAIN << >> = {}
    OBVIOUS
  <2> QED  BY <2>1
<1>2. ASSUME NEW s \in Sender, NEW u \in Sender, InCall(s)', InCall(u)', call'[s] = call'[u]
      PROVE  s = u
  BY <1>2 DEF OnceInv
<1>3. ASSUME NEW s \in Sender, InCall(s)', pc'[s] # "payload", NEW c \in Conns',
             NEW i \in DOMAIN stream'[c]
      PROVE  stream'[c][i].call # call'[s]
  <2>1. c \in Conns /\ stream'[c] = stream[c]
    BY <1>1
  <2>2. InCall(s) /\ pc[s] # "payload"
    BY <1>3
  <2> QED  BY <2>1, <2>2 DEF OnceInv
<1> QED  BY <1>2, <1>3 DEF OnceInv

(* A call that begins has a number no call has had.                        *)
LEMMA OnceBegins ==
  ASSUME SendInv, OnceInv, NEW s \in Sender, call' = [call EXCEPT ![s] = Len(calls) + 1],
         \A u \in Sender \ {s} : pc'[u] = pc[u], pc'[s] # "payload",
         UNCHANGED <<conn, stream>>
  PROVE  OnceInv'
<1>1. /\ call \in [Sender -> 0 .. Len(calls)] /\ Len(calls) \in Nat /\ DOMAIN calls = 1 .. Len(calls)
      /\ \A c \in Conns : \A i \in DOMAIN stream[c] : stream[c][i].call \in DOMAIN calls
  BY DEF SendInv, SendersTyped, KernelTyped
<1>2. /\ call'[s] = Len(calls) + 1
      /\ \A u \in Sender \ {s} : call'[u] = call[u] /\ call[u] # Len(calls) + 1
  BY <1>1
<1>3. \A u \in Sender \ {s} : InCall(u)' <=> InCall(u)
  BY DEF InCall
<1>4. Conns' = Conns
  BY DEF Conns
<1>5. ASSUME NEW u \in Sender, NEW v \in Sender, InCall(u)', InCall(v)', call'[u] = call'[v]
      PROVE  u = v
  BY <1>2, <1>3, <1>5 DEF OnceInv
<1>6. ASSUME NEW u \in Sender, InCall(u)', pc'[u] # "payload", NEW c \in Conns,
             NEW i \in DOMAIN stream[c]
      PROVE  stream[c][i].call # call'[u]
  <2>1. CASE u = s
    BY <2>1, <1>1, <1>2
  <2>2. CASE u # s
    BY <2>2, <1>2, <1>3, <1>6 DEF OnceInv
  <2> QED  BY <2>1, <2>2
<1> QED  BY <1>4, <1>5, <1>6 DEF OnceInv

(* A part adds the number of its own call to one stream, or to none.       *)
LEMMA OnceTransmits ==
  ASSUME SendInv, OnceInv, NEW s \in Sender, NEW part \in {"header", "payload"}, pc[s] = part,
         Transmit(s, part), pc' = [pc EXCEPT ![s] = IF part = "header" THEN "payload" ELSE "idle"]
  PROVE  OnceInv'
<1>1. UNCHANGED <<sock, conn, call, own, calls>>
  BY DEF Transmit, inside
<1>2. /\ stream \in Seq(Seq(Part)) /\ Len(stream) = Len(conn) /\ Len(conn) \in Nat
  BY DEF SendInv, KernelTyped
<1>3. Conns' = Conns
  BY <1>1 DEF Conns
<1>4. /\ pc'[s] = "payload" \/ pc'[s] = "idle"
      /\ \A u \in Sender \ {s} : pc'[u] = pc[u]
  BY DEF SendInv, SendersTyped
<1>5. InCall(s) /\ \A u \in Sender : InCall(u)' => InCall(u)
  BY <1>4 DEF InCall, Sending, Connecting
<1>6. ASSUME NEW c \in Conns, NEW i \in DOMAIN stream'[c]
      PROVE  \/ i \in DOMAIN stream[c] /\ stream'[c][i] = stream[c][i]
             \/ stream'[c][i].call = call[s]
  <2> DEFINE fd == IF way[s] = "addr" THEN connMap'[Meant(s).to.port] ELSE own[s]
             p  == [call |-> call[s], part |-> part]
             d  == sock[fd]
  <2>1. stream' = IF fd \in Fd /\ sock[fd] # 0
                  THEN [stream EXCEPT ![d] = Append(stream[d], p)] ELSE stream
    BY DEF Transmit
  <2>2. p.call = call[s] /\ p \in Part
    <3>1. call[s] \in Nat
      BY DEF SendInv, SendersTyped
    <3> QED  BY <3>1 DEF Part
  <2> HIDE DEF fd, p, d
  <2>3. stream[c] \in Seq(Part) /\ c \in DOMAIN stream
    BY <1>2 DEF Conns
  <2>4. stream'[c] = stream[c] \/ stream'[c] = Append(stream[c], p)
    BY <2>1, <2>3
  <2>5. CASE stream'[c] = stream[c]
    BY <2>5
  <2>6. CASE stream'[c] = Append(stream[c], p)
    <3>1. /\ DOMAIN stream'[c] = 1 .. Len(stream[c]) + 1 /\ Len(stream[c]) \in Nat
          /\ DOMAIN stream[c] = 1 .. Len(stream[c]) /\ stream'[c][Len(stream[c]) + 1] = p
          /\ \A j \in 1 .. Len(stream[c]) : stream'[c][j] = stream[c][j]
      BY <2>2, <2>3, <2>6, AppendFacts
    <3> QED  BY <2>2, <3>1
  <2> QED  BY <2>4, <2>5, <2>6
<1>7. ASSUME NEW u \in Sender, NEW v \in Sender, InCall(u)', InCall(v)', call'[u] = call'[v]
      PROVE  u = v
  BY <1>1, <1>5, <1>7 DEF OnceInv
<1>8. ASSUME NEW u \in Sender, InCall(u)', pc'[u] # "payload", NEW c \in Conns,
             NEW i \in DOMAIN stream'[c]
      PROVE  stream'[c][i].call # call[u]
  <2>1. u # s /\ pc[u] # "payload" /\ InCall(u)
    BY <1>4, <1>5, <1>8 DEF InCall, Sending, Connecting
  <2>2. call[u] # call[s]
    BY <2>1, <1>5 DEF OnceInv
  <2>3. \A j \in DOMAIN stream[c] : stream[c][j].call # call[u]
    BY <2>1 DEF OnceInv
  <2> QED  BY <2>2, <2>3, <1>6
<1> QED  BY <1>1, <1>3, <1>7, <1>8 DEF OnceInv
-----------------------------------------------------------------------------
(* What a step may do: nothing that shows in the streams, make a socket,   *)
(* begin a call, or send a part.                                           *)
Going == \A u \in Sender : InCall(u)' => InCall(u) /\ (pc[u] = "payload" => pc'[u] = "payload")

Silent == /\ UNCHANGED <<stream, calls, call>> /\ Conns' = Conns
          /\ Going

Opens == /\ UNCHANGED <<calls, call>> /\ Going
         /\ Len(conn) \in Nat /\ Conns' = 1 .. Len(conn) + 1
         /\ \A c \in Conns : stream'[c] = stream[c]
         /\ stream'[Len(conn) + 1] = << >>

Begins(s) == /\ pc[s] = "idle" /\ pc'[s] # "payload"
             /\ call' = [call EXCEPT ![s] = Len(calls) + 1] /\ Len(calls') = Len(calls) + 1
             /\ \A u \in Sender \ {s} : pc'[u] = pc[u]
             /\ UNCHANGED <<conn, stream>>

LEMMA OpenSocketOpens ==
  ASSUME SendInv, NEW fd, NEW peer, NEW role, NEW alive, OpenSocket(fd, peer, role, alive),
         UNCHANGED <<calls, call>>, Going
  PROVE  Opens
<1> DEFINE r == [peer |-> peer, role |-> role, alive |-> alive]
<1>1. conn \in Seq(Connection) /\ stream \in Seq(Seq(Part)) /\ Len(stream) = Len(conn)
  BY DEF SendInv, KernelTyped
<1>2. conn' = Append(conn, r) /\ stream' = Append(stream, << >>)
  BY DEF OpenSocket
<1>3. << >> \in Seq(Part)
  OBVIOUS
<1> HIDE DEF r
<1>4. Len(conn) \in Nat /\ Len(conn') = Len(conn) + 1
  <2>1. conn \in Seq(Connection \cup {r}) /\ r \in Connection \cup {r}
    BY <1>1
  <2> QED  BY <1>2, <2>1, AppendFacts
<1>5. /\ stream'[Len(conn) + 1] = << >>
      /\ \A c \in 1 .. Len(conn) : stream'[c] = stream[c]
  BY <1>1, <1>2, <1>3, AppendFacts
<1> QED  BY <1>4, <1>5 DEF Opens, Conns

(* A sender that goes on inside its call.                                  *)
LEMMA OneGoes ==
  ASSUME SendInv, NEW s \in Sender, pc[s] \in (Sending \cup Connecting) \ {"payload"}, NEW next,
         pc' = [pc EXCEPT ![s] = next]
  PROVE  Going
<1>1. \A u \in Sender \ {s} : pc'[u] = pc[u]
  BY DEF SendInv, SendersTyped
<1> QED  BY <1>1 DEF Going, InCall

LEMMA ContinueKinds ==
  ASSUME SendInv, NEW s \in Sender, Continue(s)
  PROVE  Silent \/ Opens \/ SendHeader(s) \/ SendPayload(s)
<1>1. CASE \/ Find(s) \/ TakeKey(s) \/ FindMutex(s) \/ InsertMutex(s) \/ Lock(s)
           \/ Store(s) \/ Register(s)
  <2>1. UNCHANGED <<stream, conn, calls, call>>
    BY <1>1 DEF Find, TakeKey, FindMutex, InsertMutex, Lock, Store, Register, kernel, inside
  <2>2. /\ pc[s] \in {"key", "find", "mutex", "insert", "lock", "store", "register"}
        /\ \E next : pc' = [pc EXCEPT ![s] = next]
    BY <1>1 DEF Find, TakeKey, FindMutex, InsertMutex, Lock, Store, Register
  <2>3. Going
    BY <2>2, OneGoes DEF Sending, Connecting
  <2> QED  BY <2>1, <2>3 DEF Silent, Conns
<1>2. CASE Connect(s) \/ ConnectFails(s)
  <2>1. /\ pc[s] = "connect" /\ UNCHANGED <<calls, call>>
        /\ \E next : pc' = [pc EXCEPT ![s] = next]
    BY <1>2 DEF Connect, ConnectFails, inside
  <2>2. Going
    BY <2>1, OneGoes DEF Connecting
  <2>3. \/ UNCHANGED kernel
        \/ \E fd, peer, role, alive : OpenSocket(fd, peer, role, alive)
    BY <1>2 DEF Connect, ConnectFails
  <2>4. CASE UNCHANGED kernel
    BY <2>1, <2>2, <2>4 DEF Silent, kernel, Conns
  <2> QED  BY <2>1, <2>2, <2>3, <2>4, OpenSocketOpens
<1> QED  BY <1>1, <1>2 DEF Continue

LEMMA LoopKinds ==
  ASSUME SendInv, LoopStep
  PROVE  Silent \/ Opens
<1> USE SenderFacts
<1>1. /\ pc[Loop] \in {"idle"} \cup Accepting /\ UNCHANGED <<calls, call>>
      /\ \E where \in {"idle"} \cup Accepting : pc' = [pc EXCEPT ![Loop] = where]
  BY DEF LoopStep, Accept, StoreAccepted, PeerClosed, DropEntry, Remove, LoopGoes, Accepting
<1>2. Going
  <2>1. ~InCall(Loop)' /\ \A u \in Sender \ {Loop} : pc'[u] = pc[u]
    BY <1>1 DEF SendInv, SendersTyped, InCall, Sending, Connecting, Accepting
  <2> QED  BY <2>1 DEF Going, InCall
<1>3. ASSUME NEW from \in Client, Accept(from) PROVE Opens
  <2>1. PICK fd \in Fd : OpenSocket(fd, from, "accepted", TRUE)
    BY <1>3 DEF Accept
  <2> QED  BY <1>1, <1>2, <2>1, OpenSocketOpens
<1>4. CASE StoreAccepted \/ PeerClosed \/ DropEntry \/ Remove
  <2>1. UNCHANGED <<conn, stream>>
    BY <1>4 DEF StoreAccepted, PeerClosed, DropEntry, Remove, kernel
  <2> QED  BY <1>1, <1>2, <2>1 DEF Silent, Conns
<1> QED  BY <1>3, <1>4 DEF LoopStep

LEMMA StartBegins ==
  ASSUME SendInv, NEW s \in Sender, NEW to, NEW fd, Start(s, to, fd)
  PROVE  Begins(s)
<1>1. /\ pc[s] = "idle" /\ call' = [call EXCEPT ![s] = Len(calls) + 1]
      /\ \E c : calls' = Append(calls, c)
      /\ \E next \in {"key", "find"} : pc' = [pc EXCEPT ![s] = next]
      /\ UNCHANGED <<conn, stream>>
  BY DEF Start, kernel
<1>2. Len(calls') = Len(calls) + 1
  <2>1. PICK c : calls' = Append(calls, c)
    BY <1>1
  <2>2. calls \in Seq(Call \cup {c}) /\ c \in Call \cup {c}
    BY DEF SendInv, SendersTyped
  <2> QED  BY <2>1, <2>2, AppendFacts
<1>3. pc'[s] # "payload" /\ \A u \in Sender \ {s} : pc'[u] = pc[u]
  BY <1>1 DEF SendInv, SendersTyped
<1> QED  BY <1>1, <1>2, <1>3 DEF Begins

LEMMA RegisterHandleBegins ==
  ASSUME SendInv, NEW t \in Thread, RegisterHandle(t)
  PROVE  Begins(t)
<1> USE SenderFacts
<1>1. /\ pc[t] = "idle" /\ call' = [call EXCEPT ![t] = Len(calls) + 1]
      /\ \E c : calls' = Append(calls, c)
      /\ pc' = [pc EXCEPT ![t] = "connect"] /\ UNCHANGED <<conn, stream>>
  BY DEF RegisterHandle, kernel
<1>2. Len(calls') = Len(calls) + 1
  <2>1. PICK c : calls' = Append(calls, c)
    BY <1>1
  <2>2. calls \in Seq(Call \cup {c}) /\ c \in Call \cup {c}
    BY DEF SendInv, SendersTyped
  <2> QED  BY <2>1, <2>2, AppendFacts
<1>3. pc'[t] # "payload" /\ \A u \in Sender \ {t} : pc'[u] = pc[u]
  BY <1>1 DEF SendInv, SendersTyped
<1> QED  BY <1>1, <1>2, <1>3 DEF Begins

LEMMA StepKinds ==
  ASSUME SendInv, [Next]_vars
  PROVE  Silent \/ Opens \/ \E s \in Sender : Begins(s) \/ SendHeader(s) \/ SendPayload(s)
<1> USE SenderFacts
<1>1. CASE UNCHANGED vars
  <2>1. UNCHANGED <<stream, conn, calls, call, pc>>
    BY <1>1 DEF vars, kernel, senders, inside
  <2> QED  BY <2>1 DEF Silent, Going, InCall, Conns
<1>2. ASSUME NEW s \in Sender, Reply(s) PROVE Begins(s)
  BY <1>2, StartBegins DEF Reply
<1>3. ASSUME NEW t \in Thread, SendTo(t) PROVE Begins(t)
  BY <1>3, StartBegins DEF SendTo
<1>4. ASSUME NEW c \in Conns, Hangup(c) PROVE Silent
  <2>1. conn' = [conn EXCEPT ![c].alive = FALSE] /\ UNCHANGED <<stream, calls, call, pc>>
    BY <1>4 DEF Hangup, senders, inside
  <2>2. Len(conn') = Len(conn)
    BY <2>1 DEF SendInv, KernelTyped
  <2> QED  BY <2>1, <2>2 DEF Silent, Going, InCall, Conns
<1>5. CASE Next
  BY <1>2, <1>3, <1>4, <1>5, ContinueKinds, LoopKinds, RegisterHandleBegins DEF Next
<1> QED  BY <1>1, <1>5

LEMMA NextOnce == SendInv /\ OnceInv /\ [Next]_vars => OnceInv'
<1> SUFFICES ASSUME SendInv, OnceInv, [Next]_vars PROVE OnceInv'
  OBVIOUS
<1>1. CASE Silent
  BY <1>1, OnceStays DEF Silent, Going
<1>2. CASE Opens
  <2>1. Conns \subseteq Conns' /\ \A c \in Conns' \ Conns : stream'[c] = << >>
    BY <1>2 DEF Opens, Conns
  <2> QED  BY <1>2, <2>1, OnceStays DEF Opens, Going
<1>3. ASSUME NEW s \in Sender, Begins(s) PROVE OnceInv'
  BY <1>3, OnceBegins DEF Begins
<1>4. ASSUME NEW s \in Sender, SendHeader(s) \/ SendPayload(s) PROVE OnceInv'
  <2>1. \E part \in {"header", "payload"} :
          /\ pc[s] = part /\ Transmit(s, part)
          /\ pc' = [pc EXCEPT ![s] = IF part = "header" THEN "payload" ELSE "idle"]
    BY <1>4 DEF SendHeader, SendPayload
  <2> QED  BY <2>1, OnceTransmits
<1> QED  BY <1>1, <1>2, <1>3, <1>4, StepKinds

-----------------------------------------------------------------------------
(* The refinement: what each kind of step does to what is whole and what   *)
(* is partial.                                                             *)
LEMMA HalfFacts ==
  ASSUME NEW n \in Nat
  PROVE  /\ n \div 2 \in Nat
         /\ ~Odd(n) => (n + 1) \div 2 = n \div 2 /\ Odd(n + 1)
         /\ Odd(n) => (n + 1) \div 2 = n \div 2 + 1 /\ 2 * (n \div 2 + 1) = n + 1 /\ ~Odd(n + 1)
         /\ \A i \in 1 .. n \div 2 : 2 * i \in 1 .. n
BY DEF Odd

(* One connection's view.                                                  *)
WholeOf(c)   == [i \in 1 .. Len(stream[c]) \div 2 |-> stream[c][2 * i].call]
PartialOf(c) == IF Odd(Len(stream[c])) THEN stream[c][Len(stream[c])].call ELSE 0

LEMMA Views ==
  /\ Whole = [c \in Conns |-> WholeOf(c)] /\ Partial = [c \in Conns |-> PartialOf(c)]
  /\ Whole' = [c \in Conns' |-> WholeOf(c)'] /\ Partial' = [c \in Conns' |-> PartialOf(c)']
BY DEF Whole, Partial, WholeOf, PartialOf, Odd

LEMMA SameView ==
  ASSUME NEW c, stream'[c] = stream[c]
  PROVE  WholeOf(c)' = WholeOf(c) /\ PartialOf(c)' = PartialOf(c)
BY DEF WholeOf, PartialOf

LEMMA WholeTyped ==
  ASSUME SendInv, NEW c \in Conns
  PROVE  WholeOf(c) \in Seq(Nat) /\ Len(WholeOf(c)) = Len(stream[c]) \div 2 /\ Len(stream[c]) \in Nat
<1>1. stream[c] \in Seq(Part)
  BY DEF SendInv, KernelTyped, Conns
<1>2. Len(stream[c]) \in Nat /\ DOMAIN stream[c] = 1 .. Len(stream[c])
  BY <1>1
<1> DEFINE n == Len(stream[c])
<1>3. n \div 2 \in Nat /\ \A i \in 1 .. n \div 2 : 2 * i \in 1 .. n
  BY <1>2, HalfFacts
<1>4. ASSUME NEW i \in 1 .. n \div 2 PROVE stream[c][2 * i].call \in Nat
  <2>1. PICK j \in DOMAIN stream[c] : j = 2 * i
    BY <1>2, <1>3
  <2>2. stream[c][j] \in Part
    BY <1>1, <2>1
  <2>3. stream[c][j].call \in Nat
    BY <2>2 DEF Part
  <2> QED  BY <2>1, <2>3
<1> DEFINE h == n \div 2
<1>5. WholeOf(c) = [i \in 1 .. h |-> stream[c][2 * i].call] /\ h \in Nat
  BY <1>3 DEF WholeOf
<1>6. \A i \in 1 .. h : stream[c][2 * i].call \in Nat
  BY <1>4
<1> HIDE DEF h
<1>7. WholeOf(c) \in Seq(Nat) /\ Len(WholeOf(c)) = h
  BY <1>5, <1>6
<1> QED  BY <1>2, <1>7 DEF h

LEMMA SilentView ==
  ASSUME Silent
  PROVE  UNCHANGED <<Len(calls), Whole, Partial>>
<1>1. \A c \in Conns : WholeOf(c)' = WholeOf(c) /\ PartialOf(c)' = PartialOf(c)
  BY SameView DEF Silent
<1>2. Conns' = Conns /\ Len(calls') = Len(calls)
  BY DEF Silent
<1> QED  BY <1>1, <1>2, Views

LEMMA BeginsView ==
  ASSUME NEW s \in Sender, Begins(s)
  PROVE  Streams!Issue
<1>1. UNCHANGED <<conn, stream>> /\ Len(calls') = Len(calls) + 1
  BY DEF Begins
<1>2. Conns' = Conns /\ \A c \in Conns : WholeOf(c)' = WholeOf(c) /\ PartialOf(c)' = PartialOf(c)
  BY <1>1, SameView DEF Conns
<1>3. Whole' = Whole /\ Partial' = Partial
  BY <1>2, Views
<1> QED  BY <1>1, <1>3 DEF Streams!Issue

LEMMA AppendIs ==
  ASSUME NEW S, NEW f \in Seq(S), NEW x \in S, NEW n \in Nat, n = Len(f) + 1
  PROVE  Append(f, x) = [i \in 1 .. n |-> IF i = n THEN x ELSE f[i]]
<1>1. /\ Append(f, x) \in Seq(S) /\ Len(Append(f, x)) = n /\ Append(f, x)[n] = x
      /\ \A i \in 1 .. Len(f) : Append(f, x)[i] = f[i]
  BY AppendFacts
<1> DEFINE g == Append(f, x)
<1>2. Append(f, x) = [i \in 1 .. n |-> Append(f, x)[i]]
  <2>1. g \in Seq(S) /\ Len(g) = n
    BY <1>1
  <2> HIDE DEF g
  <2>2. g \in [1 .. n -> S]
    BY <2>1
  <2>3. g = [i \in 1 .. n |-> g[i]]
    BY <2>2
  <2> QED  BY <2>3 DEF g
<1>3. \A i \in 1 .. n : Append(f, x)[i] = IF i = n THEN x ELSE f[i]
  BY <1>1
<1> QED  BY <1>2, <1>3

LEMMA OpensView ==
  ASSUME SendInv, Opens
  PROVE  Streams!Open
<1>1. PICK n \in Nat : n = Len(conn) + 1
  BY DEF Opens
<1>2. /\ Len(conn) \in Nat /\ Conns = 1 .. Len(conn) /\ Conns' = 1 .. n
      /\ \A c \in Conns : stream'[c] = stream[c]
      /\ stream'[n] = << >> /\ calls' = calls
  BY <1>1 DEF Opens, Conns
<1>3. \A c \in Conns : WholeOf(c)' = WholeOf(c) /\ PartialOf(c)' = PartialOf(c)
  BY <1>2, SameView
<1>4. WholeOf(n)' = << >> /\ PartialOf(n)' = 0
  <2>1. Len(stream'[n]) = 0 /\ 0 \div 2 = 0 /\ ~Odd(0)
    BY <1>2, OddFacts
  <2>2. WholeOf(n)' = [i \in 1 .. 0 |-> stream'[n][2 * i].call]
    BY <2>1 DEF WholeOf
  <2>3. [i \in 1 .. 0 |-> stream'[n][2 * i].call] = << >>
    OBVIOUS
  <2> QED  BY <2>1, <2>2, <2>3 DEF PartialOf
<1>5. \A c \in 1 .. n : /\ WholeOf(c)' = IF c = n THEN << >> ELSE WholeOf(c)
                        /\ PartialOf(c)' = IF c = n THEN 0 ELSE PartialOf(c)
  BY <1>1, <1>2, <1>3, <1>4
<1>6. /\ Whole = [c \in 1 .. Len(conn) |-> WholeOf(c)] /\ Whole' = [c \in 1 .. n |-> WholeOf(c)']
      /\ Partial = [c \in 1 .. Len(conn) |-> PartialOf(c)]
      /\ Partial' = [c \in 1 .. n |-> PartialOf(c)']
  BY <1>2, Views
<1>7. Whole' = Append(Whole, << >>)
  <2>1. \A c \in 1 .. Len(conn) : WholeOf(c) \in Seq(Nat)
    BY <1>2, WholeTyped
  <2>2. Whole \in Seq(Seq(Nat)) /\ Len(Whole) = Len(conn)
    BY <1>2, <1>6, <2>1
  <2>3. PICK e \in Seq(Nat) : e = << >>
    <3>1. << >> \in Seq(Nat)
      OBVIOUS
    <3> QED  BY <3>1, Zenon
  <2>4. Append(Whole, e) = [c \in 1 .. n |-> IF c = n THEN e ELSE Whole[c]]
    BY <1>1, <2>2, AppendIs
  <2>5. \A c \in 1 .. n : c # n => Whole[c] = WholeOf(c)
    BY <1>1, <1>2, <1>6
  <2>6. Whole' = Append(Whole, e)
    BY <1>5, <1>6, <2>3, <2>4, <2>5
  <2> QED  BY <2>3, <2>6
<1>8. Partial' = Append(Partial, 0)
  <2> DEFINE S == {PartialOf(c) : c \in 1 .. Len(conn)} \cup {0}
  <2>1. Partial \in Seq(S) /\ Len(Partial) = Len(conn) /\ 0 \in S
    BY <1>2, <1>6
  <2> HIDE DEF S
  <2>2. Append(Partial, 0) = [c \in 1 .. n |-> IF c = n THEN 0 ELSE Partial[c]]
    BY <1>1, <2>1, AppendIs
  <2>3. \A c \in 1 .. n : c # n => Partial[c] = PartialOf(c)
    BY <1>1, <1>2, <1>6
  <2> QED  BY <1>5, <1>6, <2>2, <2>3
<1> QED  BY <1>2, <1>7, <1>8 DEF Streams!Open

(* A part of a call goes into a connection: what PartSent says of it.      *)
Adds(c, m) ==
  /\ Conns' = Conns /\ calls' = calls
  /\ \A d \in Conns : d # c => stream'[d] = stream[d]
  /\ Len(stream'[c]) = Len(stream[c]) + 1 /\ stream'[c][Len(stream[c]) + 1].call = m
  /\ \A i \in 1 .. Len(stream[c]) : stream'[c][i] = stream[c][i]

LEMMA SendsAdds ==
  ASSUME SendInv, StreamsInv, NEW s \in Sender, NEW part \in {"header", "payload"}, pc[s] = part,
         Transmit(s, part), pc' = [pc EXCEPT ![s] = IF part = "header" THEN "payload" ELSE "idle"],
         NEW c \in Conns, SendsTo(s, c)
  PROVE  /\ Adds(c, call[s])
         /\ part = "header" => ~Odd(Len(stream[c]))
         /\ part = "payload" => Odd(Len(stream[c])) /\ stream[c][Len(stream[c])].call = call[s]
<1>1. (pc'[s] = "payload" <=> part = "header") /\ \A u \in Sender \ {s} : pc'[u] = pc[u]
  BY DEF SendInv, SendersTyped
<1>2. /\ Conns' = Conns /\ calls' = calls /\ \A d \in Conns : d # c => stream'[d] = stream[d]
      /\ Len(stream'[c]) = Len(stream[c]) + 1
      /\ stream'[c][Len(stream[c]) + 1].call = call[s]
      /\ \A i \in 1 .. Len(stream[c]) : stream'[c][i] = stream[c][i]
      /\ part = "header" => ~Odd(Len(stream[c]))
      /\ part = "payload" => Odd(Len(stream[c])) /\ stream[c][Len(stream[c])].call = call[s]
  BY <1>1, PartSent
<1> QED  BY <1>2 DEF Adds

(* The other connections look as before.                                   *)
LEMMA OthersView ==
  ASSUME NEW c \in Conns, NEW m, Adds(c, m)
  PROVE  /\ Conns' = Conns
         /\ \A d \in Conns : d # c => WholeOf(d)' = WholeOf(d) /\ PartialOf(d)' = PartialOf(d)
BY SameView DEF Adds

LEMMA HeaderView ==
  ASSUME SendInv, OnceInv, NEW s \in Sender, pc[s] = "header", NEW c \in Conns, Adds(c, call[s]),
         ~Odd(Len(stream[c]))
  PROVE  Streams!Begin(c)
<1> DEFINE m == call[s]
<1>1. PICK n \in Nat : n = Len(stream[c])
  BY WholeTyped
<1>2. /\ Len(stream'[c]) = n + 1 /\ stream'[c][n + 1].call = m /\ Conns' = Conns /\ calls' = calls
      /\ \A i \in 1 .. n : stream'[c][i] = stream[c][i]
  BY <1>1 DEF Adds
<1>3. ~Odd(n) /\ Odd(n + 1) /\ (n + 1) \div 2 = n \div 2 /\ n \div 2 \in Nat
      /\ \A i \in 1 .. n \div 2 : 2 * i \in 1 .. n
  BY <1>1, HalfFacts
<1>4. PartialOf(c) = 0 /\ PartialOf(c)' = m
  BY <1>1, <1>2, <1>3 DEF PartialOf
<1>5. WholeOf(c)' = WholeOf(c)
  <2>1. /\ WholeOf(c) = [i \in 1 .. n \div 2 |-> stream[c][2 * i].call]
        /\ WholeOf(c)' = [i \in 1 .. n \div 2 |-> stream'[c][2 * i].call]
    BY <1>1, <1>2, <1>3 DEF WholeOf
  <2>2. \A i \in 1 .. n \div 2 : stream'[c][2 * i] = stream[c][2 * i]
    BY <1>2, <1>3
  <2> QED  BY <2>1, <2>2
<1>6. Whole' = Whole /\ Partial[c] = 0 /\ Partial' = [Partial EXCEPT ![c] = m]
  BY <1>2, <1>4, <1>5, OthersView, Views
<1>7. m \in 1 .. Len(calls) /\ m # 0
  <2>1. call[s] \in 1 .. Len(calls)
    BY CallFacts DEF SendInv, Sending
  <2> QED  BY <2>1
<1>8. ~Streams!Started(m)
  <2>1. InCall(s) /\ pc[s] # "payload"
    BY DEF InCall, Sending
  <2>2. \A d \in Conns : \A i \in DOMAIN stream[d] : stream[d][i].call # m
    BY <2>1 DEF OnceInv
  <2>3. ASSUME NEW d \in Conns
        PROVE  PartialOf(d) # m /\ \A i \in DOMAIN WholeOf(d) : WholeOf(d)[i] # m
    <3>1. PICK l \in Nat : l = Len(stream[d])
      BY WholeTyped
    <3>2. DOMAIN stream[d] = 1 .. l
      BY <3>1 DEF SendInv, KernelTyped, Conns
    <3>3. Odd(l) => l \in 1 .. l
      BY <3>1, OddFacts
    <3>4. PartialOf(d) # m
      BY <3>1, <3>2, <3>3, <2>2, <1>7 DEF PartialOf
    <3>5. \A i \in 1 .. l \div 2 : 2 * i \in 1 .. l
      BY <3>1, HalfFacts
    <3>6. \A i \in 1 .. l \div 2 : stream[d][2 * i].call # m
      BY <3>2, <3>5, <2>2
    <3>7. WholeOf(d) = [i \in 1 .. l \div 2 |-> stream[d][2 * i].call]
      BY <3>1 DEF WholeOf
    <3> QED  BY <3>4, <3>6, <3>7
  <2>4. DOMAIN Whole = Conns /\ \A d \in Conns : Whole[d] = WholeOf(d) /\ Partial[d] = PartialOf(d)
    BY Views
  <2> QED  BY <2>3, <2>4 DEF Streams!Started
<1>9. Len(calls') = Len(calls)
  BY <1>2
<1> HIDE DEF m
<1> QED  BY <1>6, <1>7, <1>8, <1>9 DEF Streams!Begin

LEMMA PayloadView ==
  ASSUME SendInv, NEW s \in Sender, pc[s] = "payload", NEW c \in Conns, Adds(c, call[s]),
         Odd(Len(stream[c])), stream[c][Len(stream[c])].call = call[s]
  PROVE  Streams!Complete(c)
<1>1. PICK n \in Nat : n = Len(stream[c])
  BY WholeTyped
<1>2. PICK m \in Nat : m = call[s] /\ m # 0
  <2>1. call[s] \in 1 .. Len(calls) /\ Len(calls) \in Nat
    BY CallFacts DEF SendInv, Sending
  <2> QED  BY <2>1
<1>3. /\ Len(stream'[c]) = n + 1 /\ stream'[c][n + 1].call = m /\ Conns' = Conns /\ calls' = calls
      /\ \A i \in 1 .. n : stream'[c][i] = stream[c][i]
      /\ stream[c][n].call = m
  BY <1>1, <1>2 DEF Adds
<1>4. PICK h \in Nat : h = n \div 2
  BY <1>1, HalfFacts
<1>5. /\ Odd(n) /\ ~Odd(n + 1) /\ (n + 1) \div 2 = h + 1 /\ 2 * (h + 1) = n + 1
      /\ \A i \in 1 .. h : 2 * i \in 1 .. n
  BY <1>1, <1>4, HalfFacts
<1>6. PartialOf(c) = m /\ PartialOf(c)' = 0
  BY <1>1, <1>3, <1>5 DEF PartialOf
<1>7. WholeOf(c)' = Append(WholeOf(c), m)
  <2>1. /\ WholeOf(c) = [i \in 1 .. h |-> stream[c][2 * i].call]
        /\ WholeOf(c)' = [i \in 1 .. h + 1 |-> stream'[c][2 * i].call]
    BY <1>1, <1>3, <1>4, <1>5 DEF WholeOf
  <2>2. WholeOf(c) \in Seq(Nat) /\ Len(WholeOf(c)) = h
    BY <1>1, <1>4, WholeTyped
  <2>3. Append(WholeOf(c), m) = [i \in 1 .. h + 1 |-> IF i = h + 1 THEN m ELSE WholeOf(c)[i]]
    <3>1. h + 1 \in Nat
      OBVIOUS
    <3> QED  BY <2>2, <3>1, AppendIs
  <2>4. ASSUME NEW i \in 1 .. h + 1
        PROVE  stream'[c][2 * i].call = IF i = h + 1 THEN m ELSE WholeOf(c)[i]
    <3>1. CASE i = h + 1
      BY <3>1, <1>3, <1>5
    <3>2. CASE i \in 1 .. h
      <4>1. stream'[c][2 * i] = stream[c][2 * i]
        BY <3>2, <1>3, <1>5
      <4>2. WholeOf(c)[i] = stream[c][2 * i].call /\ i # h + 1
        BY <3>2, <2>1
      <4> QED  BY <4>1, <4>2
    <3> QED  BY <3>1, <3>2
  <2> QED  BY <2>1, <2>3, <2>4
<1>8. /\ Partial[c] = m /\ Partial' = [Partial EXCEPT ![c] = 0]
      /\ Whole' = [Whole EXCEPT ![c] = Append(Whole[c], m)]
  BY <1>3, <1>6, <1>7, OthersView, Views
<1>9. Len(calls') = Len(calls)
  BY <1>3
<1> QED  BY <1>2, <1>8, <1>9 DEF Streams!Complete

LEMMA StreamsStart == Init => Streams!Init
<1> SUFFICES ASSUME Init PROVE Streams!Init
  OBVIOUS
<1>1. conn = << >> /\ calls = << >> /\ Conns = {}
  BY DEF Init, Conns
<1>2. Whole = << >> /\ Partial = << >>
  <2>1. \A f : DOMAIN f = {} /\ f = [x \in {} |-> f[x]] => f = << >>
    OBVIOUS
  <2>2. Whole = [c \in {} |-> WholeOf(c)] /\ Partial = [c \in {} |-> PartialOf(c)]
    BY <1>1, Views
  <2> QED  BY <2>2
<1> QED  BY <1>1, <1>2 DEF Streams!Init

(* Whoever sends knows where, and no part goes anywhere else.              *)
Sure == \A s \in Sender : pc[s] \in {"header", "payload"} => \E c \in Conns : SendsTo(s, c)

LEMMA StreamsStep ==
  SendInv /\ OnceInv /\ StreamsInv /\ Sure /\ [Next]_vars => [Streams!Next]_(Streams!streams)
<1> SUFFICES ASSUME SendInv, OnceInv, StreamsInv, Sure, [Next]_vars
             PROVE  Streams!Next \/ UNCHANGED <<Len(calls), Whole, Partial>>
  BY DEF Streams!streams
<1>1. CASE Silent
  BY <1>1, SilentView
<1>2. CASE Opens
  BY <1>2, OpensView DEF Streams!Next
<1>3. ASSUME NEW s \in Sender, Begins(s) PROVE Streams!Next
  BY <1>3, BeginsView DEF Streams!Next
<1>4. DOMAIN Whole = Conns
  BY Views
<1>5. ASSUME NEW s \in Sender, SendHeader(s) PROVE Streams!Next
  <2>1. pc[s] = "header" /\ Transmit(s, "header") /\ pc' = [pc EXCEPT ![s] = "payload"]
    BY <1>5 DEF SendHeader
  <2>2. PICK c \in Conns : SendsTo(s, c)
    BY <2>1 DEF Sure
  <2>3. Adds(c, call[s]) /\ ~Odd(Len(stream[c]))
    BY <2>1, <2>2, SendsAdds
  <2>4. Streams!Begin(c)
    BY <2>1, <2>3, HeaderView
  <2> QED  BY <1>4, <2>4 DEF Streams!Next
<1>6. ASSUME NEW s \in Sender, SendPayload(s) PROVE Streams!Next
  <2>1. pc[s] = "payload" /\ Transmit(s, "payload") /\ pc' = [pc EXCEPT ![s] = "idle"]
    BY <1>6 DEF SendPayload
  <2>2. PICK c \in Conns : SendsTo(s, c)
    BY <2>1 DEF Sure
  <2>3. Adds(c, call[s]) /\ Odd(Len(stream[c])) /\ stream[c][Len(stream[c])].call = call[s]
    BY <2>1, <2>2, SendsAdds
  <2>4. Streams!Complete(c)
    BY <2>1, <2>3, PayloadView
  <2> QED  BY <1>4, <2>4 DEF Streams!Next
<1> QED  BY <1>1, <1>2, <1>3, <1>5, <1>6, StepKinds

(* In either use send_data gives its users what they expect of it: each    *)
(* message goes into one connection, once and in one piece.                *)
THEOREM SendPathImplementsStreams ==
  ASSUME ThreadsUse \/ ServerUse
  PROVE  Spec => ImplementsStreams
<1>1. SendInv /\ UseInv => StreamsInv /\ Sure
  BY UseSends DEF UseInv, StreamsInv, Sure
<1>2. ServerUse /\ SendInv /\ ServerInv /\ ServerSending => Sure
  BY ServerFacts, ServerSends DEF Sure
<1>3. CASE ThreadsUse
  BY <1>1, <1>3, SendPathInvariant, InitUse, NextUse, InitOnce, NextOnce, StreamsStart,
     StreamsStep, PTL DEF Spec, ImplementsStreams, Streams!Spec
<1>4. CASE ServerUse
  BY <1>2, <1>4, SendPathInvariant, InitServer, NextServer, InitServerStreams,
     NextServerStreams, InitOnce, NextOnce, StreamsStart, StreamsStep, PTL DEF Spec, ImplementsStreams, Streams!Spec
<1> QED  BY <1>3, <1>4
=============================================================================
