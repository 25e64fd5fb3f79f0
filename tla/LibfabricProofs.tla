-------------------------- MODULE LibfabricProofs ---------------------------
(***************************************************************************)
(* Theorems about LibfabricInit, for every set of handles and modes and    *)
(* any number of events.                                                   *)
(***************************************************************************)
EXTENDS LibfabricInit, SequenceTheorems, TLAPS

(* The chains are sequences of calls.                                      *)
LEMMA ListenCallsType == ListenCalls \in Seq(Calls)
  BY DEF ListenCalls, Calls

LEMMA ConnectCallsType == ConnectCalls \in Seq(Calls)
  BY DEF ConnectCalls, Calls

LEMMA LastCallsType == LastCalls \in Seq(Calls)
  BY DEF LastCalls, Calls

LEMMA SendCallsType ==
  ASSUME NEW n
  PROVE  SendCalls(n) \in Seq(Calls)
<1>1. <<"fabric", "domain">> \in Seq(Calls) /\ << >> \in Seq(Calls)
  BY DEF Calls
<1>2. \A first \in Seq(Calls) : first \o ConnectCalls \o LastCalls \in Seq(Calls)
  BY ConnectCallsType, LastCallsType
<1> QED  BY <1>1, <1>2 DEF SendCalls

LEMMA RestType ==
  ASSUME NEW S, NEW s \in Seq(S), s # << >>
  PROVE  /\ Head(s) \in S /\ Tail(s) \in Seq(S)
         /\ Len(Tail(s)) = Len(s) - 1
         /\ \A i \in 1 .. Len(s) - 1 : Tail(s)[i] = s[i + 1]
  OBVIOUS

LEMMA MaxRaisedType == MaxRaised \in Nat
  BY LibfabricAssumption DEF LibfabricAssumption

LEMMA KeyOfType == \A h \in Handle : KeyOf(h) \in Keys
  BY DEF Keys

LEMMA StdinIsNoKey == Stdin \notin Keys
  BY DEF Stdin, Keys, KeyOf

-----------------------------------------------------------------------------
LEMMA InitTypeOK == Init => TypeOK
<1> SUFFICES ASSUME Init PROVE TypeOK
  OBVIOUS
<1>1. DOMAIN entry = {} /\ todo \in Seq(Calls)
  <2>1. entry = << >> /\ todo = << >>
    BY DEF Init
  <2> QED  BY <2>1
<1>2. pending \in [Keys -> CmEvents \cup {"none"}]
  BY DEF Init
<1>3. raised \in 0 .. MaxRaised
  BY MaxRaisedType DEF Init
<1> QED  BY <1>1, <1>2, <1>3 DEF Init, TypeOK

LEMMA ConstructTypeOK == TypeOK /\ Construct => TypeOK'
  BY DEF TypeOK, Construct, ProcessEnds, sockets, events, evloop, Done

LEMMA BeginTypeOK ==
  ASSUME TypeOK, NEW h \in Handle, Begin(h)
  PROVE  TypeOK'
<1> DEFINE key == KeyOf(h)
<1>1. key \in Keys
  BY KeyOfType
<1>2. todo' \in Seq(Calls)
  <2>1. <<"getinfo">> \in Seq(Calls)
    BY DEF Calls
  <2> QED  BY <2>1, ListenCallsType DEF Begin
<1> HIDE DEF key
<1>3. /\ entry' = [k \in DOMAIN entry \cup {key} |-> IF k = key THEN {} ELSE entry[k]]
      /\ cur' = key
  BY DEF Begin, key
<1>4. DOMAIN entry' \subseteq Keys /\ \A k \in DOMAIN entry' : entry'[k] \subseteq Calls
  BY <1>1, <1>3 DEF TypeOK
<1> QED  BY <1>1, <1>2, <1>3, <1>4 DEF TypeOK, Begin, events, evloop

LEMMA SucceedsTypeOK == TypeOK /\ Succeeds => TypeOK'
<1> SUFFICES ASSUME TypeOK, Succeeds PROVE TypeOK'
  OBVIOUS
<1>1. Head(todo) \in Calls /\ Tail(todo) \in Seq(Calls)
  BY RestType DEF TypeOK, Succeeds
<1>2. DOMAIN entry' \subseteq Keys /\ \A k \in DOMAIN entry' : entry'[k] \subseteq Calls
  <2> DEFINE call == Head(todo)
  <2>1. call \in Calls
    BY <1>1
  <2>2. entry' = [entry EXCEPT ![cur] = @ \cup {call}]
    BY DEF Succeeds
  <2> HIDE DEF call
  <2> QED  BY <2>1, <2>2 DEF TypeOK
<1>3. nbSockets' \in Nat /\ todo' \in Seq(Calls)
  <2>1. nbSockets \in Nat
    BY DEF TypeOK
  <2> QED  BY <1>1, <2>1, SendCallsType DEF Succeeds
<1> QED  BY <1>2, <1>3 DEF TypeOK, Succeeds, events, evloop

LEMMA FailsTypeOK == TypeOK /\ Fails => TypeOK'
<1> SUFFICES ASSUME TypeOK, Fails PROVE TypeOK'
  OBVIOUS
<1>1. todo' \in Seq(Calls)
  <2>1. todo' = LastCalls \/ todo' = << >>
    BY DEF Fails
  <2>2. << >> \in Seq(Calls)
    OBVIOUS
  <2> QED  BY <2>1, <2>2, LastCallsType
<1>2. pc' \in {"idle", "call"}
  BY DEF Fails, TypeOK
<1> QED  BY <1>1, <1>2 DEF TypeOK, Fails, sockets, events, evloop

LEMMA RegisterTypeOK == TypeOK /\ Register => TypeOK'
<1> SUFFICES ASSUME TypeOK, Register PROVE TypeOK'
  OBVIOUS
<1>1. watched' \subseteq Keys \cup {Stdin}
  BY DEF TypeOK, Register, Registered
<1> QED  BY <1>1 DEF TypeOK, Register, sockets, events, evloop

LEMMA NextTypeOK == TypeOK /\ [Next]_vars => TypeOK'
<1> SUFFICES ASSUME TypeOK, [Next]_vars PROVE TypeOK'
  OBVIOUS
<1>1. ASSUME NEW h \in Handle, Exists(h) PROVE TypeOK'
  BY <1>1 DEF TypeOK, Exists, vars, sockets, app, events, evloop
<1>2. CASE Crashes
  BY <1>2 DEF TypeOK, Crashes, ProcessEnds, sockets, events, evloop
<1>3. CASE Run
  BY <1>3 DEF TypeOK, Run, sockets, app, events, evloop
<1>4. CASE Destroy
  BY <1>4 DEF TypeOK, Destroy, sockets, events, evloop
<1>5. CASE LoopEnds
  BY <1>5 DEF TypeOK, LoopEnds, ProcessEnds, sockets, events, evloop
<1>6. ASSUME NEW k \in Keys, OnListenSocketEvent(k) PROVE TypeOK'
  BY <1>6 DEF TypeOK, OnListenSocketEvent, ProcessEnds, sockets, evloop
<1>7. ASSUME NEW k \in Keys, NEW e \in CmEvents, Raise(k, e) PROVE TypeOK'
  <2>1. raised' \in 0 .. MaxRaised
    BY <1>7, MaxRaisedType DEF TypeOK, Raise
  <2>2. pending' \in [Keys -> CmEvents \cup {"none"}]
    BY <1>7 DEF TypeOK, Raise
  <2> QED  BY <1>7, <2>1, <2>2 DEF TypeOK, Raise, sockets, evloop, app
<1>8. CASE UNCHANGED vars
  BY <1>8 DEF TypeOK, vars, sockets, app, events, evloop
<1> QED
  BY <1>1, <1>2, <1>3, <1>4, <1>5, <1>6, <1>7, <1>8, ConstructTypeOK, BeginTypeOK,
     SucceedsTypeOK, FailsTypeOK, RegisterTypeOK DEF Next

(* The state keeps its types: a chain never names a call that is not one,  *)
(* and register_handle never works on a key that has no entry.             *)
THEOREM LibfabricTypeOK == Spec => []TypeOK
  BY InitTypeOK, NextTypeOK, PTL DEF Spec

-----------------------------------------------------------------------------
(* The strengthening of WatchedIsComplete: what a chain has still to do    *)
(* tells what it has done.                                                 *)

Complete(k) ==
  IF Listens(k) THEN \A i \in DOMAIN ListenCalls : ListenCalls[i] \in Done(k)
                ELSE {"eq_open", "getwait"} \subseteq Done(k)

(* A call of init_listen is done or to do, and the last one is done last.  *)
ListenChain ==
  /\ \A i \in 1 .. Len(todo) : todo[i] # "getwait_again"
  /\ \A i \in DOMAIN ListenCalls :
       ListenCalls[i] \in entry[cur] \/ \E j \in 1 .. Len(todo) : todo[j] = ListenCalls[i]
  /\ \A i \in 1 .. Len(todo) : todo[i] = "getwait" => i = Len(todo)
  /\ "getwait" \in entry[cur] => todo = << >>

(* Nobody asks for the descriptor of a queue that is not open.             *)
SendChain ==
  \/ "eq_open" \in entry[cur]
  \/ \A i \in 1 .. Len(todo) :
       todo[i] = "getwait" => \E j \in 1 .. i - 1 : todo[j] = "eq_open"

WatchedInv ==
  /\ watched \ {Stdin} \subseteq DOMAIN entry
  /\ \A k \in watched \ {Stdin} : Complete(k)
  /\ \A k \in DOMAIN entry : Listens(k) /\ "getwait" \in entry[k] =>
       \/ k \in watched \cup neglected \/ pc = "ended"
       \/ pc = "call" /\ cur = k /\ todo = << >>
  /\ \A k \in DOMAIN entry : ~Listens(k) /\ "getwait" \in entry[k] => "eq_open" \in entry[k]
  /\ pc = "call" => IF Listens(cur) THEN ListenChain ELSE SendChain

LEMMA ListenCallsFacts ==
  /\ DOMAIN ListenCalls = 1 .. 7 /\ Len(ListenCalls) = 7
  /\ \A i \in 1 .. 7 : ListenCalls[i] # "getwait_again"
  /\ \A i \in 1 .. 7 : ListenCalls[i] = "getwait" <=> i = 7
  BY DEF ListenCalls

LEMMA LastCallsFacts ==
  /\ Len(LastCalls) = 2
  /\ \A i \in 1 .. 2 : LastCalls[i] # "getwait"
  BY DEF LastCalls

LEMMA ConnectCallsFacts ==
  Len(ConnectCalls) = 9 /\ ConnectCalls[1] = "eq_open"
  BY DEF ConnectCalls

LEMMA ConcatThreeFacts ==
  ASSUME NEW S, NEW a \in Seq(S), NEW b \in Seq(S), NEW c \in Seq(S), Len(b) = 9
  PROVE  /\ \A j \in 1 .. Len(a) : (a \o b \o c)[j] = a[j]
         /\ (a \o b \o c)[Len(a) + 1] = b[1]
         /\ Len(a \o b \o c) \in Nat
<1> DEFINE d == a \o b
<1>1. d \in Seq(S) /\ Len(d) = Len(a) + 9 /\ Len(a) \in Nat
  <2>1. d \in Seq(S) /\ Len(d) = Len(a) + Len(b)
    BY ConcatProperties, Zenon
  <2>2. Len(a) \in Nat
    OBVIOUS
  <2> QED  BY <2>1, <2>2
<1>2. /\ \A j \in 1 .. Len(a) : d[j] = a[j]
      /\ d[Len(a) + 1] = b[1]
  <2>1. \A j \in 1 .. Len(a) + Len(b) : d[j] = IF j <= Len(a) THEN a[j] ELSE b[j - Len(a)]
    BY ConcatProperties, Zenon
  <2> QED  BY <1>1, <2>1
<1> HIDE DEF d
<1>3. /\ Len(d \o c) \in Nat
      /\ \A j \in 1 .. Len(d) : (d \o c)[j] = d[j]
  <2>1. Len(c) \in Nat
    OBVIOUS
  <2>2. d \in Seq(S)
    BY <1>1
  <2>3. /\ Len(d \o c) = Len(d) + Len(c)
        /\ \A j \in 1 .. Len(d) + Len(c) :
             (d \o c)[j] = IF j <= Len(d) THEN d[j] ELSE c[j - Len(d)]
    BY <2>2, ConcatProperties, Zenon
  <2> QED  BY <1>1, <2>1, <2>3
<1>4. Len(a) + 1 \in 1 .. Len(d)
  BY <1>1
<1>5. \A j \in 1 .. Len(a) : j \in 1 .. Len(d)
  BY <1>1
<1> QED  BY <1>2, <1>3, <1>4, <1>5 DEF d

LEMMA SendCallsFacts ==
  ASSUME NEW n, NEW i \in 1 .. Len(SendCalls(n)), SendCalls(n)[i] = "getwait"
  PROVE  \E j \in 1 .. i - 1 : SendCalls(n)[j] = "eq_open"
<1> DEFINE first == IF n > 1 THEN <<"fabric", "domain">> ELSE << >>
           s == first \o ConnectCalls \o LastCalls
<1>1. /\ first \in Seq(Calls) /\ Len(first) \in 0 .. 2
      /\ \A j \in 1 .. Len(first) : first[j] # "getwait"
  <2>1. CASE n > 1
    BY <2>1 DEF Calls
  <2>2. CASE ~(n > 1)
    BY <2>2
  <2> QED  BY <2>1, <2>2
<1>2. s = SendCalls(n)
  BY DEF SendCalls
<1> HIDE DEF first
<1>3. /\ \A j \in 1 .. Len(first) : s[j] = first[j]
      /\ s[Len(first) + 1] = ConnectCalls[1]
      /\ Len(s) \in Nat
  BY <1>1, ConcatThreeFacts, ConnectCallsType, LastCallsType, ConnectCallsFacts
<1> HIDE DEF s
<1>4. s[Len(first) + 1] = "eq_open"
  BY <1>3, ConnectCallsFacts
<1>5. i \notin 1 .. Len(first) /\ i # Len(first) + 1 /\ i \in Int
  BY <1>1, <1>2, <1>3, <1>4
<1> QED  BY <1>1, <1>2, <1>4, <1>5

LEMMA InitWatched == Init => WatchedInv
<1> SUFFICES ASSUME Init PROVE WatchedInv
  OBVIOUS
<1>1. entry = << >> /\ watched = {} /\ pc = "new"
  BY DEF Init
<1>2. DOMAIN entry = {}
  BY <1>1
<1> QED  BY <1>1, <1>2 DEF WatchedInv

(* Steps that touch neither the maps nor the chain at hand.                *)
LEMMA OtherWatched ==
  ASSUME WatchedInv, UNCHANGED <<entry, cur, todo, evloop>>,
         pc' = pc \/ pc' = "ended" \/ (pc \notin {"call", "ended"} /\ pc' # "call")
  PROVE  WatchedInv'
<1>1. \A k : Complete(k)' <=> Complete(k)
  BY DEF Complete, Done, evloop
<1>2. (ListenChain' <=> ListenChain) /\ (SendChain' <=> SendChain)
  BY DEF ListenChain, SendChain
<1> QED  BY <1>1, <1>2 DEF WatchedInv, evloop

LEMMA BeginWatched ==
  ASSUME TypeOK, WatchedInv, NEW h \in Handle, Begin(h)
  PROVE  WatchedInv'
<1> DEFINE key == KeyOf(h)
<1>1. key \in Keys /\ key # Stdin
  BY KeyOfType, StdinIsNoKey
<1>2. /\ key \notin DOMAIN entry /\ pc = "idle" /\ pc' = "call" /\ cur' = key
      /\ entry' = [k \in DOMAIN entry \cup {key} |-> IF k = key THEN {} ELSE entry[k]]
      /\ todo' = IF Listens(key) THEN ListenCalls ELSE <<"getinfo">>
      /\ watched' = watched /\ neglected' = neglected
  BY DEF Begin, evloop
<1> HIDE DEF key
<1>3. /\ DOMAIN entry' = DOMAIN entry \cup {key} /\ entry'[key] = {}
      /\ \A k \in DOMAIN entry : entry'[k] = entry[k]
  BY <1>2
<1>4. key \notin watched
  BY <1>1, <1>2 DEF WatchedInv
<1>5. \A k \in watched' \ {Stdin} : Complete(k)'
  <2>1. \A k \in watched' \ {Stdin} : Done(k)' = Done(k)
    BY <1>2, <1>3 DEF WatchedInv, Done
  <2> QED  BY <1>2, <2>1 DEF WatchedInv, Complete
<1>6. \A k \in DOMAIN entry' : Listens(k) /\ "getwait" \in entry'[k] =>
        k \in watched' \cup neglected'
  BY <1>2, <1>3 DEF WatchedInv
<1>7. \A k \in DOMAIN entry' :
        ~Listens(k) /\ "getwait" \in entry'[k] => "eq_open" \in entry'[k]
  BY <1>3 DEF WatchedInv
<1>8. IF Listens(cur') THEN ListenChain' ELSE SendChain'
  <2>1. CASE Listens(key)
    BY <2>1, <1>2, <1>3, ListenCallsFacts DEF ListenChain
  <2>2. CASE ~Listens(key)
    BY <2>2, <1>2 DEF SendChain
  <2> QED  BY <2>1, <2>2, <1>2
<1>9. watched' \ {Stdin} \subseteq DOMAIN entry'
  BY <1>2, <1>3 DEF WatchedInv
<1> QED  BY <1>5, <1>6, <1>7, <1>8, <1>9 DEF WatchedInv

LEMMA SucceedsWatched ==
  ASSUME TypeOK, WatchedInv, Succeeds
  PROVE  WatchedInv'
<1> DEFINE call == Head(todo)
           rest == Tail(todo)
<1>1. /\ todo \in Seq(Calls) /\ todo # << >> /\ pc = "call" /\ pc' = "call" /\ cur' = cur
      /\ cur \in DOMAIN entry /\ watched' = watched /\ neglected' = neglected
      /\ entry' = [entry EXCEPT ![cur] = @ \cup {call}]
  BY DEF TypeOK, Succeeds, evloop
<1>2. /\ call = todo[1] /\ rest \in Seq(Calls) /\ Len(rest) = Len(todo) - 1 /\ Len(todo) \in Nat
      /\ \A i \in 1 .. Len(rest) : rest[i] = todo[i + 1]
  BY <1>1, RestType
<1>3. IF ~Listens(cur) /\ call = "getinfo" THEN \E n : todo' = SendCalls(n) ELSE todo' = rest
  BY DEF Succeeds
<1> HIDE DEF call, rest
<1>4. /\ DOMAIN entry' = DOMAIN entry /\ entry'[cur] = entry[cur] \cup {call}
      /\ \A k \in DOMAIN entry \ {cur} : entry'[k] = entry[k]
  BY <1>1
<1>5. \A k \in watched' \ {Stdin} : Complete(k)'
  <2>1. \A k : Done(k) \subseteq Done(k)'
    BY <1>1, <1>4 DEF Done
  <2>2. \A k : Complete(k) => Complete(k)'
    BY <2>1 DEF Complete
  <2> QED  BY <1>1, <2>2 DEF WatchedInv
<1>6. Listens(cur) => ListenChain'
  <2> SUFFICES ASSUME Listens(cur) PROVE ListenChain'
    OBVIOUS
  <2>1. ListenChain /\ todo' = rest
    BY <1>1, <1>3 DEF WatchedInv
  <2>2. \A i \in 1 .. Len(todo') : todo'[i] # "getwait_again"
    BY <1>2, <2>1 DEF ListenChain
  <2>3. ASSUME NEW i \in DOMAIN ListenCalls, ListenCalls[i] \notin entry'[cur']
        PROVE  \E j \in 1 .. Len(todo') : todo'[j] = ListenCalls[i]
    <3>1. PICK j \in 1 .. Len(todo) : todo[j] = ListenCalls[i]
      BY <1>1, <1>4, <2>1, <2>3 DEF ListenChain
    <3>2. j # 1
      BY <1>1, <1>2, <1>4, <2>3, <3>1
    <3>3. j - 1 \in 1 .. Len(rest) /\ rest[j - 1] = todo[j]
      BY <1>2, <3>2
    <3> QED  BY <2>1, <3>1, <3>3
  <2>4. \A i \in 1 .. Len(todo') : todo'[i] = "getwait" => i = Len(todo')
    BY <1>2, <2>1 DEF ListenChain
  <2>5. ASSUME "getwait" \in entry'[cur'] PROVE todo' = << >>
    <3>1. call = "getwait"
      BY <1>1, <1>4, <2>1, <2>5 DEF ListenChain
    <3>2. 1 \in 1 .. Len(todo)
      BY <1>1
    <3>3. Len(todo) = 1
      BY <1>2, <2>1, <3>1, <3>2 DEF ListenChain
    <3> QED  BY <1>2, <2>1, <3>3
  <2> QED  BY <2>2, <2>3, <2>4, <2>5 DEF ListenChain
<1>7. ~Listens(cur) => SendChain'
  <2> SUFFICES ASSUME ~Listens(cur), "eq_open" \notin entry'[cur'],
                      NEW i \in 1 .. Len(todo'), todo'[i] = "getwait"
               PROVE  \E j \in 1 .. i - 1 : todo'[j] = "eq_open"
    BY DEF SendChain
  <2>1. CASE call = "getinfo"
    BY <1>3, <2>1, SendCallsFacts
  <2>2. CASE call # "getinfo"
    <3>1. todo' = rest /\ i + 1 \in 1 .. Len(todo) /\ todo[i + 1] = "getwait"
      BY <1>2, <1>3, <2>2
    <3>2. SendChain /\ "eq_open" \notin entry[cur] /\ call # "eq_open"
      BY <1>1, <1>4 DEF WatchedInv
    <3>3. PICK j \in 1 .. i : todo[j] = "eq_open"
      <4>1. \E j \in 1 .. (i + 1) - 1 : todo[j] = "eq_open"
        BY <3>1, <3>2 DEF SendChain
      <4>2. i \in Int
        OBVIOUS
      <4> QED  BY <4>1, <4>2
    <3>4. j # 1
      BY <1>2, <3>2, <3>3
    <3>5. j - 1 \in 1 .. i - 1 /\ rest[j - 1] = todo[j]
      BY <1>2, <3>1, <3>4
    <3> QED  BY <3>1, <3>3, <3>5
  <2> QED  BY <2>1, <2>2
<1>8. \A k \in DOMAIN entry' : Listens(k) /\ "getwait" \in entry'[k] =>
        \/ k \in watched' \cup neglected' \/ pc' = "ended"
        \/ pc' = "call" /\ cur' = k /\ todo' = << >>
  <2> TAKE k \in DOMAIN entry'
  <2>1. CASE k = cur
    BY <1>1, <1>6, <2>1 DEF ListenChain
  <2>2. CASE k # cur
    BY <1>1, <1>4, <2>2 DEF WatchedInv
  <2> QED  BY <2>1, <2>2
<1>9. ASSUME NEW k \in DOMAIN entry', ~Listens(k), "getwait" \in entry'[k]
      PROVE  "eq_open" \in entry'[k]
  <2>1. CASE k # cur \/ "getwait" \in entry[k]
    BY <1>4, <1>9, <2>1 DEF WatchedInv
  <2>2. CASE k = cur /\ "getwait" \notin entry[k]
    <3>1. todo[1] = "getwait" /\ 1 \in 1 .. Len(todo)
      BY <1>1, <1>2, <1>4, <1>9, <2>2
    <3>2. "eq_open" \in entry[cur]
      BY <1>1, <1>9, <2>2, <3>1 DEF WatchedInv, SendChain
    <3> QED  BY <1>4, <2>2, <3>2
  <2> QED  BY <2>1, <2>2
<1> QED  BY <1>1, <1>4, <1>5, <1>6, <1>7, <1>8, <1>9 DEF WatchedInv


LEMMA FailsWatched ==
  ASSUME TypeOK, WatchedInv, Fails
  PROVE  WatchedInv'
<1>1. /\ todo \in Seq(Calls) /\ todo # << >> /\ pc = "call" /\ cur' = cur
      /\ entry' = entry /\ watched' = watched /\ neglected' = neglected
  BY DEF TypeOK, Fails, sockets, evloop
<1>2. \A k : Complete(k)' <=> Complete(k)
  BY <1>1 DEF Complete, Done
<1>3. Head(todo) = todo[1] /\ 1 \in 1 .. Len(todo)
  BY <1>1
<1>4. CASE Listens(cur)
  <2>1. pc' = "idle"
    BY <1>1, <1>3, <1>4 DEF Fails, InConnectEndpoint, WatchedInv, ListenChain
  <2>2. "getwait" \notin entry[cur]
    BY <1>1, <1>4 DEF WatchedInv, ListenChain
  <2> QED  BY <1>1, <1>2, <2>1, <2>2 DEF WatchedInv
<1>5. CASE ~Listens(cur)
  <2>1. \A i \in 1 .. Len(todo') : todo'[i] # "getwait"
    <3>1. todo' = LastCalls \/ todo' = << >>
      BY DEF Fails
    <3> QED  BY <3>1, LastCallsFacts
  <2>2. SendChain'
    BY <2>1 DEF SendChain
  <2> QED  BY <1>1, <1>2, <1>5, <2>2 DEF WatchedInv
<1> QED  BY <1>4, <1>5

LEMMA RegisterWatched ==
  ASSUME TypeOK, WatchedInv, Register
  PROVE  WatchedInv'
<1>1. /\ pc = "call" /\ pc' = "idle" /\ todo = << >> /\ cur \in DOMAIN entry
      /\ entry' = entry
      /\ \/ watched' = watched \cup Registered /\ neglected' = neglected
         \/ watched' = watched /\ neglected' = neglected \cup {cur}
  BY DEF TypeOK, Register, sockets, evloop
<1>2. \A k : Complete(k)' <=> Complete(k)
  BY <1>1 DEF Complete, Done
<1>3. Registered \subseteq {cur, Stdin}
  BY DEF Registered
<1>4. cur \in Registered /\ cur # Stdin => Complete(cur)
  <2>1. CASE Listens(cur)
    <3>1. \A i \in DOMAIN ListenCalls : ListenCalls[i] \in entry[cur]
      BY <1>1, <2>1 DEF WatchedInv, ListenChain
    <3> QED  BY <1>1, <2>1, <3>1 DEF Complete, Done
  <2>2. CASE ~Listens(cur)
    BY <1>1, <2>2 DEF WatchedInv, Registered, Complete, Done
  <2> QED  BY <2>1, <2>2
<1>5. \A k \in watched' \ {Stdin} : Complete(k)' /\ k \in DOMAIN entry'
  BY <1>1, <1>2, <1>3, <1>4 DEF WatchedInv
<1>6. /\ Listens(cur) => cur \in watched' \cup neglected'
      /\ watched \cup neglected \subseteq watched' \cup neglected'
  BY <1>1 DEF Registered
<1> QED  BY <1>1, <1>5, <1>6 DEF WatchedInv

LEMMA NextWatched ==
  ASSUME TypeOK, WatchedInv, [Next]_vars
  PROVE  WatchedInv'
<1>1. ASSUME \/ Construct \/ (\E h \in Handle : Exists(h)) \/ Crashes \/ Run \/ Destroy \/ LoopEnds
             \/ (\E k \in Keys : OnListenSocketEvent(k) \/ \E e \in CmEvents : Raise(k, e))
             \/ UNCHANGED vars
      PROVE  /\ UNCHANGED <<entry, cur, todo, evloop>>
             /\ pc' = pc \/ pc' = "ended" \/ (pc \notin {"call", "ended"} /\ pc' # "call")
  BY <1>1 DEF Construct, Exists, Crashes, Run, Destroy, LoopEnds, OnListenSocketEvent, Raise,
              ProcessEnds, vars, sockets, app, events, evloop
<1> QED
  BY <1>1, OtherWatched, BeginWatched, SucceedsWatched, FailsWatched, RegisterWatched DEF Next

(* A loop that watches a listening socket can use all of it, and nobody    *)
(* listens without being watched unless FI_GETWAIT failed in between or     *)
(* epoll refused the queue.                                                *)
THEOREM LibfabricWatchedIsComplete == Spec => []WatchedIsComplete
<1>1. TypeOK /\ WatchedInv => WatchedIsComplete
  <2> SUFFICES ASSUME TypeOK, WatchedInv PROVE WatchedIsComplete
    OBVIOUS
  <2>1. \A k \in watched \ {Stdin} :
          IF Listens(k) THEN \A i \in DOMAIN ListenCalls : ListenCalls[i] \in Done(k)
                        ELSE {"eq_open", "getwait"} \subseteq Done(k)
    BY DEF WatchedInv, Complete
  <2>2. ASSUME pc = "idle", NEW k \in Keys, Listens(k), {"listen", "getwait"} \subseteq Done(k)
        PROVE  k \in watched \cup neglected
    BY <2>2 DEF WatchedInv, Done
  <2> QED  BY <2>1, <2>2 DEF WatchedIsComplete
<1> QED  BY <1>1, InitTypeOK, NextTypeOK, InitWatched, NextWatched, PTL DEF Spec

-----------------------------------------------------------------------------
(* The refinement of Registration: a step changes the status of one key at *)
(* most, and only from "new".                                              *)

LEMMA OneSettles ==
  ASSUME NEW key \in Keys,
         \A k \in Keys \ {key} : (Ready(k)' <=> Ready(k)) /\ (Dead(k)' <=> Dead(k)),
         Ready(key) => Ready(key)', Dead(key) => Dead(key)'
  PROVE  User!Next \/ UNCHANGED Status
<1>1. \A k \in Keys : ~(Ready(k) /\ Dead(k)) /\ ~(Ready(k) /\ Dead(k))'
  BY DEF Dead
<1>2. /\ Status \in [Keys -> {"new", "ready", "dead"}] /\ Status' \in [Keys -> {"new", "ready", "dead"}]
      /\ \A k \in Keys \ {key} : Status'[k] = Status[k]
      /\ Status[key] # "new" => Status'[key] = Status[key]
  BY <1>1 DEF Status
<1> DEFINE old == Status
           new == Status'
<1> HIDE DEF old, new
<1>3. /\ old \in [Keys -> {"new", "ready", "dead"}] /\ new \in [Keys -> {"new", "ready", "dead"}]
      /\ \A k \in Keys \ {key} : new[k] = old[k]
  BY <1>2 DEF old, new
<1>4. CASE new[key] = old[key]
  <2>1. new = old
    BY <1>3, <1>4
  <2> QED  BY <2>1 DEF old, new
<1>5. CASE new[key] # old[key]
  <2>1. new = [old EXCEPT ![key] = new[key]]
    BY <1>3
  <2>2. old[key] = "new" /\ new[key] \in {"ready", "dead"}
    BY <1>2, <1>3, <1>5 DEF old, new
  <2>3. User!Settle(key)
    BY <2>1, <2>2 DEF User!Settle, old, new
  <2> QED  BY <2>3 DEF User!Next
<1> QED  BY <1>4, <1>5

(* Steps that change neither the maps nor what is watched.                 *)
LEMMA OtherSettles ==
  ASSUME TypeOK, UNCHANGED <<entry, cur, evloop>>,
         pc = "call" \/ pc' # "call"
  PROVE  User!Next \/ UNCHANGED Status
<1>1. \A k : Ready(k)' <=> Ready(k)
  BY DEF Ready, Done, evloop
<1>2. CASE pc = "call"
  <2>1. cur \in Keys
    BY <1>2 DEF TypeOK
  <2>2. \A k \in Keys \ {cur} : Dead(k)' <=> Dead(k)
    BY <1>1, <1>2 DEF Dead
  <2>3. Dead(cur) => Dead(cur)'
    BY <1>2 DEF Dead
  <2> QED  BY <1>1, <2>1, <2>2, <2>3, OneSettles
<1>3. CASE pc # "call"
  <2>1. \A k : Dead(k)' <=> Dead(k)
    BY <1>1, <1>3 DEF Dead
  <2> QED  BY <1>1, <2>1 DEF Status
<1> QED  BY <1>2, <1>3

LEMMA BeginSettles ==
  ASSUME TypeOK, WatchedInv, NEW h \in Handle, Begin(h)
  PROVE  User!Next \/ UNCHANGED Status
<1> DEFINE key == KeyOf(h)
<1>1. key \in Keys /\ key # Stdin
  BY KeyOfType, StdinIsNoKey
<1>2. /\ key \notin DOMAIN entry /\ pc = "idle" /\ pc' = "call" /\ cur' = key
      /\ entry' = [k \in DOMAIN entry \cup {key} |-> IF k = key THEN {} ELSE entry[k]]
      /\ watched' = watched /\ neglected' = neglected
  BY DEF Begin, evloop
<1> HIDE DEF key
<1>3. \A k \in Keys : Done(k)' = Done(k) /\ (Ready(k)' <=> Ready(k))
  BY <1>2 DEF Done, Ready
<1>4. \A k \in Keys \ {key} : k \in DOMAIN entry' <=> k \in DOMAIN entry
  BY <1>2
<1>5. \A k \in Keys \ {key} : Dead(k)' <=> Dead(k)
  BY <1>2, <1>3, <1>4 DEF Dead
<1>6. ~Dead(key)
  BY <1>2 DEF Dead
<1> QED  BY <1>1, <1>3, <1>5, <1>6, OneSettles

LEMMA SucceedsSettles ==
  ASSUME TypeOK, Succeeds
  PROVE  User!Next \/ UNCHANGED Status
<1> DEFINE call == Head(todo)
<1>1. /\ pc = "call" /\ pc' = "call" /\ cur' = cur /\ cur \in DOMAIN entry /\ cur \in Keys
      /\ watched' = watched /\ entry' = [entry EXCEPT ![cur] = @ \cup {call}]
  BY DEF TypeOK, Succeeds, evloop
<1> HIDE DEF call
<1>2. /\ DOMAIN entry' = DOMAIN entry /\ Done(cur) \subseteq Done(cur)'
      /\ \A k \in Keys \ {cur} : Done(k)' = Done(k)
  BY <1>1 DEF Done
<1>3. /\ \A k \in Keys \ {cur} : Ready(k)' <=> Ready(k)
      /\ Ready(cur) => Ready(cur)'
  BY <1>1, <1>2 DEF Ready
<1>4. \A k \in Keys \ {cur} : Dead(k)' <=> Dead(k)
  BY <1>1, <1>2, <1>3 DEF Dead
<1>5. ~Dead(cur)
  BY <1>1 DEF Dead
<1> QED  BY <1>1, <1>3, <1>4, <1>5, OneSettles

LEMMA RegisterSettles ==
  ASSUME TypeOK, Register
  PROVE  User!Next \/ UNCHANGED Status
<1>1. /\ pc = "call" /\ pc' = "idle" /\ cur' = cur /\ cur \in Keys
      /\ entry' = entry
      /\ \/ watched' = watched \cup Registered /\ neglected' = neglected
         \/ watched' = watched /\ neglected' = neglected \cup {cur}
  BY DEF TypeOK, Register, sockets, evloop
<1>2. Registered \subseteq {cur, Stdin}
  BY DEF Registered
<1>3. /\ \A k \in Keys \ {cur} : Ready(k)' <=> Ready(k)
      /\ Ready(cur) => Ready(cur)'
  BY <1>1, <1>2, StdinIsNoKey DEF Ready, Done
<1>4. \A k \in Keys \ {cur} : Dead(k)' <=> Dead(k)
  BY <1>1, <1>3 DEF Dead
<1>5. ~Dead(cur)
  BY <1>1 DEF Dead
<1> QED  BY <1>1, <1>3, <1>4, <1>5, OneSettles

LEMMA NextSettles ==
  ASSUME TypeOK, WatchedInv, [Next]_vars
  PROVE  User!Next \/ UNCHANGED Status
<1>1. ASSUME \/ Construct \/ (\E h \in Handle : Exists(h)) \/ Crashes \/ Fails \/ Run \/ Destroy
             \/ LoopEnds \/ UNCHANGED vars
             \/ (\E k \in Keys : OnListenSocketEvent(k) \/ \E e \in CmEvents : Raise(k, e))
      PROVE  UNCHANGED <<entry, cur, evloop>> /\ (pc = "call" \/ pc' # "call")
  BY <1>1 DEF Construct, Exists, Crashes, Fails, Run, Destroy, LoopEnds, OnListenSocketEvent,
              Raise, ProcessEnds, vars, sockets, app, events, evloop
<1> QED
  BY <1>1, OtherSettles, BeginSettles, SucceedsSettles, RegisterSettles DEF Next

(* Every key gets one attempt whose outcome is final, whatever the calls   *)
(* of the library answer and the callbacks do.                             *)
THEOREM LibfabricImplementsRegistration == Spec => ImplementsRegistration
<1>1. Init => User!Init
  <2> SUFFICES ASSUME Init PROVE User!Init
    OBVIOUS
  <2>1. entry = << >> /\ watched = {}
    BY DEF Init
  <2>2. DOMAIN entry = {}
    BY <2>1
  <2>3. \A k \in Keys : ~Ready(k) /\ ~Dead(k)
    BY <2>1, <2>2 DEF Ready, Dead, Done
  <2> QED  BY <2>3 DEF User!Init, Status
<1>2. TypeOK /\ WatchedInv /\ [Next]_vars => [User!Next]_Status
  BY NextSettles
<1> QED
  BY <1>1, <1>2, InitTypeOK, NextTypeOK, InitWatched, NextWatched, PTL
     DEF Spec, ImplementsRegistration, User!Spec
=============================================================================
