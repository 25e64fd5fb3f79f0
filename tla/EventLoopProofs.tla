-------------------------- MODULE EventLoopProofs ---------------------------
(***************************************************************************)
(* Theorems about EventLoop, for any threads, any numbers of descriptors,  *)
(* files and events, and anything threads may make and remove.             *)
(***************************************************************************)
EXTENDS EventLoop, ErasingProofs, TLAPS

(* The inductive invariant.  TypeOK by groups of variables, and what it    *)
(* leaves open: lists are sequences, the loop has an event at hand when it *)
(* works on one, and the descriptor of a thread that registers it, or of   *)
(* its signal, has a file.                                                 *)
KernelTyped ==
  /\ file \in [Fd -> 0 .. Len(kind)] /\ kind \in Seq(Kinds)
  /\ DOMAIN watch \subseteq Files /\ Range(watch) \subseteq Address
  /\ ready \in Seq(Files) /\ Range(ready) \subseteq DOMAIN watch
  /\ input \subseteq Files /\ hung \subseteq Files

TablesTyped ==
  /\ DOMAIN polled \subseteq Fd /\ Range(polled) \subseteq Address
  /\ mem \in [Address -> Context] /\ openFds \subseteq Fd

EventRecord == [addr : Address, file : Files, hup : BOOLEAN]

LoopTyped ==
  /\ shouldStop \in BOOLEAN /\ lfd \in Fd
  /\ lpc \in {"wait", "event", "register", "hup", "remove", "erase", "exited"}
  /\ batch \in Seq(EventRecord) /\ told \in Seq(Files \cup {0})
  /\ lpc \notin {"wait", "exited"} => batch # << >>

TrafficTyped == inputs \in 0 .. MaxInputs /\ full \subseteq Files

ThreadsTyped ==
  /\ TrafficTyped /\ lock \in {Free, "loop"} \cup Thread
  /\ apc \in [Thread -> {"idle", "register", "remove", "erase"}]
  /\ own \in [Thread -> [fd : Fd, file : 0 .. Len(kind)]]
  /\ sig \in [Thread -> [fd : Fd \cup {0}, file : 0 .. Len(kind), fired : BOOLEAN]]
  /\ \A t \in Thread :
       /\ apc[t] = "register" => own[t].file # 0
       /\ sig[t] # NoSignal => sig[t].fd # 0 /\ sig[t].file # 0

(* Who is inside remove_fd holds m_fd_mutex, and nobody else does.         *)
LockInv ==
  /\ \A t \in Thread : apc[t] = "erase" <=> lock = t
  /\ lpc = "erase" <=> lock = "loop"

(* The descriptor remove_fd has closed, and those that the tables have.    *)
Removed ==
  {fd \in Fd : \/ lpc = "erase" /\ fd = lfd
               \/ \E t \in Thread : apc[t] = "erase" /\ fd = own[t].fd}
Live == openFds \ Removed
Known == DOMAIN polled \ Removed

(* A descriptor that is made and not yet registered is its maker's alone.  *)
MakingInv ==
  /\ \A fd, other \in Fd : file[fd] # 0 /\ file[fd] = file[other] => fd = other
  /\ lpc # "exited" =>
       /\ \A t \in Thread : apc[t] = "register" =>
            file[own[t].fd] = own[t].file /\ own[t].fd \notin Known
       /\ \A t, u \in Thread : apc[t] = "register" /\ apc[u] = "register" /\ t # u =>
            own[t].fd # own[u].fd
       /\ lpc = "register" =>
            /\ file[lfd] # 0 /\ kind[file[lfd]] = "conn" /\ lfd \notin Known
            /\ \A t \in Thread : apc[t] = "register" => own[t].fd # lfd

(* The tables of the loop and the kernel's agree on all that is live, and  *)
(* what epoll refused is open and keeps the node it was given.             *)
TablesInv ==
  lpc # "exited" =>
    /\ openFds \subseteq DOMAIN polled /\ Removed \subseteq openFds
    /\ DOMAIN watch = {file[fd] : fd \in Live}
    /\ \A fd \in Live : watch[file[fd]] = polled[fd]
    /\ \A fd \in Known :
         /\ file[fd] # 0
         /\ mem[polled[fd]] = [fd |-> fd, kind |-> kind[file[fd]]]
    /\ \A fd, other \in DOMAIN polled : polled[fd] = polled[other] => fd = other

LoopInv ==
  /\ KernelTyped /\ TablesTyped /\ LoopTyped /\ ThreadsTyped
  /\ LockInv /\ MakingInv /\ TablesInv

(* Where no thread removes anything while the loop runs: the events at     *)
(* hand are of different files, and each but one that the loop itself has  *)
(* just closed has its address.                                            *)
BatchInv ==
  /\ IsInjective(ready)
  /\ \A i, j \in DOMAIN batch : batch[i].file = batch[j].file => i = j
  /\ \A i \in DOMAIN batch :
       /\ i > 1 \/ lpc # "erase" =>
            batch[i].file \in DOMAIN watch /\ watch[batch[i].file] = batch[i].addr
       /\ batch[i].hup => kind[batch[i].file] \in {"conn", "client"}
  /\ hung \subseteq {f \in Files : kind[f] \in {"conn", "client"}}
  /\ lpc \in {"remove", "erase"} => ~batch[1].hup
  /\ lpc = "remove" => file[lfd] = batch[1].file
  /\ lpc \in {"wait", "exited"} => batch = << >>
  /\ \A t \in Thread : apc[t] \in {"idle", "register"}

(* on_closed_cb has been called for the connections that were closed and   *)
(* for the one that is about to be.                                        *)
ToldInv ==
  /\ IsInjective(told)
  /\ \A f \in Range(told) :
       /\ f \in Files /\ kind[f] = "conn"
       /\ ~Open(f) \/ lpc = "exited" \/ (lpc = "remove" /\ file[lfd] = f)
  /\ lpc = "remove" /\ kind[file[lfd]] = "conn" => file[lfd] \in Range(told)
  /\ lpc # "exited" => \A f \in Files : kind[f] = "conn" /\ ~Open(f) => f \in Range(told)
-----------------------------------------------------------------------------
(* Sequences of the model.                                                 *)
LEMMA SeqMonotone ==
  ASSUME NEW S, NEW T, S \subseteq T, NEW s \in Seq(S)
  PROVE  s \in Seq(T)
OBVIOUS

LEMMA AppendFacts ==
  ASSUME NEW S, NEW s \in Seq(S), NEW x \in S
  PROVE  /\ Append(s, x) \in Seq(S) /\ Range(Append(s, x)) = Range(s) \cup {x}
         /\ IsInjective(s) /\ x \notin Range(s) => IsInjective(Append(s, x))
<1> DEFINE a == Append(s, x)
<1>1. /\ a \in Seq(S) /\ DOMAIN a = 1 .. Len(s) + 1 /\ DOMAIN s = 1 .. Len(s)
      /\ Len(s) \in Nat /\ a[Len(s) + 1] = x /\ \A i \in 1 .. Len(s) : a[i] = s[i]
  OBVIOUS
<1> HIDE DEF a
<1>2. Range(a) = Range(s) \cup {x}
  BY <1>1 DEF Range
<1>3. ASSUME IsInjective(s), x \notin Range(s) PROVE IsInjective(a)
  BY <1>1, <1>3 DEF IsInjective, Range
<1> QED  BY <1>1, <1>2, <1>3 DEF a

LEMMA SuffixFacts ==
  ASSUME NEW S, NEW s \in Seq(S), NEW n \in 0 .. Len(s)
  PROVE  /\ SubSeq(s, n + 1, Len(s)) \in Seq(S)
         /\ Len(SubSeq(s, n + 1, Len(s))) = Len(s) - n
         /\ \A j \in 1 .. Len(s) - n : SubSeq(s, n + 1, Len(s))[j] = s[n + j]
<1>1. SubSeq(s, n + 1, Len(s)) \in Seq(S)
  OBVIOUS
<1>2. Len(SubSeq(s, n + 1, Len(s))) = Len(s) - n
  OBVIOUS
<1>3. \A j \in 1 .. Len(s) - n :
        SubSeq(s, n + 1, Len(s))[j] = s[n + 1 + j - 1] /\ n + 1 + j - 1 = n + j
  OBVIOUS
<1> QED  BY <1>1, <1>2, <1>3

(* Taking elements out of a list without repetitions.                      *)
LEMMA WithoutFacts ==
  ASSUME NEW T, NEW s \in Seq(T), NEW S
  PROVE  /\ Without(s, S) \in Seq(T) /\ Range(Without(s, S)) = Range(s) \ S
         /\ IsInjective(s) => IsInjective(Without(s, S))
<1>1. Without(s, S) \in Seq(T) /\ Range(Without(s, S)) = Range(s) \ S
  BY WithoutRange
<1>2. ASSUME IsInjective(s) PROVE IsInjective(Without(s, S))
  <2>1. \A i, j \in DOMAIN s : s[i] = s[j] => i = j
    BY <1>2 DEF IsInjective
  <2> QED  BY <2>1, WithoutInjective DEF IsInjective
<1> QED  BY <1>1, <1>2

-----------------------------------------------------------------------------
(* The kernel: what its operations do to files, and that their results     *)
(* have the types.                                                         *)
LEMMA OpenFileFacts ==
  ASSUME KernelTyped, NEW fd \in Fd, NEW k \in Kinds, OpenFile(fd, k)
  PROVE  /\ Len(kind) \in Nat /\ Len(kind') = Len(kind) + 1
         /\ kind' \in Seq(Kinds) /\ kind'[Len(kind) + 1] = k
         /\ \A f \in Files : f \in Files' /\ kind'[f] = kind[f]
         /\ \A f \in Files' : f \in Files \/ f = Len(kind) + 1
         /\ file[fd] = 0 /\ file'[fd] = Len(kind) + 1
         /\ \A o \in Fd : o # fd => file'[o] = file[o]
         /\ file' \in [Fd -> 0 .. Len(kind')]
<1>1. kind \in Seq(Kinds) /\ file \in [Fd -> 0 .. Len(kind)]
  BY DEF KernelTyped
<1>2. /\ kind' = Append(kind, k) /\ file[fd] = 0
      /\ file' = [file EXCEPT ![fd] = Len(kind) + 1]
  BY DEF OpenFile, Unused
<1>3. /\ Len(kind) \in Nat /\ Len(kind') = Len(kind) + 1
      /\ kind' \in Seq(Kinds) /\ kind'[Len(kind) + 1] = k
      /\ \A f \in 1 .. Len(kind) : kind'[f] = kind[f]
  BY <1>1, <1>2
<1>4. /\ file'[fd] = Len(kind) + 1 /\ \A o \in Fd : o # fd => file'[o] = file[o]
      /\ file' \in [Fd -> 0 .. Len(kind')]
  BY <1>1, <1>2, <1>3
<1> QED  BY <1>2, <1>3, <1>4 DEF Files

LEMMA OpenFileTyped ==
  ASSUME KernelTyped, NEW fd \in Fd, NEW k \in Kinds, OpenFile(fd, k)
  PROVE  /\ UNCHANGED <<watch, ready, hung>> /\ input' \subseteq input => KernelTyped'
         /\ \A b : b \in Seq(EventRecord) => b \in Seq(EventRecord')
         /\ \A s : s \in Seq(Files \cup {0}) => s \in Seq(Files' \cup {0})
         /\ own \in [Thread -> [fd : Fd, file : 0 .. Len(kind)]] =>
              own \in [Thread -> [fd : Fd, file : 0 .. Len(kind')]]
         /\ sig \in [Thread -> [fd : Fd \cup {0}, file : 0 .. Len(kind), fired : BOOLEAN]] =>
              sig \in [Thread -> [fd : Fd \cup {0}, file : 0 .. Len(kind'), fired : BOOLEAN]]
<1>1. /\ Len(kind) \in Nat /\ Len(kind') = Len(kind) + 1 /\ kind' \in Seq(Kinds)
      /\ file' \in [Fd -> 0 .. Len(kind')]
  BY OpenFileFacts
<1>2. Files \subseteq Files'
  BY <1>1 DEF Files
<1>3. ASSUME NEW s \in Seq(Files) PROVE s \in Seq(Files')
  BY <1>2, SeqMonotone
<1>4. ASSUME UNCHANGED <<watch, ready, hung>>, input' \subseteq input PROVE KernelTyped'
  BY <1>1, <1>2, <1>3, <1>4 DEF KernelTyped
<1>5. ASSUME NEW b \in Seq(EventRecord) PROVE b \in Seq(EventRecord')
  <2>1. EventRecord \subseteq EventRecord'
    BY <1>2 DEF EventRecord
  <2> QED  BY <2>1, SeqMonotone
<1>6. ASSUME NEW s \in Seq(Files \cup {0}) PROVE s \in Seq(Files' \cup {0})
  <2>1. Files \cup {0} \subseteq Files' \cup {0}
    BY <1>2
  <2> QED  BY <2>1, SeqMonotone
<1>7. 0 .. Len(kind) \subseteq 0 .. Len(kind')
  BY <1>1
<1>8. /\ [fd : Fd, file : 0 .. Len(kind)] \subseteq [fd : Fd, file : 0 .. Len(kind')]
      /\ [fd : Fd \cup {0}, file : 0 .. Len(kind), fired : BOOLEAN]
           \subseteq [fd : Fd \cup {0}, file : 0 .. Len(kind'), fired : BOOLEAN]
  BY <1>7
<1> QED  BY <1>4, <1>5, <1>6, <1>8

LEMMA NotifyFacts ==
  ASSUME KernelTyped, NEW f \in Files, Notify(f)
  PROVE  /\ ready' \in Seq(Files) /\ Range(ready') \subseteq DOMAIN watch
         /\ IsInjective(ready) => IsInjective(ready')
<1>1. CASE f \in DOMAIN watch /\ f \notin Range(ready)
  <2>1. ready' = Append(ready, f) /\ ready \in Seq(Files)
    BY <1>1 DEF Notify, KernelTyped
  <2> QED  BY <1>1, <2>1, AppendFacts DEF KernelTyped
<1>2. CASE ~(f \in DOMAIN watch /\ f \notin Range(ready))
  BY <1>2 DEF Notify, KernelTyped
<1> QED  BY <1>1, <1>2

LEMMA CloseAllFacts ==
  ASSUME KernelTyped, NEW fds \in SUBSET Fd, CloseAll(fds), UNCHANGED kind
  PROVE  /\ KernelTyped'
         /\ \A o \in Fd : file'[o] = IF o \in fds THEN 0 ELSE file[o]
         /\ DOMAIN watch' = DOMAIN watch \ {file[fd] : fd \in fds}
         /\ \A f \in DOMAIN watch' : watch'[f] = watch[f]
         /\ hung' \subseteq hung
         /\ IsInjective(ready) => IsInjective(ready')
<1> DEFINE gone == {file[fd] : fd \in fds}
<1>1. /\ file' = [fd \in Fd |-> IF fd \in fds THEN 0 ELSE file[fd]]
      /\ watch' = [f \in DOMAIN watch \ gone |-> watch[f]]
      /\ ready' = Without(ready, gone)
      /\ input' = input \ gone /\ hung' = hung \ gone /\ Files' = Files
  BY DEF CloseAll, Files
<1>2. ready \in Seq(Files)
  BY DEF KernelTyped
<1>3. gone = {file[fd] : fd \in fds}
  OBVIOUS
<1> HIDE DEF gone
<1>4. /\ ready' \in Seq(Files) /\ Range(ready') = Range(ready) \ gone
      /\ IsInjective(ready) => IsInjective(ready')
  BY <1>1, <1>2, WithoutFacts
<1>5. /\ DOMAIN watch' = DOMAIN watch \ gone
      /\ \A f \in DOMAIN watch' : watch'[f] = watch[f]
  BY <1>1
<1>6. Range(watch') \subseteq Range(watch)
  BY <1>5 DEF Range
<1>7. \A o \in Fd : file'[o] = IF o \in fds THEN 0 ELSE file[o]
  BY <1>1
<1>8. file' \in [Fd -> 0 .. Len(kind')]
  BY <1>1 DEF KernelTyped
<1>9. KernelTyped'
  BY <1>1, <1>4, <1>5, <1>6, <1>8 DEF KernelTyped
<1> QED  BY <1>1, <1>3, <1>4, <1>5, <1>7, <1>9

-----------------------------------------------------------------------------
(* The event at hand.                                                      *)
LEMMA EventFacts ==
  ASSUME TablesTyped, LoopTyped, lpc \notin {"wait", "exited"}
  PROVE  /\ batch # << >> /\ Len(batch) \in Nat \ {0} /\ DOMAIN batch = 1 .. Len(batch)
         /\ Head(batch) = batch[1] /\ Head(batch) \in EventRecord
         /\ Ctx \in Context /\ Ctx.fd \in Fd /\ Ctx.kind \in Kinds
<1>1. /\ batch \in Seq(EventRecord) /\ batch # << >>
  BY DEF LoopTyped
<1>2. /\ Head(batch) = batch[1] /\ Head(batch) \in EventRecord /\ Len(batch) \in Nat \ {0}
      /\ DOMAIN batch = 1 .. Len(batch)
  BY <1>1
<1>3. Head(batch).addr \in Address
  BY <1>2 DEF EventRecord
<1>4. Ctx \in Context
  BY <1>3 DEF Ctx, TablesTyped
<1>5. Ctx.fd \in Fd /\ Ctx.kind \in Kinds
  BY <1>4 DEF Context
<1> QED  BY <1>1, <1>2, <1>4, <1>5

LEMMA ProceedFacts ==
  ASSUME LoopTyped, lpc \notin {"wait", "exited"}, Proceed
  PROVE  /\ lpc' \in {"wait", "event", "hup"} /\ batch' \in Seq(EventRecord)
         /\ lpc' # "wait" => batch' # << >>
         /\ lpc' = "wait" => batch' = << >>
         /\ batch[1].hup => lpc' = "hup" /\ batch' = batch
         /\ ~batch[1].hup =>
              /\ lpc' # "hup" /\ Len(batch') = Len(batch) - 1
              /\ \A i \in 1 .. Len(batch) - 1 : batch'[i] = batch[i + 1]
<1>1. /\ batch \in Seq(EventRecord) /\ batch # << >>
  BY DEF LoopTyped
<1>2. Head(batch) = batch[1] /\ Len(batch) \in Nat \ {0}
  BY <1>1
<1>3. CASE batch[1].hup
  BY <1>1, <1>2, <1>3 DEF Proceed
<1>4. CASE ~batch[1].hup
  <2>1. batch' = Tail(batch) /\ lpc' = (IF Len(batch) = 1 THEN "wait" ELSE "event")
    BY <1>2, <1>4 DEF Proceed
  <2>2. /\ batch' \in Seq(EventRecord) /\ Len(batch') = Len(batch) - 1
        /\ \A i \in 1 .. Len(batch) - 1 : batch'[i] = batch[i + 1]
    BY <1>1, <2>1
  <2>3. CASE Len(batch) = 1
    BY <1>4, <2>1, <2>2, <2>3
  <2>4. CASE Len(batch) # 1
    <3>1. Len(batch') # 0
      BY <1>2, <2>2, <2>4
    <3>2. batch' # << >>
      BY <3>1
    <3> QED  BY <1>4, <2>1, <2>2, <2>4, <3>2
  <2> QED  BY <2>3, <2>4
<1> QED  BY <1>3, <1>4

-----------------------------------------------------------------------------
(* register_fd and remove_fd.                                              *)
LEMMA LiveFacts ==
  ASSUME LockInv, ThreadsTyped, LoopTyped
  PROVE  /\ lock = Free => Removed = {} /\ Live = openFds /\ Known = DOMAIN polled
         /\ \A t \in Thread : lock = t => Removed = {own[t].fd}
         /\ lock = "loop" => Removed = {lfd}
<1>1. \A t \in Thread : t # "loop" /\ t # Free /\ own[t].fd \in Fd
  BY EventLoopAssumption DEF ThreadsTyped, Free
<1>2. lfd \in Fd
  BY DEF LoopTyped
<1>3. ASSUME lock = Free PROVE Removed = {} /\ Live = openFds /\ Known = DOMAIN polled
  BY <1>1, <1>3 DEF LockInv, Removed, Live, Known, Free
<1>4. ASSUME NEW t \in Thread, lock = t PROVE Removed = {own[t].fd}
  BY <1>1, <1>4 DEF LockInv, Removed
<1>5. ASSUME lock = "loop" PROVE Removed = {lfd}
  <2>1. lpc = "erase" /\ \A t \in Thread : apc[t] # "erase"
    BY <1>1, <1>5 DEF LockInv
  <2> QED  BY <1>2, <2>1 DEF Removed
<1> QED  BY <1>3, <1>4, <1>5

LEMMA LiveKeeps ==
  ASSUME UNCHANGED <<openFds, polled>>, lpc' = "erase" <=> lpc = "erase", lpc = "erase" => lfd' = lfd,
         \A t \in Thread : /\ apc'[t] = "erase" <=> apc[t] = "erase"
                           /\ apc[t] = "erase" => own'[t] = own[t]
  PROVE  Live' = Live /\ Known' = Known /\ Removed' = Removed
<1>1. Removed' = Removed
  BY DEF Removed
<1> QED  BY <1>1 DEF Live, Known

LEMMA TablesKeep ==
  ASSUME LoopInv, lpc' # "exited" => lpc # "exited",
         Live' = Live, Known' = Known, Removed' = Removed,
         UNCHANGED <<openFds, polled, mem, watch>>,
         lpc # "exited" => \A fd \in Known : file'[fd] = file[fd],
         \A f \in Files : kind'[f] = kind[f]
  PROVE  TablesInv'
<1> SUFFICES ASSUME lpc' # "exited" PROVE TablesInv'
  BY DEF TablesInv
<1>1. /\ TablesInv /\ lpc # "exited" /\ \A fd \in Known : file'[fd] = file[fd]
      /\ \A fd \in Live : fd \in Known
  BY DEF LoopInv, TablesInv, Live, Known
<1>2. \A fd \in Known : file[fd] \in Files
  <2>1. file \in [Fd -> 0 .. Len(kind)] /\ Known \subseteq Fd
    BY DEF LoopInv, KernelTyped, TablesTyped, Known
  <2>2. \A fd \in Known : file[fd] # 0
    BY <1>1 DEF TablesInv
  <2> QED  BY <2>1, <2>2 DEF Files
<1>3. \A fd \in Known : kind'[file[fd]] = kind[file[fd]]
  BY <1>2
<1>4. \A fd \in Known :
        file'[fd] # 0 /\ mem'[polled'[fd]] = [fd |-> fd, kind |-> kind'[file'[fd]]]
  BY <1>1, <1>3 DEF TablesInv
<1>5. /\ DOMAIN watch' = {file'[fd] : fd \in Live}
      /\ \A fd \in Live : watch'[file'[fd]] = polled'[fd]
  BY <1>1 DEF TablesInv
<1> QED  BY <1>1, <1>4, <1>5 DEF TablesInv

LEMMA RegisterFdTyped ==
  ASSUME KernelTyped, TablesTyped, NEW fd \in Fd, NEW k \in Kinds, RegisterFd(fd, k)
  PROVE  KernelTyped' /\ TablesTyped' /\ UNCHANGED <<file, kind, input, hung, lock>>
<1> DEFINE f == file[fd]
<1>1. UNCHANGED <<file, kind, input, hung, lock>>
  BY DEF RegisterFd
<1>2. PICK a \in Address :
        /\ polled' = [d \in DOMAIN polled \cup {fd} |-> IF d = fd THEN a ELSE polled[d]]
        /\ mem' = [mem EXCEPT ![a] = [fd |-> fd, kind |-> k]]
        /\ \/ UNCHANGED <<watch, ready, openFds>>
           \/ /\ f # 0
              /\ watch' = [g \in DOMAIN watch \cup {f} |-> IF g = f THEN a ELSE watch[g]]
              /\ ready' = (IF IsReady(f) THEN Append(ready, f) ELSE ready)
              /\ openFds' = openFds \cup {fd}
  BY Zenon DEF RegisterFd
<1>3. TablesTyped'
  <2>1. DOMAIN polled' \subseteq Fd /\ Range(polled') \subseteq Address
    <3>1. /\ DOMAIN polled' = DOMAIN polled \cup {fd}
          /\ \A d \in DOMAIN polled' : polled'[d] = IF d = fd THEN a ELSE polled[d]
      BY <1>2
    <3> QED  BY <3>1 DEF TablesTyped, Range
  <2>2. mem' \in [Address -> Context]
    BY <1>2 DEF TablesTyped, Context
  <2>3. openFds' \subseteq Fd
    BY <1>2 DEF TablesTyped
  <2> QED  BY <2>1, <2>2, <2>3 DEF TablesTyped
<1>4. KernelTyped'
  <2>1. CASE UNCHANGED <<watch, ready, openFds>>
    BY <1>1, <2>1 DEF KernelTyped, Files
  <2>2. CASE /\ f # 0
             /\ watch' = [g \in DOMAIN watch \cup {f} |-> IF g = f THEN a ELSE watch[g]]
             /\ ready' = (IF IsReady(f) THEN Append(ready, f) ELSE ready)
    <3>1. f \in Files /\ ready \in Seq(Files)
      BY <2>2 DEF KernelTyped, Files
    <3> HIDE DEF f
    <3>2. /\ DOMAIN watch' = DOMAIN watch \cup {f} /\ f \in DOMAIN watch'
          /\ \A g \in DOMAIN watch' : watch'[g] = IF g = f THEN a ELSE watch[g]
      BY <2>2
    <3>3. Range(watch') \subseteq Range(watch) \cup {a}
      BY <3>2 DEF Range
    <3>4. ready' \in Seq(Files) /\ Range(ready') \subseteq Range(ready) \cup {f}
      BY <2>2, <3>1, AppendFacts
    <3> QED  BY <1>1, <3>1, <3>2, <3>3, <3>4 DEF KernelTyped, Files
  <2> QED  BY <1>2, <2>1, <2>2
<1> QED  BY <1>1, <1>3, <1>4

(* A descriptor that is being made gets a context, and is watched unless   *)
(* epoll refuses it.                                                       *)
LEMMA RegisterFdTables ==
  ASSUME LoopInv, NEW fd \in Fd, NEW k \in Kinds, RegisterFd(fd, k), lpc # "exited",
         fd \notin Known, file[fd] # 0, kind[file[fd]] = k
  PROVE  /\ lock = Free /\ fd \notin DOMAIN polled /\ DOMAIN polled' = DOMAIN polled \cup {fd}
         /\ openFds' = openFds \/ openFds' = openFds \cup {fd}
         /\ DOMAIN watch' = {file[o] : o \in openFds'}
         /\ \A o \in openFds' : watch'[file[o]] = polled'[o]
         /\ \A o \in DOMAIN polled' :
              file[o] # 0 /\ mem'[polled'[o]] = [fd |-> o, kind |-> kind[file[o]]]
         /\ \A o, p \in DOMAIN polled' : polled'[o] = polled'[p] => o = p
         /\ \A f \in DOMAIN watch : f \in DOMAIN watch' /\ watch'[f] = watch[f]
         /\ IsInjective(ready) => IsInjective(ready')
<1> DEFINE f == file[fd]
<1>1. /\ KernelTyped /\ TablesTyped /\ TablesInv /\ lock = Free
      /\ \A o \in Fd : file[o] = f => o = fd
  BY DEF LoopInv, RegisterFd, MakingInv
<1>2. Live = openFds /\ Removed = {} /\ Known = DOMAIN polled
  BY <1>1, LiveFacts DEF LoopInv
<1>3. /\ fd \notin DOMAIN polled /\ openFds \subseteq DOMAIN polled /\ DOMAIN polled \subseteq Fd
      /\ DOMAIN watch = {file[o] : o \in openFds}
      /\ \A o \in openFds : watch[file[o]] = polled[o]
      /\ \A o \in DOMAIN polled :
           file[o] # 0 /\ mem[polled[o]] = [fd |-> o, kind |-> kind[file[o]]]
      /\ \A o, p \in DOMAIN polled : polled[o] = polled[p] => o = p
  BY <1>1, <1>2 DEF TablesInv, TablesTyped
<1>4. f \notin DOMAIN watch
  BY <1>1, <1>3
<1>5. PICK a \in Address :
        /\ a \notin Range(polled)
        /\ polled' = [d \in DOMAIN polled \cup {fd} |-> IF d = fd THEN a ELSE polled[d]]
        /\ mem' = [mem EXCEPT ![a] = [fd |-> fd, kind |-> k]]
        /\ \/ UNCHANGED <<watch, ready, openFds>>
           \/ /\ watch' = [g \in DOMAIN watch \cup {f} |-> IF g = f THEN a ELSE watch[g]]
              /\ ready' = (IF IsReady(f) THEN Append(ready, f) ELSE ready)
              /\ openFds' = openFds \cup {fd}
  BY <1>3, Zenon DEF RegisterFd
<1> HIDE DEF f
<1>6. /\ DOMAIN polled' = DOMAIN polled \cup {fd} /\ polled'[fd] = a
      /\ \A o \in DOMAIN polled : polled'[o] = polled[o] /\ polled[o] # a
  BY <1>3, <1>5 DEF Range
<1>7. /\ mem'[a] = [fd |-> fd, kind |-> k]
      /\ \A b \in Address : b # a => mem'[b] = mem[b]
  BY <1>1, <1>5 DEF TablesTyped
<1>8. \A o \in DOMAIN polled : polled[o] \in Address
  BY <1>1 DEF TablesTyped, Range
<1>9. \A o \in DOMAIN polled' :
        file[o] # 0 /\ mem'[polled'[o]] = [fd |-> o, kind |-> kind[file[o]]]
  <2>1. ASSUME NEW o \in DOMAIN polled
        PROVE  file[o] # 0 /\ mem'[polled'[o]] = [fd |-> o, kind |-> kind[file[o]]]
    <3>1. mem'[polled'[o]] = mem[polled[o]]
      BY <1>6, <1>7, <1>8
    <3> QED  BY <1>3, <3>1
  <2>2. file[fd] # 0 /\ mem'[polled'[fd]] = [fd |-> fd, kind |-> kind[file[fd]]]
    BY <1>6, <1>7
  <2> QED  BY <1>6, <2>1, <2>2
<1>10. \A o, p \in DOMAIN polled' : polled'[o] = polled'[p] => o = p
  BY <1>3, <1>6
<1>11. /\ openFds' = openFds \/ openFds' = openFds \cup {fd}
       /\ DOMAIN watch' = {file[o] : o \in openFds'}
       /\ \A o \in openFds' : watch'[file[o]] = polled'[o]
       /\ \A g \in DOMAIN watch : g \in DOMAIN watch' /\ watch'[g] = watch[g]
       /\ IsInjective(ready) => IsInjective(ready')
  <2>1. CASE UNCHANGED <<watch, ready, openFds>>
    BY <1>3, <1>6, <2>1
  <2>2. CASE /\ watch' = [g \in DOMAIN watch \cup {f} |-> IF g = f THEN a ELSE watch[g]]
             /\ ready' = (IF IsReady(f) THEN Append(ready, f) ELSE ready)
             /\ openFds' = openFds \cup {fd}
    <3>1. /\ DOMAIN watch' = DOMAIN watch \cup {f} /\ watch'[f] = a
          /\ \A g \in DOMAIN watch : watch'[g] = watch[g]
      BY <1>4, <2>2
    <3>2. \A o \in openFds : file[o] \in DOMAIN watch /\ polled'[o] = polled[o]
      BY <1>3, <1>6
    <3>3. DOMAIN watch' = {file[o] : o \in openFds'}
      BY <1>3, <2>2, <3>1 DEF f
    <3>4. \A o \in openFds' : watch'[file[o]] = polled'[o]
      BY <1>3, <1>6, <2>2, <3>1, <3>2 DEF f
    <3>5. ASSUME IsInjective(ready) PROVE IsInjective(ready')
      <4>1. ready \in Seq(Files) /\ f \in Files /\ f \notin Range(ready)
        BY <1>1, <1>4 DEF KernelTyped, Files, f
      <4> QED  BY <2>2, <3>5, <4>1, AppendFacts
    <3> QED  BY <2>2, <3>1, <3>3, <3>4, <3>5
  <2> QED  BY <1>5, <2>1, <2>2
<1> QED  BY <1>1, <1>3, <1>6, <1>9, <1>10, <1>11

LEMMA RemoveEraseTyped ==
  ASSUME KernelTyped, TablesTyped, NEW t, NEW fd \in Fd, RemoveErase(t, fd)
  PROVE  /\ KernelTyped' /\ TablesTyped' /\ UNCHANGED <<file, kind, input, hung, mem>>
         /\ lock = t /\ lock' = Free /\ openFds' = openFds \ {fd}
         /\ DOMAIN polled' = DOMAIN polled \ {fd}
         /\ \A o \in DOMAIN polled' : polled'[o] = polled[o]
         /\ DOMAIN watch' = DOMAIN watch \ {file[fd]}
         /\ \A f \in DOMAIN watch' : watch'[f] = watch[f]
         /\ IsInjective(ready) => IsInjective(ready')
<1> DEFINE f == file[fd]
<1>1. /\ UNCHANGED <<file, kind, input, hung, mem>> /\ lock = t /\ lock' = Free
      /\ polled' = [d \in DOMAIN polled \ {fd} |-> polled[d]]
      /\ openFds' = openFds \ {fd}
      /\ watch' = [g \in DOMAIN watch \ {f} |-> watch[g]]
      /\ ready' = Without(ready, {f}) /\ Files' = Files
  BY DEF RemoveErase, Files
<1> HIDE DEF f
<1>2. /\ DOMAIN polled' = DOMAIN polled \ {fd}
      /\ \A o \in DOMAIN polled' : polled'[o] = polled[o]
      /\ DOMAIN watch' = DOMAIN watch \ {f}
      /\ \A g \in DOMAIN watch' : watch'[g] = watch[g]
  BY <1>1
<1>3. Range(watch') \subseteq Range(watch) /\ Range(polled') \subseteq Range(polled)
  BY <1>2 DEF Range
<1>4. ready \in Seq(Files)
  BY DEF KernelTyped
<1>5. /\ ready' \in Seq(Files) /\ Range(ready') = Range(ready) \ {f}
      /\ IsInjective(ready) => IsInjective(ready')
  BY <1>1, <1>4, WithoutFacts
<1>6. KernelTyped'
  BY <1>1, <1>2, <1>3, <1>5 DEF KernelTyped
<1>7. TablesTyped'
  BY <1>1, <1>2, <1>3 DEF TablesTyped
<1> QED  BY <1>1, <1>2, <1>5, <1>6, <1>7 DEF f

(* Erasing a context takes nothing else away, even if the number has been  *)
(* handed out again since it was closed.                                   *)
LEMMA RemoveEraseTables ==
  ASSUME LoopInv, NEW t, NEW fd \in Fd, RemoveErase(t, fd), Removed = {fd},
         lpc' # "exited", lpc # "exited", Removed' = {}
  PROVE  TablesInv' /\ Live' = Live /\ Known' = Known /\ DOMAIN watch' = DOMAIN watch
<1>1. /\ KernelTyped /\ TablesTyped /\ TablesInv
      /\ \A o, p \in Fd : file[o] # 0 /\ file[o] = file[p] => o = p
  BY DEF LoopInv, MakingInv
<1>2. /\ UNCHANGED <<file, kind, mem>> /\ openFds' = openFds \ {fd}
      /\ DOMAIN polled' = DOMAIN polled \ {fd}
      /\ \A o \in DOMAIN polled' : polled'[o] = polled[o]
      /\ DOMAIN watch' = DOMAIN watch \ {file[fd]}
      /\ \A f \in DOMAIN watch' : watch'[f] = watch[f]
  BY <1>1, RemoveEraseTyped
<1>3. /\ Live = openFds' /\ Live' = openFds' /\ fd \notin Known /\ Known \subseteq Fd
      /\ Known = DOMAIN polled' /\ Known' = DOMAIN polled' /\ Live \subseteq Known
  BY <1>1, <1>2 DEF Live, Known, TablesTyped, TablesInv
<1>4. \A o \in Known : file[o] # 0 /\ file[o] # file[fd]
  BY <1>1, <1>3 DEF TablesInv
<1>5. DOMAIN watch' = DOMAIN watch
  BY <1>1, <1>2, <1>3, <1>4 DEF TablesInv
<1>6. \A o \in Live : file[o] \in DOMAIN watch' /\ o \in DOMAIN polled'
  BY <1>1, <1>3, <1>5 DEF TablesInv
<1>7. TablesInv'
  <2>1. openFds' \subseteq DOMAIN polled' /\ Removed' \subseteq openFds'
    BY <1>3
  <2>2. DOMAIN watch' = {file'[o] : o \in Live'}
    BY <1>1, <1>2, <1>3, <1>5 DEF TablesInv
  <2>3. \A o \in Live' : watch'[file'[o]] = polled'[o]
    BY <1>1, <1>2, <1>3, <1>6 DEF TablesInv
  <2>4. \A o \in Known' :
          file'[o] # 0 /\ mem'[polled'[o]] = [fd |-> o, kind |-> kind'[file'[o]]]
    BY <1>1, <1>2, <1>3 DEF TablesInv
  <2>5. \A o, p \in DOMAIN polled' : polled'[o] = polled'[p] => o = p
    BY <1>1, <1>2 DEF TablesInv
  <2> QED  BY <2>1, <2>2, <2>3, <2>4, <2>5 DEF TablesInv
<1> QED  BY <1>3, <1>5, <1>7

LEMMA RemoveCloseFacts ==
  ASSUME LoopInv, NEW t, NEW fd \in Fd, RemoveClose(t, fd)
  PROVE  /\ KernelTyped' /\ TablesTyped' /\ UNCHANGED <<kind, polled, mem, openFds>>
         /\ lock = Free /\ lock' = t /\ fd \in openFds
         /\ Live = openFds /\ Known = DOMAIN polled
         /\ \A o \in Fd : file'[o] = IF o = fd THEN 0 ELSE file[o]
         /\ DOMAIN watch' = DOMAIN watch \ {file[fd]}
         /\ \A f \in DOMAIN watch' : watch'[f] = watch[f]
         /\ hung' \subseteq hung
         /\ IsInjective(ready) => IsInjective(ready')
<1>1. /\ KernelTyped /\ TablesTyped /\ lock = Free /\ lock' = t /\ fd \in openFds
      /\ CloseAll({fd}) /\ UNCHANGED <<kind, polled, mem, openFds>>
  BY DEF LoopInv, RemoveClose
<1>2. {fd} \in SUBSET Fd
  OBVIOUS
<1>3. /\ KernelTyped' /\ hung' \subseteq hung
      /\ \A o \in Fd : file'[o] = IF o \in {fd} THEN 0 ELSE file[o]
      /\ DOMAIN watch' = DOMAIN watch \ {file[o] : o \in {fd}}
      /\ \A f \in DOMAIN watch' : watch'[f] = watch[f]
      /\ IsInjective(ready) => IsInjective(ready')
  BY <1>1, <1>2, CloseAllFacts
<1>4. Live = openFds /\ Known = DOMAIN polled
  BY <1>1, LiveFacts DEF LoopInv
<1>5. TablesTyped'
  BY <1>1 DEF TablesTyped
<1> QED  BY <1>1, <1>3, <1>4, <1>5

LEMMA RemoveCloseTables ==
  ASSUME LoopInv, NEW t, NEW fd \in Fd, RemoveClose(t, fd),
         lpc # "exited", Removed' = {fd}
  PROVE  TablesInv'
<1>1. /\ UNCHANGED <<kind, polled, mem, openFds>> /\ fd \in openFds
      /\ Live = openFds /\ Known = DOMAIN polled
      /\ \A o \in Fd : file'[o] = IF o = fd THEN 0 ELSE file[o]
      /\ DOMAIN watch' = DOMAIN watch \ {file[fd]}
      /\ \A f \in DOMAIN watch' : watch'[f] = watch[f]
  BY RemoveCloseFacts
<1>2. /\ TablesInv /\ DOMAIN polled \subseteq Fd /\ openFds \subseteq DOMAIN polled
      /\ Live' = openFds \ {fd} /\ Known' = DOMAIN polled \ {fd}
  <2>1. TablesInv /\ DOMAIN polled \subseteq Fd
    BY DEF LoopInv, TablesTyped
  <2>2. openFds \subseteq DOMAIN polled
    BY <2>1 DEF TablesInv
  <2>3. Live' = openFds \ {fd} /\ Known' = DOMAIN polled \ {fd}
    BY <1>1 DEF Live, Known
  <2> QED  BY <2>1, <2>2, <2>3
<1>3. \A o \in Known' : file'[o] = file[o] /\ file[o] # file[fd] /\ file[o] # 0
  BY <1>1, <1>2 DEF LoopInv, MakingInv, TablesInv
<1>4. DOMAIN watch' = {file'[o] : o \in Live'}
  BY <1>1, <1>2, <1>3 DEF TablesInv
<1>5. \A o \in Live' : watch'[file'[o]] = polled'[o]
  <2>1. \A o \in Live' : file[o] \in DOMAIN watch' /\ o \in Known'
    BY <1>2, <1>3, <1>4
  <2> QED  BY <1>1, <1>2, <1>3, <2>1 DEF TablesInv
<1>6. \A o \in Known' :
        file'[o] # 0 /\ mem'[polled'[o]] = [fd |-> o, kind |-> kind'[file'[o]]]
  BY <1>1, <1>2, <1>3 DEF TablesInv
<1> QED  BY <1>1, <1>2, <1>4, <1>5, <1>6 DEF TablesInv

-----------------------------------------------------------------------------
(* Each action keeps the invariant: first the threads'.                    *)
LEMMA ThreadsKeep ==
  ASSUME ThreadsTyped, NEW t \in Thread, NEW pc \in {"idle", "remove", "erase"},
         apc' = [apc EXCEPT ![t] = pc], UNCHANGED <<traffic, own, sig, kind>>,
         lock' \in {Free, "loop"} \cup Thread
  PROVE  ThreadsTyped'
<1>1. apc' \in [Thread -> {"idle", "register", "remove", "erase"}]
  BY DEF ThreadsTyped
<1>2. /\ \A u \in Thread : apc'[u] = "register" => apc[u] = "register"
  BY DEF ThreadsTyped
<1>3. \A u \in Thread : /\ apc'[u] = "register" => own[u].file # 0
                        /\ sig[u] # NoSignal => sig[u].fd # 0 /\ sig[u].file # 0
  BY <1>2 DEF ThreadsTyped
<1> QED  BY <1>1, <1>3 DEF ThreadsTyped, TrafficTyped, traffic, Files

LEMMA NewLoopInv ==
  ASSUME LoopInv, NEW t \in Thread, NEW k \in Made, New(t, k)
  PROVE  LoopInv'
<1>1. PICK fd \in Fd :
        /\ OpenFile(fd, k)
        /\ own' = [own EXCEPT ![t] = [fd |-> fd, file |-> Len(kind) + 1]]
        /\ \/ UNCHANGED sig
           \/ sig' = [sig EXCEPT ![t] = [fd |-> fd, file |-> Len(kind) + 1, fired |-> FALSE]]
  BY DEF New
<1>2. /\ apc[t] = "idle" /\ apc' = [apc EXCEPT ![t] = "register"]
      /\ UNCHANGED <<watch, ready, input, hung, traffic, polled, mem, openFds, lock>>
      /\ UNCHANGED <<shouldStop, lpc, batch, lfd, told>>
  BY DEF New, tables, loop
<1>3. k \in Kinds /\ KernelTyped /\ ThreadsTyped /\ LoopTyped /\ MakingInv /\ TablesInv
  BY EventLoopAssumption DEF LoopInv, Kinds
<1>4. /\ Len(kind) \in Nat /\ Len(kind') = Len(kind) + 1 /\ file[fd] = 0
      /\ file'[fd] = Len(kind) + 1 /\ \A o \in Fd : o # fd => file'[o] = file[o]
      /\ \A f \in Files : kind'[f] = kind[f]
  BY <1>1, <1>3, OpenFileFacts
<1>5. /\ apc'[t] = "register" /\ \A u \in Thread : u # t => apc'[u] = apc[u]
      /\ own'[t].fd = fd /\ own'[t].file = Len(kind) + 1
      /\ \A u \in Thread : u # t => own'[u] = own[u]
  BY <1>1, <1>2, <1>3 DEF ThreadsTyped
<1>6. Live' = Live /\ Known' = Known /\ Removed' = Removed
  BY <1>2, <1>5, LiveKeeps
<1>7. KernelTyped'
  BY <1>1, <1>2, <1>3, OpenFileTyped
<1>8. TablesTyped'
  BY DEF LoopInv, TablesTyped, New, tables, kernel, loop, threads, OpenFile,
         Unused, Context, Address
<1>9. LoopTyped'
  BY <1>1, <1>2, <1>3, OpenFileTyped DEF LoopTyped
<1>10. ThreadsTyped'
  <2>1. own \in [Thread -> [fd : Fd, file : 0 .. Len(kind')]]
    BY <1>1, <1>3, OpenFileTyped DEF ThreadsTyped
  <2>2. sig \in [Thread -> [fd : Fd \cup {0}, file : 0 .. Len(kind'), fired : BOOLEAN]]
    BY <1>1, <1>3, OpenFileTyped DEF ThreadsTyped
  <2>3. own' \in [Thread -> [fd : Fd, file : 0 .. Len(kind')]]
    BY <1>1, <1>4, <2>1
  <2> DEFINE s == [fd |-> fd, file |-> Len(kind) + 1, fired |-> FALSE]
  <2>4. /\ s \in [fd : Fd \cup {0}, file : 0 .. Len(kind'), fired : BOOLEAN]
        /\ s.fd # 0 /\ s.file # 0
    BY <1>4 DEF Fd
  <2> HIDE DEF s
  <2>5. sig' \in [Thread -> [fd : Fd \cup {0}, file : 0 .. Len(kind'), fired : BOOLEAN]]
    BY <1>1, <2>2, <2>4 DEF s
  <2>6. \A u \in Thread : sig'[u] = sig[u] \/ sig'[u] = s
    BY <1>1, <2>2 DEF s
  <2>7. /\ apc' \in [Thread -> {"idle", "register", "remove", "erase"}]
        /\ TrafficTyped' /\ lock' \in {Free, "loop"} \cup Thread
    BY <1>2, <1>3, <1>4 DEF ThreadsTyped, TrafficTyped, traffic, Files
  <2>8. \A u \in Thread : apc'[u] = "register" => own'[u].file # 0
    <3>1. \A u \in Thread : apc[u] = "register" => own[u].file # 0
      BY <1>3 DEF ThreadsTyped
    <3> QED  BY <1>4, <1>5, <3>1
  <2>9. \A u \in Thread : sig'[u] # NoSignal => sig'[u].fd # 0 /\ sig'[u].file # 0
    <3>1. \A u \in Thread : sig[u] # NoSignal => sig[u].fd # 0 /\ sig[u].file # 0
      BY <1>3 DEF ThreadsTyped
    <3> QED  BY <2>4, <2>6, <3>1
  <2> QED  BY <2>3, <2>5, <2>7, <2>8, <2>9 DEF ThreadsTyped
<1>11. LockInv'
  BY DEF LoopInv, LockInv, New, tables, kernel, loop, threads, OpenFile, Unused
<1>12. MakingInv'
  <2>1. \A o \in Fd : file[o] # Len(kind) + 1
    BY <1>3, <1>4 DEF KernelTyped
  <2>2. \A o, p \in Fd : file'[o] # 0 /\ file'[o] = file'[p] => o = p
    BY <1>3, <1>4, <2>1 DEF MakingInv
  <2>3. ASSUME lpc # "exited"
        PROVE  /\ fd \notin Known
               /\ \A u \in Thread : apc[u] = "register" => own[u].fd # fd
               /\ lpc = "register" => lfd # fd
    <3>1. fd \notin Known /\ (lpc = "register" => lfd # fd)
      BY <1>3, <1>4, <2>3 DEF MakingInv, TablesInv
    <3>2. \A u \in Thread : apc[u] = "register" => file[own[u].fd] # 0
      <4>1. \A u \in Thread : apc[u] = "register" => own[u].file # 0
        BY <1>3 DEF ThreadsTyped
      <4> QED  BY <1>3, <2>3, <4>1 DEF MakingInv
    <3> QED  BY <1>4, <3>1, <3>2
  <2>4. \A u \in Thread : own[u].fd \in Fd
    BY <1>3 DEF ThreadsTyped
  <2>5. lfd \in Fd /\ \A o \in Fd : file[o] # 0 => file[o] \in Files
    BY <1>3 DEF LoopTyped, KernelTyped, Files
  <2> QED
    BY <1>2, <1>3, <1>4, <1>5, <1>6, <2>2, <2>3, <2>4, <2>5 DEF MakingInv
<1>13. TablesInv'
  <2>1. lpc # "exited" => \A o \in Known : file'[o] = file[o]
    BY <1>3, <1>4 DEF TablesInv, Known, LoopInv, TablesTyped
  <2> QED  BY <1>2, <1>4, <1>6, <2>1, TablesKeep
<1> QED  BY <1>7, <1>8, <1>9, <1>10, <1>11, <1>12, <1>13 DEF LoopInv

LEMMA RegisterLoopInv ==
  ASSUME LoopInv, NEW t \in Thread, Register(t)
  PROVE  LoopInv'
<1> DEFINE fd == own[t].fd
           k == kind[own[t].file]
<1>1. /\ apc[t] = "register" /\ RegisterFd(fd, k) /\ apc' = [apc EXCEPT ![t] = "idle"]
      /\ UNCHANGED <<traffic, shouldStop, lpc, batch, lfd, told, own, sig>>
  BY DEF Register, loop
<1>2. /\ KernelTyped /\ TablesTyped /\ ThreadsTyped /\ LoopTyped
      /\ LockInv /\ MakingInv /\ TablesInv
  BY DEF LoopInv
<1>3. fd \in Fd /\ own[t].file \in Files /\ k \in Kinds
  BY <1>1, <1>2 DEF ThreadsTyped, KernelTyped, Files
<1>4. lpc # "exited" => file[fd] = own[t].file /\ file[fd] # 0 /\ fd \notin Known
  BY <1>1, <1>2, <1>3 DEF MakingInv, Files
<1>5. k = kind[own[t].file] /\ fd = own[t].fd
  OBVIOUS
<1> HIDE DEF fd, k
<1>6. KernelTyped' /\ TablesTyped' /\ UNCHANGED <<file, kind, input, hung, lock>>
  BY <1>1, <1>2, <1>3, RegisterFdTyped
<1>7. /\ apc'[t] = "idle" /\ \A u \in Thread : u # t => apc'[u] = apc[u]
  BY <1>1, <1>2 DEF ThreadsTyped
<1>8. LoopTyped' /\ ThreadsTyped'
  BY <1>1, <1>2, <1>6, <1>7 DEF LoopTyped, ThreadsTyped, TrafficTyped, traffic, EventRecord, Files
<1>9. LockInv'
  BY <1>1, <1>2, <1>6, <1>7 DEF LockInv
<1>10. ASSUME lpc # "exited" PROVE MakingInv' /\ TablesInv'
  <2>1. /\ lock = Free /\ DOMAIN polled' = DOMAIN polled \cup {fd}
        /\ openFds' = openFds \/ openFds' = openFds \cup {fd}
        /\ DOMAIN watch' = {file[o] : o \in openFds'}
        /\ \A o \in openFds' : watch'[file[o]] = polled'[o]
        /\ \A o \in DOMAIN polled' :
             file[o] # 0 /\ mem'[polled'[o]] = [fd |-> o, kind |-> kind[file[o]]]
        /\ \A o, p \in DOMAIN polled' : polled'[o] = polled'[p] => o = p
    BY <1>1, <1>3, <1>4, <1>5, <1>10, RegisterFdTables
  <2>2. Live = openFds /\ Known = DOMAIN polled /\ Removed = {} /\ openFds \subseteq DOMAIN polled
    BY <1>2, <1>10, <2>1, LiveFacts DEF TablesInv
  <2>3. Removed' = {} /\ Live' = openFds' /\ Known' = DOMAIN polled'
    <3>1. \A u \in Thread : apc'[u] = "erase" => apc[u] = "erase" /\ own'[u] = own[u]
      BY <1>1, <1>7
    <3>2. Removed' \subseteq Removed
      BY <1>1, <3>1 DEF Removed
    <3> QED  BY <2>2, <3>2 DEF Live, Known
  <2>4. MakingInv'
    <3>1. /\ \A u \in Thread : apc'[u] = "register" => apc[u] = "register" /\ u # t
          /\ \A u \in Thread : apc[u] = "register" /\ u # t => own[u].fd # fd
          /\ lpc = "register" => lfd # fd
      BY <1>1, <1>2, <1>5, <1>7, <1>10 DEF MakingInv
    <3> QED  BY <1>1, <1>2, <1>6, <1>10, <2>1, <2>2, <2>3, <3>1 DEF MakingInv
  <2>5. TablesInv'
    BY <1>6, <2>1, <2>2, <2>3 DEF TablesInv
  <2> QED  BY <2>4, <2>5
<1>11. ASSUME lpc = "exited" PROVE MakingInv' /\ TablesInv'
  BY <1>1, <1>2, <1>6, <1>11 DEF MakingInv, TablesInv
<1> QED  BY <1>6, <1>8, <1>9, <1>10, <1>11 DEF LoopInv

LEMMA FireLoopInv ==
  ASSUME LoopInv, NEW t \in Thread, Fire(t)
  PROVE  LoopInv'
<1>1. /\ sig[t] # NoSignal /\ sig' = [sig EXCEPT ![t].fired = TRUE]
      /\ input' = input \cup {sig[t].file} /\ Notify(sig[t].file)
      /\ UNCHANGED <<file, kind, watch, hung, traffic, polled, mem, openFds, lock>>
      /\ UNCHANGED <<shouldStop, lpc, batch, lfd, told, apc, own>>
  BY DEF Fire, tables, loop
<1>2. /\ KernelTyped /\ ThreadsTyped
      /\ sig[t] \in [fd : Fd \cup {0}, file : 0 .. Len(kind), fired : BOOLEAN]
  BY DEF LoopInv, ThreadsTyped
<1>3. sig[t].file \in Files
  BY <1>1, <1>2 DEF ThreadsTyped, Files
<1>4. KernelTyped'
  <2>1. ready' \in Seq(Files) /\ Range(ready') \subseteq DOMAIN watch
    BY <1>1, <1>2, <1>3, NotifyFacts
  <2> QED  BY <1>1, <1>2, <1>3, <2>1 DEF KernelTyped, Files
<1>5. TablesTyped'
  BY DEF LoopInv, TablesTyped, Fire, tables, kernel, loop, threads, Notify,
         Context, Address
<1>6. LoopTyped'
  BY DEF LoopInv, LoopTyped, Fire, tables, kernel, loop, threads, Notify,
         Files, EventRecord, Address
<1>7. ThreadsTyped'
  <2>1. sig' \in [Thread -> [fd : Fd \cup {0}, file : 0 .. Len(kind), fired : BOOLEAN]]
    BY <1>1, <1>2 DEF ThreadsTyped
  <2>2. \A u \in Thread :
          /\ sig'[u].fd = sig[u].fd /\ sig'[u].file = sig[u].file
          /\ u # t => sig'[u] = sig[u]
    BY <1>1, <1>2 DEF ThreadsTyped
  <2> QED  BY <1>1, <1>2, <2>1, <2>2 DEF ThreadsTyped, TrafficTyped, traffic, Files
<1>8. LockInv'
  BY DEF LoopInv, LockInv, Fire, tables, kernel, loop, threads, Notify
<1>9. MakingInv'
  BY DEF LoopInv, MakingInv, Fire, tables, kernel, loop, threads, Notify, Live,
         Known, Removed
<1>10. TablesInv'
  <2>1. Live' = Live /\ Known' = Known /\ Removed' = Removed
    BY <1>1, LiveKeeps
  <2> QED  BY <1>1, <2>1, TablesKeep
<1> QED  BY <1>4, <1>5, <1>6, <1>7, <1>8, <1>9, <1>10 DEF LoopInv

(* A thread has decided what to remove.                                    *)
LEMMA RemoveBegins ==
  ASSUME LoopInv, NEW t \in Thread, apc[t] = "idle", NEW w \in [fd : Fd, file : 0 .. Len(kind)],
         own' = [own EXCEPT ![t] = w], apc' = [apc EXCEPT ![t] = "remove"],
         sig' \in {sig, [sig EXCEPT ![t] = NoSignal]},
         UNCHANGED <<kernel, traffic, tables, loop>>
  PROVE  LoopInv'
<1>1. /\ UNCHANGED <<file, kind, watch, ready, input, hung, traffic, polled, mem, openFds, lock>>
      /\ UNCHANGED <<shouldStop, lpc, batch, lfd, told>> /\ ThreadsTyped
  BY DEF kernel, tables, loop, LoopInv
<1>2. /\ apc'[t] = "remove" /\ \A u \in Thread : u # t => apc'[u] = apc[u]
      /\ \A u \in Thread : u # t => own'[u] = own[u]
  BY <1>1 DEF ThreadsTyped
<1>3. Live' = Live /\ Known' = Known /\ Removed' = Removed
  BY <1>1, <1>2, LiveKeeps
<1>4. KernelTyped' /\ TablesTyped' /\ LoopTyped'
  BY <1>1 DEF LoopInv, KernelTyped, TablesTyped, LoopTyped, EventRecord, Files
<1>5. ThreadsTyped'
  <2>1. /\ own' \in [Thread -> [fd : Fd, file : 0 .. Len(kind)]]
        /\ apc' \in [Thread -> {"idle", "register", "remove", "erase"}]
    BY <1>1 DEF ThreadsTyped
  <2>2. NoSignal \in [fd : Fd \cup {0}, file : 0 .. Len(kind), fired : BOOLEAN]
    BY <1>1 DEF NoSignal, LoopInv, KernelTyped
  <2>3. sig \in [Thread -> [fd : Fd \cup {0}, file : 0 .. Len(kind), fired : BOOLEAN]]
    BY <1>1 DEF ThreadsTyped
  <2>4. sig' \in [Thread -> [fd : Fd \cup {0}, file : 0 .. Len(kind), fired : BOOLEAN]]
    BY <2>2, <2>3
  <2>5. \A u \in Thread : sig'[u] = sig[u] \/ sig'[u] = NoSignal
    BY <2>3
  <2>6. \A u \in Thread : /\ apc'[u] = "register" => own'[u].file # 0
                          /\ sig'[u] # NoSignal => sig'[u].fd # 0 /\ sig'[u].file # 0
    <3>1. \A u \in Thread : /\ apc[u] = "register" => own[u].file # 0
                            /\ sig[u] # NoSignal => sig[u].fd # 0 /\ sig[u].file # 0
      BY <1>1 DEF ThreadsTyped
    <3> QED  BY <1>2, <2>5, <3>1
  <2> QED  BY <1>1, <2>1, <2>4, <2>6 DEF ThreadsTyped, TrafficTyped, traffic, Files
<1>6. LockInv'
  BY <1>1, <1>2 DEF LoopInv, LockInv
<1>7. MakingInv'
  BY <1>1, <1>2, <1>3 DEF LoopInv, MakingInv
<1>8. TablesInv'
  BY <1>1, <1>3, TablesKeep
<1> QED  BY <1>4, <1>5, <1>6, <1>7, <1>8 DEF LoopInv

LEMMA DestroyLoopInv ==
  ASSUME LoopInv, NEW t \in Thread, Destroy(t)
  PROVE  LoopInv'
<1>1. /\ apc[t] = "idle" /\ sig[t] # NoSignal /\ apc' = [apc EXCEPT ![t] = "remove"]
      /\ own' = [own EXCEPT ![t] = [fd |-> sig[t].fd, file |-> sig[t].file]]
      /\ sig' = [sig EXCEPT ![t] = NoSignal]
      /\ UNCHANGED <<kernel, traffic, tables, loop>>
  BY DEF Destroy
<1>2. [fd |-> sig[t].fd, file |-> sig[t].file] \in [fd : Fd, file : 0 .. Len(kind)]
  BY <1>1 DEF LoopInv, ThreadsTyped
<1> QED  BY <1>1, <1>2, RemoveBegins

LEMMA CloseListenerLoopInv ==
  ASSUME LoopInv, NEW t \in Thread, CloseListener(t)
  PROVE  LoopInv'
<1>1. PICK fd \in openFds : own' = [own EXCEPT ![t] = [fd |-> fd, file |-> file[fd]]]
  BY DEF CloseListener
<1>2. /\ apc[t] = "idle" /\ apc' = [apc EXCEPT ![t] = "remove"]
      /\ UNCHANGED <<kernel, traffic, tables, loop, sig>>
  BY DEF CloseListener
<1>3. [fd |-> fd, file |-> file[fd]] \in [fd : Fd, file : 0 .. Len(kind)]
  BY DEF LoopInv, TablesTyped, KernelTyped
<1> QED  BY <1>1, <1>2, <1>3, RemoveBegins

LEMMA CloseLoopInv ==
  ASSUME LoopInv, NEW t \in Thread, Close(t)
  PROVE  LoopInv'
<1> DEFINE fd == own[t].fd
<1>1. /\ KernelTyped /\ TablesTyped /\ ThreadsTyped /\ LoopTyped
      /\ LockInv /\ MakingInv /\ TablesInv
      /\ apc[t] = "remove" /\ UNCHANGED <<traffic, shouldStop, lpc, batch, lfd, told, own, sig>>
  BY DEF LoopInv, Close, loop
<1>2. fd \in Fd /\ fd = own[t].fd
  BY <1>1 DEF ThreadsTyped
<1> HIDE DEF fd
<1>3. CASE RemoveClose(t, fd) /\ apc' = [apc EXCEPT ![t] = "erase"]
  <2>1. /\ KernelTyped' /\ TablesTyped' /\ UNCHANGED <<kind, polled, mem, openFds>>
        /\ lock = Free /\ lock' = t /\ fd \in openFds
        /\ Live = openFds /\ Known = DOMAIN polled
        /\ \A o \in Fd : file'[o] = IF o = fd THEN 0 ELSE file[o]
    BY <1>2, <1>3, RemoveCloseFacts
  <2>2. /\ apc'[t] = "erase" /\ \A u \in Thread : u # t => apc'[u] = apc[u]
    BY <1>1, <1>3 DEF ThreadsTyped
  <2>3. Removed = {} /\ t # Free /\ t # "loop"
    BY <1>1, <2>1, LiveFacts, EventLoopAssumption DEF Free
  <2>4. \A u \in Thread : apc[u] # "erase"
    BY <1>1, <2>1, EventLoopAssumption DEF LockInv, Free
  <2>5. Removed' = {fd} /\ Live' = Live \ {fd} /\ Known' = Known \ {fd}
    <3>1. \A u \in Thread : apc'[u] = "erase" <=> u = t
      BY <2>2, <2>4
    <3>2. lpc' # "erase" /\ own' = own
      BY <1>1, <2>1 DEF LockInv, Free
    <3>3. Removed' = {fd}
      BY <1>2, <3>1, <3>2 DEF Removed
    <3> QED  BY <2>1, <3>3 DEF Live, Known
  <2>6. LoopTyped' /\ ThreadsTyped'
    <3>1. LoopTyped'
      BY <1>1, <2>1 DEF LoopTyped, EventRecord, Files
    <3>2. ThreadsTyped'
      BY <1>1, <1>3, <2>1, ThreadsKeep
    <3> QED  BY <3>1, <3>2
  <2>7. LockInv'
    BY <1>1, <2>1, <2>2, <2>3, <2>4 DEF LockInv, Free
  <2>8. MakingInv'
    <3>1. \A o, p \in Fd : file'[o] # 0 /\ file'[o] = file'[p] => o = p
      BY <1>1, <2>1 DEF MakingInv
    <3>2. /\ \A u \in Thread : apc'[u] = "register" => apc[u] = "register" /\ own[u].fd \in Fd
          /\ lfd \in Fd
      BY <1>1, <2>2 DEF ThreadsTyped, LoopTyped
    <3>3. lpc # "exited" => fd \in Known
      BY <1>1, <2>1 DEF TablesInv
    <3> QED  BY <1>1, <2>1, <2>5, <3>1, <3>2, <3>3 DEF MakingInv
  <2>9. TablesInv'
    <3>1. CASE lpc = "exited"
      BY <1>1, <3>1 DEF TablesInv
    <3>2. CASE lpc # "exited"
      BY <1>2, <1>3, <2>5, <3>2, RemoveCloseTables
    <3> QED  BY <3>1, <3>2
  <2> QED  BY <2>1, <2>6, <2>7, <2>8, <2>9 DEF LoopInv
<1>4. CASE RemoveUnknown(fd) /\ apc' = [apc EXCEPT ![t] = "idle"]
  <2>1. UNCHANGED <<file, kind, watch, ready, input, hung, polled, mem, openFds, lock>>
    BY <1>4 DEF RemoveUnknown, kernel, tables
  <2>2. /\ apc'[t] = "idle" /\ \A u \in Thread : u # t => apc'[u] = apc[u]
    BY <1>1, <1>4 DEF ThreadsTyped
  <2>3. Live' = Live /\ Known' = Known /\ Removed' = Removed
    BY <1>1, <2>1, <2>2, LiveKeeps
  <2>4. KernelTyped' /\ TablesTyped' /\ LoopTyped'
    BY <1>1, <2>1 DEF KernelTyped, TablesTyped, LoopTyped, EventRecord, Files
  <2>5. ThreadsTyped' /\ LockInv' /\ MakingInv'
    <3>1. ThreadsTyped'
      <4>1. lock' \in {Free, "loop"} \cup Thread
        BY <1>1, <2>1 DEF ThreadsTyped
      <4> QED  BY <1>1, <1>4, <2>1, <4>1, ThreadsKeep
    <3>2. LockInv' /\ MakingInv'
      BY <1>1, <2>1, <2>2, <2>3 DEF LockInv, MakingInv
    <3> QED  BY <3>1, <3>2
  <2>6. TablesInv'
    BY <1>1, <2>1, <2>3, TablesKeep
  <2> QED  BY <2>4, <2>5, <2>6 DEF LoopInv
<1> QED  BY <1>2, <1>3, <1>4 DEF Close

LEMMA EraseLoopInv ==
  ASSUME LoopInv, NEW t \in Thread, Erase(t)
  PROVE  LoopInv'
<1> DEFINE fd == own[t].fd
<1>1. /\ KernelTyped /\ TablesTyped /\ ThreadsTyped /\ LoopTyped
      /\ LockInv /\ MakingInv /\ TablesInv
      /\ RemoveErase(t, fd) /\ apc[t] = "erase" /\ apc' = [apc EXCEPT ![t] = "idle"]
      /\ UNCHANGED <<traffic, shouldStop, lpc, batch, lfd, told, own, sig>>
  BY DEF LoopInv, Erase, loop
<1>2. fd \in Fd /\ fd = own[t].fd
  BY <1>1 DEF ThreadsTyped
<1> HIDE DEF fd
<1>3. /\ KernelTyped' /\ TablesTyped' /\ UNCHANGED <<file, kind, input, hung, mem>>
      /\ lock = t /\ lock' = Free /\ openFds' = openFds \ {fd}
      /\ DOMAIN polled' = DOMAIN polled \ {fd}
  BY <1>1, <1>2, RemoveEraseTyped
<1>4. /\ apc'[t] = "idle" /\ \A u \in Thread : u # t => apc'[u] = apc[u]
  BY <1>1 DEF ThreadsTyped
<1>5. \A u \in Thread : apc'[u] # "erase" /\ u # Free
  BY <1>1, <1>3, <1>4, EventLoopAssumption DEF LockInv, Free
<1>6. lpc # "erase" /\ lpc' # "erase" /\ Removed = {fd}
  BY <1>1, <1>2, <1>3, LiveFacts, EventLoopAssumption DEF LockInv
<1>7. Removed' = {} /\ Live' = Live /\ Known' = Known
  <2>1. Removed' = {}
    BY <1>5, <1>6 DEF Removed
  <2> QED  BY <1>3, <1>6, <2>1 DEF Live, Known
<1>8. LoopTyped' /\ ThreadsTyped'
  BY <1>1, <1>3, <1>4 DEF LoopTyped, ThreadsTyped, TrafficTyped, traffic, EventRecord, Files
<1>9. LockInv'
  BY <1>3, <1>5, <1>6 DEF LockInv, Free
<1>10. MakingInv'
  BY <1>1, <1>3, <1>4, <1>7 DEF MakingInv
<1>11. TablesInv'
  <2>1. CASE lpc = "exited"
    BY <1>1, <2>1 DEF TablesInv
  <2>2. CASE lpc # "exited"
    BY <1>1, <1>2, <1>6, <1>7, <2>2, RemoveEraseTables
  <2> QED  BY <2>1, <2>2
<1> QED  BY <1>3, <1>8, <1>9, <1>10, <1>11 DEF LoopInv

-----------------------------------------------------------------------------
(* The loop's thread and the network.                                      *)

(* Steps that leave the tables, the threads and what is being made alone.  *)
LEMMA TablesUntouched ==
  ASSUME LoopInv, KernelTyped', LoopTyped', TrafficTyped',
         UNCHANGED <<file, kind, watch, tables, threads>>,
         \A pc \in {"erase", "register", "exited"} : lpc' = pc <=> lpc = pc,
         lpc \in {"erase", "register"} => lfd' = lfd
  PROVE  LoopInv'
<1>1. UNCHANGED <<polled, mem, openFds, lock, apc, own, sig>>
  BY DEF tables, threads
<1>2. /\ lpc' = "erase" <=> lpc = "erase"
      /\ lpc' = "register" <=> lpc = "register"
      /\ lpc' = "exited" <=> lpc = "exited"
  OBVIOUS
<1>3. Live' = Live /\ Known' = Known /\ Removed' = Removed
  BY <1>1, <1>2, LiveKeeps
<1>4. TablesTyped' /\ ThreadsTyped' /\ LockInv'
  BY <1>1, <1>2 DEF LoopInv, TablesTyped, ThreadsTyped, LockInv
<1>5. MakingInv'
  BY <1>1, <1>2, <1>3 DEF LoopInv, MakingInv
<1>6. TablesInv'
  BY <1>1, <1>2, <1>3, TablesKeep
<1> QED  BY <1>4, <1>5, <1>6 DEF LoopInv

LEMMA ArriveLoopInv ==
  ASSUME LoopInv, NEW f \in Files, Arrive(f)
  PROVE  LoopInv'
<1>1. /\ inputs < MaxInputs /\ inputs' = inputs + 1 /\ input' = input \cup {f} /\ Notify(f)
      /\ UNCHANGED <<file, kind, watch, hung, full, tables, threads>>
      /\ UNCHANGED <<shouldStop, lpc, batch, lfd, told>> /\ KernelTyped
  BY DEF Arrive, loop, LoopInv
<1>2. KernelTyped'
  <2>1. ready' \in Seq(Files) /\ Range(ready') \subseteq DOMAIN watch
    BY <1>1, NotifyFacts
  <2> QED  BY <1>1, <2>1 DEF KernelTyped, Files
<1>3. LoopTyped' /\ TrafficTyped'
  BY <1>1, EventLoopAssumption
     DEF LoopInv, LoopTyped, ThreadsTyped, TrafficTyped, traffic, EventRecord, Files
<1> QED  BY <1>1, <1>2, <1>3, TablesUntouched

LEMMA HangupLoopInv ==
  ASSUME LoopInv, NEW f \in Files, Hangup(f)
  PROVE  LoopInv'
<1>1. /\ hung' = hung \cup {f} /\ Notify(f)
      /\ UNCHANGED <<file, kind, watch, input, traffic, tables, threads>>
      /\ UNCHANGED <<shouldStop, lpc, batch, lfd, told>> /\ KernelTyped
  BY DEF Hangup, loop, LoopInv
<1>2. KernelTyped'
  <2>1. ready' \in Seq(Files) /\ Range(ready') \subseteq DOMAIN watch
    BY <1>1, NotifyFacts
  <2> QED  BY <1>1, <2>1 DEF KernelTyped, Files
<1>3. LoopTyped' /\ TrafficTyped'
  BY <1>1 DEF LoopInv, LoopTyped, ThreadsTyped, TrafficTyped, traffic, EventRecord, Files
<1> QED  BY <1>1, <1>2, <1>3, TablesUntouched

LEMMA StopLoopInv ==
  ASSUME LoopInv, Stop
  PROVE  LoopInv'
<1>1. /\ shouldStop' = TRUE
      /\ UNCHANGED <<file, kind, watch, ready, input, hung, traffic, tables, threads>>
      /\ UNCHANGED <<lpc, batch, lfd, told>>
  BY DEF Stop, kernel
<1>2. KernelTyped' /\ LoopTyped' /\ TrafficTyped'
  BY <1>1 DEF LoopInv, KernelTyped, LoopTyped, ThreadsTyped, TrafficTyped, traffic, EventRecord, Files
<1> QED  BY <1>1, <1>2, TablesUntouched

(* What epoll_wait reports, and how it leaves its ready list.              *)
LEMMA EpollWaitFacts ==
  ASSUME LoopInv, EpollWait
  PROVE  /\ batch' \in Seq(EventRecord) /\ batch' # << >>
         /\ \A i \in DOMAIN batch' :
              /\ batch'[i].file \in DOMAIN watch /\ watch[batch'[i].file] = batch'[i].addr
              /\ batch'[i].hup <=> batch'[i].file \in hung
         /\ ready' \in Seq(Files) /\ Range(ready') \subseteq DOMAIN watch
         /\ IsInjective(ready) =>
              /\ IsInjective(ready')
              /\ \A i, j \in DOMAIN batch' : batch'[i].file = batch'[j].file => i = j
<1> DEFINE r == Reported
           n == IF Len(r) < MaxEvents THEN Len(r) ELSE MaxEvents
           m == Len(r) - n
<1>1. /\ r # << >>
      /\ batch' = [i \in 1 .. n |-> [addr |-> watch[r[i]], file |-> r[i], hup |-> r[i] \in hung]]
      /\ ready' = SubSeq(r, n + 1, Len(r)) \o SubSeq(r, 1, n)
  BY DEF EpollWait
<1>2. ready \in Seq(Files) /\ Range(ready) \subseteq DOMAIN watch /\ KernelTyped
  BY DEF LoopInv, KernelTyped
<1>3. /\ r \in Seq(Files) /\ Range(r) \subseteq DOMAIN watch
      /\ IsInjective(ready) => IsInjective(r)
  BY <1>2, WithoutFacts DEF Reported
<1> HIDE DEF r
<1>4. /\ Len(r) \in Nat \ {0} /\ DOMAIN r = 1 .. Len(r)
      /\ \A i \in 1 .. Len(r) : r[i] \in Files /\ r[i] \in DOMAIN watch
  BY <1>1, <1>3 DEF Range
<1>5. n \in Nat \ {0} /\ n <= Len(r) /\ m \in Nat /\ m + n = Len(r)
  BY <1>4, EventLoopAssumption
<1> HIDE DEF n
<1>6. \A i \in 1 .. n :
        [addr |-> watch[r[i]], file |-> r[i], hup |-> r[i] \in hung] \in EventRecord
  BY <1>2, <1>4, <1>5 DEF EventRecord, KernelTyped, Range
<1>7. /\ batch' \in Seq(EventRecord) /\ Len(batch') = n /\ DOMAIN batch' = 1 .. n
      /\ \A i \in 1 .. n :
           batch'[i] = [addr |-> watch[r[i]], file |-> r[i], hup |-> r[i] \in hung]
  BY <1>1, <1>5, <1>6
<1>8. \A i \in 1 .. n :
        /\ batch'[i].addr = watch[r[i]] /\ batch'[i].file = r[i]
        /\ batch'[i].hup <=> r[i] \in hung
  <2> TAKE i \in 1 .. n
  <2>1. batch'[i] = [addr |-> watch[r[i]], file |-> r[i], hup |-> r[i] \in hung]
    BY <1>7
  <2>2. CASE r[i] \in hung
    <3>1. batch'[i] = [addr |-> watch[r[i]], file |-> r[i], hup |-> TRUE]
      BY <2>1, <2>2, Zenon
    <3>2. batch'[i].hup = TRUE /\ batch'[i].addr = watch[r[i]] /\ batch'[i].file = r[i]
      BY <3>1
    <3> QED  BY <2>2, <3>2
  <2>3. CASE ~(r[i] \in hung)
    <3>1. (r[i] \in hung) = FALSE
      BY <2>3
    <3>2. batch'[i] = [addr |-> watch[r[i]], file |-> r[i], hup |-> FALSE]
      BY <2>1, <3>1, Zenon
    <3>3. batch'[i].hup = FALSE /\ batch'[i].addr = watch[r[i]] /\ batch'[i].file = r[i]
      BY <3>2
    <3> QED  BY <2>3, <3>3
  <2> QED  BY <2>2, <2>3
<1>9. batch' # << >>
  BY <1>5, <1>7
<1>10. /\ ready' \in Seq(Files) /\ Len(ready') = Len(r)
       /\ \A j \in 1 .. Len(r) : ready'[j] = IF j <= m THEN r[n + j] ELSE r[j - m]
  <2> DEFINE a == SubSeq(r, n + 1, Len(r))
             b == SubSeq(r, 1, n)
  <2>1. a \in Seq(Files) /\ Len(a) = m /\ \A j \in 1 .. m : a[j] = r[n + j]
    <3>1. n \in 0 .. Len(r)
      BY <1>4, <1>5
    <3>2. Len(r) - n = m
      BY <1>4, <1>5
    <3> QED  BY <1>3, <3>1, <3>2, SuffixFacts
  <2>2. b \in Seq(Files) /\ Len(b) = n /\ \A j \in 1 .. n : b[j] = r[j]
    BY <1>3, <1>4, <1>5
  <2> HIDE DEF a, b
  <2>3. /\ a \o b \in Seq(Files) /\ Len(a \o b) = m + n
        /\ \A j \in 1 .. m + n : (a \o b)[j] = IF j <= m THEN a[j] ELSE b[j - m]
    <3>1. /\ a \o b \in Seq(Files) /\ Len(a \o b) = Len(a) + Len(b)
          /\ \A j \in 1 .. Len(a) + Len(b) :
               (a \o b)[j] = IF j <= Len(a) THEN a[j] ELSE b[j - Len(a)]
      BY <2>1, <2>2, ConcatProperties, Zenon
    <3> QED  BY <2>1, <2>2, <3>1, Zenon
  <2>4. ready' = a \o b
    BY <1>1 DEF a, b
  <2>5. ASSUME NEW j \in 1 .. Len(r)
        PROVE  ready'[j] = IF j <= m THEN r[n + j] ELSE r[j - m]
    <3>1. CASE j <= m
      BY <1>5, <2>1, <2>3, <2>4, <3>1
    <3>2. CASE ~(j <= m)
      <4>1. j - m \in 1 .. n
        BY <1>5, <3>2
      <4> QED  BY <1>5, <2>2, <2>3, <2>4, <3>2, <4>1
    <3> QED  BY <3>1, <3>2
  <2> QED  BY <1>5, <2>3, <2>4, <2>5
<1>11. DOMAIN ready' = 1 .. Len(r)
  BY <1>10
<1>12. \A j \in 1 .. Len(r) : ready'[j] \in DOMAIN watch
  <2> TAKE j \in 1 .. Len(r)
  <2>1. CASE j <= m
    <3>1. n + j \in 1 .. Len(r)
      BY <1>5, <2>1
    <3> QED  BY <1>4, <1>10, <2>1, <3>1
  <2>2. CASE ~(j <= m)
    <3>1. j - m \in 1 .. Len(r)
      BY <1>5, <2>2
    <3> QED  BY <1>4, <1>10, <2>2, <3>1
  <2> QED  BY <2>1, <2>2
<1>13. Range(ready') \subseteq DOMAIN watch
  BY <1>11, <1>12 DEF Range
<1>14. ASSUME IsInjective(ready)
       PROVE  /\ IsInjective(ready')
              /\ \A i, j \in DOMAIN batch' : batch'[i].file = batch'[j].file => i = j
  <2>1. \A i, j \in 1 .. Len(r) : r[i] = r[j] => i = j
    BY <1>3, <1>4, <1>14 DEF IsInjective
  <2>2. \A i, j \in 1 .. Len(r) : ready'[i] = ready'[j] => i = j
    <3> TAKE i, j \in 1 .. Len(r)
    <3> HAVE ready'[i] = ready'[j]
    <3> DEFINE p == IF i <= m THEN n + i ELSE i - m
               q == IF j <= m THEN n + j ELSE j - m
    <3>1. p \in 1 .. Len(r) /\ q \in 1 .. Len(r) /\ r[p] = r[q]
      BY <1>5, <1>10
    <3>2. p = q
      BY <2>1, <3>1
    <3> QED  BY <1>5, <3>2
  <2>3. \A i, j \in 1 .. n : batch'[i].file = batch'[j].file => i = j
    BY <1>5, <1>8, <2>1
  <2>4. IsInjective(ready')
    BY <1>11, <2>2 DEF IsInjective
  <2> QED  BY <1>7, <2>3, <2>4
<1>15. \A i \in DOMAIN batch' :
         /\ batch'[i].file \in DOMAIN watch /\ watch[batch'[i].file] = batch'[i].addr
         /\ batch'[i].hup <=> batch'[i].file \in hung
  BY <1>4, <1>5, <1>7, <1>8
<1> QED  BY <1>7, <1>9, <1>10, <1>13, <1>14, <1>15

LEMMA EpollWaitLoopInv ==
  ASSUME LoopInv, EpollWait
  PROVE  LoopInv'
<1>1. /\ lpc = "wait" /\ lpc' = "event"
      /\ UNCHANGED <<file, kind, watch, input, hung, traffic, tables, shouldStop, lfd, told, threads>>
  BY DEF EpollWait
<1>2. /\ batch' \in Seq(EventRecord) /\ batch' # << >>
      /\ ready' \in Seq(Files) /\ Range(ready') \subseteq DOMAIN watch
  BY EpollWaitFacts
<1>3. KernelTyped' /\ LoopTyped' /\ TrafficTyped'
  BY <1>1, <1>2
     DEF LoopInv, KernelTyped, LoopTyped, ThreadsTyped, TrafficTyped, traffic, EventRecord, Files
<1> QED  BY <1>1, <1>3, TablesUntouched

LEMMA ExitLoopInv ==
  ASSUME LoopInv, Exit
  PROVE  LoopInv'
<1>1. /\ lpc = "wait" /\ lpc' = "exited" /\ CloseAll(openFds)
      /\ UNCHANGED <<kind, traffic, polled, mem, openFds, lock, apc, own, sig>>
      /\ UNCHANGED <<shouldStop, batch, lfd, told>>
  BY DEF Exit, tables, threads
<1>2. KernelTyped /\ openFds \in SUBSET Fd
  BY DEF LoopInv, TablesTyped
<1>3. KernelTyped' /\ \A o \in Fd : file'[o] = IF o \in openFds THEN 0 ELSE file[o]
  BY <1>1, <1>2, CloseAllFacts
<1>4. TablesTyped' /\ LoopTyped' /\ ThreadsTyped'
  BY <1>1
     DEF LoopInv, TablesTyped, LoopTyped, ThreadsTyped, TrafficTyped, traffic, EventRecord, Files
<1>5. LockInv' /\ MakingInv' /\ TablesInv'
  BY <1>1, <1>3 DEF LoopInv, LockInv, MakingInv, TablesInv
<1> QED  BY <1>3, <1>4, <1>5 DEF LoopInv

(* Callbacks that only read, and the hang-up's.                            *)
LEMMA CallbackLoopInv ==
  ASSUME LoopInv, OnData \/ AcceptFails \/ Exec \/ ExecOnce \/ PeerClosed
  PROVE  LoopInv'
<1>1. LoopTyped /\ TablesTyped /\ KernelTyped /\ lpc \in {"event", "hup"}
  BY DEF LoopInv, OnData, AcceptFails, Exec, ExecOnce, PeerClosed
<1>2. /\ batch \in Seq(EventRecord) /\ batch # << >> /\ Ctx.fd \in Fd
      /\ Head(batch) \in EventRecord /\ Head(batch) = batch[1] /\ Len(batch) \in Nat \ {0}
  BY <1>1, EventFacts DEF LoopTyped
<1>3. /\ UNCHANGED <<file, kind, watch, ready, hung, tables, threads, shouldStop>>
      /\ input' \subseteq input /\ TrafficTyped'
  <2>1. TrafficTyped /\ input \subseteq Files
    BY DEF LoopInv, KernelTyped, ThreadsTyped
  <2>2. CASE OnData
    BY <2>1, <2>2 DEF OnData, TrafficTyped, Files
  <2>3. CASE AcceptFails \/ Exec \/ ExecOnce \/ PeerClosed
    BY <2>1, <2>3
       DEF AcceptFails, Exec, ExecOnce, PeerClosed, kernel, TrafficTyped, traffic, Files
  <2> QED  BY <2>2, <2>3
<1>4. CASE OnData \/ AcceptFails \/ Exec
  <2>1. Proceed /\ UNCHANGED <<lfd, told>>
    BY <1>4 DEF OnData, AcceptFails, Exec
  <2>2. /\ lpc' \in {"wait", "event", "hup"} /\ batch' \in Seq(EventRecord)
        /\ lpc' # "wait" => batch' # << >>
    BY <1>1, <2>1, ProceedFacts
  <2>3. KernelTyped' /\ LoopTyped' /\ TrafficTyped'
    BY <1>1, <1>3, <2>1, <2>2
       DEF LoopInv, KernelTyped, LoopTyped, ThreadsTyped, TrafficTyped, traffic, EventRecord, Files
  <2> QED  BY <1>1, <1>3, <2>2, <2>3, TablesUntouched
<1>5. CASE ExecOnce
  <2>1. lfd' = Ctx.fd /\ lpc' = "remove" /\ UNCHANGED <<batch, told>>
    BY <1>5 DEF ExecOnce
  <2>2. KernelTyped' /\ LoopTyped' /\ TrafficTyped'
    BY <1>1, <1>2, <1>3, <2>1
       DEF LoopInv, KernelTyped, LoopTyped, ThreadsTyped, TrafficTyped, traffic, EventRecord, Files
  <2> QED  BY <1>1, <1>3, <2>1, <2>2, TablesUntouched
<1>6. CASE PeerClosed
  <2>1. /\ told' = (IF Ctx.kind = "conn" THEN Append(told, file[Ctx.fd]) ELSE told)
        /\ lfd' = Ctx.fd /\ lpc' = "remove" /\ batch' = [batch EXCEPT ![1].hup = FALSE]
    BY <1>6 DEF PeerClosed
  <2>2. told' \in Seq(Files \cup {0})
    <3>1. told \in Seq(Files \cup {0}) /\ file[Ctx.fd] \in Files \cup {0}
      BY <1>1, <1>2 DEF LoopTyped, KernelTyped, Files
    <3> QED  BY <2>1, <3>1, AppendFacts
  <2>3. batch' \in Seq(EventRecord) /\ batch' # << >>
    <3>1. [batch[1] EXCEPT !.hup = FALSE] \in EventRecord
      BY <1>2 DEF EventRecord
    <3> DEFINE e == [batch[1] EXCEPT !.hup = FALSE]
    <3> HIDE DEF e
    <3>2. batch' = [batch EXCEPT ![1] = e] /\ e \in EventRecord
      BY <2>1, <3>1 DEF e
    <3>3. batch' \in Seq(EventRecord) /\ Len(batch') = Len(batch)
      BY <1>2, <3>2
    <3> QED  BY <1>2, <3>3
  <2>4. KernelTyped' /\ LoopTyped' /\ TrafficTyped'
    BY <1>1, <1>2, <1>3, <2>1, <2>2, <2>3
       DEF LoopInv, KernelTyped, LoopTyped, ThreadsTyped, TrafficTyped, traffic, EventRecord, Files
  <2> QED  BY <1>1, <1>3, <2>1, <2>4, TablesUntouched
<1> QED  BY <1>4, <1>5, <1>6

LEMMA AcceptLoopInv ==
  ASSUME LoopInv, Accept
  PROVE  LoopInv'
<1>1. PICK fd \in Fd : OpenFile(fd, "conn") /\ lfd' = fd
  BY DEF Accept
<1>2. /\ lpc = "event" /\ lpc' = "register" /\ input' \subseteq input
      /\ UNCHANGED <<watch, ready, hung, traffic, polled, mem, openFds, lock>>
      /\ UNCHANGED <<shouldStop, batch, told, apc, own, sig>>
  BY DEF Accept, tables, threads
<1>3. "conn" \in Kinds /\ KernelTyped /\ ThreadsTyped /\ LoopTyped /\ MakingInv /\ TablesInv
  BY DEF LoopInv, Kinds
<1>4. /\ Len(kind) \in Nat /\ Len(kind') = Len(kind) + 1 /\ file[fd] = 0
      /\ file'[fd] = Len(kind) + 1 /\ \A o \in Fd : o # fd => file'[o] = file[o]
      /\ \A f \in Files : kind'[f] = kind[f]
      /\ kind'[Len(kind) + 1] = "conn"
  BY <1>1, <1>3, OpenFileFacts
<1>5. Live' = Live /\ Known' = Known /\ Removed' = Removed
  BY <1>2, LiveKeeps
<1>6. KernelTyped'
  BY <1>1, <1>2, <1>3, OpenFileTyped
<1>7. TablesTyped' /\ LockInv'
  BY <1>2 DEF LoopInv, TablesTyped, LockInv
<1>8. LoopTyped'
  <2>1. batch \in Seq(EventRecord) /\ batch # << >> /\ told \in Seq(Files \cup {0})
    BY <1>2, <1>3 DEF LoopTyped
  <2>2. batch \in Seq(EventRecord') /\ told \in Seq(Files' \cup {0})
    BY <1>1, <1>3, <2>1, OpenFileTyped
  <2> QED  BY <1>1, <1>2, <1>3, <2>1, <2>2 DEF LoopTyped
<1>9. ThreadsTyped'
  <2>1. /\ own \in [Thread -> [fd : Fd, file : 0 .. Len(kind')]]
        /\ sig \in [Thread -> [fd : Fd \cup {0}, file : 0 .. Len(kind'), fired : BOOLEAN]]
    BY <1>1, <1>3, OpenFileTyped DEF ThreadsTyped
  <2>2. Files \subseteq Files'
    BY <1>4 DEF Files
  <2> QED  BY <1>2, <1>3, <2>1, <2>2 DEF ThreadsTyped, TrafficTyped, traffic
<1>10. MakingInv'
  <2>1. \A o \in Fd : file[o] # Len(kind) + 1
    BY <1>3, <1>4 DEF KernelTyped
  <2>2. \A o, p \in Fd : file'[o] # 0 /\ file'[o] = file'[p] => o = p
    BY <1>3, <1>4, <2>1 DEF MakingInv
  <2>3. fd \notin Known
    BY <1>2, <1>3, <1>4 DEF TablesInv
  <2>4. \A u \in Thread : apc[u] = "register" => own[u].fd # fd
    <3>1. \A u \in Thread : apc[u] = "register" => own[u].file # 0
      BY <1>3 DEF ThreadsTyped
    <3> QED  BY <1>2, <1>3, <1>4, <3>1 DEF MakingInv
  <2>5. \A u \in Thread : own[u].fd \in Fd
    BY <1>3 DEF ThreadsTyped
  <2> QED
    BY <1>1, <1>2, <1>3, <1>4, <1>5, <2>2, <2>3, <2>4, <2>5 DEF MakingInv
<1>11. TablesInv'
  <2>1. \A o \in Known : file'[o] = file[o]
    BY <1>2, <1>3, <1>4 DEF TablesInv, Known, LoopInv, TablesTyped
  <2> QED  BY <1>2, <1>4, <1>5, <2>1, TablesKeep
<1> QED  BY <1>6, <1>7, <1>8, <1>9, <1>10, <1>11 DEF LoopInv

LEMMA RegisterAcceptedLoopInv ==
  ASSUME LoopInv, RegisterAccepted
  PROVE  LoopInv'
<1>1. /\ lpc = "register" /\ RegisterFd(lfd, "conn") /\ Proceed
      /\ UNCHANGED <<traffic, shouldStop, lfd, told, apc, own, sig>>
  BY DEF RegisterAccepted, threads
<1>2. /\ KernelTyped /\ TablesTyped /\ ThreadsTyped /\ LoopTyped
      /\ LockInv /\ MakingInv /\ TablesInv
  BY DEF LoopInv
<1>3. /\ lfd \in Fd /\ "conn" \in Kinds /\ lfd \notin Known
      /\ file[lfd] # 0 /\ kind[file[lfd]] = "conn"
  BY <1>1, <1>2 DEF LoopTyped, Kinds, MakingInv
<1>4. KernelTyped' /\ TablesTyped' /\ UNCHANGED <<file, kind, input, hung, lock>>
  BY <1>1, <1>2, <1>3, RegisterFdTyped
<1>5. /\ lpc' \in {"wait", "event", "hup"} /\ batch' \in Seq(EventRecord)
      /\ lpc' # "wait" => batch' # << >>
  BY <1>1, <1>2, ProceedFacts
<1>6. LoopTyped' /\ ThreadsTyped' /\ LockInv'
  BY <1>1, <1>2, <1>4, <1>5
     DEF LoopTyped, ThreadsTyped, TrafficTyped, traffic, LockInv, EventRecord, Files
<1>7. /\ lock = Free /\ DOMAIN polled' = DOMAIN polled \cup {lfd}
      /\ openFds' = openFds \/ openFds' = openFds \cup {lfd}
      /\ DOMAIN watch' = {file[o] : o \in openFds'}
      /\ \A o \in openFds' : watch'[file[o]] = polled'[o]
      /\ \A o \in DOMAIN polled' :
           file[o] # 0 /\ mem'[polled'[o]] = [fd |-> o, kind |-> kind[file[o]]]
      /\ \A o, p \in DOMAIN polled' : polled'[o] = polled'[p] => o = p
  BY <1>1, <1>3, RegisterFdTables
<1>8. Live = openFds /\ Known = DOMAIN polled /\ Removed = {} /\ openFds \subseteq DOMAIN polled
  BY <1>1, <1>2, <1>7, LiveFacts DEF TablesInv
<1>9. Removed' = {} /\ Live' = openFds' /\ Known' = DOMAIN polled'
  <2>1. Removed' \subseteq Removed
    BY <1>1, <1>5 DEF Removed
  <2> QED  BY <1>8, <2>1 DEF Live, Known
<1>10. MakingInv'
  BY <1>1, <1>2, <1>4, <1>5, <1>7, <1>8, <1>9 DEF MakingInv
<1>11. TablesInv'
  BY <1>4, <1>7, <1>8, <1>9 DEF TablesInv
<1> QED  BY <1>4, <1>6, <1>10, <1>11 DEF LoopInv

LEMMA LoopCloseLoopInv ==
  ASSUME LoopInv, LoopClose
  PROVE  LoopInv'
<1>1. /\ KernelTyped /\ TablesTyped /\ ThreadsTyped /\ LoopTyped
      /\ LockInv /\ MakingInv /\ TablesInv
      /\ lpc = "remove" /\ UNCHANGED <<traffic, shouldStop, lfd, told, apc, own, sig>>
  BY DEF LoopInv, LoopClose, threads
<1>2. lfd \in Fd
  BY <1>1 DEF LoopTyped
<1>3. CASE RemoveClose("loop", lfd) /\ lpc' = "erase" /\ UNCHANGED batch
  <2>1. /\ KernelTyped' /\ TablesTyped' /\ UNCHANGED <<kind, polled, mem, openFds>>
        /\ lock = Free /\ lock' = "loop" /\ lfd \in openFds
        /\ Live = openFds /\ Known = DOMAIN polled
        /\ \A o \in Fd : file'[o] = IF o = lfd THEN 0 ELSE file[o]
    BY <1>2, <1>3, RemoveCloseFacts
  <2>2. \A u \in Thread : apc[u] # "erase" /\ u # "loop"
    BY <1>1, <2>1, EventLoopAssumption DEF LockInv, Free
  <2>3. Removed' = {lfd} /\ Live' = Live \ {lfd} /\ Known' = Known \ {lfd}
    <3>1. Removed' = {lfd}
      BY <1>1, <1>2, <1>3, <2>2 DEF Removed
    <3> QED  BY <2>1, <3>1 DEF Live, Known
  <2>4. LoopTyped' /\ ThreadsTyped' /\ LockInv'
    BY <1>1, <1>3, <2>1, <2>2
       DEF LoopTyped, ThreadsTyped, TrafficTyped, traffic, LockInv, EventRecord, Files
  <2>5. MakingInv'
    <3>1. \A o, p \in Fd : file'[o] # 0 /\ file'[o] = file'[p] => o = p
      BY <1>1, <2>1 DEF MakingInv
    <3>2. \A u \in Thread : own[u].fd \in Fd
      BY <1>1 DEF ThreadsTyped
    <3>3. lfd \in Known
      BY <1>1, <2>1 DEF TablesInv
    <3> QED  BY <1>1, <1>3, <2>1, <2>3, <3>1, <3>2, <3>3 DEF MakingInv
  <2>6. TablesInv'
    BY <1>1, <1>2, <1>3, <2>3, RemoveCloseTables
  <2> QED  BY <2>1, <2>4, <2>5, <2>6 DEF LoopInv
<1>4. CASE RemoveUnknown(lfd) /\ Proceed
  <2>1. UNCHANGED <<file, kind, watch, ready, input, hung, traffic, tables, threads>>
    BY <1>1, <1>4 DEF RemoveUnknown, kernel, threads
  <2>2. /\ lpc' \in {"wait", "event", "hup"} /\ batch' \in Seq(EventRecord)
        /\ lpc' # "wait" => batch' # << >>
    BY <1>1, <1>4, ProceedFacts
  <2>3. KernelTyped' /\ LoopTyped' /\ TrafficTyped'
    BY <1>1, <2>1, <2>2
       DEF KernelTyped, LoopTyped, ThreadsTyped, TrafficTyped, traffic, EventRecord, Files
  <2> QED  BY <1>1, <2>1, <2>2, <2>3, TablesUntouched
<1> QED  BY <1>3, <1>4 DEF LoopClose

LEMMA LoopEraseLoopInv ==
  ASSUME LoopInv, LoopErase
  PROVE  LoopInv'
<1>1. /\ KernelTyped /\ TablesTyped /\ ThreadsTyped /\ LoopTyped
      /\ LockInv /\ MakingInv /\ TablesInv
      /\ RemoveErase("loop", lfd) /\ lpc = "erase" /\ Proceed
      /\ UNCHANGED <<traffic, shouldStop, lfd, told, apc, own, sig>>
  BY DEF LoopInv, LoopErase, threads
<1>2. lfd \in Fd
  BY <1>1 DEF LoopTyped
<1>3. /\ KernelTyped' /\ TablesTyped' /\ UNCHANGED <<file, kind, input, hung, mem>>
      /\ lock = "loop" /\ lock' = Free /\ openFds' = openFds \ {lfd}
      /\ DOMAIN polled' = DOMAIN polled \ {lfd}
  BY <1>1, <1>2, RemoveEraseTyped
<1>4. /\ lpc' \in {"wait", "event", "hup"} /\ batch' \in Seq(EventRecord)
      /\ lpc' # "wait" => batch' # << >>
  BY <1>1, ProceedFacts
<1>5. \A u \in Thread : apc[u] # "erase" /\ u # Free
  BY <1>1, <1>3, EventLoopAssumption DEF LockInv, Free
<1>6. Removed = {lfd}
  BY <1>1, <1>3, LiveFacts
<1>7. Removed' = {} /\ Live' = Live /\ Known' = Known
  <2>1. Removed' = {}
    BY <1>1, <1>4, <1>5 DEF Removed
  <2> QED  BY <1>3, <1>6, <2>1 DEF Live, Known
<1>8. LoopTyped' /\ ThreadsTyped' /\ LockInv'
  BY <1>1, <1>3, <1>4, <1>5
     DEF LoopTyped, ThreadsTyped, TrafficTyped, traffic, LockInv, EventRecord, Files, Free
<1>9. MakingInv'
  BY <1>1, <1>3, <1>4, <1>7 DEF MakingInv
<1>10. TablesInv'
  BY <1>1, <1>2, <1>4, <1>6, <1>7, RemoveEraseTables
<1> QED  BY <1>3, <1>8, <1>9, <1>10 DEF LoopInv

-----------------------------------------------------------------------------
(* The invariant of the loop, its tables and the threads.                  *)
LEMMA InitLoopInv ==
  ASSUME Init
  PROVE  LoopInv
<1>1. /\ file = [fd \in Fd |-> 0] /\ kind = << >> /\ watch = << >> /\ ready = << >>
      /\ polled = << >> /\ openFds = {} /\ lock = Free /\ lpc = "wait" /\ batch = << >>
      /\ lfd = 1 /\ told = << >> /\ shouldStop = FALSE /\ input = {} /\ hung = {}
      /\ apc = [t \in Thread |-> "idle"] /\ own = [t \in Thread |-> [fd |-> 1, file |-> 0]]
      /\ sig = [t \in Thread |-> NoSignal] /\ inputs = 0 /\ full = {}
      /\ mem \in [Address -> {[fd |-> 1, kind |-> "signal"]}]
  BY DEF Init
<1>2. 1 \in Fd /\ MaxInputs \in Nat /\ \A t \in Thread : t # "loop" /\ t # Free
  BY EventLoopAssumption DEF Fd, Free
<1>3. /\ DOMAIN watch = {} /\ DOMAIN ready = {} /\ DOMAIN polled = {} /\ Len(kind) = 0
      /\ kind \in Seq(Kinds) /\ ready \in Seq(Files) /\ batch \in Seq(EventRecord)
      /\ told \in Seq(Files \cup {0})
  BY <1>1
<1>4. Range(watch) = {} /\ Range(ready) = {} /\ Range(polled) = {}
  BY <1>3 DEF Range
<1>5. KernelTyped
  BY <1>1, <1>3, <1>4 DEF KernelTyped
<1>6. TablesTyped
  <2>1. mem \in [Address -> Context]
    <3>1. [fd |-> 1, kind |-> "signal"] \in Context
      BY <1>2 DEF Context, Kinds
    <3> QED  BY <1>1, <3>1
  <2> QED  BY <1>1, <1>3, <1>4, <2>1 DEF TablesTyped
<1>7. LoopTyped
  BY <1>1, <1>2, <1>3 DEF LoopTyped
<1>8. ThreadsTyped
  <2>1. TrafficTyped
    BY <1>1, <1>2 DEF TrafficTyped
  <2>2. NoSignal \in [fd : Fd \cup {0}, file : 0 .. Len(kind), fired : BOOLEAN]
    BY <1>3 DEF NoSignal
  <2>3. [fd |-> 1, file |-> 0] \in [fd : Fd, file : 0 .. Len(kind)]
    BY <1>2, <1>3
  <2>4. \A t \in Thread : apc[t] = "idle" /\ sig[t] = NoSignal
    BY <1>1
  <2> QED  BY <1>1, <2>1, <2>2, <2>3, <2>4 DEF ThreadsTyped
<1>9. \A t \in Thread : apc[t] = "idle"
  BY <1>1
<1>10. LockInv
  BY <1>1, <1>2, <1>9 DEF LockInv, Free
<1>11. Live = {} /\ Known = {} /\ Removed = {}
  BY <1>1, <1>3, <1>9 DEF Live, Known, Removed
<1>12. MakingInv
  BY <1>1, <1>9 DEF MakingInv
<1>13. TablesInv
  BY <1>1, <1>3, <1>11 DEF TablesInv
<1> QED  BY <1>5, <1>6, <1>7, <1>8, <1>10, <1>12, <1>13 DEF LoopInv

LEMMA StepLoopInv ==
  ASSUME LoopInv, [Next]_vars
  PROVE  LoopInv'
<1>1. CASE Run
  BY <1>1, EpollWaitLoopInv, ExitLoopInv, CallbackLoopInv, AcceptLoopInv,
     RegisterAcceptedLoopInv, LoopCloseLoopInv, LoopEraseLoopInv DEF Run
<1>2. CASE \E t \in Thread : Begin(t)
  BY <1>2, NewLoopInv, FireLoopInv, DestroyLoopInv, CloseListenerLoopInv
     DEF Begin
<1>3. CASE \E t \in Thread : Continue(t)
  BY <1>3, RegisterLoopInv, CloseLoopInv, EraseLoopInv DEF Continue
<1>4. CASE Stop
  BY <1>4, StopLoopInv
<1>5. CASE \E f \in Files : Arrive(f) \/ Hangup(f)
  BY <1>5, ArriveLoopInv, HangupLoopInv
<1>6. CASE UNCHANGED vars
  <2>1. /\ UNCHANGED <<file, kind, watch, ready, input, hung, traffic>>
        /\ UNCHANGED <<polled, mem, openFds, lock, shouldStop, lpc, batch, lfd, told>>
        /\ UNCHANGED <<apc, own, sig>>
    BY <1>6 DEF vars, kernel, tables, loop, threads
  <2>2. KernelTyped' /\ TablesTyped' /\ LoopTyped' /\ ThreadsTyped'
    BY <2>1
       DEF LoopInv, KernelTyped, TablesTyped, LoopTyped, ThreadsTyped, TrafficTyped,
           traffic, EventRecord, Files
  <2>3. Removed' = Removed /\ Live' = Live /\ Known' = Known
    BY <2>1 DEF Removed, Live, Known
  <2>4. LockInv' /\ MakingInv' /\ TablesInv'
    BY <2>1, <2>3 DEF LoopInv, LockInv, MakingInv, TablesInv
  <2> QED  BY <2>2, <2>4 DEF LoopInv
<1> QED  BY <1>1, <1>2, <1>3, <1>4, <1>5, <1>6 DEF Next

(* The loop's tables, the kernel's and the threads agree, whatever threads *)
(* register and remove while the loop works on its events.                 *)
THEOREM EventLoopInvariant == Spec => []LoopInv
<1> QED  BY InitLoopInv, StepLoopInv, PTL DEF Spec

(* The tables, the events at hand and the threads keep their types.        *)
THEOREM EventLoopTypeOK == Spec => []TypeOK
<1>1. ASSUME LoopInv PROVE TypeOK
  <2>1. told \in Seq(Files \cup {0}) /\ batch \in Seq(EventRecord)
    BY <1>1 DEF LoopInv, LoopTyped
  <2>2. Range(told) \subseteq Files \cup {0}
    BY <2>1 DEF Range
  <2> QED
    BY <1>1, <2>1, <2>2
       DEF LoopInv, KernelTyped, TablesTyped, LoopTyped, ThreadsTyped, TrafficTyped, EventRecord, TypeOK
<1> QED  BY <1>1, EventLoopInvariant, PTL

(* Whenever nobody is inside register_fd or remove_fd, m_open_fds,         *)
(* m_polled_fids, the nodes' contexts and epoll's interest list agree, but *)
(* for nodes of open descriptors that epoll refused to watch.              *)
THEOREM EventLoopBookkeeping == Spec => []Bookkeeping
<1>1. ASSUME LoopInv, lock = Free, lpc # "exited"
      PROVE  /\ openFds \subseteq DOMAIN polled
             /\ DOMAIN watch = {file[fd] : fd \in openFds}
             /\ \A fd \in openFds : watch[file[fd]] = polled[fd]
             /\ \A fd \in Refused : file[fd] \notin DOMAIN watch
             /\ \A fd \in DOMAIN polled :
                  /\ file[fd] # 0
                  /\ mem[polled[fd]] = [fd |-> fd, kind |-> kind[file[fd]]]
                  /\ \A other \in DOMAIN polled \ {fd} : polled[other] # polled[fd]
  <2>1. Live = openFds /\ Known = DOMAIN polled
    BY <1>1, LiveFacts DEF LoopInv
  <2>2. /\ openFds \subseteq DOMAIN polled /\ DOMAIN watch = {file[fd] : fd \in openFds}
        /\ \A fd \in openFds : watch[file[fd]] = polled[fd]
        /\ \A fd \in DOMAIN polled :
             file[fd] # 0 /\ mem[polled[fd]] = [fd |-> fd, kind |-> kind[file[fd]]]
        /\ \A fd, other \in DOMAIN polled : polled[fd] = polled[other] => fd = other
    BY <1>1, <2>1 DEF LoopInv, TablesInv
  <2>3. \A fd, other \in DOMAIN polled : file[fd] = file[other] => fd = other
    BY <1>1, <2>2 DEF LoopInv, MakingInv, TablesTyped
  <2>4. \A fd \in Refused : file[fd] \notin DOMAIN watch
    BY <2>2, <2>3 DEF Refused
  <2> QED  BY <2>2, <2>4
<1>2. LoopInv => Bookkeeping
  BY <1>1 DEF Bookkeeping
<1> QED  BY <1>2, EventLoopInvariant, PTL

-----------------------------------------------------------------------------
(* What the loop works on, where no thread removes anything.               *)

(* The event at hand is of an open file, and the context at its address is *)
(* the one registered for that file.                                       *)
LEMMA OwnEvent ==
  ASSUME LoopInv, BatchInv, lpc \in {"event", "register", "hup", "remove"}
  PROVE  /\ lock = Free /\ Live = openFds /\ Head(batch) = batch[1]
         /\ Ctx.fd \in openFds /\ Ctx.fd \in DOMAIN polled /\ file[Ctx.fd] = batch[1].file
         /\ polled[Ctx.fd] = batch[1].addr /\ Ctx.kind = kind[batch[1].file]
         /\ batch[1].file \in Files /\ 1 \in DOMAIN batch
         /\ \A fd \in Fd : file[fd] = batch[1].file => fd = Ctx.fd
<1>1. /\ TablesTyped /\ LoopTyped /\ KernelTyped /\ TablesInv
      /\ \A fd, other \in Fd : file[fd] # 0 /\ file[fd] = file[other] => fd = other
  BY DEF LoopInv, MakingInv
<1>2. lock = Free
  <2>1. lock \in {Free, "loop"} \cup Thread
    BY DEF LoopInv, ThreadsTyped
  <2> QED  BY <2>1 DEF LoopInv, LockInv, BatchInv
<1>3. Live = openFds /\ Known = DOMAIN polled /\ openFds \subseteq Fd
  BY <1>1, <1>2, LiveFacts DEF LoopInv, TablesTyped
<1>4. Head(batch) = batch[1] /\ 1 \in DOMAIN batch
  BY <1>1, EventFacts
<1>5. /\ batch[1].file \in DOMAIN watch /\ watch[batch[1].file] = batch[1].addr
  BY <1>4 DEF BatchInv
<1>6. PICK fd \in openFds : file[fd] = batch[1].file /\ fd \in DOMAIN polled
  BY <1>1, <1>3, <1>5 DEF TablesInv, BatchInv
<1>7. /\ file[fd] # 0 /\ watch[file[fd]] = polled[fd]
      /\ mem[polled[fd]] = [fd |-> fd, kind |-> kind[file[fd]]]
  BY <1>1, <1>3 DEF TablesInv
<1>8. polled[fd] = batch[1].addr
  BY <1>5, <1>6, <1>7
<1>9. Ctx = [fd |-> fd, kind |-> kind[batch[1].file]]
  BY <1>4, <1>6, <1>7, <1>8 DEF Ctx
<1>10. Ctx.fd = fd /\ Ctx.kind = kind[batch[1].file]
  BY <1>9
<1>11. batch[1].file \in Files
  BY <1>1, <1>5 DEF KernelTyped
<1> QED  BY <1>1, <1>2, <1>3, <1>4, <1>6, <1>7, <1>8, <1>10, <1>11

(* Steps that leave the events at hand alone.                              *)
LEMMA BatchKeeps ==
  ASSUME LoopInv, BatchInv, UNCHANGED batch, IsInjective(ready'),
         lpc' = lpc \/ (lpc = "event" /\ lpc' = "register"),
         lpc \in {"wait", "exited"} \/
           \A f \in DOMAIN watch : f \in DOMAIN watch' /\ watch'[f] = watch[f],
         \A f \in Files : kind'[f] = kind[f],
         hung' \subseteq {f \in Files' : kind'[f] \in {"conn", "client"}},
         lpc = "remove" => file'[lfd'] = file[lfd],
         \A t \in Thread : apc'[t] \in {"idle", "register"}
  PROVE  BatchInv'
<1>1. \A i \in DOMAIN batch : batch[i].file \in Files
  <2>1. batch \in Seq(EventRecord)
    BY DEF LoopInv, LoopTyped
  <2>2. \A i \in DOMAIN batch : batch[i] \in EventRecord
    BY <2>1
  <2> QED  BY <2>2 DEF EventRecord
<1>2. \A i \in DOMAIN batch' :
        /\ i > 1 \/ lpc' # "erase" =>
             batch'[i].file \in DOMAIN watch' /\ watch'[batch'[i].file] = batch'[i].addr
        /\ batch'[i].hup => kind'[batch'[i].file] \in {"conn", "client"}
  <2> TAKE i \in DOMAIN batch'
  <2>1. CASE lpc \in {"wait", "exited"}
    <3>1. batch = << >>
      BY <2>1 DEF BatchInv
    <3>2. DOMAIN batch' = {}
      BY <3>1
    <3> QED  BY <3>2
  <2>2. CASE lpc \notin {"wait", "exited"}
    BY <1>1, <2>2 DEF BatchInv
  <2> QED  BY <2>1, <2>2
<1>3. \A i, j \in DOMAIN batch' : batch'[i].file = batch'[j].file => i = j
  BY DEF BatchInv
<1>4. /\ lpc' \in {"remove", "erase"} => ~batch'[1].hup
      /\ lpc' = "remove" => file'[lfd'] = batch'[1].file
      /\ lpc' \in {"wait", "exited"} => batch' = << >>
  BY DEF BatchInv
<1> QED  BY <1>2, <1>3, <1>4 DEF BatchInv

(* The loop goes on to a hang-up or the next event.                        *)
LEMMA ProceedBatch ==
  ASSUME LoopInv, BatchInv, lpc \notin {"wait", "exited"}, Proceed,
         UNCHANGED <<kind, apc>>, IsInjective(ready'), hung' \subseteq hung,
         \A i \in DOMAIN batch : i > 1 \/ lpc # "erase" =>
           batch[i].file \in DOMAIN watch' /\ watch'[batch[i].file] = batch[i].addr
  PROVE  BatchInv'
<1>1. /\ lpc' \in {"wait", "event", "hup"} /\ batch' \in Seq(EventRecord)
      /\ lpc' = "wait" => batch' = << >>
      /\ batch[1].hup => lpc' = "hup" /\ batch' = batch
      /\ ~batch[1].hup =>
           /\ Len(batch') = Len(batch) - 1
           /\ \A i \in 1 .. Len(batch) - 1 : batch'[i] = batch[i + 1]
  BY ProceedFacts DEF LoopInv
<1>2. Len(batch) \in Nat \ {0} /\ DOMAIN batch = 1 .. Len(batch)
  BY EventFacts DEF LoopInv
<1>3. hung' \subseteq {f \in Files' : kind'[f] \in {"conn", "client"}}
  BY DEF BatchInv, Files
<1>4. \A i, j \in DOMAIN batch : batch[i].file = batch[j].file => i = j
  BY DEF BatchInv
<1>5. \A i \in DOMAIN batch : batch[i].hup => kind[batch[i].file] \in {"conn", "client"}
  BY DEF BatchInv
<1>6. /\ \A i, j \in DOMAIN batch' : batch'[i].file = batch'[j].file => i = j
      /\ \A i \in DOMAIN batch' :
           /\ batch'[i].file \in DOMAIN watch' /\ watch'[batch'[i].file] = batch'[i].addr
           /\ batch'[i].hup => kind[batch'[i].file] \in {"conn", "client"}
  <2>1. CASE batch[1].hup
    <3>1. lpc # "erase" /\ batch' = batch
      BY <1>1, <2>1 DEF BatchInv
    <3> QED  BY <1>4, <1>5, <3>1
  <2>2. CASE ~batch[1].hup
    <3>1. DOMAIN batch' = 1 .. Len(batch) - 1
      BY <1>1, <2>2
    <3>2. \A i \in DOMAIN batch' :
            batch'[i] = batch[i + 1] /\ i + 1 \in DOMAIN batch /\ i + 1 > 1
      <4>1. \A i \in 1 .. Len(batch) - 1 : i + 1 \in 1 .. Len(batch) /\ i + 1 > 1
        BY <1>2
      <4> QED  BY <1>1, <1>2, <2>2, <3>1, <4>1
    <3>3. \A i, j \in DOMAIN batch' : batch'[i].file = batch'[j].file => i = j
      BY <1>4, <3>1, <3>2
    <3> QED  BY <1>5, <3>2, <3>3
  <2> QED  BY <2>1, <2>2
<1>7. \A t \in Thread : apc'[t] \in {"idle", "register"}
  BY DEF BatchInv
<1> QED  BY <1>1, <1>3, <1>6, <1>7 DEF BatchInv

(* Steps that close nothing and tell nobody.                               *)
LEMMA ToldKeeps ==
  ASSUME ToldInv, UNCHANGED told, Files \subseteq Files',
         \A f \in Files : kind'[f] = kind[f] /\ (Open(f)' <=> Open(f)),
         \A f \in Files' \ Files : Open(f)',
         lpc' = "exited" <=> lpc = "exited", lpc' = "remove" <=> lpc = "remove",
         lpc = "remove" => file[lfd] \in Files /\ file'[lfd'] = file[lfd]
  PROVE  ToldInv'
<1>1. \A f \in Range(told) :
        /\ f \in Files' /\ kind'[f] = "conn"
        /\ ~Open(f)' \/ lpc' = "exited" \/ (lpc' = "remove" /\ file'[lfd'] = f)
  BY DEF ToldInv
<1>2. lpc' = "remove" /\ kind'[file'[lfd']] = "conn" => file'[lfd'] \in Range(told)
  BY DEF ToldInv
<1>3. lpc' # "exited" =>
        \A f \in Files' : kind'[f] = "conn" /\ ~Open(f)' => f \in Range(told)
  BY DEF ToldInv
<1>4. IsInjective(told) /\ told' = told
  BY DEF ToldInv
<1> QED  BY <1>1, <1>2, <1>3, <1>4 DEF ToldInv

(* Opening a file opens no other and closes none.                          *)
LEMMA OpenFileOpens ==
  ASSUME KernelTyped, NEW fd \in Fd, NEW k \in Kinds, OpenFile(fd, k)
  PROVE  /\ Files \subseteq Files'
         /\ \A f \in Files : kind'[f] = kind[f] /\ (Open(f)' <=> Open(f))
         /\ \A f \in Files' \ Files : Open(f)'
<1>1. /\ Len(kind) \in Nat /\ file[fd] = 0 /\ file'[fd] = Len(kind) + 1
      /\ \A f \in Files : f \in Files' /\ kind'[f] = kind[f]
      /\ \A f \in Files' : f \in Files \/ f = Len(kind) + 1
      /\ \A o \in Fd : o # fd => file'[o] = file[o]
  BY OpenFileFacts
<1>2. \A f \in Files : f # 0 /\ f # Len(kind) + 1
  BY <1>1 DEF Files
<1>3. \A f \in Files : Open(f)' <=> Open(f)
  BY <1>1, <1>2 DEF Open
<1>4. \A f \in Files' \ Files : Open(f)'
  BY <1>1 DEF Open
<1> QED  BY <1>1, <1>3, <1>4

(* The file of the descriptor the loop removes.                            *)
LEMMA RemovedFile ==
  ASSUME LoopInv, BatchInv, lpc = "remove"
  PROVE  /\ lfd \in openFds /\ file[lfd] \in Files /\ Live = openFds
         /\ file[lfd] = batch[1].file
<1>1. lfd \in Fd /\ openFds \subseteq Fd
  BY DEF LoopInv, LoopTyped, TablesTyped
<1>2. file[lfd] = batch[1].file
  BY DEF BatchInv
<1> QED  BY <1>1, <1>2, OwnEvent

LEMMA NewEvents ==
  ASSUME LoopInv, BatchInv, ToldInv, NEW t \in Thread, NEW k \in Made, New(t, k)
  PROVE  BatchInv' /\ ToldInv'
<1>1. PICK fd \in Fd : OpenFile(fd, k)
  BY DEF New
<1>2. /\ apc' = [apc EXCEPT ![t] = "register"]
      /\ UNCHANGED <<watch, ready, hung, shouldStop, lpc, batch, lfd, told>>
  BY DEF New, loop
<1>3. k \in Kinds /\ KernelTyped /\ lfd \in Fd
  BY EventLoopAssumption DEF Kinds, LoopInv, LoopTyped
<1>4. /\ Files \subseteq Files'
      /\ \A f \in Files : kind'[f] = kind[f] /\ (Open(f)' <=> Open(f))
      /\ \A f \in Files' \ Files : Open(f)'
  BY <1>1, <1>3, OpenFileOpens
<1>5. file[fd] = 0 /\ \A o \in Fd : o # fd => file'[o] = file[o]
  BY <1>1, <1>3, OpenFileFacts
<1>6. lpc = "remove" => file[lfd] \in Files /\ file'[lfd] = file[lfd]
  BY <1>3, <1>5, RemovedFile DEF Files
<1>7. \A u \in Thread : apc'[u] \in {"idle", "register"}
  BY <1>2 DEF BatchInv, LoopInv, ThreadsTyped
<1>8. hung' \subseteq {f \in Files' : kind'[f] \in {"conn", "client"}}
  BY <1>2, <1>4 DEF BatchInv
<1>9. BatchInv'
  <2>1. IsInjective(ready')
    BY <1>2 DEF BatchInv
  <2> QED  BY <1>2, <1>4, <1>6, <1>7, <1>8, <2>1, BatchKeeps
<1>10. ToldInv'
  BY <1>2, <1>4, <1>6, ToldKeeps
<1> QED  BY <1>9, <1>10

(* Steps that leave every file and what the loop works on alone.           *)
LEMMA QuietEvents ==
  ASSUME LoopInv, BatchInv, ToldInv, UNCHANGED <<file, kind, lpc, batch, lfd, told>>,
         IsInjective(ready'),
         lpc \in {"wait", "exited"} \/
           \A f \in DOMAIN watch : f \in DOMAIN watch' /\ watch'[f] = watch[f],
         hung' \subseteq {f \in Files : kind[f] \in {"conn", "client"}},
         \A t \in Thread : apc'[t] \in {"idle", "register"}
  PROVE  BatchInv' /\ ToldInv'
<1>1. Files' = Files /\ \A f \in Files : kind'[f] = kind[f] /\ (Open(f)' <=> Open(f))
  BY DEF Files, Open
<1>2. lpc = "remove" => file[lfd] \in Files
  BY RemovedFile
<1>3. BatchInv'
  BY <1>1, BatchKeeps
<1>4. ToldInv'
  BY <1>1, <1>2, ToldKeeps
<1> QED  BY <1>3, <1>4

LEMMA RegisterEvents ==
  ASSUME LoopInv, BatchInv, ToldInv, NEW t \in Thread, Register(t)
  PROVE  BatchInv' /\ ToldInv'
<1> DEFINE fd == own[t].fd
           k  == kind[own[t].file]
<1>1. /\ apc[t] = "register" /\ RegisterFd(fd, k)
      /\ apc' = [apc EXCEPT ![t] = "idle"]
      /\ UNCHANGED <<file, kind, hung, shouldStop, lpc, batch, lfd, told>>
  BY DEF Register, RegisterFd, loop
<1>2. fd \in Fd /\ own[t].file \in Files /\ KernelTyped
  <2>1. own[t] \in [fd : Fd, file : 0 .. Len(kind)] /\ own[t].file # 0
    BY <1>1 DEF LoopInv, ThreadsTyped
  <2> QED  BY <2>1 DEF LoopInv, Files
<1>3. k \in Kinds
  BY <1>2 DEF KernelTyped, Files
<1>4. \A u \in Thread : apc'[u] \in {"idle", "register"}
  BY <1>1 DEF BatchInv, LoopInv, ThreadsTyped
<1>5. IsInjective(ready) /\ hung \subseteq {f \in Files : kind[f] \in {"conn", "client"}}
  BY DEF BatchInv
<1>6. CASE lpc = "exited"
  <2>1. UNCHANGED ready
    BY <1>1, <1>6 DEF RegisterFd
  <2> QED  BY <1>1, <1>4, <1>5, <1>6, <2>1, QuietEvents
<1>7. CASE lpc # "exited"
  <2>1. fd \notin Known /\ file[fd] # 0 /\ kind[file[fd]] = k
    BY <1>1, <1>2, <1>7 DEF LoopInv, MakingInv, Files
  <2> HIDE DEF fd, k
  <2>2. /\ \A f \in DOMAIN watch : f \in DOMAIN watch' /\ watch'[f] = watch[f]
        /\ IsInjective(ready')
    BY <1>1, <1>2, <1>3, <1>5, <1>7, <2>1, RegisterFdTables
  <2> QED  BY <1>1, <1>4, <1>5, <2>2, QuietEvents
<1> QED  BY <1>6, <1>7

(* Arrivals, hang-ups, signals and stop().                                 *)
LEMMA ReadyEvents ==
  ASSUME LoopInv, BatchInv, ToldInv,
         \/ \E f \in Files : Arrive(f) \/ Hangup(f)
         \/ \E t \in Thread : Fire(t)
         \/ Stop
         \/ UNCHANGED vars
  PROVE  BatchInv' /\ ToldInv'
<1>1. UNCHANGED <<file, kind, watch, lpc, batch, lfd, told, apc>>
  BY DEF Arrive, Hangup, Fire, Stop, vars, kernel, loop, threads
<1>2. KernelTyped /\ IsInjective(ready) /\ \A t \in Thread : apc'[t] \in {"idle", "register"}
  BY <1>1 DEF BatchInv, LoopInv
<1>3. IsInjective(ready')
  <2>1. CASE \E f \in Files : Arrive(f) \/ Hangup(f)
    BY <1>2, <2>1, NotifyFacts DEF Arrive, Hangup
  <2>2. CASE \E t \in Thread : Fire(t)
    <3>1. PICK t \in Thread : Fire(t)
      BY <2>2
    <3>2. sig[t].file \in Files
      <4>1. sig[t] \in [fd : Fd \cup {0}, file : 0 .. Len(kind), fired : BOOLEAN]
        BY DEF LoopInv, ThreadsTyped
      <4>2. sig[t].file # 0
        BY <3>1 DEF Fire, LoopInv, ThreadsTyped
      <4> QED  BY <4>1, <4>2 DEF Files
    <3> QED  BY <1>2, <3>1, <3>2, NotifyFacts DEF Fire
  <2>3. CASE Stop \/ UNCHANGED vars
    BY <1>2, <2>3 DEF Stop, vars, kernel
  <2> QED  BY <2>1, <2>2, <2>3
<1>4. hung' \subseteq {f \in Files : kind[f] \in {"conn", "client"}}
  <2>1. CASE \E f \in Files : Hangup(f)
    BY <2>1 DEF Hangup, BatchInv
  <2>2. CASE ~\E f \in Files : Hangup(f)
    <3>1. hung' = hung
      BY <2>2 DEF Arrive, Fire, Stop, vars, kernel
    <3> QED  BY <3>1 DEF BatchInv
  <2> QED  BY <2>1, <2>2
<1> QED  BY <1>1, <1>2, <1>3, <1>4, QuietEvents

LEMMA EpollWaitEvents ==
  ASSUME LoopInv, BatchInv, ToldInv, EpollWait
  PROVE  BatchInv' /\ ToldInv'
<1>1. /\ lpc = "wait" /\ lpc' = "event"
      /\ UNCHANGED <<file, kind, watch, hung, told, apc>>
  BY DEF EpollWait, threads
<1>2. /\ \A i \in DOMAIN batch' :
           /\ batch'[i].file \in DOMAIN watch /\ watch[batch'[i].file] = batch'[i].addr
           /\ batch'[i].hup <=> batch'[i].file \in hung
      /\ IsInjective(ready')
      /\ \A i, j \in DOMAIN batch' : batch'[i].file = batch'[j].file => i = j
  BY EpollWaitFacts DEF BatchInv
<1>3. /\ hung \subseteq {f \in Files : kind[f] \in {"conn", "client"}}
      /\ \A t \in Thread : apc[t] \in {"idle", "register"}
  BY DEF BatchInv
<1>4. \A i \in DOMAIN batch' : batch'[i].hup => kind[batch'[i].file] \in {"conn", "client"}
  BY <1>2, <1>3
<1>5. Files' = Files /\ \A f \in Files : Open(f)' <=> Open(f)
  BY <1>1 DEF Files, Open
<1>6. BatchInv'
  BY <1>1, <1>2, <1>3, <1>4, <1>5 DEF BatchInv
<1>7. ToldInv'
  BY <1>1, <1>5, ToldKeeps
<1> QED  BY <1>6, <1>7

LEMMA ExitEvents ==
  ASSUME LoopInv, BatchInv, ToldInv, Exit
  PROVE  BatchInv' /\ ToldInv'
<1>1. /\ lpc = "wait" /\ lpc' = "exited" /\ CloseAll(openFds)
      /\ UNCHANGED <<kind, batch, lfd, told, apc>>
  BY DEF Exit, threads
<1>2. KernelTyped /\ openFds \in SUBSET Fd
  BY DEF LoopInv, TablesTyped
<1>3. hung' \subseteq hung /\ IsInjective(ready')
  BY <1>1, <1>2, CloseAllFacts DEF BatchInv
<1>4. batch' = << >> /\ DOMAIN batch' = {}
  <2>1. batch = << >>
    BY <1>1 DEF BatchInv
  <2> QED  BY <1>1, <2>1
<1>5. Files' = Files
  BY <1>1 DEF Files
<1>6. BatchInv'
  BY <1>1, <1>3, <1>4, <1>5 DEF BatchInv
<1>7. ToldInv'
  BY <1>1, <1>5 DEF ToldInv
<1> QED  BY <1>6, <1>7

(* A callback that neither opens nor closes anything, to its end.          *)
LEMMA ProceedEvents ==
  ASSUME LoopInv, BatchInv, ToldInv, lpc \in {"event", "register", "erase"}, Proceed,
         UNCHANGED <<file, kind, apc, lfd, told>>, IsInjective(ready'), hung' \subseteq hung,
         \A i \in DOMAIN batch : i > 1 \/ lpc # "erase" =>
           batch[i].file \in DOMAIN watch' /\ watch'[batch[i].file] = batch[i].addr
  PROVE  BatchInv' /\ ToldInv'
<1>1. BatchInv'
  BY ProceedBatch
<1>2. lpc' \in {"wait", "event", "hup"}
  BY ProceedFacts DEF LoopInv
<1>3. Files' = Files /\ \A f \in Files : Open(f)' <=> Open(f)
  BY DEF Files, Open
<1>4. ToldInv'
  BY <1>2, <1>3, ToldKeeps
<1> QED  BY <1>1, <1>4

LEMMA CallbackEvents ==
  ASSUME LoopInv, BatchInv, ToldInv, OnData \/ AcceptFails \/ Exec
  PROVE  BatchInv' /\ ToldInv'
<1>1. /\ lpc = "event" /\ Proceed
      /\ UNCHANGED <<file, kind, watch, ready, hung, apc, lfd, told>>
  BY DEF OnData, AcceptFails, Exec, kernel, threads
<1>2. IsInjective(ready')
  BY <1>1 DEF BatchInv
<1>3. \A i \in DOMAIN batch :
        batch[i].file \in DOMAIN watch' /\ watch'[batch[i].file] = batch[i].addr
  BY <1>1 DEF BatchInv
<1> QED  BY <1>1, <1>2, <1>3, ProceedEvents

LEMMA AcceptEvents ==
  ASSUME LoopInv, BatchInv, ToldInv, Accept
  PROVE  BatchInv' /\ ToldInv'
<1>1. PICK fd \in Fd : OpenFile(fd, "conn")
  BY DEF Accept
<1>2. /\ lpc = "event" /\ lpc' = "register"
      /\ UNCHANGED <<watch, ready, hung, batch, told, apc>>
  BY DEF Accept, threads
<1>3. KernelTyped /\ "conn" \in Kinds
  BY DEF LoopInv, Kinds
<1>4. /\ Files \subseteq Files'
      /\ \A f \in Files : kind'[f] = kind[f] /\ (Open(f)' <=> Open(f))
      /\ \A f \in Files' \ Files : Open(f)'
  BY <1>1, <1>3, OpenFileOpens
<1>5. /\ hung' \subseteq {f \in Files' : kind'[f] \in {"conn", "client"}}
      /\ IsInjective(ready') /\ \A t \in Thread : apc'[t] \in {"idle", "register"}
  BY <1>2, <1>4 DEF BatchInv
<1>6. BatchInv'
  BY <1>2, <1>4, <1>5, BatchKeeps
<1>7. ToldInv'
  BY <1>2, <1>4, ToldKeeps
<1> QED  BY <1>6, <1>7

LEMMA RegisterAcceptedEvents ==
  ASSUME LoopInv, BatchInv, ToldInv, RegisterAccepted
  PROVE  BatchInv' /\ ToldInv'
<1>1. /\ lpc = "register" /\ RegisterFd(lfd, "conn") /\ Proceed
      /\ UNCHANGED <<file, kind, hung, apc, lfd, told>>
  BY DEF RegisterAccepted, RegisterFd, threads
<1>2. /\ lfd \in Fd /\ lfd \notin Known /\ file[lfd] # 0 /\ kind[file[lfd]] = "conn"
      /\ "conn" \in Kinds
  BY <1>1 DEF LoopInv, LoopTyped, MakingInv, Kinds
<1>3. /\ \A f \in DOMAIN watch : f \in DOMAIN watch' /\ watch'[f] = watch[f]
      /\ IsInjective(ready')
  BY <1>1, <1>2, RegisterFdTables DEF BatchInv
<1>4. \A i \in DOMAIN batch :
        batch[i].file \in DOMAIN watch' /\ watch'[batch[i].file] = batch[i].addr
  BY <1>1, <1>3 DEF BatchInv
<1> QED  BY <1>1, <1>3, <1>4, ProceedEvents

LEMMA LoopEraseEvents ==
  ASSUME LoopInv, BatchInv, ToldInv, LoopErase
  PROVE  BatchInv' /\ ToldInv'
<1>1. /\ lpc = "erase" /\ RemoveErase("loop", lfd) /\ Proceed
      /\ UNCHANGED <<file, kind, hung, apc, lfd, told>>
  BY DEF LoopErase, RemoveErase, threads
<1>2. /\ KernelTyped /\ TablesTyped /\ lfd \in Fd /\ lock = "loop" /\ Removed = {lfd}
      /\ \A t \in Thread : apc[t] # "erase"
  <2>1. lock = "loop" /\ lfd \in Fd
    BY <1>1 DEF LoopInv, LoopTyped, LockInv
  <2>2. Removed = {lfd}
    BY <2>1, LiveFacts DEF LoopInv
  <2> QED  BY <2>1, <2>2 DEF LoopInv, BatchInv
<1>3. lpc' \in {"wait", "event", "hup"}
  BY <1>1, ProceedFacts DEF LoopInv
<1>4. Removed' = {}
  BY <1>1, <1>2, <1>3 DEF Removed
<1>5. /\ \A f \in DOMAIN watch' : watch'[f] = watch[f]
      /\ IsInjective(ready')
  BY <1>1, <1>2, RemoveEraseTyped DEF BatchInv
<1>6. DOMAIN watch' = DOMAIN watch
  BY <1>1, <1>2, <1>3, <1>4, RemoveEraseTables
<1>7. \A i \in DOMAIN batch : i > 1 =>
        batch[i].file \in DOMAIN watch' /\ watch'[batch[i].file] = batch[i].addr
  BY <1>5, <1>6 DEF BatchInv
<1> QED  BY <1>1, <1>5, <1>7, ProceedEvents

(* exec_once is about to remove its own descriptor.                        *)
LEMMA ExecOnceEvents ==
  ASSUME LoopInv, BatchInv, ToldInv, ExecOnce
  PROVE  BatchInv' /\ ToldInv'
<1>1. /\ lpc = "event" /\ Ctx.kind = "once" /\ lfd' = Ctx.fd /\ lpc' = "remove"
      /\ UNCHANGED <<file, kind, watch, ready, hung, batch, told, apc>>
  BY DEF ExecOnce, kernel, threads
<1>2. /\ file[Ctx.fd] = batch[1].file /\ kind[batch[1].file] = "once"
      /\ 1 \in DOMAIN batch
  BY <1>1, OwnEvent
<1>3. ~batch[1].hup
  BY <1>2 DEF BatchInv
<1>4. Files' = Files /\ \A f \in Files : Open(f)' <=> Open(f)
  BY <1>1 DEF Files, Open
<1>5. BatchInv'
  BY <1>1, <1>2, <1>3, <1>4 DEF BatchInv
<1>6. ToldInv'
  BY <1>1, <1>2, <1>4 DEF ToldInv
<1> QED  BY <1>5, <1>6

(* on_closed_cb is called for a connection it was not called for before.   *)
LEMMA PeerClosedEvents ==
  ASSUME LoopInv, BatchInv, ToldInv, PeerClosed
  PROVE  BatchInv' /\ ToldInv'
<1> DEFINE f == batch[1].file
<1>1. /\ lpc = "hup" /\ lfd' = Ctx.fd /\ lpc' = "remove"
      /\ told' = (IF Ctx.kind = "conn" THEN Append(told, file[Ctx.fd]) ELSE told)
      /\ batch' = [batch EXCEPT ![1].hup = FALSE]
      /\ UNCHANGED <<file, kind, watch, ready, hung, apc>>
  BY DEF PeerClosed, kernel, threads
<1>2. /\ file[Ctx.fd] = f /\ Ctx.kind = kind[f] /\ f \in Files /\ Ctx.fd \in Fd
      /\ 1 \in DOMAIN batch
  BY <1>1, OwnEvent DEF LoopInv, TablesTyped
<1>3. batch \in Seq(EventRecord) /\ told \in Seq(Files \cup {0})
  BY DEF LoopInv, LoopTyped
<1>4. /\ DOMAIN batch' = DOMAIN batch /\ ~batch'[1].hup
      /\ \A i \in DOMAIN batch :
           /\ batch'[i].file = batch[i].file /\ batch'[i].addr = batch[i].addr
           /\ batch'[i].hup => batch[i].hup
  <2>1. DOMAIN batch' = DOMAIN batch
    BY <1>1
  <2>2. \A i \in DOMAIN batch : i # 1 => batch'[i] = batch[i]
    BY <1>1
  <2>3. batch'[1] = [batch[1] EXCEPT !.hup = FALSE]
    BY <1>1, <1>2
  <2>4. batch[1] \in EventRecord
    BY <1>2, <1>3
  <2>5. batch'[1].file = batch[1].file /\ batch'[1].addr = batch[1].addr /\ ~batch'[1].hup
    BY <2>3, <2>4 DEF EventRecord
  <2> QED  BY <2>1, <2>2, <2>5
<1>5. Files' = Files /\ \A g \in Files : Open(g)' <=> Open(g)
  BY <1>1 DEF Files, Open
<1>6. BatchInv'
  <2>1. /\ IsInjective(ready') /\ \A t \in Thread : apc'[t] \in {"idle", "register"}
        /\ hung' \subseteq {g \in Files' : kind'[g] \in {"conn", "client"}}
    BY <1>1, <1>5 DEF BatchInv
  <2>2. \A i, j \in DOMAIN batch' : batch'[i].file = batch'[j].file => i = j
    BY <1>4 DEF BatchInv
  <2>3. \A i \in DOMAIN batch' :
          /\ batch'[i].file \in DOMAIN watch' /\ watch'[batch'[i].file] = batch'[i].addr
          /\ batch'[i].hup => kind'[batch'[i].file] \in {"conn", "client"}
    BY <1>1, <1>4 DEF BatchInv
  <2>4. file'[lfd'] = batch'[1].file
    BY <1>1, <1>2, <1>4
  <2> QED  BY <1>1, <1>4, <2>1, <2>2, <2>3, <2>4 DEF BatchInv
<1> HIDE DEF f
<1>7. Open(f)
  BY <1>2 DEF Open
<1>8. /\ IsInjective(told) /\ f \notin Range(told)
      /\ \A g \in Range(told) : g \in Files /\ kind[g] = "conn" /\ ~Open(g)
      /\ \A g \in Files : kind[g] = "conn" /\ ~Open(g) => g \in Range(told)
  BY <1>1, <1>7 DEF ToldInv
<1>9. ToldInv'
  <2>1. CASE kind[f] = "conn"
    <3>1. told' = Append(told, f)
      BY <1>1, <1>2, <2>1
    <3>2. Range(told') = Range(told) \cup {f} /\ IsInjective(told')
      BY <1>2, <1>3, <1>8, <3>1, AppendFacts
    <3> QED  BY <1>1, <1>2, <1>5, <1>8, <2>1, <3>2 DEF ToldInv
  <2>2. CASE kind[f] # "conn"
    BY <1>1, <1>2, <1>5, <1>8, <2>2 DEF ToldInv
  <2> QED  BY <2>1, <2>2
<1> QED  BY <1>6, <1>9

(* The loop closes the file of the event at hand; the other events keep    *)
(* theirs, and on_closed_cb has been called if it was a connection.        *)
LEMMA LoopCloseEvents ==
  ASSUME LoopInv, BatchInv, ToldInv, LoopClose
  PROVE  BatchInv' /\ ToldInv'
<1> DEFINE f == file[lfd]
<1>1. lpc = "remove" /\ UNCHANGED <<lfd, told, apc>>
  BY DEF LoopClose, threads
<1>2. lfd \in openFds /\ f \in Files /\ f = batch[1].file /\ lfd \in Fd /\ 1 \in DOMAIN batch
  BY <1>1, RemovedFile, OwnEvent DEF LoopInv, LoopTyped
<1>3. RemoveClose("loop", lfd) /\ lpc' = "erase" /\ UNCHANGED batch
  BY <1>2 DEF LoopClose, RemoveUnknown
<1>4. /\ UNCHANGED kind /\ \A o \in Fd : file'[o] = IF o = lfd THEN 0 ELSE file[o]
      /\ DOMAIN watch' = DOMAIN watch \ {f}
      /\ \A g \in DOMAIN watch' : watch'[g] = watch[g]
      /\ hung' \subseteq hung /\ IsInjective(ready')
  <2>1. IsInjective(ready)
    BY DEF BatchInv
  <2>2. lfd \in Fd /\ RemoveClose("loop", lfd)
    BY <1>2, <1>3
  <2> QED  BY <2>1, <2>2, RemoveCloseFacts
<1>5. Files' = Files /\ f # 0
  BY <1>2, <1>4 DEF Files
<1>6. \A o \in Fd : file[o] = f => o = lfd
  BY <1>2, <1>5 DEF LoopInv, MakingInv
<1> HIDE DEF f
<1>7. \A g \in Files : Open(g)' <=> Open(g) /\ g # f
  <2>1. \A g \in Files : g # 0
    BY DEF Files
  <2> QED  BY <1>2, <1>4, <1>6, <2>1 DEF Open, f
<1>8. BatchInv'
  <2>1. \A i \in DOMAIN batch : i > 1 =>
          batch[i].file \in DOMAIN watch' /\ watch'[batch[i].file] = batch[i].addr
    <3>1. \A i \in DOMAIN batch : i > 1 => batch[i].file # f
      BY <1>2 DEF BatchInv
    <3> QED  BY <1>1, <1>4, <3>1 DEF BatchInv
  <2>2. hung' \subseteq {g \in Files' : kind'[g] \in {"conn", "client"}}
    BY <1>4, <1>5 DEF BatchInv
  <2>3. ~batch[1].hup
    BY <1>1 DEF BatchInv
  <2> QED  BY <1>1, <1>3, <1>4, <2>1, <2>2, <2>3 DEF BatchInv
<1>9. ToldInv'
  <2>1. \A g \in Range(told) : g \in Files /\ kind[g] = "conn" /\ ~Open(g)'
    BY <1>1, <1>7 DEF ToldInv, f
  <2>2. \A g \in Files : kind[g] = "conn" /\ ~Open(g)' => g \in Range(told)
    BY <1>1, <1>7 DEF ToldInv, f
  <2> QED  BY <1>1, <1>3, <1>4, <1>5, <2>1, <2>2 DEF ToldInv
<1> QED  BY <1>8, <1>9

LEMMA InitEvents ==
  ASSUME Init
  PROVE  BatchInv /\ ToldInv
<1>1. /\ kind = << >> /\ ready = << >> /\ hung = {} /\ lpc = "wait" /\ batch = << >>
      /\ told = << >> /\ apc = [t \in Thread |-> "idle"]
  BY DEF Init
<1>2. /\ DOMAIN ready = {} /\ DOMAIN batch = {} /\ DOMAIN told = {} /\ Len(kind) = 0
  BY <1>1
<1>3. Range(told) = {} /\ Files = {} /\ IsInjective(ready) /\ IsInjective(told)
  BY <1>2 DEF Range, Files, IsInjective
<1>4. \A t \in Thread : apc[t] = "idle"
  BY <1>1
<1> QED  BY <1>1, <1>2, <1>3, <1>4 DEF BatchInv, ToldInv

LEMMA StepEvents ==
  ASSUME Removing = {}, LoopInv, BatchInv, ToldInv, [Next]_vars
  PROVE  BatchInv' /\ ToldInv'
<1>1. CASE Run
  BY <1>1, EpollWaitEvents, ExitEvents, CallbackEvents, AcceptEvents,
     RegisterAcceptedEvents, ExecOnceEvents, PeerClosedEvents, LoopCloseEvents,
     LoopEraseEvents DEF Run
<1>2. CASE \E t \in Thread : Begin(t) \/ Continue(t)
  <2>1. PICK t \in Thread : Begin(t) \/ Continue(t)
    BY <1>2
  <2>2. ~Destroy(t) /\ ~CloseListener(t)
    BY DEF Destroy, CloseListener
  <2>3. ~Close(t) /\ ~Erase(t)
    BY DEF Close, Erase, BatchInv
  <2> QED
    BY <2>1, <2>2, <2>3, NewEvents, ReadyEvents, RegisterEvents
       DEF Begin, Continue
<1>3. CASE Stop \/ (\E f \in Files : Arrive(f) \/ Hangup(f)) \/ UNCHANGED vars
  BY <1>3, ReadyEvents
<1> QED  BY <1>1, <1>2, <1>3 DEF Next

LEMMA EventsInvariant ==
  ASSUME Removing = {}
  PROVE  Spec => [](LoopInv /\ BatchInv /\ ToldInv)
<1>1. Init => LoopInv /\ BatchInv /\ ToldInv
  BY InitLoopInv, InitEvents
<1>2. (LoopInv /\ BatchInv /\ ToldInv) /\ [Next]_vars => (LoopInv /\ BatchInv /\ ToldInv)'
  BY StepLoopInv, StepEvents
<1> QED  BY <1>1, <1>2, PTL DEF Spec

(* Where other threads only register, fire and stop, the loop's own        *)
(* removals never leave it with an event whose context is erased or        *)
(* another descriptor's: it removes the file of the event at hand, after   *)
(* its last use, and the events behind it are of other files.              *)
THEOREM EventLoopOwnContext ==
  ASSUME Removing = {}
  PROVE  Spec => []OwnContext
<1>1. LoopInv /\ BatchInv => OwnContext
  <2> SUFFICES ASSUME LoopInv, BatchInv, lpc \in {"event", "hup"} PROVE OwnContext
    BY DEF OwnContext
  <2>1. /\ Head(batch) = batch[1] /\ Ctx.fd \in DOMAIN polled
        /\ file[Ctx.fd] = batch[1].file /\ polled[Ctx.fd] = batch[1].addr
    BY OwnEvent
  <2> QED  BY <2>1 DEF OwnContext
<1> QED  BY <1>1, EventsInvariant, PTL

(* Under the same condition on_closed_cb is called exactly once for every  *)
(* accepted connection that is closed while the loop runs.                 *)
THEOREM EventLoopToldOnce ==
  ASSUME Removing = {}
  PROVE  Spec => []ToldOnce
<1>1. ToldInv => ToldOnce
  BY DEF ToldInv, ToldOnce, IsInjective
<1> QED  BY <1>1, EventsInvariant, PTL
=============================================================================
