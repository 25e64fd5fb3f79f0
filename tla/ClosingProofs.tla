--------------------------- MODULE ClosingProofs ----------------------------
(***************************************************************************)
(* Theorems about Closing, for every set of handles and peers and any      *)
(* numbers of descriptors and files.                                       *)
(***************************************************************************)
EXTENDS Closing, ErasingProofs, TLAPS

(* What a file of a kind is opened for.                                    *)
Origin(k) ==
  CASE k = "listen" -> Local [] k = "client" -> Remote [] k = "conn" -> Peer [] OTHER -> Handle

(* The inductive invariant.  Each file has one of these, and at most one   *)
(* descriptor.                                                             *)
FilesInv ==
  /\ \A f \in Files : files[f].for \in Origin(files[f].kind)
  /\ \A fd, other \in Fd : file[fd] # 0 /\ file[fd] = file[other] => fd = other
  /\ \A f \in fired : files[f].kind = "signal"

(* What the application's thread makes is its own until it is registered;  *)
(* a signal is in the event loop, or refused, until the thread destroys it. *)
OwnInv ==
  /\ pc \in {"made", "register"} =>
       /\ own.file # 0 /\ file[own.fd] = own.file /\ own.fd \notin openFds \cup neglected
       /\ files[own.file].for = cur /\ files[own.file].kind \in {"listen", "client"}
  /\ pc \in {"fire", "destroy"} =>
       /\ own.file # 0 /\ file[own.fd] = own.file /\ own.fd \in openFds \cup neglected
       /\ files[own.file].kind = "signal"
  /\ \A fd \in openFds : Is(fd, "signal") =>
       pc = "crashed" \/ (pc \in {"fire", "destroy"} /\ fd = own.fd)

(* The event at hand is of a file that was registered; of a connection it  *)
(* is up to date, as nobody else closes connections while the loop runs.   *)
EventInv ==
  /\ lpc = "event" =>
       /\ event.file # 0
       /\ pc \in {"made", "register"} => event.file # own.file
       /\ files[event.file].kind \in {"client", "conn"} =>
            event.fd \in openFds /\ file[event.fd] = event.file /\ event.file \in hung
  /\ pc \in {"destructor", "gone"} => lpc = "off"
  /\ pc = "crashed" <=> lpc = "crashed"

(* The listening sockets that are watched, and these with those that epoll *)
(* refused.                                                                *)
Heard     == {fd \in openFds : Is(fd, "listen")}
Listening == {fd \in openFds \cup neglected : Is(fd, "listen")}

(* A handle's lsocket is the socket made for it.                           *)
HandleInv ==
  pc \notin {"destructor", "gone", "crashed"} =>
    \A h \in Handle : handles[h].lsocket # None =>
      \/ /\ handles[h].lsocket \in Listening
         /\ files[file[handles[h].lsocket]].for = h
      \/ pc = "register" /\ cur = h /\ handles[h].lsocket = own.fd /\ Is(own.fd, "listen")
      \/ pc = "forget" /\ cur = h

(* m_lsockets lists all that are watched, and what else it lists was       *)
(* refused, up to the call at hand.                                        *)
Lists(set) == Heard \subseteq set /\ set \subseteq Listening

ListInv ==
  /\ \A i, j \in DOMAIN lsockets : lsockets[i] = lsockets[j] => i = j
  /\ pc \in {"idle", "made", "remove", "signal", "fire", "destroy"} => Lists(Range(lsockets))
  /\ pc = "register" =>
       /\ Lists(Range(lsockets) \ {own.fd})
       /\ own.fd \in Range(lsockets) <=> Is(own.fd, "listen")
  /\ pc = "forget" => Lists(Range(lsockets) \ {handles[cur].lsocket})
  /\ pc \in {"remove", "forget"} => handles[cur].lsocket # None

(* While no loop runs only the application's thread makes descriptors, and *)
(* the connections it registers are in m_connection_map.                   *)
OffInv ==
  lpc = "off" =>
    /\ \A f \in Files : files[f].kind # "conn"
    /\ \A fd \in openFds : Is(fd, "client") => files[file[fd]].for \in DOMAIN connMap
    /\ pc = "register" /\ files[own.file].kind = "client" => cur \in DOMAIN connMap

(* What the destructor has not removed yet it will, or has lost from sight. *)
DestructInv ==
  /\ pc \in {"destructor", "gone"} =>
       \A fd \in openFds :
         fd \in left \/ (Is(fd, "client") /\ connMap[files[file[fd]].for] # fd)
  /\ pc = "gone" => left = {}

ClosingInv ==
  /\ TypeOK /\ FilesInv /\ OwnInv /\ EventInv /\ HandleInv /\ ListInv /\ OffInv /\ DestructInv
  /\ OnlyFailuresLeak
-----------------------------------------------------------------------------
(* What OpenFile and RemoveFd do to descriptors and files.                 *)
FileRecord == [kind : Kinds, for : Handle \cup Peer]

LEMMA OpenFileFacts ==
  ASSUME TypeOK, NEW fd \in Fd, NEW k \in Kinds, NEW for \in Handle \cup Peer,
         OpenFile(fd, k, for)
  PROVE  /\ Len(files) \in Nat /\ Len(files') = Len(files) + 1 /\ files' \in Seq(FileRecord)
         /\ files'[Len(files) + 1].kind = k /\ files'[Len(files) + 1].for = for
         /\ \A f \in Files : files'[f] = files[f]
         /\ file[fd] = 0 /\ file'[fd] = Len(files) + 1
         /\ \A o \in Fd \ {fd} : file'[o] = file[o]
         /\ file' \in [Fd -> 0 .. Len(files')]
<1>1. files \in Seq(FileRecord) /\ file \in [Fd -> 0 .. Len(files)]
  BY DEF TypeOK, FileRecord
<1>2. /\ files' = Append(files, [kind |-> k, for |-> for]) /\ file[fd] = 0
      /\ file' = [file EXCEPT ![fd] = Len(files) + 1]
  BY DEF OpenFile, Unused
<1>3. [kind |-> k, for |-> for] \in FileRecord
  BY DEF FileRecord
<1> DEFINE r == [kind |-> k, for |-> for]
<1>4. r.kind = k /\ r.for = for
  OBVIOUS
<1> HIDE DEF r
<1>5. /\ Len(files) \in Nat /\ Len(files') = Len(files) + 1 /\ files' \in Seq(FileRecord)
      /\ files'[Len(files) + 1] = r
      /\ \A f \in 1 .. Len(files) : files'[f] = files[f]
  BY <1>1, <1>2, <1>3 DEF r
<1>6. /\ file'[fd] = Len(files) + 1 /\ \A o \in Fd \ {fd} : file'[o] = file[o]
      /\ file' \in [Fd -> 0 .. Len(files')]
  BY <1>1, <1>2, <1>5
<1> QED  BY <1>2, <1>4, <1>5, <1>6 DEF Files

(* Every other descriptor is what it was.                                  *)
LEMMA OpenFileKeeps ==
  ASSUME ClosingInv, NEW fd \in Fd, NEW k \in Kinds, NEW for \in Handle \cup Peer,
         OpenFile(fd, k, for)
  PROVE  /\ fd \notin openFds \cup neglected
         /\ \A f : f \in Files' <=> f \in Files \/ f = Len(files) + 1
         /\ Len(files) + 1 \notin Files
         /\ \A o \in Fd : \A kind : Is(o, kind)' <=> IF o = fd THEN kind = k ELSE Is(o, kind)
         /\ \A o \in Fd : o # fd /\ file[o] # 0 => files'[file'[o]] = files[file[o]]
<1>1. fd \notin openFds \cup neglected
  BY DEF ClosingInv, OnlyFailuresLeak, OpenFile, Unused
<1>2. \A o \in Fd : file[o] \in 0 .. Len(files)
  BY DEF ClosingInv, TypeOK
<1>3. TypeOK
  BY DEF ClosingInv
<1>4. /\ \A f : f \in Files' <=> f \in Files \/ f = Len(files) + 1
      /\ Len(files) + 1 \notin Files
  BY <1>3, OpenFileFacts DEF Files
<1>5. \A o \in Fd : o # fd /\ file[o] # 0 => files'[file'[o]] = files[file[o]]
  BY <1>2, <1>3, OpenFileFacts DEF Files
<1>6. \A o \in Fd : \A kind : Is(o, kind)' <=> IF o = fd THEN kind = k ELSE Is(o, kind)
  BY <1>2, <1>3, <1>5, OpenFileFacts DEF Is
<1> QED  BY <1>1, <1>4, <1>5, <1>6

LEMMA OpenFileFilesInv ==
  ASSUME ClosingInv, NEW fd \in Fd, NEW k \in Kinds, NEW for \in Origin(k),
         for \in Handle \cup Peer, OpenFile(fd, k, for), UNCHANGED fired
  PROVE  FilesInv'
<1>1. TypeOK /\ FilesInv /\ Len(files) \in Nat
  BY DEF ClosingInv, TypeOK
<1>2. \A f \in Files' : files'[f].for \in Origin(files'[f].kind)
  BY <1>1, OpenFileFacts, OpenFileKeeps DEF FilesInv
<1>3. \A o \in Fd : file[o] < Len(files) + 1
  BY <1>1 DEF TypeOK
<1>4. \A o, other \in Fd : file'[o] # 0 /\ file'[o] = file'[other] => o = other
  BY <1>1, <1>3, OpenFileFacts DEF FilesInv
<1>5. \A f \in fired' : files'[f].kind = "signal"
  BY <1>1, OpenFileFacts DEF FilesInv, TypeOK
<1> QED  BY <1>2, <1>4, <1>5 DEF FilesInv

LEMMA RemoveFdFacts ==
  ASSUME TypeOK, NEW fd, RemoveFd(fd)
  PROVE  /\ openFds' = openFds \ {fd} /\ neglected' = neglected
         /\ file' \in [Fd -> 0 .. Len(files)]
         /\ \A o \in Fd : file'[o] = IF o = fd /\ fd \in openFds THEN 0 ELSE file[o]
<1>1. CASE fd \in openFds
  BY <1>1 DEF TypeOK, RemoveFd
<1>2. CASE fd \notin openFds
  BY <1>2 DEF TypeOK, RemoveFd
<1> QED  BY <1>1, <1>2

LEMMA RemoveFdKeeps ==
  ASSUME ClosingInv, NEW fd, RemoveFd(fd), UNCHANGED <<files, hung, fired>>
  PROVE  /\ FilesInv'
         /\ Heard' = Heard \ {fd}
         /\ Listening' = Listening \ {o \in {fd} : o \in openFds}
         /\ \A o \in Fd : \A k : Is(o, k)' <=> Is(o, k) /\ (o = fd => fd \notin openFds)
<1>1. /\ TypeOK /\ FilesInv /\ OnlyFailuresLeak /\ Files' = Files
      /\ openFds \subseteq Fd /\ neglected \subseteq Fd
  BY DEF ClosingInv, TypeOK, Files
<1>2. \A o \in Fd : \A k : Is(o, k)' <=> Is(o, k) /\ (o = fd => fd \notin openFds)
  BY <1>1, RemoveFdFacts DEF Is
<1>3. \A f \in Files' : files'[f].for \in Origin(files'[f].kind)
  BY <1>1 DEF FilesInv
<1>4. \A o, other \in Fd : file'[o] # 0 /\ file'[o] = file'[other] => o = other
  BY <1>1, RemoveFdFacts DEF FilesInv
<1>5. FilesInv'
  BY <1>1, <1>3, <1>4 DEF FilesInv
<1>6. Heard' = Heard \ {fd}
  BY <1>1, <1>2, RemoveFdFacts DEF Heard
<1>7. Listening' = Listening \ {o \in {fd} : o \in openFds}
  BY <1>1, <1>2, RemoveFdFacts DEF Listening, OnlyFailuresLeak
<1> QED  BY <1>2, <1>5, <1>6, <1>7

(* Who listens depends on the descriptors' files and on the event loop.    *)
LEMMA SameListening ==
  ASSUME UNCHANGED <<file, files, openFds, neglected>>
  PROVE  Heard' = Heard /\ Listening' = Listening
BY DEF Heard, Listening, Is

(* A record of a descriptor and a file, while the files grow in number.    *)
LEMMA MoreFiles ==
  ASSUME NEW n \in Nat, NEW e \in [fd : Fd, file : 0 .. n]
  PROVE  e \in [fd : Fd, file : 0 .. n + 1] /\ e.file \in 0 .. n
OBVIOUS

LEMMA MakeInv ==
  ASSUME ClosingInv, NEW h \in Handle, NEW k \in {"listen", "client"}, Make(h, k)
  PROVE  ClosingInv'
<1>1. PICK fd \in Fd : OpenFile(fd, k, h) /\ own' = [fd |-> fd, file |-> Len(files) + 1]
  BY DEF Make
<1>2. /\ pc = "idle" /\ pc' = "made" /\ cur' = h
      /\ UNCHANGED <<hung, fired, openFds, neglected, lsockets, connMap, handles, left, lpc, event>>
  BY DEF Make, tables, evloop, loop
<1>3. k \in Kinds /\ h \in Origin(k) /\ h \in Handle \cup Peer
  BY DEF Make, Kinds, Origin
<1>4. own'.fd = fd /\ own'.file = Len(files) + 1 /\ TypeOK
  BY <1>1 DEF ClosingInv
<1>5. Heard' = Heard /\ Listening' = Listening
  BY <1>1, <1>2, <1>3, <1>4, OpenFileKeeps DEF Heard, Listening, TypeOK
<1>6. TypeOK'
  <2>1. Len(files) \in Nat /\ Len(files') = Len(files) + 1
    BY <1>1, <1>3, <1>4, OpenFileFacts
  <2>2. file' \in [Fd -> 0 .. Len(files')] /\ files' \in Seq([kind : Kinds, for : Handle \cup Peer])
    BY <1>1, <1>3, <1>4, OpenFileFacts DEF FileRecord
  <2>3. hung' \subseteq Files' /\ fired' \subseteq Files'
    BY <1>2, <1>4, <2>1 DEF TypeOK, Files
  <2>4. own' \in [fd : Fd, file : 0 .. Len(files')]
    BY <1>1, <2>1
  <2>5. event' \in [fd : Fd, file : 0 .. Len(files')]
    BY <1>2, <1>4, <2>1, MoreFiles DEF TypeOK
  <2> QED  BY <1>2, <1>4, <2>2, <2>3, <2>4, <2>5 DEF TypeOK
<1>7. FilesInv'
  BY <1>1, <1>2, <1>3, OpenFileFilesInv
<1>8. OwnInv'
  <2>1. /\ files'[Len(files) + 1].kind = k /\ files'[Len(files) + 1].for = h
        /\ file'[fd] = Len(files) + 1 /\ Len(files) + 1 # 0
    BY <1>1, <1>3, <1>4, OpenFileFacts
  <2>2. fd \notin openFds \cup neglected /\ openFds \subseteq Fd
    BY <1>1, <1>3, <1>4, OpenFileKeeps DEF TypeOK
  <2>3. \A o \in openFds : ~Is(o, "signal")'
    BY <1>1, <1>2, <1>3, <2>2, OpenFileKeeps DEF ClosingInv, OwnInv
  <2> QED  BY <1>2, <1>4, <2>1, <2>2, <2>3 DEF OwnInv
<1>9. EventInv'
  <2>1. ClosingInv /\ EventInv /\ event.file \in 0 .. Len(files)
    BY <1>4, MoreFiles DEF ClosingInv, TypeOK
  <2>2. CASE lpc = "event"
    <3>1. event.file \in Files /\ files'[event.file] = files[event.file]
      BY <1>1, <1>3, <1>4, <2>1, <2>2, OpenFileFacts DEF EventInv, Files
    <3>2. event.fd # fd => file'[event.fd] = file[event.fd]
      BY <1>1, <1>3, <1>4, OpenFileFacts DEF TypeOK
    <3> QED
      BY <1>1, <1>2, <1>3, <1>4, <2>1, <2>2, <3>1, <3>2, OpenFileKeeps
         DEF EventInv
  <2> QED  BY <1>2, <2>1, <2>2 DEF EventInv
<1>10. HandleInv'
  <2>1. \A o \in Listening : o # fd /\ files'[file'[o]] = files[file[o]]
    BY <1>1, <1>3, <1>4, OpenFileKeeps DEF TypeOK, Heard, Listening, Is
  <2> QED  BY <1>2, <1>5, <2>1 DEF ClosingInv, HandleInv
<1>11. ListInv'
  BY <1>2, <1>5 DEF ClosingInv, ListInv, Lists
<1>12. OffInv'
  <2>1. k # "conn" /\ openFds \subseteq Fd /\ OffInv
    BY <1>4 DEF ClosingInv, TypeOK
  <2>2. lpc = "off" => \A f \in Files' : files'[f].kind # "conn"
    BY <1>1, <1>3, <1>4, <2>1, OpenFileFacts, OpenFileKeeps DEF OffInv
  <2>3. \A o \in openFds : Is(o, "client")' =>
          Is(o, "client") /\ files'[file'[o]] = files[file[o]]
    BY <1>1, <1>3, <2>1, OpenFileKeeps DEF Is
  <2> QED  BY <1>2, <2>1, <2>2, <2>3 DEF OffInv
<1>13. DestructInv'
  BY DEF ClosingInv, DestructInv, Make, tables, evloop, loop, Is
<1>14. OnlyFailuresLeak'
  <2>1. OnlyFailuresLeak /\ ClosingInv /\ openFds \cup neglected \subseteq Fd
    BY <1>4 DEF ClosingInv, TypeOK
  <2>2. /\ \A o \in Fd : o # fd => file'[o] = file[o]
        /\ \A o \in Fd : \A kind : o # fd => (Is(o, kind)' <=> Is(o, kind))
    BY <1>1, <1>3, <1>4, <2>1, OpenFileFacts, OpenFileKeeps
  <2>3. fd \notin openFds \cup neglected /\ own' = [fd |-> fd, file |-> file'[fd]]
    BY <1>1, <1>3, <1>4, <2>1, OpenFileFacts, OpenFileKeeps
  <2>4. /\ \A o \in openFds' \cup neglected' : file'[o] # 0 /\ ~Is(o, "failed")'
        /\ \A o \in neglected' : o \notin openFds'
    BY <1>2, <2>1, <2>2, <2>3 DEF OnlyFailuresLeak
  <2>5. ASSUME NEW o \in Fd, file'[o] # 0, o \notin openFds' \cup neglected', ~Is(o, "failed")'
        PROVE  own' = [fd |-> o, file |-> file'[o]]
    <3>1. CASE o = fd
      BY <2>3, <3>1
    <3>2. CASE o # fd
      <4>1. file[o] # 0 /\ o \notin openFds \cup neglected /\ ~Is(o, "failed")
        BY <1>2, <2>2, <2>5, <3>2
      <4> QED  BY <1>2, <2>1, <4>1 DEF OnlyFailuresLeak
    <3> QED  BY <3>1, <3>2
  <2> QED  BY <1>2, <2>4, <2>5 DEF OnlyFailuresLeak
<1> QED
  BY <1>6, <1>7, <1>8, <1>9, <1>10, <1>11, <1>12, <1>13, <1>14 DEF ClosingInv

LEMMA FailsInv ==
  ASSUME ClosingInv, Fails
  PROVE  ClosingInv'
<1>1. /\ TypeOK /\ OwnInv /\ pc = "made" /\ pc' = "idle"
      /\ UNCHANGED <<file, hung, fired, openFds, neglected, lsockets, connMap, handles>>
      /\ UNCHANGED <<cur, own, left, lpc, event>>
  BY DEF ClosingInv, Fails, tables, evloop, loop
<1>2. /\ own.file \in Files /\ own.fd \in Fd /\ file[own.fd] = own.file
      /\ own.fd \notin openFds \cup neglected
  BY <1>1 DEF TypeOK, OwnInv, Files
<1>3. files \in Seq(FileRecord) /\ files' = [files EXCEPT ![own.file].kind = "failed"]
  BY <1>1 DEF Fails, TypeOK, FileRecord
<1>4. /\ files' \in Seq(FileRecord) /\ Len(files') = Len(files) /\ Files' = Files
      /\ files'[own.file].kind = "failed" /\ files'[own.file].for = files[own.file].for
      /\ \A f \in Files \ {own.file} : files'[f] = files[f]
  <2> DEFINE r == [files[own.file] EXCEPT !.kind = "failed"]
  <2>1. files[own.file] \in FileRecord
    BY <1>2, <1>3 DEF Files
  <2>2. r \in FileRecord /\ r.kind = "failed" /\ r.for = files[own.file].for
    BY <2>1 DEF FileRecord, Kinds
  <2>3. files' = [files EXCEPT ![own.file] = r]
    BY <1>3
  <2> HIDE DEF r
  <2> QED  BY <1>2, <1>3, <2>2, <2>3 DEF Files
<1>5. \A o \in Fd : file[o] # 0 => file[o] \in Files
  BY <1>1 DEF TypeOK, Files
<1>6. \A o \in Fd : o # own.fd /\ file[o] # 0 => files'[file'[o]] = files[file[o]]
  BY <1>1, <1>2, <1>4, <1>5 DEF ClosingInv, FilesInv
<1>7. /\ \A o \in Fd : o # own.fd => \A k : Is(o, k)' <=> Is(o, k)
      /\ Is(own.fd, "failed")'
  BY <1>1, <1>2, <1>4, <1>5, <1>6 DEF Is, Files
<1>8. openFds \cup neglected \subseteq Fd /\ Heard' = Heard /\ Listening' = Listening
  <2>1. \A o \in openFds \cup neglected : o \in Fd /\ o # own.fd
    BY <1>1, <1>2 DEF TypeOK
  <2>2. \A o \in openFds \cup neglected : Is(o, "listen")' <=> Is(o, "listen")
    BY <1>7, <2>1
  <2> QED  BY <1>1, <2>1, <2>2 DEF Heard, Listening
<1>9. TypeOK'
  <2>1. files' \in Seq([kind : Kinds, for : Handle \cup Peer])
    BY <1>4 DEF FileRecord
  <2>2. file' \in [Fd -> 0 .. Len(files')] /\ hung' \subseteq Files' /\ fired' \subseteq Files'
    BY <1>1, <1>4 DEF TypeOK
  <2>3. own' \in [fd : Fd, file : 0 .. Len(files')] /\ event' \in [fd : Fd, file : 0 .. Len(files')]
    BY <1>1, <1>4 DEF TypeOK
  <2> QED  BY <1>1, <2>1, <2>2, <2>3 DEF TypeOK
<1>10. FilesInv'
  <2>1. files[own.file].for \in Handle
    BY <1>1, <1>2 DEF OwnInv, TypeOK
  <2>2. /\ FilesInv /\ fired \subseteq Files
        /\ \A f \in fired : files[f].kind = "signal" /\ f # own.file
    BY <1>1 DEF ClosingInv, FilesInv, TypeOK, OwnInv
  <2>3. \A f \in Files : files'[f].for \in Origin(files'[f].kind)
    BY <1>4, <2>1, <2>2 DEF FilesInv, Origin
  <2> QED  BY <1>1, <1>4, <2>2, <2>3 DEF FilesInv
<1>11. OwnInv'
  BY DEF ClosingInv, OwnInv, Fails, tables, evloop, loop, Is
<1>12. EventInv'
  BY DEF ClosingInv, EventInv, Fails, tables, evloop, loop
<1>13. HandleInv'
  <2>1. \A o \in Listening : o # own.fd /\ files'[file'[o]] = files[file[o]]
    BY <1>2, <1>6, <1>8 DEF Heard, Listening, Is
  <2> QED  BY <1>1, <1>8, <2>1 DEF ClosingInv, HandleInv
<1>14. ListInv'
  BY <1>1, <1>8 DEF ClosingInv, ListInv, Lists
<1>15. OffInv'
  BY DEF ClosingInv, OffInv, Fails, tables, evloop, loop, Is, Files
<1>16. DestructInv'
  BY DEF ClosingInv, DestructInv, Fails, tables, evloop, loop, Is
<1>17. OnlyFailuresLeak'
  BY <1>1, <1>2, <1>7, <1>8 DEF ClosingInv, OnlyFailuresLeak
<1> QED
  BY <1>9, <1>10, <1>11, <1>12, <1>13, <1>14, <1>15, <1>16, <1>17
     DEF ClosingInv

LEMMA ListenInv ==
  ASSUME ClosingInv, Listen
  PROVE  ClosingInv'
<1>1. /\ TypeOK /\ ListInv /\ OwnInv /\ pc = "made" /\ pc' = "register"
      /\ lsockets' = Append(lsockets, own.fd)
      /\ handles' = [handles EXCEPT ![cur].lsocket = own.fd]
      /\ UNCHANGED <<file, files, hung, fired, openFds, neglected, connMap>>
      /\ UNCHANGED <<cur, own, left, lpc, event>>
  BY DEF ClosingInv, Listen, evloop, kernel, loop
<1>2. /\ lsockets \in Seq(Fd) /\ own.fd \in Fd /\ own.fd \notin openFds \cup neglected
      /\ Is(own.fd, "listen") /\ Lists(Range(lsockets)) /\ own.fd \notin Listening
  BY <1>1 DEF TypeOK, ListInv, OwnInv, Listen, Listening, Is
<1>3. /\ lsockets' \in Seq(Fd) /\ DOMAIN lsockets' = 1 .. Len(lsockets) + 1
      /\ DOMAIN lsockets = 1 .. Len(lsockets) /\ lsockets'[Len(lsockets) + 1] = own.fd
      /\ \A i \in 1 .. Len(lsockets) : lsockets'[i] = lsockets[i]
      /\ Len(lsockets) \in Nat
  BY <1>1, <1>2
<1>4. TypeOK'
  <2>1. handles' \in [Handle -> [lsocket : Fd \cup {None}, socket : Fd \cup {None}]]
    <3>1. handles \in [Handle -> [lsocket : Fd \cup {None}, socket : Fd \cup {None}]]
      BY <1>1 DEF TypeOK
    <3> QED  BY <1>1, <1>2, <3>1
  <2>2. /\ UNCHANGED <<file, files, hung, fired, openFds, neglected, connMap>>
        /\ UNCHANGED <<cur, own, left, lpc, event>>
    BY <1>1
  <2> QED  BY <1>1, <1>3, <2>1, <2>2 DEF TypeOK, Files
<1>5. FilesInv'
  BY DEF ClosingInv, FilesInv, Listen, evloop, kernel, loop, Is, Files, Origin
<1>6. OwnInv'
  BY DEF ClosingInv, OwnInv, Listen, evloop, kernel, loop, Is
<1>7. EventInv'
  BY DEF ClosingInv, EventInv, Listen, evloop, kernel, loop, Is
<1>8. HandleInv'
  <2>1. HandleInv /\ Heard' = Heard /\ Listening' = Listening
    BY <1>1 DEF ClosingInv, Heard, Listening, Is
  <2>2. /\ handles'[cur].lsocket = own.fd
        /\ \A h \in Handle : h # cur => handles'[h] = handles[h]
    BY <1>1, <1>2 DEF TypeOK
  <2> QED  BY <1>1, <1>2, <2>1, <2>2 DEF HandleInv, Is
<1>9. ListInv'
  <2>1. Range(lsockets') = Range(lsockets) \cup {own.fd}
    BY <1>3 DEF Range
  <2>2. own.fd \notin Range(lsockets) /\ \A i \in 1 .. Len(lsockets) : lsockets[i] # own.fd
    BY <1>2, <1>3 DEF Range, Lists
  <2>3. \A i, j \in DOMAIN lsockets' : lsockets'[i] = lsockets'[j] => i = j
    BY <1>1, <1>3, <2>2 DEF ListInv
  <2>4. Heard' = Heard /\ Listening' = Listening /\ Is(own.fd, "listen")'
    BY <1>1, <1>2 DEF Heard, Listening, Is
  <2>5. own.fd \in Range(lsockets)' /\ Range(lsockets)' \ {own'.fd} = Range(lsockets)
    BY <1>1, <2>1, <2>2
  <2> QED  BY <1>1, <1>2, <2>3, <2>4, <2>5 DEF ListInv, Lists
<1>10. OffInv'
  BY DEF ClosingInv, OffInv, Listen, evloop, kernel, loop, Is, Files
<1>11. DestructInv'
  BY DEF ClosingInv, DestructInv, Listen, evloop, kernel, loop, Is
<1>12. OnlyFailuresLeak'
  BY DEF ClosingInv, OnlyFailuresLeak, Listen, evloop, kernel, loop, Is
<1> QED
  BY <1>4, <1>5, <1>6, <1>7, <1>8, <1>9, <1>10, <1>11, <1>12 DEF ClosingInv

LEMMA ConnectedInv ==
  ASSUME ClosingInv, Connected
  PROVE  ClosingInv'
<1>1. /\ TypeOK /\ OwnInv /\ FilesInv /\ OffInv /\ pc = "made" /\ pc' = "register"
      /\ handles' = [handles EXCEPT ![cur].socket = own.fd]
      /\ connMap' = Put(connMap, cur, own.fd)
      /\ UNCHANGED <<file, files, hung, fired, openFds, neglected, lsockets>>
      /\ UNCHANGED <<cur, own, left, lpc, event>>
  BY DEF ClosingInv, Connected, evloop, kernel, loop
<1>2. own.fd \in Fd /\ own.file \in Files /\ files[own.file].kind = "client"
  BY <1>1 DEF TypeOK, OwnInv, Connected, Files
<1>3. cur \in Remote
  BY <1>1, <1>2 DEF OwnInv, FilesInv, Origin
<1>4. /\ DOMAIN connMap' = DOMAIN connMap \cup {cur}
      /\ \A k \in DOMAIN connMap' : connMap'[k] = IF k = cur THEN own.fd ELSE connMap[k]
  BY <1>1 DEF Put
<1>5. TypeOK'
  <2>1. handles' \in [Handle -> [lsocket : Fd \cup {None}, socket : Fd \cup {None}]]
    <3>1. handles \in [Handle -> [lsocket : Fd \cup {None}, socket : Fd \cup {None}]]
      BY <1>1 DEF TypeOK
    <3> QED  BY <1>1, <1>2, <3>1
  <2>2. Range(connMap') \subseteq Fd
    BY <1>1, <1>2, <1>4 DEF TypeOK, Range
  <2> QED  BY <1>1, <1>3, <1>4, <2>1, <2>2 DEF TypeOK, Files
<1>6. FilesInv'
  BY DEF ClosingInv, FilesInv, Connected, evloop, kernel, loop, Files, Origin
<1>7. OwnInv'
  BY DEF ClosingInv, OwnInv, Connected, evloop, kernel, loop, Is
<1>8. EventInv'
  BY DEF ClosingInv, EventInv, Connected, evloop, kernel, loop
<1>9. HandleInv'
  <2>1. HandleInv /\ Listening' = Listening
    BY <1>1 DEF ClosingInv, Listening, Is
  <2>2. \A h \in Handle : handles'[h].lsocket = handles[h].lsocket
    BY <1>1 DEF TypeOK
  <2> QED  BY <1>1, <2>1, <2>2 DEF HandleInv
<1>10. ListInv'
  <2>1. ListInv /\ Heard' = Heard /\ Listening' = Listening
    BY <1>1 DEF ClosingInv, Heard, Listening, Is
  <2>2. ~Is(own.fd, "listen") /\ ~Is(own.fd, "listen")' /\ own.fd \notin Listening
    BY <1>1, <1>2 DEF OwnInv, Listening, Is
  <2>3. own.fd \notin Range(lsockets)
    BY <1>1, <2>1, <2>2 DEF ListInv, Lists
  <2> QED  BY <1>1, <2>1, <2>2, <2>3 DEF ListInv, Lists
<1>11. OffInv'
  BY <1>1, <1>4 DEF OffInv, Is, Files
<1>12. DestructInv'
  BY DEF ClosingInv, DestructInv, Connected, evloop, kernel, loop, Is
<1>13. OnlyFailuresLeak'
  BY DEF ClosingInv, OnlyFailuresLeak, Connected, evloop, kernel, loop, Is
<1> QED
  BY <1>5, <1>6, <1>7, <1>8, <1>9, <1>10, <1>11, <1>12, <1>13 DEF ClosingInv

LEMMA RegisterInv ==
  ASSUME ClosingInv, Register
  PROVE  ClosingInv'
<1>1. /\ TypeOK /\ OwnInv /\ pc = "register" /\ pc' = "idle"
      /\ UNCHANGED <<file, files, hung, fired, lsockets, connMap, handles>>
      /\ UNCHANGED <<cur, own, left, lpc, event>>
  BY DEF ClosingInv, Register, kernel, loop
<1>2. /\ own.file # 0 /\ file[own.fd] = own.file /\ own.fd \notin openFds \cup neglected
      /\ files[own.file].for = cur /\ files[own.file].kind \in {"listen", "client"}
      /\ own.fd \in Fd
  BY <1>1 DEF OwnInv, TypeOK
<1>3. \/ openFds' = openFds \cup {own.fd} /\ neglected' = neglected
      \/ neglected' = neglected \cup {own.fd} /\ openFds' = openFds
  BY DEF Register, RegisterFd
<1>4. openFds' \cup neglected' = (openFds \cup neglected) \cup {own.fd}
  BY <1>3
<1>5. /\ Heard' \subseteq Heard \cup {o \in {own.fd} : Is(o, "listen")}
      /\ Listening' = Listening \cup {o \in {own.fd} : Is(o, "listen")}
  BY <1>1, <1>3, <1>4 DEF Heard, Listening, Is
<1>6. TypeOK'
  BY <1>1, <1>2, <1>3 DEF TypeOK, Files
<1>7. FilesInv'
  BY <1>1 DEF ClosingInv, FilesInv, Files
<1>8. OwnInv'
  BY <1>1, <1>2, <1>3 DEF OwnInv, Is
<1>9. EventInv'
  <2>1. openFds \subseteq openFds'
    BY <1>3
  <2> QED  BY <1>1, <2>1 DEF ClosingInv, EventInv
<1>10. HandleInv'
  <2>1. ASSUME handles[cur].lsocket = own.fd, Is(own.fd, "listen")
        PROVE  /\ handles[cur].lsocket \in Listening'
               /\ files[file[handles[cur].lsocket]].for = cur
    BY <1>1, <1>2, <1>5, <2>1
  <2> QED  BY <1>1, <1>5, <2>1 DEF ClosingInv, HandleInv
<1>11. ListInv'
  <2>1. ListInv
    BY DEF ClosingInv
  <2>2. Heard' \subseteq Range(lsockets) /\ Range(lsockets) \subseteq Listening'
    BY <1>1, <1>5, <2>1 DEF ListInv, Lists
  <2>3. Lists(Range(lsockets))' /\ pc' = "idle" /\ lsockets' = lsockets
    BY <1>1, <2>2 DEF Lists
  <2> QED  BY <2>1, <2>3 DEF ListInv
<1>12. OffInv'
  BY <1>1, <1>2, <1>3 DEF ClosingInv, OffInv, Is, Files
<1>13. DestructInv'
  BY <1>1 DEF DestructInv
<1>14. OnlyFailuresLeak'
  <2>1. OnlyFailuresLeak /\ \A fd \in Fd : \A k : Is(fd, k)' <=> Is(fd, k)
    BY <1>1 DEF ClosingInv, Is
  <2>2. file'[own.fd] # 0 /\ ~Is(own.fd, "failed")
    BY <1>1, <1>2 DEF Is
  <2>3. \A fd \in neglected' : fd \notin openFds'
    BY <1>2, <1>3, <2>1, <1>6 DEF OnlyFailuresLeak, TypeOK
  <2>4. \A fd \in openFds' \cup neglected' : fd \in Fd => file'[fd] # 0 /\ ~Is(fd, "failed")'
    BY <1>1, <1>4, <2>1, <2>2 DEF OnlyFailuresLeak
  <2>5. ASSUME NEW fd \in Fd, file'[fd] # 0, fd \notin openFds' \cup neglected'
        PROVE  Is(fd, "failed")'
    <3>1. fd # own.fd /\ fd \notin openFds \cup neglected /\ file[fd] # 0
      BY <1>1, <1>4, <2>5
    <3>2. own # [fd |-> fd, file |-> file[fd]]
      BY <3>1
    <3> QED  BY <1>1, <2>1, <3>1, <3>2 DEF OnlyFailuresLeak
  <2> QED  BY <2>3, <2>4, <2>5 DEF OnlyFailuresLeak
<1> QED
  BY <1>6, <1>7, <1>8, <1>9, <1>10, <1>11, <1>12, <1>13, <1>14 DEF ClosingInv

LEMMA CloseHandleInv ==
  ASSUME ClosingInv, NEW h \in Handle, CloseHandle(h)
  PROVE  ClosingInv'
<1>1. TypeOK'
  BY DEF ClosingInv, TypeOK, CloseHandle, kernel, tables, evloop, loop, Files
<1>2. FilesInv'
  BY DEF ClosingInv, FilesInv, CloseHandle, kernel, tables, evloop, loop, Files, Origin
<1>3. OwnInv'
  BY DEF ClosingInv, OwnInv, CloseHandle, kernel, tables, evloop, loop, Is
<1>4. EventInv'
  BY DEF ClosingInv, EventInv, CloseHandle, kernel, tables, evloop, loop
<1>5. HandleInv'
  BY DEF ClosingInv, HandleInv, CloseHandle, kernel, tables, evloop, loop, Heard, Listening,
         OwnInv, Is
<1>6. ListInv'
  <2>1. /\ pc = "idle" /\ pc' \in {"remove", "signal"}
        /\ pc' = "remove" => handles'[cur'].lsocket # None
        /\ UNCHANGED <<file, files, openFds, neglected, lsockets>>
    BY DEF CloseHandle, kernel, tables, evloop
  <2> QED  BY <2>1, SameListening DEF ClosingInv, ListInv, Lists, Is
<1>7. OffInv'
  BY DEF ClosingInv, OffInv, CloseHandle, kernel, tables, evloop, loop, Is, Files
<1>8. DestructInv'
  BY DEF ClosingInv, DestructInv, CloseHandle, kernel, tables, evloop, loop, Is
<1>9. OnlyFailuresLeak'
  BY DEF ClosingInv, OnlyFailuresLeak, CloseHandle, kernel, tables, evloop, loop, Is
<1> QED  BY <1>1, <1>2, <1>3, <1>4, <1>5, <1>6, <1>7, <1>8, <1>9 DEF ClosingInv

LEMMA RemoveListenerInv ==
  ASSUME ClosingInv, RemoveListener
  PROVE  ClosingInv'
<1> DEFINE x == handles[cur].lsocket
<1>1. /\ TypeOK /\ pc = "remove" /\ pc' = "forget" /\ RemoveFd(x)
      /\ UNCHANGED <<files, hung, fired, lsockets, connMap, handles>>
      /\ UNCHANGED <<cur, own, left, lpc, event>>
  BY DEF ClosingInv, RemoveListener, loop
<1>2. x \in Listening /\ files[file[x]].for = cur
  BY <1>1 DEF ClosingInv, HandleInv, ListInv, TypeOK
<1>3. x \in Fd /\ Is(x, "listen") /\ openFds \cup neglected \subseteq Fd
  BY <1>1, <1>2 DEF Listening, TypeOK
<1>4. x' = x
  BY <1>1
<1> HIDE DEF x
<1>5. /\ openFds' = openFds \ {x} /\ neglected' = neglected
      /\ file' \in [Fd -> 0 .. Len(files)]
      /\ \A o \in Fd : file'[o] = IF o = x /\ x \in openFds THEN 0 ELSE file[o]
  BY <1>1, <1>3, RemoveFdFacts
<1>6. /\ FilesInv' /\ Heard' = Heard \ {x}
      /\ Listening \ {x} \subseteq Listening'
      /\ \A o \in Fd : \A k : Is(o, k)' <=> Is(o, k) /\ (o = x => x \notin openFds)
  BY <1>1, <1>3, RemoveFdKeeps
<1>7. TypeOK'
  BY <1>1, <1>5 DEF TypeOK, Files
<1>8. OwnInv'
  BY <1>1, <1>3, <1>5, <1>6 DEF ClosingInv, OwnInv
<1>9. EventInv'
  BY <1>1, <1>3, <1>5 DEF ClosingInv, EventInv, TypeOK, Is
<1>10. HandleInv'
  <2>1. ASSUME NEW h \in Handle, h # cur, handles[h].lsocket # None
        PROVE  /\ handles[h].lsocket \in Listening'
               /\ files'[file'[handles[h].lsocket]].for = h
    <3>1. handles[h].lsocket \in Listening /\ files[file[handles[h].lsocket]].for = h
      BY <1>1, <2>1 DEF ClosingInv, HandleInv
    <3>2. handles[h].lsocket # x /\ handles[h].lsocket \in Fd
      BY <1>2, <1>3, <2>1, <3>1 DEF Listening
    <3> QED  BY <1>1, <1>5, <1>6, <3>1, <3>2
  <2> QED  BY <1>1, <2>1 DEF HandleInv
<1>11. ListInv'
  <2>1. ListInv
    BY DEF ClosingInv
  <2>2. Lists(Range(lsockets) \ {x})'
    BY <1>1, <1>4, <1>6, <2>1 DEF ListInv, Lists
  <2> QED  BY <1>1, <2>1, <2>2 DEF ListInv, x
<1>12. OffInv'
  BY <1>1, <1>3, <1>5, <1>6 DEF ClosingInv, OffInv, Files, Is
<1>13. DestructInv'
  BY <1>1 DEF DestructInv
<1>14. OnlyFailuresLeak'
  BY <1>1, <1>3, <1>5, <1>6 DEF ClosingInv, OnlyFailuresLeak
<1> QED
  BY <1>6, <1>7, <1>8, <1>9, <1>10, <1>11, <1>12, <1>13, <1>14 DEF ClosingInv

LEMMA ForgetListenerInv ==
  ASSUME ClosingInv, ForgetListener
  PROVE  ClosingInv'
<1>1. /\ TypeOK /\ ListInv /\ pc = "forget" /\ pc' \in {"signal", "idle"}
      /\ lsockets' = Without(lsockets, {handles[cur].lsocket})
      /\ handles' = [handles EXCEPT ![cur].lsocket = None]
      /\ UNCHANGED <<file, files, hung, fired, openFds, neglected, connMap>>
      /\ UNCHANGED <<cur, own, left, lpc, event>>
  BY DEF ClosingInv, ForgetListener, evloop, kernel, loop
<1>2. lsockets \in Seq(Fd)
  BY <1>1 DEF TypeOK
<1>3. lsockets' \in Seq(Fd) /\ Range(lsockets') = Range(lsockets) \ {handles[cur].lsocket}
  BY <1>1, <1>2, WithoutRange
<1>4. \A i, j \in DOMAIN lsockets' : lsockets'[i] = lsockets'[j] => i = j
  <2>1. \A i, j \in DOMAIN lsockets : lsockets[i] = lsockets[j] => i = j
    BY <1>1 DEF ListInv
  <2> QED  BY <1>1, <1>2, <2>1, WithoutInjective
<1>5. TypeOK'
  <2>1. handles' \in [Handle -> [lsocket : Fd \cup {None}, socket : Fd \cup {None}]]
    BY <1>1 DEF TypeOK
  <2> QED  BY <1>1, <1>3, <2>1 DEF TypeOK, Files
<1>6. FilesInv'
  BY DEF ClosingInv, FilesInv, ForgetListener, evloop, kernel, loop, Files, Origin
<1>7. OwnInv'
  BY DEF ClosingInv, OwnInv, ForgetListener, evloop, kernel, loop, Is
<1>8. EventInv'
  BY DEF ClosingInv, EventInv, ForgetListener, evloop, kernel, loop
<1>9. HandleInv'
  <2>1. HandleInv /\ Heard' = Heard /\ Listening' = Listening
    BY <1>1 DEF ClosingInv, Heard, Listening, Is
  <2>2. /\ handles'[cur].lsocket = None
        /\ \A h \in Handle : h # cur => handles'[h] = handles[h]
    BY <1>1 DEF TypeOK
  <2> QED  BY <1>1, <2>1, <2>2 DEF HandleInv
<1>10. ListInv'
  <2>1. Heard' = Heard /\ Listening' = Listening
    BY <1>1 DEF Heard, Listening, Is
  <2> QED  BY <1>1, <1>3, <1>4, <2>1 DEF ListInv, Lists
<1>11. OffInv'
  BY DEF ClosingInv, OffInv, ForgetListener, evloop, kernel, loop, Is, Files
<1>12. DestructInv'
  BY DEF ClosingInv, DestructInv, ForgetListener, evloop, kernel, loop, Is
<1>13. OnlyFailuresLeak'
  BY DEF ClosingInv, OnlyFailuresLeak, ForgetListener, evloop, kernel, loop, Is
<1> QED
  BY <1>5, <1>6, <1>7, <1>8, <1>9, <1>10, <1>11, <1>12, <1>13 DEF ClosingInv

LEMMA MakeSignalInv ==
  ASSUME ClosingInv, MakeSignal
  PROVE  ClosingInv'
<1>1. /\ TypeOK /\ pc = "signal"
      /\ UNCHANGED <<hung, fired, lsockets, connMap, handles, cur, left, event>>
  BY DEF ClosingInv, MakeSignal, Crash, kernel
<1>2. CASE Unused = {}
  <2>1. /\ pc' = "crashed" /\ lpc' = "crashed"
        /\ UNCHANGED <<file, files, hung, fired, openFds, neglected, own>>
    BY <1>2 DEF MakeSignal, Crash, kernel, evloop
  <2>2. Heard' = Heard /\ Listening' = Listening /\ Files' = Files
    BY <2>1 DEF Heard, Listening, Is, Files
  <2>3. TypeOK' /\ FilesInv'
    BY <1>1, <2>1, <2>2 DEF ClosingInv, TypeOK, FilesInv
  <2>4. OwnInv' /\ EventInv' /\ HandleInv' /\ OffInv' /\ DestructInv'
    BY <1>1, <2>1
       DEF OwnInv, EventInv, HandleInv, OffInv, DestructInv, ClosingInv
  <2>5. ListInv' /\ OnlyFailuresLeak'
    BY <1>1, <2>1, <2>2 DEF ListInv, Lists, OnlyFailuresLeak, ClosingInv, Is
  <2> QED  BY <2>3, <2>4, <2>5 DEF ClosingInv
<1>3. CASE Unused # {}
  <2>1. PICK fd \in Fd :
          /\ OpenFile(fd, "signal", cur) /\ own' = [fd |-> fd, file |-> Len(files) + 1]
          /\ RegisterFd(fd)
    BY <1>3 DEF MakeSignal
  <2>2. pc' = "fire" /\ lpc' = lpc
    BY <1>3 DEF MakeSignal
  <2>3. "signal" \in Kinds /\ cur \in Origin("signal") /\ cur \in Handle \cup Peer
    BY <1>1 DEF TypeOK, Kinds, Origin
  <2>4. own'.fd = fd /\ own'.file = Len(files) + 1 /\ Len(files) \in Nat
    BY <1>1, <2>1 DEF TypeOK
  <2>5. /\ files'[Len(files) + 1].kind = "signal" /\ Len(files') = Len(files) + 1
        /\ \A f \in Files : files'[f] = files[f]
        /\ file[fd] = 0 /\ file'[fd] = Len(files) + 1
        /\ \A o \in Fd \ {fd} : file'[o] = file[o]
    BY <1>1, <2>1, <2>3, OpenFileFacts
  <2>6. /\ fd \notin openFds \cup neglected
        /\ \A f : f \in Files' <=> f \in Files \/ f = Len(files) + 1
    BY <2>1, <2>3, OpenFileKeeps
  <2>7. /\ \A o \in Fd : \A k : Is(o, k)' <=> IF o = fd THEN k = "signal" ELSE Is(o, k)
        /\ \A o \in Fd : o # fd /\ file[o] # 0 => files'[file'[o]] = files[file[o]]
    BY <2>1, <2>3, OpenFileKeeps
  <2>18. /\ \/ openFds' = openFds \cup {fd} /\ neglected' = neglected
            \/ neglected' = neglected \cup {fd} /\ openFds' = openFds
         /\ openFds \cup neglected \subseteq Fd
    BY <1>1, <2>1 DEF RegisterFd, TypeOK
  <2>19. openFds' \cup neglected' = (openFds \cup neglected) \cup {fd}
    BY <2>18
  <2>8. Heard' = Heard /\ Listening' = Listening
    BY <2>6, <2>7, <2>18 DEF Heard, Listening
  <2>9. TypeOK'
    <3>1. /\ file' \in [Fd -> 0 .. Len(files')]
          /\ files' \in Seq([kind : Kinds, for : Handle \cup Peer])
      BY <1>1, <2>1, <2>3, OpenFileFacts DEF FileRecord
    <3>2. hung' \subseteq Files' /\ fired' \subseteq Files'
      BY <1>1, <2>6 DEF TypeOK
    <3>3. own' \in [fd : Fd, file : 0 .. Len(files')]
      BY <2>1, <2>4, <2>5
    <3>4. event' \in [fd : Fd, file : 0 .. Len(files')]
      BY <1>1, <2>4, <2>5, MoreFiles DEF TypeOK
    <3> QED  BY <1>1, <2>1, <2>2, <2>18, <3>1, <3>2, <3>3, <3>4 DEF TypeOK
  <2>10. FilesInv'
    BY <1>1, <2>1, <2>3, OpenFileFilesInv
  <2>11. OwnInv'
    BY <1>1, <2>2, <2>4, <2>5, <2>7, <2>18 DEF ClosingInv, OwnInv
  <2>12. EventInv'
    <3>1. EventInv /\ event.file \in 0 .. Len(files) /\ event.fd \in Fd
      BY <1>1, <2>4, MoreFiles DEF ClosingInv, TypeOK
    <3>2. lpc = "event" => files'[event.file] = files[event.file]
      BY <2>5, <3>1 DEF EventInv, Files
    <3> QED  BY <1>1, <2>2, <2>4, <2>5, <2>6, <2>18, <3>1, <3>2 DEF EventInv
  <2>13. HandleInv'
    <3>1. \A o \in Listening : files'[file'[o]] = files[file[o]]
      BY <2>6, <2>7, <2>18 DEF Listening, Is
    <3> QED  BY <1>1, <2>2, <2>8, <3>1 DEF ClosingInv, HandleInv
  <2>14. ListInv'
    BY <1>1, <2>2, <2>8 DEF ClosingInv, ListInv, Lists
  <2>15. OffInv'
    <3>1. OffInv
      BY DEF ClosingInv
    <3>2. lpc = "off" => \A f \in Files' : files'[f].kind # "conn"
      BY <2>5, <2>6, <3>1 DEF OffInv
    <3>3. \A o \in openFds' : Is(o, "client")' =>
            o \in openFds /\ Is(o, "client") /\ files'[file'[o]] = files[file[o]]
      BY <2>7, <2>18 DEF Is
    <3> QED  BY <1>1, <2>2, <3>1, <3>2, <3>3 DEF OffInv
  <2>16. DestructInv'
    BY <2>2 DEF DestructInv
  <2>17. OnlyFailuresLeak'
    BY <1>1, <2>2, <2>5, <2>6, <2>7, <2>18 DEF ClosingInv, OnlyFailuresLeak
  <2> QED
    BY <2>9, <2>10, <2>11, <2>12, <2>13, <2>14, <2>15, <2>16, <2>17
       DEF ClosingInv
<1> QED  BY <1>2, <1>3

LEMMA FireInv ==
  ASSUME ClosingInv, Fire
  PROVE  ClosingInv'
<1>1. TypeOK'
  <2>1. /\ TypeOK /\ OwnInv /\ pc = "fire" /\ pc' = "destroy" /\ fired' = fired \cup {own.file}
        /\ handles' = [handles EXCEPT ![cur].socket = None]
        /\ UNCHANGED <<file, files, hung, openFds, neglected, lsockets, connMap>>
        /\ UNCHANGED <<cur, own, left, lpc, event>>
    BY DEF ClosingInv, Fire, evloop, loop
  <2>2. handles' \in [Handle -> [lsocket : Fd \cup {None}, socket : Fd \cup {None}]]
    BY <2>1 DEF TypeOK
  <2>3. own.file \in Files
    BY <2>1 DEF OwnInv, TypeOK, Files
  <2> QED  BY <2>1, <2>2, <2>3 DEF TypeOK, Files
<1>2. FilesInv'
  BY DEF ClosingInv, FilesInv, Fire, evloop, loop, Files, Origin, OwnInv, Is
<1>3. OwnInv'
  BY DEF ClosingInv, OwnInv, Fire, evloop, loop, Is
<1>4. EventInv'
  BY DEF ClosingInv, EventInv, Fire, evloop, loop
<1>5. HandleInv'
  BY DEF ClosingInv, HandleInv, Fire, evloop, loop, Heard, Listening, OwnInv, Is
<1>6. ListInv'
  <2>1. /\ pc = "fire" /\ pc' = "destroy"
        /\ UNCHANGED <<file, files, openFds, neglected, lsockets>>
    BY DEF Fire, evloop
  <2> QED  BY <2>1, SameListening DEF ClosingInv, ListInv, Lists, Is
<1>7. OffInv'
  BY DEF ClosingInv, OffInv, Fire, evloop, loop, Is, Files
<1>8. DestructInv'
  BY DEF ClosingInv, DestructInv, Fire, evloop, loop, Is
<1>9. OnlyFailuresLeak'
  BY DEF ClosingInv, OnlyFailuresLeak, Fire, evloop, loop, Is
<1> QED  BY <1>1, <1>2, <1>3, <1>4, <1>5, <1>6, <1>7, <1>8, <1>9 DEF ClosingInv

LEMMA DestroySignalInv ==
  ASSUME ClosingInv, DestroySignal
  PROVE  ClosingInv'
<1> DEFINE x == own.fd
<1>1. /\ TypeOK /\ OwnInv /\ pc = "destroy" /\ pc' = "idle" /\ RemoveFd(x)
      /\ UNCHANGED <<files, hung, fired, lsockets, connMap, handles>>
      /\ UNCHANGED <<cur, own, left, lpc, event>>
  BY DEF ClosingInv, DestroySignal, loop
<1>2. x \in Fd /\ Is(x, "signal") /\ openFds \subseteq Fd
  BY <1>1 DEF TypeOK, OwnInv, Is
<1>3. \A fd \in openFds : Is(fd, "signal") => fd = x
  BY <1>1 DEF OwnInv
<1> HIDE DEF x
<1>4. /\ openFds' = openFds \ {x} /\ neglected' = neglected
      /\ file' \in [Fd -> 0 .. Len(files)]
      /\ \A o \in Fd : file'[o] = IF o = x /\ x \in openFds THEN 0 ELSE file[o]
  BY <1>1, <1>2, RemoveFdFacts
<1>5. /\ FilesInv' /\ Heard' = Heard \ {x}
      /\ Listening' = Listening \ {o \in {x} : o \in openFds}
      /\ \A o \in Fd : \A k : Is(o, k)' <=> Is(o, k) /\ (o = x => x \notin openFds)
  BY <1>1, <1>2, RemoveFdKeeps
<1>6. Heard' = Heard /\ Listening' = Listening
  BY <1>2, <1>5 DEF Heard, Listening, Is
<1>7. TypeOK'
  BY <1>1, <1>4 DEF TypeOK, Files
<1>8. OwnInv'
  BY <1>1, <1>2, <1>3, <1>4, <1>5 DEF OwnInv
<1>9. EventInv'
  BY <1>1, <1>2, <1>4 DEF ClosingInv, EventInv, TypeOK, Is
<1>10. HandleInv'
  <2>1. \A o \in Listening : o # x /\ file'[o] = file[o]
    BY <1>1, <1>2, <1>4 DEF Listening, Is, TypeOK
  <2> QED  BY <1>1, <1>6, <2>1 DEF ClosingInv, HandleInv
<1>11. ListInv'
  BY <1>1, <1>6 DEF ClosingInv, ListInv, Lists
<1>12. OffInv'
  BY <1>1, <1>2, <1>4, <1>5 DEF ClosingInv, OffInv, Files, Is
<1>13. DestructInv'
  BY <1>1 DEF DestructInv
<1>14. OnlyFailuresLeak'
  BY <1>1, <1>2, <1>4, <1>5 DEF ClosingInv, OnlyFailuresLeak
<1> QED
  BY <1>5, <1>7, <1>8, <1>9, <1>10, <1>11, <1>12, <1>13, <1>14 DEF ClosingInv

LEMMA DestroyInv ==
  ASSUME ClosingInv, Destroy
  PROVE  ClosingInv'
<1>1. TypeOK'
  BY DEF ClosingInv, TypeOK, Destroy, kernel, tables, evloop, loop, Files, ListInv,
         Lists, Listening
<1>2. FilesInv'
  BY DEF ClosingInv, FilesInv, Destroy, kernel, tables, evloop, loop, Files, Origin
<1>3. OwnInv'
  BY DEF ClosingInv, OwnInv, Destroy, kernel, tables, evloop, loop, Is
<1>4. EventInv'
  BY DEF ClosingInv, EventInv, Destroy, kernel, tables, evloop, loop
<1>5. HandleInv'
  BY DEF ClosingInv, HandleInv, Destroy, kernel, tables, evloop, loop, Heard, Listening
<1>6. ListInv'
  <2>1. /\ pc' \in {"gone", "destructor"} /\ lsockets' = lsockets
    BY DEF Destroy, tables
  <2> QED  BY <2>1, SameListening DEF ClosingInv, ListInv, Lists, Is
<1>7. OffInv'
  BY DEF ClosingInv, OffInv, Destroy, kernel, tables, evloop, loop, Is, Files
<1>8. DestructInv'
  <2>1. /\ ClosingInv /\ pc = "idle" /\ lpc = "off" /\ left' = Range(lsockets) \cup Range(connMap)
        /\ pc' = (IF left' = {} THEN "gone" ELSE "destructor")
        /\ UNCHANGED <<file, files, openFds, neglected, connMap>>
    BY DEF Destroy, kernel, tables, evloop
  <2>2. ASSUME NEW fd \in openFds
        PROVE  fd \in left' \/ (Is(fd, "client") /\ connMap[files[file[fd]].for] # fd)
    <3>1. fd \in Fd /\ file[fd] \in Files /\ ~Is(fd, "failed") /\ file[fd] # 0
      BY <2>1 DEF ClosingInv, TypeOK, OnlyFailuresLeak, Files
    <3>2. files[file[fd]].kind \in Kinds
      <4>1. files \in Seq(FileRecord)
        BY <2>1 DEF ClosingInv, TypeOK, FileRecord
      <4>2. files[file[fd]] \in FileRecord
        BY <3>1, <4>1 DEF Files
      <4> QED  BY <4>2 DEF FileRecord
    <3>3. ~Is(fd, "signal") /\ ~Is(fd, "conn")
      BY <2>1, <3>1 DEF ClosingInv, OwnInv, OffInv, Is
    <3>4. Is(fd, "listen") => fd \in Range(lsockets)
      BY <2>1 DEF ClosingInv, ListInv, Lists, Heard
    <3>5. Is(fd, "client") => files[file[fd]].for \in DOMAIN connMap
      BY <2>1 DEF ClosingInv, OffInv
    <3> QED  BY <2>1, <3>1, <3>2, <3>3, <3>4, <3>5 DEF Is, Kinds, Range
  <2> QED  BY <2>1, <2>2 DEF DestructInv, Is
<1>9. OnlyFailuresLeak'
  BY DEF ClosingInv, OnlyFailuresLeak, Destroy, kernel, tables, evloop, loop, Is
<1> QED  BY <1>1, <1>2, <1>3, <1>4, <1>5, <1>6, <1>7, <1>8, <1>9 DEF ClosingInv

LEMMA RemoveNextInv ==
  ASSUME ClosingInv, RemoveNext
  PROVE  ClosingInv'
<1>1. /\ TypeOK /\ pc = "destructor" /\ pc' \in {"gone", "destructor"}
      /\ UNCHANGED <<files, hung, fired, lsockets, connMap, handles, cur, own, lpc, event>>
      /\ pc' = (IF left' = {} THEN "gone" ELSE "destructor")
  BY DEF ClosingInv, RemoveNext, loop
<1>2. PICK x \in left : RemoveFd(x) /\ left' = left \ {x}
  BY DEF RemoveNext
<1>3. x \in Fd /\ openFds \cup neglected \subseteq Fd
  BY <1>1, <1>2 DEF TypeOK
<1>4. /\ openFds' = openFds \ {x} /\ neglected' = neglected
      /\ file' \in [Fd -> 0 .. Len(files)]
      /\ \A o \in Fd : file'[o] = IF o = x /\ x \in openFds THEN 0 ELSE file[o]
  BY <1>1, <1>2, RemoveFdFacts
<1>5. /\ FilesInv'
      /\ \A o \in Fd : \A k : Is(o, k)' <=> Is(o, k) /\ (o = x => x \notin openFds)
  BY <1>1, <1>2, RemoveFdKeeps
<1>6. TypeOK'
  BY <1>1, <1>2, <1>4 DEF TypeOK, Files
<1>7. OwnInv'
  BY <1>1, <1>3, <1>4, <1>5 DEF ClosingInv, OwnInv
<1>8. EventInv'
  BY DEF ClosingInv, EventInv, RemoveNext, loop
<1>9. HandleInv'
  BY <1>1 DEF HandleInv
<1>10. ListInv'
  BY <1>1 DEF ClosingInv, ListInv
<1>11. OffInv'
  BY <1>1, <1>3, <1>4, <1>5 DEF ClosingInv, OffInv, Files, Is
<1>12. DestructInv'
  BY <1>1, <1>2, <1>3, <1>4, <1>5 DEF ClosingInv, DestructInv, Is
<1>13. OnlyFailuresLeak'
  BY <1>1, <1>3, <1>4, <1>5 DEF ClosingInv, OnlyFailuresLeak
<1> QED
  BY <1>5, <1>6, <1>7, <1>8, <1>9, <1>10, <1>11, <1>12, <1>13 DEF ClosingInv

LEMMA AcceptInv ==
  ASSUME ClosingInv, Accept
  PROVE  ClosingInv'
<1>1. /\ TypeOK /\ lpc = "event" /\ lpc' = "wait"
      /\ UNCHANGED <<hung, fired, lsockets, handles, pc, cur, own, left, event>>
  BY DEF ClosingInv, Accept, Event, app
<1>2. PICK peer \in Peer, fd \in Fd :
        /\ OpenFile(fd, "conn", peer) /\ RegisterFd(fd)
        /\ connMap' = Put(connMap, peer, fd)
  BY DEF Accept
<1>3. "conn" \in Kinds /\ peer \in Origin("conn") /\ peer \in Handle \cup Peer
  BY DEF Kinds, Origin
<1>4. Len(files) \in Nat /\ openFds \cup neglected \subseteq Fd /\ own.fd \in Fd
  BY <1>1 DEF TypeOK
<1>18. \/ openFds' = openFds \cup {fd} /\ neglected' = neglected
       \/ neglected' = neglected \cup {fd} /\ openFds' = openFds
  BY <1>2 DEF RegisterFd
<1>5. /\ Len(files') = Len(files) + 1
      /\ \A f \in Files : files'[f] = files[f]
      /\ file[fd] = 0 /\ file'[fd] = Len(files) + 1
      /\ \A o \in Fd \ {fd} : file'[o] = file[o]
  BY <1>1, <1>2, <1>3, OpenFileFacts
<1>6. fd \notin openFds \cup neglected /\ \A f : f \in Files' <=> f \in Files \/ f = Len(files) + 1
  BY <1>2, <1>3, OpenFileKeeps
<1>7. /\ \A o \in Fd : \A k : Is(o, k)' <=> IF o = fd THEN k = "conn" ELSE Is(o, k)
      /\ \A o \in Fd : o # fd /\ file[o] # 0 => files'[file'[o]] = files[file[o]]
  BY <1>2, <1>3, OpenFileKeeps
<1>8. Heard' = Heard /\ Listening' = Listening
  BY <1>4, <1>6, <1>7, <1>18 DEF Heard, Listening
<1>9. TypeOK'
  <2>1. file' \in [Fd -> 0 .. Len(files')] /\ files' \in Seq([kind : Kinds, for : Handle \cup Peer])
    BY <1>1, <1>2, <1>3, OpenFileFacts DEF FileRecord
  <2>2. hung' \subseteq Files' /\ fired' \subseteq Files'
    BY <1>1, <1>6 DEF TypeOK
  <2>3. own' \in [fd : Fd, file : 0 .. Len(files')]
    BY <1>1, <1>4, <1>5, MoreFiles DEF TypeOK
  <2>4. event' \in [fd : Fd, file : 0 .. Len(files')]
    BY <1>1, <1>4, <1>5, MoreFiles DEF TypeOK
  <2>5. DOMAIN connMap' \subseteq Remote \cup Peer /\ Range(connMap') \subseteq Fd
    BY <1>1, <1>2 DEF TypeOK, Put, Range
  <2> QED  BY <1>1, <1>2, <2>1, <2>2, <2>3, <2>4, <2>5, <1>18 DEF TypeOK
<1>10. FilesInv'
  BY <1>1, <1>2, <1>3, OpenFileFilesInv
<1>11. OwnInv'
  <2>1. OwnInv /\ own.file \in 0 .. Len(files)
    BY <1>1, <1>4, MoreFiles DEF ClosingInv, TypeOK
  <2>2. own.file # 0 => files'[own.file] = files[own.file]
    BY <1>5, <2>1 DEF Files
  <2> QED  BY <1>1, <1>4, <1>5, <1>7, <1>18, <2>1, <2>2 DEF OwnInv
<1>12. EventInv'
  BY DEF ClosingInv, EventInv, Accept, app, Is, Event, Files
<1>13. HandleInv'
  <2>1. \A o \in Listening : files'[file'[o]] = files[file[o]]
    BY <1>4, <1>6, <1>7 DEF Heard, Listening, Is
  <2>2. Is(own.fd, "listen") => Is(own.fd, "listen")'
    BY <1>1, <1>4, <1>5, <1>7 DEF Is
  <2> QED  BY <1>1, <1>8, <2>1, <2>2 DEF ClosingInv, HandleInv
<1>14. ListInv'
  <2>1. pc = "register" => own.fd # fd
    BY <1>5 DEF ClosingInv, OwnInv
  <2> QED  BY <1>1, <1>4, <1>7, <1>8, <2>1 DEF ClosingInv, ListInv, Lists
<1>15. OffInv'
  BY DEF ClosingInv, OffInv, Accept, app, Is, Event, Files
<1>16. DestructInv'
  BY <1>1 DEF ClosingInv, EventInv, DestructInv
<1>17. OnlyFailuresLeak'
  BY <1>1, <1>4, <1>5, <1>6, <1>7, <1>18 DEF ClosingInv, OnlyFailuresLeak
<1> QED
  BY <1>9, <1>10, <1>11, <1>12, <1>13, <1>14, <1>15, <1>16, <1>17
     DEF ClosingInv

LEMMA PeerClosedInv ==
  ASSUME ClosingInv, PeerClosed
  PROVE  ClosingInv'
<1> DEFINE x == event.fd
<1>1. /\ TypeOK /\ EventInv /\ lpc = "event" /\ lpc' = "wait" /\ RemoveFd(x)
      /\ files[event.file].kind \in {"client", "conn"}
      /\ UNCHANGED <<files, hung, fired, lsockets, handles, pc, cur, own, left, event>>
  BY DEF ClosingInv, PeerClosed, Event, app
<1>2. /\ x \in openFds /\ x \in Fd /\ openFds \subseteq Fd
      /\ ~Is(x, "listen") /\ ~Is(x, "signal")
  BY <1>1 DEF TypeOK, EventInv, Is
<1>3. DOMAIN connMap' \subseteq DOMAIN connMap /\ Range(connMap') \subseteq Range(connMap)
  BY DEF PeerClosed, Range
<1> HIDE DEF x
<1>4. /\ openFds' = openFds \ {x} /\ neglected' = neglected
      /\ file' \in [Fd -> 0 .. Len(files)]
      /\ \A o \in Fd : file'[o] = IF o = x THEN 0 ELSE file[o]
  BY <1>1, <1>2, RemoveFdFacts
<1>5. /\ FilesInv' /\ Heard' = Heard \ {x} /\ Listening' = Listening \ {x}
      /\ \A o \in Fd : \A k : Is(o, k)' <=> Is(o, k) /\ o # x
  BY <1>1, <1>2, RemoveFdKeeps
<1>6. Heard' = Heard /\ Listening' = Listening
  BY <1>2, <1>5 DEF Heard, Listening
<1>7. own.fd \in Fd /\ (Is(own.fd, "listen") => Is(own.fd, "listen")')
  BY <1>1, <1>2, <1>5 DEF TypeOK
<1>8. TypeOK'
  BY <1>1, <1>3, <1>4 DEF TypeOK, Files
<1>9. OwnInv'
  BY <1>1, <1>2, <1>4, <1>5, <1>7 DEF ClosingInv, OwnInv, Is
<1>10. EventInv'
  BY DEF ClosingInv, EventInv, PeerClosed, app, Event
<1>11. HandleInv'
  <2>1. \A o \in Listening : o # x /\ file'[o] = file[o]
    BY <1>1, <1>2, <1>4 DEF Listening, TypeOK
  <2> QED  BY <1>1, <1>6, <1>7, <2>1 DEF ClosingInv, HandleInv
<1>12. ListInv'
  BY <1>1, <1>2, <1>5, <1>6, <1>7 DEF ClosingInv, ListInv, Lists
<1>13. OffInv'
  BY DEF ClosingInv, OffInv, PeerClosed, app, Event, Is, Files
<1>14. DestructInv'
  BY DEF ClosingInv, DestructInv, PeerClosed, app, Event, Is, EventInv
<1>15. OnlyFailuresLeak'
  BY <1>1, <1>2, <1>4, <1>5 DEF ClosingInv, OnlyFailuresLeak
<1> QED
  BY <1>5, <1>8, <1>9, <1>10, <1>11, <1>12, <1>13, <1>14, <1>15 DEF ClosingInv

LEMMA HangupInv ==
  ASSUME ClosingInv, NEW f \in Files, Hangup(f)
  PROVE  ClosingInv'
<1>1. TypeOK'
  BY DEF ClosingInv, TypeOK, Hangup, tables, evloop, app, loop, Files
<1>2. FilesInv'
  BY DEF ClosingInv, FilesInv, Hangup, tables, evloop, app, loop, Files, Origin
<1>3. OwnInv'
  BY DEF ClosingInv, OwnInv, Hangup, tables, evloop, app, loop, Is
<1>4. EventInv'
  BY DEF ClosingInv, EventInv, Hangup, tables, evloop, app, loop
<1>5. HandleInv'
  BY DEF ClosingInv, HandleInv, Hangup, tables, evloop, app, loop, Heard, Listening, OwnInv,
         Is
<1>6. ListInv'
  <2>1. /\ UNCHANGED <<file, files, openFds, neglected, lsockets, handles>>
        /\ UNCHANGED <<pc, cur, own>>
    BY DEF Hangup, tables, evloop, app
  <2> QED  BY <2>1, SameListening DEF ClosingInv, ListInv, Lists, Is
<1>7. OffInv'
  BY DEF ClosingInv, OffInv, Hangup, tables, evloop, app, loop, Is, Files
<1>8. DestructInv'
  BY DEF ClosingInv, DestructInv, Hangup, tables, evloop, app, loop, Is
<1>9. OnlyFailuresLeak'
  BY DEF ClosingInv, OnlyFailuresLeak, Hangup, tables, evloop, app, loop, Is
<1> QED  BY <1>1, <1>2, <1>3, <1>4, <1>5, <1>6, <1>7, <1>8, <1>9 DEF ClosingInv

LEMMA RunInv ==
  ASSUME ClosingInv, Run
  PROVE  ClosingInv'
<1>1. TypeOK'
  BY DEF ClosingInv, TypeOK, Run, kernel, tables, evloop, app, Files
<1>2. FilesInv'
  BY DEF ClosingInv, FilesInv, Run, kernel, tables, evloop, app, Files, Origin
<1>3. OwnInv'
  BY DEF ClosingInv, OwnInv, Run, kernel, tables, evloop, app, Is
<1>4. EventInv'
  BY DEF ClosingInv, EventInv, Run, kernel, tables, evloop, app
<1>5. HandleInv'
  BY DEF ClosingInv, HandleInv, Run, kernel, tables, evloop, app, Heard, Listening, OwnInv, Is
<1>6. ListInv'
  <2>1. /\ UNCHANGED <<file, files, openFds, neglected, lsockets, handles>>
        /\ UNCHANGED <<pc, cur, own>>
    BY DEF Run, kernel, tables, evloop, app
  <2> QED  BY <2>1, SameListening DEF ClosingInv, ListInv, Lists, Is
<1>7. OffInv'
  BY DEF ClosingInv, OffInv, Run, kernel, tables, evloop, app, Is, Files
<1>8. DestructInv'
  BY DEF ClosingInv, DestructInv, Run, kernel, tables, evloop, app, Is
<1>9. OnlyFailuresLeak'
  BY DEF ClosingInv, OnlyFailuresLeak, Run, kernel, tables, evloop, app, Is
<1> QED  BY <1>1, <1>2, <1>3, <1>4, <1>5, <1>6, <1>7, <1>8, <1>9 DEF ClosingInv

LEMMA EpollWaitInv ==
  ASSUME ClosingInv, EpollWait
  PROVE  ClosingInv'
<1>1. TypeOK'
  BY DEF ClosingInv, TypeOK, EpollWait, kernel, tables, evloop, app, Is, Files
<1>2. FilesInv'
  BY DEF ClosingInv, FilesInv, EpollWait, kernel, tables, evloop, app, Is, Files,
         Origin
<1>3. OwnInv'
  BY DEF ClosingInv, OwnInv, EpollWait, kernel, tables, evloop, app, Is
<1>4. EventInv'
  <2>1. /\ TypeOK /\ OwnInv /\ EventInv /\ OnlyFailuresLeak /\ lpc = "wait" /\ lpc' = "event"
        /\ UNCHANGED <<file, files, hung, openFds, neglected, pc, own>>
    BY DEF ClosingInv, EpollWait, kernel, tables, evloop, app
  <2>2. PICK fd \in openFds :
          /\ Is(fd, "listen") \/ file[fd] \in hung \cup fired
          /\ event' = [fd |-> fd, file |-> file[fd]]
    BY DEF EpollWait
  <2>3. event'.fd = fd /\ event'.file = file[fd] /\ fd \in Fd
    BY <2>1, <2>2 DEF TypeOK
  <2>4. file[fd] # 0
    BY <2>1, <2>3 DEF OnlyFailuresLeak
  <2>5. pc \in {"made", "register"} => file[fd] # own.file
    BY <2>1, <2>3 DEF ClosingInv, FilesInv, OwnInv, TypeOK
  <2>6. files[file[fd]].kind \in {"client", "conn"} => file[fd] \in hung
    BY <2>2 DEF ClosingInv, FilesInv, Is
  <2> QED  BY <2>1, <2>2, <2>3, <2>4, <2>5, <2>6 DEF EventInv
<1>5. HandleInv'
  BY DEF ClosingInv, HandleInv, EpollWait, kernel, tables, evloop, app, Is, Heard, Listening
<1>6. ListInv'
  <2>1. /\ UNCHANGED <<file, files, openFds, neglected, lsockets, handles>>
        /\ UNCHANGED <<pc, cur, own>>
    BY DEF EpollWait, kernel, tables, evloop, app
  <2> QED  BY <2>1, SameListening DEF ClosingInv, ListInv, Lists, Is
<1>7. OffInv'
  BY DEF ClosingInv, OffInv, EpollWait, kernel, tables, evloop, app, Is, Files
<1>8. DestructInv'
  BY DEF ClosingInv, DestructInv, EpollWait, kernel, tables, evloop, app, Is
<1>9. OnlyFailuresLeak'
  BY DEF ClosingInv, OnlyFailuresLeak, EpollWait, kernel, tables, evloop, app, Is
<1> QED  BY <1>1, <1>2, <1>3, <1>4, <1>5, <1>6, <1>7, <1>8, <1>9 DEF ClosingInv

LEMMA AcceptFailsInv ==
  ASSUME ClosingInv, AcceptFails
  PROVE  ClosingInv'
<1>1. TypeOK'
  BY DEF ClosingInv, TypeOK, AcceptFails, kernel, tables, evloop, app, Event, Files
<1>2. FilesInv'
  BY DEF ClosingInv, FilesInv, AcceptFails, kernel, tables, evloop, app, Event, Files,
         Origin
<1>3. OwnInv'
  BY DEF ClosingInv, OwnInv, AcceptFails, kernel, tables, evloop, app, Event, Is
<1>4. EventInv'
  BY DEF ClosingInv, EventInv, AcceptFails, kernel, tables, evloop, app, Event
<1>5. HandleInv'
  BY DEF ClosingInv, HandleInv, AcceptFails, kernel, tables, evloop, app, Event,
         Heard, Listening, OwnInv, Is
<1>6. ListInv'
  <2>1. /\ UNCHANGED <<file, files, openFds, neglected, lsockets, handles>>
        /\ UNCHANGED <<pc, cur, own>>
    BY DEF AcceptFails, kernel, tables, evloop, app
  <2> QED  BY <2>1, SameListening DEF ClosingInv, ListInv, Lists, Is
<1>7. OffInv'
  BY DEF ClosingInv, OffInv, AcceptFails, kernel, tables, evloop, app, Event, Is, Files
<1>8. DestructInv'
  BY DEF ClosingInv, DestructInv, AcceptFails, kernel, tables, evloop, app, Event, Is
<1>9. OnlyFailuresLeak'
  BY DEF ClosingInv, OnlyFailuresLeak, AcceptFails, kernel, tables, evloop, app, Event,
         Is
<1> QED  BY <1>1, <1>2, <1>3, <1>4, <1>5, <1>6, <1>7, <1>8, <1>9 DEF ClosingInv

LEMMA FreedContextInv ==
  ASSUME ClosingInv, FreedContext
  PROVE  ClosingInv'
<1>1. TypeOK'
  BY DEF ClosingInv, TypeOK, FreedContext, kernel, tables, evloop, Event, Crash, Files
<1>2. FilesInv'
  BY DEF ClosingInv, FilesInv, FreedContext, kernel, tables, evloop, Event, Crash,
         Files, Origin
<1>3. OwnInv'
  BY DEF ClosingInv, OwnInv, FreedContext, kernel, tables, evloop, Event, Crash, Is
<1>4. EventInv'
  BY DEF ClosingInv, EventInv, FreedContext, kernel, tables, evloop, Event, Crash
<1>5. HandleInv'
  BY DEF ClosingInv, HandleInv, FreedContext, kernel, tables, evloop, Event, Crash,
         Heard, Listening
<1>6. ListInv'
  <2>1. /\ pc' = "crashed" /\ lsockets' = lsockets
    BY DEF FreedContext, tables, Crash
  <2> QED  BY <2>1, SameListening DEF ClosingInv, ListInv, Lists, Is
<1>7. OffInv'
  BY DEF ClosingInv, OffInv, FreedContext, kernel, tables, evloop, Event, Crash, Is,
         Files
<1>8. DestructInv'
  BY DEF ClosingInv, DestructInv, FreedContext, kernel, tables, evloop, Event, Crash,
         Is
<1>9. OnlyFailuresLeak'
  BY DEF ClosingInv, OnlyFailuresLeak, FreedContext, kernel, tables, evloop, Event,
         Crash, Is
<1> QED  BY <1>1, <1>2, <1>3, <1>4, <1>5, <1>6, <1>7, <1>8, <1>9 DEF ClosingInv

LEMMA ExecOnceInv ==
  ASSUME ClosingInv, ExecOnce
  PROVE  ClosingInv'
<1>1. TypeOK'
  BY DEF ClosingInv, TypeOK, ExecOnce, kernel, tables, evloop, Event, Crash, Files
<1>2. FilesInv'
  BY DEF ClosingInv, FilesInv, ExecOnce, kernel, tables, evloop, Event, Crash, Files,
         Origin
<1>3. OwnInv'
  BY DEF ClosingInv, OwnInv, ExecOnce, kernel, tables, evloop, Event, Crash, Is
<1>4. EventInv'
  BY DEF ClosingInv, EventInv, ExecOnce, kernel, tables, evloop, Event, Crash
<1>5. HandleInv'
  BY DEF ClosingInv, HandleInv, ExecOnce, kernel, tables, evloop, Event, Crash,
         Heard, Listening
<1>6. ListInv'
  <2>1. /\ pc' = "crashed" /\ lsockets' = lsockets
    BY DEF ExecOnce, tables, Crash
  <2> QED  BY <2>1, SameListening DEF ClosingInv, ListInv, Lists, Is
<1>7. OffInv'
  BY DEF ClosingInv, OffInv, ExecOnce, kernel, tables, evloop, Event, Crash, Is, Files
<1>8. DestructInv'
  BY DEF ClosingInv, DestructInv, ExecOnce, kernel, tables, evloop, Event, Crash, Is
<1>9. OnlyFailuresLeak'
  BY DEF ClosingInv, OnlyFailuresLeak, ExecOnce, kernel, tables, evloop, Event, Crash,
         Is
<1> QED  BY <1>1, <1>2, <1>3, <1>4, <1>5, <1>6, <1>7, <1>8, <1>9 DEF ClosingInv

-----------------------------------------------------------------------------
LEMMA InitInv == Init => ClosingInv
<1> SUFFICES ASSUME Init PROVE ClosingInv
  OBVIOUS
<1>1. /\ files = << >> /\ connMap = << >> /\ lsockets = << >> /\ own.fd = 1 /\ event.fd = 1
      /\ Len(files) = 0 /\ Files = {} /\ own.file = 0 /\ event.file = 0
  BY DEF Init, Files
<1>2. DOMAIN connMap = {} /\ DOMAIN lsockets = {} /\ DOMAIN files = {}
  BY <1>1
<1>3. Range(connMap) = {} /\ Range(lsockets) = {}
  BY <1>2 DEF Range
<1>4. Heard = {} /\ Listening = {}
  BY DEF Init, Heard, Listening
<1>5. 1 \in Fd
  BY ClosingAssumption DEF Fd
<1>6. /\ files \in Seq([kind : Kinds, for : Handle \cup Peer]) /\ lsockets \in Seq(Fd)
      /\ file \in [Fd -> 0 .. Len(files)]
  BY <1>1 DEF Init
<1>7. TypeOK
  <2>1. handles \in [Handle -> [lsocket : Fd \cup {None}, socket : Fd \cup {None}]]
    BY DEF Init
  <2>2. own \in [fd : Fd, file : 0 .. Len(files)] /\ event \in [fd : Fd, file : 0 .. Len(files)]
    BY <1>1, <1>5 DEF Init
  <2> QED  BY <1>2, <1>3, <1>6, <2>1, <2>2 DEF Init, TypeOK
<1>8. FilesInv /\ OwnInv /\ EventInv
  BY <1>1, <1>5 DEF Init, FilesInv, OwnInv, EventInv
<1>9. HandleInv /\ ListInv /\ OffInv /\ DestructInv
  BY <1>1, <1>2, <1>3, <1>4 DEF Init, HandleInv, ListInv, Lists, OffInv, DestructInv
<1>10. OnlyFailuresLeak
  BY DEF Init, OnlyFailuresLeak
<1> QED  BY <1>7, <1>8, <1>9, <1>10 DEF ClosingInv

LEMMA StepInv == ClosingInv /\ [Next]_vars => ClosingInv'
<1> SUFFICES ASSUME ClosingInv, [Next]_vars PROVE ClosingInv'
  OBVIOUS
<1>1. CASE Begin
  BY <1>1, CloseHandleInv, MakeInv, DestroyInv DEF Begin
<1>2. CASE Continue
  BY <1>2, FailsInv, ListenInv, ConnectedInv, RegisterInv, RemoveListenerInv,
     ForgetListenerInv, MakeSignalInv, FireInv, DestroySignalInv, RemoveNextInv
     DEF Continue
<1>3. CASE Run \/ Loop
  BY <1>3, RunInv, EpollWaitInv, AcceptInv, AcceptFailsInv, FreedContextInv,
     PeerClosedInv, ExecOnceInv
     DEF Loop
<1>4. CASE \E f \in Files : Hangup(f)
  BY <1>4, HangupInv
<1>5. CASE UNCHANGED vars
  <2>1. /\ UNCHANGED <<file, files, hung, fired, openFds, neglected, lsockets, connMap, handles>>
        /\ UNCHANGED <<pc, cur, own, left, lpc, event>>
    BY <1>5 DEF vars, kernel, tables, evloop, app, loop
  <2>2. Files' = Files /\ Heard' = Heard /\ Listening' = Listening
    BY <2>1 DEF Files, Heard, Listening, Is
  <2>3. TypeOK' /\ FilesInv' /\ OwnInv' /\ EventInv'
    BY <2>1, <2>2 DEF ClosingInv, TypeOK, FilesInv, OwnInv, EventInv, Is
  <2>4. HandleInv' /\ ListInv' /\ OffInv'
    BY <2>1, <2>2 DEF ClosingInv, HandleInv, ListInv, Lists, OffInv, Is
  <2>5. DestructInv' /\ OnlyFailuresLeak'
    BY <2>1 DEF ClosingInv, DestructInv, OnlyFailuresLeak, Is
  <2> QED  BY <2>3, <2>4, <2>5 DEF ClosingInv
<1> QED  BY <1>1, <1>2, <1>3, <1>4, <1>5 DEF Next

(* The conjuncts above hold in every state of every behaviour, with and    *)
(* without a loop.                                                         *)
THEOREM ClosingInvariant == Spec => []ClosingInv
<1> QED  BY InitInv, StepInv, PTL DEF Spec

(* Tables, handles and the two threads' variables keep their types.        *)
THEOREM ClosingTypeOK == Spec => []TypeOK
<1>1. ClosingInv => TypeOK
  BY DEF ClosingInv
<1> QED  BY <1>1, ClosingInvariant, PTL

(* Whenever no call that changes it is under way, m_lsockets lists every   *)
(* listening socket the event loop watches, and besides those only ones    *)
(* that epoll refused to watch.                                            *)
THEOREM ClosingListenersKnown == Spec => []ListenersKnown
<1>1. ClosingInv => ListenersKnown
  BY DEF ClosingInv, ListInv, Lists, ListenersKnown, Heard, Listening
<1> QED  BY <1>1, ClosingInvariant, PTL

(* Every open file is registered, or is being made, or was lost to a       *)
(* failure of bind(), listen(), connect() or epoll_ctl(); what the event   *)
(* loop has a context of, watched or refused, is open.                     *)
THEOREM ClosingOnlyFailuresLeak == Spec => []OnlyFailuresLeak
<1>1. ClosingInv => OnlyFailuresLeak
  BY DEF ClosingInv
<1> QED  BY <1>1, ClosingInvariant, PTL

(* Of what the event loop watched, the destructor of a backend whose loop  *)
(* never ran leaves open only connections that a later send_connect        *)
(* replaced in m_connection_map.                                           *)
THEOREM ClosingNothingLeft == Spec => []NothingLeft
<1>1. ClosingInv => NothingLeft
  BY DEF ClosingInv, DestructInv, NothingLeft
<1> QED  BY <1>1, ClosingInvariant, PTL

-----------------------------------------------------------------------------
(* Who closes what.                                                        *)
LEMMA OpenFileClosesNothing ==
  ASSUME ClosingInv, NEW fd \in Fd, NEW k, NEW for, OpenFile(fd, k, for),
         NEW f \in Files, Open(f)
  PROVE  Open(f)'
<1>1. PICK o \in Fd : file[o] = f
  BY DEF Open
<1>2. o # fd /\ file' = [file EXCEPT ![fd] = Len(files) + 1]
  BY <1>1 DEF OpenFile, Unused, Files
<1>3. file'[o] = f
  BY <1>1, <1>2 DEF ClosingInv, TypeOK
<1> QED  BY <1>3 DEF Open

LEMMA RemoveFdCloses ==
  ASSUME ClosingInv, NEW fd, RemoveFd(fd), NEW f \in Files, Open(f), ~Open(f)'
  PROVE  fd \in openFds /\ file[fd] = f
<1>1. PICK o \in Fd : file[o] = f
  BY DEF Open
<1>2. file'[o] # f
  BY DEF Open
<1>3. TypeOK
  BY DEF ClosingInv
<1> QED  BY <1>1, <1>2, <1>3, RemoveFdFacts

LEMMA StepClosesOwn ==
  ASSUME ClosingInv, [Next]_vars, NEW f \in Files, Open(f), ~Open(f)'
  PROVE  \/ pc = "remove" /\ files[f] = [kind |-> "listen", for |-> cur]
         \/ pc = "destroy" /\ f = own.file
         \/ pc = "destructor"
         \/ Event(files[f].kind) /\ f \in hung
<1>1. file' # file
  BY DEF Open
<1>2. ASSUME NEW h \in Handle, NEW k, Make(h, k) PROVE FALSE
  BY <1>2, OpenFileClosesNothing DEF Make
<1>3. CASE RemoveListener
  <2> DEFINE x == handles[cur].lsocket
  <2>1. pc = "remove" /\ RemoveFd(x)
    BY <1>3 DEF RemoveListener
  <2>2. x \in Listening /\ files[file[x]].for = cur
    BY <2>1 DEF ClosingInv, HandleInv, ListInv, TypeOK
  <2>3. file[x] = f
    BY <2>1, RemoveFdCloses
  <2>4. files[f] \in FileRecord
    <3>1. files \in Seq(FileRecord)
      BY DEF ClosingInv, TypeOK, FileRecord
    <3> QED  BY <3>1 DEF Files
  <2> HIDE DEF x
  <2>5. files[f].kind = "listen" /\ files[f].for = cur
    BY <2>2, <2>3 DEF Heard, Listening, Is
  <2> QED  BY <2>1, <2>4, <2>5 DEF FileRecord
<1>4. CASE MakeSignal
  BY <1>1, <1>4, OpenFileClosesNothing DEF MakeSignal, kernel
<1>5. CASE DestroySignal
  <2>1. pc = "destroy" /\ RemoveFd(own.fd)
    BY <1>5 DEF DestroySignal
  <2> QED  BY <2>1, RemoveFdCloses DEF ClosingInv, OwnInv
<1>6. CASE RemoveNext
  BY <1>6 DEF RemoveNext
<1>7. CASE Accept
  BY <1>7, OpenFileClosesNothing DEF Accept
<1>8. CASE PeerClosed
  <2>1. RemoveFd(event.fd) /\ (Event("client") \/ Event("conn"))
    BY <1>8 DEF PeerClosed
  <2>2. file[event.fd] = f
    BY <2>1, RemoveFdCloses
  <2> QED  BY <2>1, <2>2 DEF ClosingInv, EventInv, Event
<1>9. CASE Begin
  BY <1>1, <1>2, <1>9 DEF Begin, CloseHandle, Destroy, kernel
<1>10. CASE Fails \/ Listen \/ Connected \/ Register \/ ForgetListener \/ Fire
  BY <1>1, <1>10
     DEF Fails, Listen, Connected, Register, ForgetListener, Fire, evloop, kernel
<1>11. CASE Run \/ EpollWait \/ AcceptFails \/ FreedContext \/ ExecOnce
  BY <1>1, <1>11
     DEF Run, EpollWait, AcceptFails, FreedContext, ExecOnce, kernel
<1>12. CASE \E g \in Files : Hangup(g)
  BY <1>1, <1>12 DEF Hangup
<1>13. CASE UNCHANGED vars
  BY <1>1, <1>13 DEF vars, kernel
<1> QED
  BY <1>3, <1>4, <1>5, <1>6, <1>7, <1>8, <1>9, <1>10, <1>11, <1>12, <1>13
     DEF Next, Continue, Loop

(* close_handle closes the socket made for its handle, ~EvSignal the       *)
(* signal's own eventfd, the loop a connection whose peer has gone, and    *)
(* nothing else closes anything before the destructor.                     *)
THEOREM ClosingClosesOwn == Spec => ClosesOwn
<1>1. ClosingInv /\ [Next]_vars =>
        [\A f \in Files : Open(f) /\ ~Open(f)' =>
           \/ pc = "remove" /\ files[f] = [kind |-> "listen", for |-> cur]
           \/ pc = "destroy" /\ f = own.file
           \/ pc = "destructor"
           \/ Event(files[f].kind) /\ f \in hung]_vars
  BY StepClosesOwn
<1> QED  BY <1>1, ClosingInvariant, PTL DEF Spec, ClosesOwn
=============================================================================
