-------------------------- MODULE P2PLinks_proofs ---------------------------
(***************************************************************************)
(* Proofs about the links between the servers of P2P, for any servers and  *)
(* lists of known hosts, and whoever crashes.                              *)
(***************************************************************************)
EXTENDS P2PLinks, SequenceTheorems, TLAPS

Messages == {"ping", "find"}

\* TypeOK, taken apart, and what it leaves out.
Threads(s) == {Free, Preserver, ConsoleThread} \cup {Notifier(c) : c \in Entries(s)}
                                               \cup {Finder(c) : c \in Entries(s)}
ServerShape == /\ up \subseteq Servers
               /\ mutex \in [Servers -> UNION {Threads(s) : s \in Servers}]
               /\ \A s \in Servers : mutex[s] \in Threads(s)
               /\ active \in [Servers -> SUBSET Conns]
               /\ \A s \in Servers : active[s] \subseteq Entries(s)
               /\ torn \subseteq Conns
               /\ crashes \in 0 .. MaxCrashes
PreserverShape == /\ preserver \in [Servers -> [pc : {"connect", "hang", "inc", "sleep"}, at : Nat,
                                                sock : {None} \cup Conns]]
                  /\ \A s \in Servers : /\ preserver[s].at \in 1 .. Len(Known[s]) + 1
                                        /\ preserver[s].pc # "sleep" => preserver[s].at <= Len(Known[s])
                                        /\ preserver[s].sock \in {None} \cup Entries(s)
LinkShape == /\ notifier \in [Conns -> {"none", "ready", "reading"}]
             /\ finder \in [Conns -> [pc : {"none", "spawned", "ready", "reading"},
                                      sock : {None} \cup Conns]]
             /\ cl \in [Conns -> {"open", "closed"}]
MessageShape == /\ req \in [Conns -> Seq(Messages)]
                /\ res \in [Conns -> Seq(Messages)]
SvShape == sv \in [Conns -> {"queued", "accepted", "served", "closed"}]

\* A connection waits once, for accept or in the listener of its server.
ListenInv == /\ listener \in [Servers -> {None} \cup Conns]
             /\ \A s \in Servers : listener[s] # None =>
                                      Server(listener[s]) = s /\ sv[listener[s]] = "accepted"
             /\ backlog \in [Servers -> Seq(Conns)]
             /\ \A s \in Servers : \A k \in 1 .. Len(backlog[s]) :
                   Server(backlog[s][k]) = s /\ sv[backlog[s][k]] = "queued"
             /\ \A s \in Servers : \A j, k \in 1 .. Len(backlog[s]) :
                   backlog[s][j] = backlog[s][k] => j = k

\* Who reads an answer has the mutex, and who has it, reads; or keeps it for nothing.
MutexInv == /\ \A c \in Conns : /\ notifier[c] = "reading" <=> mutex[Client(c)] = Notifier(c)
                                /\ finder[c].pc = "reading" <=> mutex[Client(c)] = Finder(c)
            /\ \A s \in Servers : Kept(s) => active[s] = {}

\* The preserver has an open connection of its own, on which nobody pings yet.
PreserverInv == \A s \in Servers : preserver[s].pc = "inc" =>
                   /\ preserver[s].sock # None
                   /\ cl[preserver[s].sock] = "open" /\ notifier[preserver[s].sock] = "none"

\* A find uses a socket of its own server.
FinderInv == \A c \in Conns : /\ finder[c].sock \in {None} \cup Entries(Client(c))
                              /\ finder[c].pc = "reading" => finder[c].sock # None

IInv == /\ ServerShape /\ PreserverShape /\ LinkShape /\ MessageShape /\ SvShape
        /\ ListenInv /\ MutexInv /\ PreserverInv /\ FinderInv
        /\ ListedIsPinged /\ AnswersMatch

-----------------------------------------------------------------------------
(* A connection has a client and a server. *)
LEMMA ConnFacts ==
    /\ \A c \in Conns : Client(c) \in Servers /\ Server(c) \in Servers /\ c # None
    /\ \A s, t \in Servers : \A k \in 1 .. K[s] :
         Knows(s, t) => /\ <<s, t, k>> \in Conns
                        /\ Client(<<s, t, k>>) = s /\ Server(<<s, t, k>>) = t
<1>1. ASSUME NEW c \in Conns
      PROVE  Client(c) \in Servers /\ Server(c) \in Servers /\ c # None
  <2>1. PICK s \in Servers : c \in {s} \X {t \in Servers : Knows(s, t)} \X (1 .. K[s])
    BY DEF Conns
  <2> QED
    BY <2>1 DEF Client, Server, None
<1>2. ASSUME NEW s \in Servers, NEW t \in Servers, NEW k \in 1 .. K[s], Knows(s, t)
      PROVE  /\ <<s, t, k>> \in Conns
             /\ Client(<<s, t, k>>) = s /\ Server(<<s, t, k>>) = t
  <2>1. <<s, t, k>> \in {s} \X {u \in Servers : Knows(s, u)} \X (1 .. K[s])
    BY <1>2
  <2> QED
    BY <2>1 DEF Conns, Client, Server
<1> QED
  BY <1>1, <1>2

(* No two threads of a server have one name. *)
LEMMA ThreadFacts ==
    /\ Free \notin {Preserver, ConsoleThread}
    /\ \A c \in Conns : Notifier(c) \notin {Free, Preserver, ConsoleThread}
    /\ \A c \in Conns : Finder(c) \notin {Free, Preserver, ConsoleThread}
    /\ \A c, d \in Conns : Notifier(c) # Finder(d)
    /\ \A c, d \in Conns : Notifier(c) = Notifier(d) => c = d
    /\ \A c, d \in Conns : Finder(c) = Finder(d) => c = d
BY DEF Free, Preserver, ConsoleThread, Notifier, Finder

(* The host that a preserver connects to is one it knows. *)
LEMMA HostKnown ==
    ASSUME ServerShape, PreserverShape, NEW s \in Servers, PConnect(s)
    PROVE  Host(s) \in Servers /\ Knows(s, Host(s))
<1>1. Host(s) \in up /\ up \subseteq Servers
  BY DEF PConnect, ServerShape
<1>2. preserver[s].at \in 1 .. Len(Known[s])
  BY P2PAssumption DEF PreserverShape, PConnect, Connecting
<1> QED
  BY <1>1, <1>2 DEF Host, Knows

(* What is left of a sequence when its first k elements are gone. *)
LEMMA RestIsSeq ==
    ASSUME NEW S, NEW q \in Seq(S), NEW k \in 1 .. Len(q)
    PROVE  /\ SubSeq(q, k + 1, Len(q)) \in Seq(S)
           /\ Len(SubSeq(q, k + 1, Len(q))) = Len(q) - k
BY SubSeqProperties

(* Which actions change what. *)
LEMMA Frames ==
    ASSUME [Next]_vars
    PROVE  /\ \/ \E s \in Servers : PWake(s) \/ PInc(s) \/ LActive(s) \/ FindFile(s) \/ Crash(s)
              \/ \E c \in Conns : \/ KeepAliveNotifier(c) \/ AlarmNotifier(c)
                                  \/ FWrite(c) \/ FRead(c) \/ FReadFails(c) \/ AlarmFinder(c)
              \/ UNCHANGED mutex
           /\ \/ \E s \in Servers : PInc(s) \/ Crash(s)
              \/ \E c \in Conns : NWriteFails(c) \/ NReadFails(c) \/ AlarmNotifier(c)
              \/ UNCHANGED active
           /\ \/ \E s \in Servers : PreserverThread(s) \/ AlarmOther(s) \/ Crash(s)
              \/ \E c \in Conns : AlarmNotifier(c) \/ AlarmFinder(c) \/ AlarmHandler(c)
              \/ UNCHANGED preserver
           /\ \/ \E s \in Servers : PConnect(s) \/ UDPListener(s) \/ Crash(s)
              \/ UNCHANGED <<listener, backlog>>
           /\ \/ \E s \in Servers : PInc(s) \/ Crash(s)
              \/ \E c \in Conns : KeepAliveNotifier(c) \/ AlarmNotifier(c)
              \/ UNCHANGED notifier
           /\ \/ \E s \in Servers : FindFile(s) \/ Crash(s)
              \/ \E c \in Conns : FindWildcard(c) \/ AlarmFinder(c)
              \/ UNCHANGED finder
           /\ \/ \E s \in Servers : PConnect(s) \/ PInc(s) \/ Crash(s)
              \/ \E c \in Conns : NWriteFails(c) \/ NReadFails(c) \/ AlarmNotifier(c)
              \/ UNCHANGED cl
           /\ \/ \E s \in Servers : PConnect(s) \/ UDPListener(s) \/ Crash(s)
              \/ \E c \in Conns : HReadFails(c) \/ AlarmHandler(c)
              \/ UNCHANGED sv
           /\ \/ \E s \in Servers : PConnect(s)
              \/ \E c \in Conns : NPing(c) \/ NRead(c) \/ FWrite(c) \/ FRead(c) \/ HAnswer(c)
              \/ UNCHANGED <<req, res>>
           /\ \/ \E s \in Servers : PConnect(s)
              \/ \E c \in Conns : FReadFails(c) \/ AlarmFinder(c)
              \/ UNCHANGED torn
           /\ (\E s \in Servers : Crash(s) \/ Start(s)) \/ UNCHANGED <<up, crashes>>
<1> USE DEF net, threads, UDPListener, PreserverThread, KeepAliveNotifier, FindWildcard, Lost, GivesUp
<1>1. ASSUME NEW s \in Servers, PWake(s) \/ PConnect(s) \/ PConnectFails(s)
      PROVE  /\ UNCHANGED <<up, crashes, active, listener, notifier, finder>>
             /\ PWake(s) \/ UNCHANGED mutex
             /\ PConnect(s) \/ UNCHANGED <<net, torn>>
  BY <1>1 DEF PWake, PConnect, PConnectFails
<1>2. ASSUME NEW s \in Servers, PInc(s)
      PROVE  UNCHANGED <<up, listener, finder, backlog, sv, req, res, torn, crashes>>
  BY <1>2 DEF PInc
<1>3. ASSUME NEW s \in Servers, LActive(s) \/ FindFile(s) \/ AlarmOther(s)
      PROVE  /\ UNCHANGED <<up, active, listener, notifier, net, torn, crashes>>
             /\ AlarmOther(s) => UNCHANGED <<mutex, finder>>
             /\ LActive(s) \/ FindFile(s) => UNCHANGED preserver
             /\ FindFile(s) \/ UNCHANGED finder
  BY <1>3 DEF LActive, FindFile, AlarmOther
<1>4. ASSUME NEW s \in Servers, LAccept(s) \/ LCheckIfKnown(s)
      PROVE  UNCHANGED <<up, mutex, active, preserver, notifier, finder, cl, req, res, torn, crashes>>
  BY <1>4 DEF LAccept, LCheckIfKnown
<1>5. ASSUME NEW s \in Servers, Crash(s) \/ Start(s)
      PROVE  UNCHANGED <<req, res, torn>> /\ (Crash(s) \/ UNCHANGED <<mutex, active, threads, net>>)
  BY <1>5 DEF Crash, Start
<1>6. ASSUME NEW c \in Conns, KeepAliveNotifier(c) \/ AlarmNotifier(c)
      PROVE  /\ UNCHANGED <<up, listener, finder, backlog, sv, torn, crashes>>
             /\ NPing(c) \/ NRead(c) => UNCHANGED <<active, cl>>
             /\ NWriteFails(c) \/ NReadFails(c) \/ AlarmNotifier(c) => UNCHANGED <<req, res>>
             /\ KeepAliveNotifier(c) => UNCHANGED preserver
  BY <1>6 DEF NPing, NWriteFails, NRead, NReadFails, AlarmNotifier
<1>7. ASSUME NEW c \in Conns, FindWildcard(c) \/ AlarmFinder(c)
      PROVE  /\ UNCHANGED <<up, active, listener, notifier, backlog, cl, sv, crashes>>
             /\ FWrite(c) \/ FRead(c) \/ UNCHANGED <<req, res>>
             /\ FReadFails(c) \/ AlarmFinder(c) \/ UNCHANGED torn
             /\ FWrite(c) \/ FRead(c) \/ FReadFails(c) \/ AlarmFinder(c) \/ UNCHANGED mutex
             /\ FindWildcard(c) => UNCHANGED preserver
  BY <1>7 DEF FSocket, FWrite, FWriteFails, FRead, FReadFails, AlarmFinder
<1>8. ASSUME NEW c \in Conns, UDPhandler(c) \/ AlarmHandler(c)
      PROVE  /\ UNCHANGED <<up, mutex, active, listener, notifier, finder, backlog, cl, torn, crashes>>
             /\ HAnswer(c) \/ UNCHANGED <<req, res>>
             /\ HAnswer(c) => UNCHANGED sv
             /\ UDPhandler(c) => UNCHANGED preserver
  BY <1>8 DEF UDPhandler, HAnswer, Answer, HReadFails, AlarmHandler
<1>9. CASE UNCHANGED vars
  BY <1>9 DEF vars
<1> HIDE DEF Lost, GivesUp
<1>10. ASSUME NEW s \in Servers,
              PreserverThread(s) \/ UDPListener(s) \/ LActive(s) \/ FindFile(s) \/ AlarmOther(s)
                \/ Crash(s) \/ Start(s)
       PROVE  /\ PWake(s) \/ PInc(s) \/ LActive(s) \/ FindFile(s) \/ Crash(s) \/ UNCHANGED mutex
              /\ PInc(s) \/ Crash(s) \/ UNCHANGED <<active, notifier>>
              /\ PreserverThread(s) \/ AlarmOther(s) \/ Crash(s) \/ UNCHANGED preserver
              /\ PConnect(s) \/ UDPListener(s) \/ Crash(s) \/ UNCHANGED <<listener, backlog, sv>>
              /\ FindFile(s) \/ Crash(s) \/ UNCHANGED finder
              /\ PConnect(s) \/ PInc(s) \/ Crash(s) \/ UNCHANGED cl
              /\ PConnect(s) \/ UNCHANGED <<req, res, torn>>
              /\ Crash(s) \/ Start(s) \/ UNCHANGED <<up, crashes>>
  BY <1>1, <1>2, <1>3, <1>4, <1>5, <1>10
<1>11. ASSUME NEW c \in Conns,
              KeepAliveNotifier(c) \/ FindWildcard(c) \/ UDPhandler(c) \/ AlarmNotifier(c)
                \/ AlarmFinder(c) \/ AlarmHandler(c)
       PROVE  /\ \/ KeepAliveNotifier(c) \/ AlarmNotifier(c) \/ FWrite(c) \/ FRead(c)
                 \/ FReadFails(c) \/ AlarmFinder(c) \/ UNCHANGED mutex
              /\ NWriteFails(c) \/ NReadFails(c) \/ AlarmNotifier(c) \/ UNCHANGED <<active, cl>>
              /\ AlarmNotifier(c) \/ AlarmFinder(c) \/ AlarmHandler(c) \/ UNCHANGED preserver
              /\ UNCHANGED <<listener, backlog, up, crashes>>
              /\ KeepAliveNotifier(c) \/ AlarmNotifier(c) \/ UNCHANGED notifier
              /\ FindWildcard(c) \/ AlarmFinder(c) \/ UNCHANGED finder
              /\ HReadFails(c) \/ AlarmHandler(c) \/ UNCHANGED sv
              /\ NPing(c) \/ NRead(c) \/ FWrite(c) \/ FRead(c) \/ HAnswer(c) \/ UNCHANGED <<req, res>>
              /\ FReadFails(c) \/ AlarmFinder(c) \/ UNCHANGED torn
  BY <1>6, <1>7, <1>8, <1>11 DEF UDPhandler
<1> QED
  BY <1>9, <1>10, <1>11 DEF Next

-----------------------------------------------------------------------------
(* A notifier that loses its link has the mutex, or takes it at once.      *)
LEMMA Losing ==
    ASSUME LinkShape, MutexInv, NEW c \in Conns,
           NWriteFails(c) \/ NReadFails(c) \/ AlarmNotifier(c)
    PROVE  /\ notifier[c] # "none" /\ mutex[Client(c)] \in {Free, Notifier(c)}
           /\ mutex' = [mutex EXCEPT ![Client(c)] = Free]
           /\ active' = [active EXCEPT ![Client(c)] = {l \in @ : Server(l) # Server(c)}]
           /\ cl' = [cl EXCEPT ![c] = "closed"]
           /\ notifier' = [notifier EXCEPT ![c] = "none"]
           /\ UNCHANGED <<up, listener, finder, backlog, sv, req, res, torn, crashes>>
<1>1. notifier[c] # "none" /\ mutex[Client(c)] \in {Free, Notifier(c)} /\ Lost(c)
  BY DEF NWriteFails, NReadFails, AlarmNotifier, CanLock, MutexInv
<1> QED
  BY <1>1 DEF Lost, DecCons, Signal

(* A find that gives up, or has its answer, has the mutex until then.      *)
LEMMA Giving ==
    ASSUME LinkShape, MutexInv, NEW c \in Conns, FRead(c) \/ FReadFails(c) \/ AlarmFinder(c)
    PROVE  /\ finder[c].pc = "reading" /\ mutex[Client(c)] = Finder(c)
           /\ mutex' = [mutex EXCEPT ![Client(c)] = Free]
           /\ finder' = [finder EXCEPT ![c] = Ended]
           /\ FRead(c) \/ torn' = torn \cup {finder[c].sock}
           /\ UNCHANGED <<up, active, listener, notifier, backlog, cl, sv, crashes>>
<1>1. finder[c].pc = "reading"
  BY DEF FRead, FReadFails, AlarmFinder
<1> QED
  BY <1>1 DEF MutexInv, FRead, FReadFails, AlarmFinder, GivesUp, Signal, FEnds, net

(* Who locks to write did not have the mutex already. *)
LEMMA Locking ==
    ASSUME LinkShape, MutexInv, NEW c \in Conns
    PROVE  /\ NPing(c) => mutex[Client(c)] = Free /\ mutex' = [mutex EXCEPT ![Client(c)] = Notifier(c)]
           /\ FWrite(c) => mutex[Client(c)] = Free /\ mutex' = [mutex EXCEPT ![Client(c)] = Finder(c)]
BY DEF NPing, FWrite, Lock, CanLock, MutexInv

(* What the preserver and the console do to the mutex of their server.     *)
LEMMA Keeping ==
    ASSUME NEW s \in Servers, PWake(s) \/ PInc(s) \/ LActive(s) \/ FindFile(s)
    PROVE  \/ PWake(s) /\ UNCHANGED mutex
           \/ /\ mutex[s] \in {Free, Preserver, ConsoleThread}
              /\ \E m \in {Free, Preserver, ConsoleThread} :
                   /\ mutex' = [mutex EXCEPT ![s] = m]
                   /\ m # Free => active[s] = {} /\ (PWake(s) \/ LActive(s))
BY DEF PWake, PInc, LActive, FindFile, SyncerInfo, LockAndFree, Lock, CanLock

-----------------------------------------------------------------------------
(* The mutex of one server passes to a thread of that server. *)
LEMMA MutexMoves ==
    ASSUME IInv, [Next]_vars
    PROVE  \/ UNCHANGED mutex
           \/ \E s \in Servers : \E m \in Threads(s) : mutex' = [mutex EXCEPT ![s] = m]
<1>1. LinkShape /\ MutexInv
  BY DEF IInv
<1>2. ASSUME NEW s \in Servers, PWake(s) \/ PInc(s) \/ LActive(s) \/ FindFile(s)
      PROVE  UNCHANGED mutex \/ \E m \in Threads(s) : mutex' = [mutex EXCEPT ![s] = m]
  BY <1>2, Keeping DEF Threads
<1>3. ASSUME NEW s \in Servers, Crash(s)
      PROVE  \E m \in Threads(s) : mutex' = [mutex EXCEPT ![s] = m]
  BY <1>3 DEF Crash, Threads
<1>4. ASSUME NEW c \in Conns,
             \/ KeepAliveNotifier(c) \/ AlarmNotifier(c)
             \/ FWrite(c) \/ FRead(c) \/ FReadFails(c) \/ AlarmFinder(c)
      PROVE  \E m \in Threads(Client(c)) : mutex' = [mutex EXCEPT ![Client(c)] = m]
  <2>1. {Free, Notifier(c), Finder(c)} \subseteq Threads(Client(c))
    BY DEF Threads, Entries
  <2>2. NRead(c) => mutex' = [mutex EXCEPT ![Client(c)] = Free]
    BY DEF NRead, Signal
  <2> QED
    BY <1>1, <1>4, <2>1, <2>2, Losing, Giving, Locking DEF KeepAliveNotifier
<1> QED
  BY <1>2, <1>3, <1>4, ConnFacts, Frames

(* The shape of what servers and clients have. *)
LEMMA ServerShapeStep ==
    ASSUME IInv, [Next]_vars
    PROVE  ServerShape'
<1>1. /\ ServerShape /\ LinkShape /\ MutexInv /\ FinderInv
      /\ PreserverShape /\ PreserverInv
  BY DEF IInv
<1>2. /\ mutex' \in [Servers -> UNION {Threads(s) : s \in Servers}]
      /\ \A s \in Servers : mutex'[s] \in Threads(s)
  BY <1>1, MutexMoves DEF ServerShape
<1> DEFINE ActiveShape == /\ active \in [Servers -> SUBSET Conns]
                          /\ \A s \in Servers : active[s] \subseteq Entries(s)
<1>3. ActiveShape'
  <2>1. ASSUME NEW s \in Servers, PInc(s) PROVE ActiveShape'
    <3>1. preserver[s].sock \in Entries(s)
      BY <1>1, <2>1 DEF PreserverShape, PreserverInv, PInc
    <3>2. active' = active \/ active' = [active EXCEPT ![s] = @ \cup {preserver[s].sock}]
      BY <2>1 DEF PInc
    <3> QED
      BY <1>1, <3>1, <3>2 DEF ServerShape, Entries
  <2>2. ASSUME NEW s \in Servers, Crash(s) PROVE ActiveShape'
    BY <1>1, <2>2 DEF Crash, ServerShape
  <2>3. ASSUME NEW c \in Conns, NWriteFails(c) \/ NReadFails(c) \/ AlarmNotifier(c) PROVE ActiveShape'
    <3>1. active' = [active EXCEPT ![Client(c)] = {l \in @ : Server(l) # Server(c)}]
      BY <1>1, <2>3, Losing
    <3> QED
      BY <1>1, <3>1 DEF ServerShape
  <2>4. CASE UNCHANGED active
    BY <1>1, <2>4 DEF ServerShape
  <2> QED
    BY <2>1, <2>2, <2>3, <2>4, Frames
<1>4. torn' \subseteq Conns
  <2>1. ASSUME NEW s \in Servers, PConnect(s) PROVE torn' \subseteq torn
    BY <2>1 DEF PConnect
  <2>2. ASSUME NEW c \in Conns, FReadFails(c) \/ AlarmFinder(c)
        PROVE  torn' \subseteq Conns
    <3>1. torn' = torn \cup {finder[c].sock} /\ finder[c].pc = "reading"
      BY <2>2 DEF FReadFails, AlarmFinder, GivesUp
    <3> QED
      BY <1>1, <3>1 DEF FinderInv, Entries, ServerShape
  <2> QED
    BY <1>1, <2>1, <2>2, Frames DEF ServerShape
<1>5. up' \subseteq Servers /\ crashes' \in 0 .. MaxCrashes
  <2>1. crashes \in 0 .. MaxCrashes /\ MaxCrashes \in Nat
    BY <1>1, P2PAssumption DEF ServerShape
  <2> QED
    BY <1>1, <2>1, Frames DEF ServerShape, Crash, Start
<1> QED
  BY <1>2, <1>3, <1>4, <1>5 DEF ServerShape

(* The shape of the preservers. *)
LEMMA PreserverShapeStep ==
    ASSUME IInv, [Next]_vars
    PROVE  PreserverShape'
<1>1. ServerShape /\ PreserverShape
  BY DEF IInv
<1>2. \A s \in Servers : Known[s] \in Seq(Servers \cup Dead) /\ Len(Known[s]) \in Nat
  BY P2PAssumption
<1>3. ASSUME NEW s \in Servers, NEW at \in Nat \ {0}, NEW m, Try(s, at, m) PROVE PreserverShape'
  <2> DEFINE p == IF m < Desired[s] /\ at <= Len(Known[s])
                  THEN [pc |-> "connect", at |-> at, sock |-> None] ELSE Asleep
  <2>1. preserver' = [preserver EXCEPT ![s] = p]
    BY <1>3 DEF Try
  <2>2. /\ p \in [pc : {"connect", "hang", "inc", "sleep"}, at : Nat, sock : {None} \cup Conns]
        /\ p.at \in 1 .. Len(Known[s]) + 1 /\ p.sock = None
        /\ p.pc # "sleep" => p.at <= Len(Known[s])
    BY <1>2 DEF Asleep
  <2> HIDE DEF p
  <2> QED
    BY <1>1, <2>1, <2>2 DEF PreserverShape
<1>4. ASSUME NEW s \in Servers, PWake(s) PROVE PreserverShape'
  <2>1. PICK m : Try(s, 1, m)
    BY <1>4 DEF PWake
  <2> QED
    BY <1>3, <2>1
<1>5. ASSUME NEW s \in Servers, PConnectFails(s) \/ PInc(s) PROVE PreserverShape'
  <2>1. PICK m : Try(s, preserver[s].at + 1, m)
    BY <1>5 DEF PConnectFails, PInc, TryNext
  <2>2. preserver[s].at + 1 \in Nat \ {0}
    BY <1>1 DEF PreserverShape
  <2> QED
    BY <1>3, <2>1, <2>2
<1>6. ASSUME NEW s \in Servers, PConnect(s) PROVE PreserverShape'
  <2>1. PICK k \in 1 .. K[s] :
          preserver' = [preserver EXCEPT ![s].pc = "inc", ![s].sock = <<s, Host(s), k>>]
    BY <1>6 DEF PConnect
  <2>2. <<s, Host(s), k>> \in Entries(s)
    BY <1>1, <1>6, HostKnown, ConnFacts DEF Entries, PConnect
  <2> DEFINE c == <<s, Host(s), k>>
             p == [preserver[s] EXCEPT !.pc = "inc", !.sock = c]
  <2> HIDE DEF c
  <2>3. preserver[s].pc # "sleep"
    BY <1>6 DEF PConnect, Connecting
  <2>4. c \in Entries(s) /\ c \in Conns
    BY <2>2 DEF c, Entries
  <2>5. /\ p \in [pc : {"connect", "hang", "inc", "sleep"}, at : Nat, sock : {None} \cup Conns]
        /\ p.at = preserver[s].at /\ p.sock = c
    BY <1>1, <2>4 DEF PreserverShape
  <2>6. preserver' = [preserver EXCEPT ![s] = p]
    BY <2>1 DEF c
  <2> HIDE DEF p
  <2> QED
    BY <1>1, <2>3, <2>4, <2>5, <2>6 DEF PreserverShape
<1>7. ASSUME NEW s \in Servers, Hangs(s) PROVE PreserverShape'
  BY <1>1, <1>7 DEF Hangs, PreserverShape
<1>8. ASSUME NEW c \in Conns, AlarmNotifier(c) \/ AlarmFinder(c) \/ AlarmHandler(c)
      PROVE  Hangs(Client(c)) \/ Hangs(Server(c))
  BY <1>8 DEF AlarmNotifier, AlarmFinder, AlarmHandler
<1>9. ASSUME NEW s \in Servers, Crash(s) PROVE PreserverShape'
  <2>1. preserver' = [preserver EXCEPT ![s] = Asleep]
    BY <1>9 DEF Crash
  <2> QED
    BY <1>1, <1>2, <2>1 DEF PreserverShape, Asleep
<1>10. CASE UNCHANGED preserver
  BY <1>1, <1>10 DEF PreserverShape
<1>11. ASSUME NEW s \in Servers, AlarmOther(s) PROVE Hangs(s)
  BY <1>11 DEF AlarmOther
<1> QED
  BY <1>4, <1>5, <1>6, <1>7, <1>8, <1>9, <1>10, <1>11, ConnFacts, Frames DEF PreserverThread

(* The shape of the threads of links, and of the client's ends. *)
LEMMA LinkShapeStep ==
    ASSUME IInv, [Next]_vars
    PROVE  LinkShape'
<1>1. LinkShape /\ MutexInv /\ PreserverShape
  BY DEF IInv
<1>2. notifier' \in [Conns -> {"none", "ready", "reading"}]
  <2>1. ASSUME NEW s \in Servers, PInc(s) \/ Crash(s)
        PROVE  notifier' \in [Conns -> {"none", "ready", "reading"}]
    BY <1>1, <2>1 DEF PInc, Crash, LinkShape
  <2>2. ASSUME NEW c \in Conns, NPing(c) \/ NRead(c)
        PROVE  notifier' \in [Conns -> {"none", "ready", "reading"}]
    BY <1>1, <2>2 DEF NPing, NRead, LinkShape
  <2> QED
    BY <1>1, <2>1, <2>2, Losing, Frames DEF LinkShape, KeepAliveNotifier
<1>3. cl' \in [Conns -> {"open", "closed"}]
  <2>1. ASSUME NEW s \in Servers, PConnect(s) \/ PInc(s) \/ Crash(s)
        PROVE  cl' \in [Conns -> {"open", "closed"}]
    BY <1>1, <2>1 DEF PConnect, PInc, Crash, LinkShape
  <2> QED
    BY <1>1, <2>1, Losing, Frames DEF LinkShape
<1> DEFINE Finders == [pc : {"none", "spawned", "ready", "reading"}, sock : {None} \cup Conns]
<1>4. finder' \in [Conns -> Finders]
  <2>1. finder \in [Conns -> Finders]
    BY <1>1 DEF LinkShape
  <2>2. Ended \in Finders /\ [pc |-> "spawned", sock |-> None] \in Finders
    BY DEF Ended
  <2>3. ASSUME NEW s \in Servers, FindFile(s) \/ Crash(s) PROVE finder' \in [Conns -> Finders]
    BY <2>1, <2>2, <2>3 DEF FindFile, Crash
  <2>4. ASSUME NEW c \in Conns, FSocket(c) PROVE finder' \in [Conns -> Finders]
    <3>1. PICK so \in {None} \cup Conns : finder' = [finder EXCEPT ![c] = [pc |-> "ready", sock |-> so]]
      BY <2>4 DEF FSocket, Entries
    <3> QED
      BY <2>1, <3>1
  <2>5. ASSUME NEW c \in Conns, FWrite(c) PROVE finder' \in [Conns -> Finders]
    BY <2>1, <2>5 DEF FWrite
  <2>6. ASSUME NEW c \in Conns, FWriteFails(c) PROVE finder' \in [Conns -> Finders]
    BY <2>1, <2>2, <2>6 DEF FWriteFails, FEnds
  <2>7. ASSUME NEW c \in Conns, FRead(c) \/ FReadFails(c) \/ AlarmFinder(c)
        PROVE  finder' \in [Conns -> Finders]
    BY <1>1, <2>1, <2>2, <2>7, Giving
  <2> QED
    BY <2>1, <2>3, <2>4, <2>5, <2>6, <2>7, Frames DEF FindWildcard
<1> QED
  BY <1>2, <1>3, <1>4 DEF LinkShape

(* What is under way are pings and finds, and their answers. *)
LEMMA MessageShapeStep ==
    ASSUME IInv, [Next]_vars
    PROVE  MessageShape'
<1>1. /\ MessageShape /\ FinderInv
      /\ req \in [Conns -> Seq(Messages)] /\ res \in [Conns -> Seq(Messages)]
  BY DEF IInv, MessageShape
<1>2. \A q \in Seq(Messages) : \A k \in 1 .. Len(q) : SubSeq(q, k + 1, Len(q)) \in Seq(Messages)
  BY RestIsSeq
<1>3. ASSUME NEW c \in Conns, NEW m \in Messages, Write(c, m) PROVE req' \in [Conns -> Seq(Messages)]
  <2>1. Append(req[c], m) \in Seq(Messages)
    BY <1>1, AppendProperties
  <2> QED
    BY <1>1, <1>3, <2>1 DEF Write
<1>4. ASSUME NEW s \in Servers, PConnect(s) PROVE MessageShape'
  <2>1. \E c : req' = [req EXCEPT ![c] = << >>] /\ res' = [res EXCEPT ![c] = << >>]
    BY <1>4 DEF PConnect
  <2> QED
    BY ZenonT(60), <1>1, <2>1, EmptySeq DEF MessageShape
<1>5. ASSUME NEW c \in Conns, NPing(c) PROVE MessageShape'
  BY <1>1, <1>3, <1>5 DEF NPing, MessageShape, Messages
<1>6. ASSUME NEW c \in Conns, FWrite(c) PROVE MessageShape'
  <2>1. finder[c].sock \in Conns
    BY <1>1, <1>6 DEF FWrite, FinderInv, Entries
  <2> QED
    BY <1>1, <1>3, <1>6, <2>1 DEF FWrite, MessageShape, Messages
<1>7. ASSUME NEW c \in Conns, NRead(c) \/ FRead(c) PROVE MessageShape'
  <2>1. /\ req' = req
        /\ \E d : \E k \in 1 .. Len(res[d]) : res' = [res EXCEPT ![d] = SubSeq(@, k + 1, Len(@))]
    BY <1>7 DEF NRead, FRead
  <2> QED
    BY <1>1, <1>2, <2>1 DEF MessageShape
<1>8. ASSUME NEW c \in Conns, HAnswer(c) PROVE MessageShape'
  <2>1. PICK k \in 1 .. Len(req[c]) : req' = [req EXCEPT ![c] = SubSeq(@, k + 1, Len(@))]
    BY <1>8 DEF HAnswer, Answer
  <2>2. res' = [res EXCEPT ![c] = Append(@, Head(req[c]))]
    BY <1>8 DEF HAnswer, Answer
  <2>3. Head(req[c]) \in Messages
    BY <1>1, <2>1, EmptySeq, HeadTailProperties
  <2>4. Append(res[c], Head(req[c])) \in Seq(Messages)
    BY <1>1, <2>3, AppendProperties
  <2> QED
    BY <1>1, <1>2, <2>1, <2>2, <2>4 DEF MessageShape
<1>9. CASE UNCHANGED <<req, res>>
  BY <1>1, <1>9 DEF MessageShape
<1> QED
  BY <1>4, <1>5, <1>6, <1>7, <1>8, <1>9, Frames

(* The shape of the servers' ends. *)
LEMMA SvShapeStep ==
    ASSUME IInv, [Next]_vars
    PROVE  SvShape'
<1>1. SvShape
  BY DEF IInv
<1>2. ASSUME NEW s \in Servers, PConnect(s) \/ UDPListener(s) \/ Crash(s) PROVE SvShape'
  BY <1>1, <1>2 DEF PConnect, UDPListener, LAccept, LCheckIfKnown, Spawn, Crash, SvShape
<1>3. ASSUME NEW c \in Conns, HReadFails(c) \/ AlarmHandler(c) PROVE SvShape'
  BY <1>1, <1>3 DEF HReadFails, AlarmHandler, HClose, SvShape
<1> QED
  BY <1>1, <1>2, <1>3, Frames DEF SvShape

-----------------------------------------------------------------------------
(* Each connection that waits is in the backlog of its server once, or     *)
(* with its listener.                                                      *)
LEMMA ListenStep ==
    ASSUME IInv, [Next]_vars
    PROVE  ListenInv'
<1>1. /\ ListenInv /\ SvShape /\ ServerShape /\ PreserverShape
      /\ listener \in [Servers -> {None} \cup Conns] /\ backlog \in [Servers -> Seq(Conns)]
      /\ sv \in [Conns -> {"queued", "accepted", "served", "closed"}]
  BY DEF IInv, ListenInv, SvShape
<1>2. ASSUME NEW t \in Servers
      PROVE  /\ backlog[t] \in Seq(Conns) /\ Len(backlog[t]) \in Nat
             /\ \A k \in 1 .. Len(backlog[t]) :
                  backlog[t][k] \in Conns /\ Server(backlog[t][k]) = t /\ sv[backlog[t][k]] = "queued"
             /\ \A j, k \in 1 .. Len(backlog[t]) : backlog[t][j] = backlog[t][k] => j = k
             /\ listener[t] # None =>
                  listener[t] \in Conns /\ Server(listener[t]) = t /\ sv[listener[t]] = "accepted"
  <2>1. backlog[t] \in Seq(Conns) /\ listener[t] \in {None} \cup Conns
    BY <1>1
  <2>2. Len(backlog[t]) \in Nat /\ \A k \in 1 .. Len(backlog[t]) : backlog[t][k] \in Conns
    BY <2>1, LenProperties, ElementOfSeq
  <2>3. /\ \A k \in 1 .. Len(backlog[t]) : Server(backlog[t][k]) = t /\ sv[backlog[t][k]] = "queued"
        /\ \A j, k \in 1 .. Len(backlog[t]) : backlog[t][j] = backlog[t][k] => j = k
        /\ listener[t] # None => Server(listener[t]) = t /\ sv[listener[t]] = "accepted"
    BY <1>1 DEF ListenInv
  <2> QED
    BY <2>1, <2>2, <2>3
<1>3. ASSUME NEW s \in Servers, PConnect(s) PROVE ListenInv'
  <2>1. PICK k \in 1 .. K[s] :
          /\ Unused(<<s, Host(s), k>>)
          /\ backlog' = [backlog EXCEPT ![Host(s)] = Append(@, <<s, Host(s), k>>)]
          /\ sv' = [sv EXCEPT ![<<s, Host(s), k>>] = "queued"]
    BY <1>3 DEF PConnect
  <2> DEFINE c == <<s, Host(s), k>>
             t == Host(s)
  <2>2. c \in Conns /\ Server(c) = t /\ t \in Servers /\ sv[c] = "closed"
    BY <1>1, <1>3, <2>1, HostKnown, ConnFacts DEF Unused
  <2>3. listener' = listener
    BY <1>3 DEF PConnect
  <2> HIDE DEF c, t
  <2>4. backlog' = [backlog EXCEPT ![t] = Append(@, c)] /\ sv' = [sv EXCEPT ![c] = "queued"]
    BY <2>1 DEF c, t
  <2>5. /\ backlog' \in [Servers -> Seq(Conns)]
        /\ Len(backlog'[t]) = Len(backlog[t]) + 1 /\ backlog'[t][Len(backlog[t]) + 1] = c
        /\ \A j \in 1 .. Len(backlog[t]) : backlog'[t][j] = backlog[t][j]
        /\ \A u \in Servers : u # t => backlog'[u] = backlog[u]
    BY <1>1, <1>2, <2>2, <2>4, AppendProperties
  <2>6. \A d \in Conns : sv[d] \in {"queued", "accepted"} => d # c /\ sv'[d] = sv[d]
    BY <1>1, <2>2, <2>4
  <2>7. sv'[c] = "queued"
    BY <1>1, <2>2, <2>4
  <2>8. ASSUME NEW u \in Servers
        PROVE  /\ \A j \in 1 .. Len(backlog'[u]) :
                     Server(backlog'[u][j]) = u /\ sv'[backlog'[u][j]] = "queued"
               /\ \A j, l \in 1 .. Len(backlog'[u]) : backlog'[u][j] = backlog'[u][l] => j = l
    <3>1. CASE u = t
      <4>1. Len(backlog[t]) \in Nat /\ \A j \in 1 .. Len(backlog[t]) :
               /\ backlog'[t][j] = backlog[t][j] /\ backlog[t][j] # c
               /\ Server(backlog'[t][j]) = t /\ sv'[backlog'[t][j]] = "queued"
        <5>1. Len(backlog[t]) \in Nat /\ \A j \in 1 .. Len(backlog[t]) :
                 backlog[t][j] \in Conns /\ Server(backlog[t][j]) = t /\ sv[backlog[t][j]] = "queued"
          BY <1>2, <2>2
        <5>2. \A j \in 1 .. Len(backlog[t]) : backlog'[t][j] = backlog[t][j]
          BY <2>5
        <5> QED
          BY <2>6, <5>1, <5>2
      <4>2. \A j \in 1 .. Len(backlog'[t]) : j \in 1 .. Len(backlog[t]) \/ j = Len(backlog[t]) + 1
        BY <2>5, <4>1
      <4>3. \A j, l \in 1 .. Len(backlog[t]) : backlog[t][j] = backlog[t][l] => j = l
        BY <1>2, <2>2
      <4> QED
        <5>1. \A j \in 1 .. Len(backlog'[t]) :
                  Server(backlog'[t][j]) = t /\ sv'[backlog'[t][j]] = "queued"
          BY <2>2, <2>5, <2>7, <4>1, <4>2
        <5>2. \A j, l \in 1 .. Len(backlog'[t]) : backlog'[t][j] = backlog'[t][l] => j = l
          BY <2>5, <4>1, <4>2, <4>3
        <5> QED
          BY <3>1, <5>1, <5>2
    <3>2. CASE u # t
      <4>1. backlog'[u] = backlog[u]
        BY <2>5, <3>2
      <4>2. \A j \in 1 .. Len(backlog[u]) : Server(backlog[u][j]) = u /\ sv'[backlog[u][j]] = "queued"
        BY <1>2, <2>6
      <4> QED
        BY <1>2, <4>1, <4>2
    <3> QED
      BY <3>1, <3>2
  <2> QED
    BY <1>1, <1>2, <2>3, <2>5, <2>6, <2>8 DEF ListenInv
<1>4. ASSUME NEW s \in Servers, LAccept(s) PROVE ListenInv'
  <2> DEFINE c == Head(backlog[s])
             q == backlog[s]
  <2>1. /\ listener[s] = None /\ q # << >> /\ backlog' = [backlog EXCEPT ![s] = Tail(q)]
        /\ \/ sv' = [sv EXCEPT ![c] = "served"] /\ listener' = listener
           \/ sv' = [sv EXCEPT ![c] = "accepted"] /\ listener' = [listener EXCEPT ![s] = c]
    BY <1>4 DEF LAccept, Spawn
  <2>2. q \in Seq(Conns) /\ Len(q) \in Nat \ {0}
    BY <1>2, <2>1, EmptySeq
  <2>3. /\ c = q[1] /\ Tail(q) \in Seq(Conns) /\ Len(Tail(q)) = Len(q) - 1
        /\ \A j \in 1 .. Len(Tail(q)) : Tail(q)[j] = q[j + 1]
    BY <2>1, <2>2, HeadTailProperties
  <2>4. c \in Conns /\ Server(c) = s /\ sv[c] = "queued"
    BY <1>2, <2>2, <2>3
  <2>5. /\ backlog' \in [Servers -> Seq(Conns)] /\ backlog'[s] = Tail(q)
        /\ \A u \in Servers : u # s => backlog'[u] = backlog[u]
    BY <1>1, <2>1, <2>3
  <2>6. /\ \A j \in 1 .. Len(q) : j # 1 => q[j] # c
        /\ \A d \in Conns : d # c => sv'[d] = sv[d]
    BY <1>1, <1>2, <2>1, <2>2, <2>3
  <2> HIDE DEF c
  <2>7. ASSUME NEW u \in Servers
        PROVE  /\ \A j \in 1 .. Len(backlog'[u]) :
                     Server(backlog'[u][j]) = u /\ sv'[backlog'[u][j]] = "queued"
               /\ \A j, l \in 1 .. Len(backlog'[u]) : backlog'[u][j] = backlog'[u][l] => j = l
    <3>1. CASE u = s
      <4>1. \A j \in 1 .. Len(backlog'[u]) : backlog'[u][j] = q[j + 1] /\ j + 1 \in 2 .. Len(q)
        <5>1. PICK r \in Seq(Conns) : r = Tail(q)
          BY <2>3
        <5>2. backlog'[u] = r /\ \A j \in 1 .. Len(r) : r[j] = q[j + 1]
          BY <2>3, <2>5, <3>1, <5>1
        <5>3. PICK n \in Nat \ {0} : n = Len(q) /\ Len(r) = n - 1
          BY <2>2, <2>3, <5>1
        <5>4. \A j \in 1 .. n - 1 : j + 1 \in 2 .. n
          OBVIOUS
        <5> QED
          BY <5>2, <5>3, <5>4
      <4>2. \A j \in 1 .. Len(q) : q[j] \in Conns /\ Server(q[j]) = s /\ sv[q[j]] = "queued"
        BY <1>2
      <4>3. \A j, l \in 1 .. Len(q) : q[j] = q[l] => j = l
        BY <1>2
      <4>4. \A j \in 2 .. Len(q) : Server(q[j]) = s /\ sv'[q[j]] = "queued"
        BY <2>2, <2>6, <4>2
      <4>5. \A j \in 1 .. Len(backlog'[u]) : j \in Nat /\ j + 1 \in 1 .. Len(q)
        BY <2>2, <4>1
      <4> HIDE DEF q
      <4> QED
        BY <3>1, <4>1, <4>3, <4>4, <4>5
    <3>2. CASE u # s
      <4>1. backlog'[u] = backlog[u]
        BY <2>5, <3>2
      <4>2. \A j \in 1 .. Len(backlog[u]) : Server(backlog[u][j]) = u /\ sv'[backlog[u][j]] = "queued"
        BY <1>2, <2>4, <2>6, <3>2
      <4> QED
        BY <1>2, <4>1, <4>2
    <3> QED
      BY <3>1, <3>2
  <2>8. ASSUME NEW u \in Servers, listener'[u] # None
        PROVE  listener'[u] \in Conns /\ Server(listener'[u]) = u /\ sv'[listener'[u]] = "accepted"
    <3>1. CASE listener'[u] = listener[u]
      BY <1>2, <2>4, <2>6, <2>8, <3>1
    <3>2. CASE listener'[u] # listener[u]
      BY <1>1, <2>1, <2>4, <3>2
    <3> QED
      BY <3>1, <3>2
  <2>9. listener' \in [Servers -> {None} \cup Conns]
    BY <1>1, <2>1, <2>4
  <2> QED
    BY <2>5, <2>7, <2>8, <2>9 DEF ListenInv
<1>5. ASSUME NEW s \in Servers, LCheckIfKnown(s) PROVE ListenInv'
  <2>1. /\ listener[s] # None /\ backlog' = backlog
        /\ sv' = [sv EXCEPT ![listener[s]] = "served"] /\ listener' = [listener EXCEPT ![s] = None]
    BY <1>5 DEF LCheckIfKnown, Spawn
  <2>2. listener[s] \in Conns /\ Server(listener[s]) = s /\ sv[listener[s]] = "accepted"
    BY <1>2, <2>1
  <2>3. /\ \A d \in Conns : sv[d] = "queued" => sv'[d] = "queued"
        /\ \A d \in Conns : Server(d) # s => sv'[d] = sv[d]
    BY <1>1, <2>1, <2>2
  <2>4. /\ listener' \in [Servers -> {None} \cup Conns] /\ listener'[s] = None
        /\ \A u \in Servers : u # s => listener'[u] = listener[u]
    BY <1>1, <2>1
  <2> QED
    BY <1>1, <1>2, <2>1, <2>3, <2>4 DEF ListenInv
<1>6. ASSUME NEW s \in Servers, Crash(s) PROVE ListenInv'
  <2>1. /\ listener' = [listener EXCEPT ![s] = None] /\ backlog' = [backlog EXCEPT ![s] = << >>]
        /\ \A d \in Conns : Server(d) # s => sv'[d] = sv[d]
    BY <1>6 DEF Crash
  <2>2. /\ listener' \in [Servers -> {None} \cup Conns] /\ listener'[s] = None
        /\ backlog' \in [Servers -> Seq(Conns)] /\ backlog'[s] = << >>
        /\ \A u \in Servers : u # s => listener'[u] = listener[u] /\ backlog'[u] = backlog[u]
    BY <1>1, <2>1, EmptySeq
  <2>3. ASSUME NEW u \in Servers
        PROVE  /\ \A j \in 1 .. Len(backlog'[u]) :
                     Server(backlog'[u][j]) = u /\ sv'[backlog'[u][j]] = "queued"
               /\ \A j, l \in 1 .. Len(backlog'[u]) : backlog'[u][j] = backlog'[u][l] => j = l
               /\ listener'[u] # None =>
                     Server(listener'[u]) = u /\ sv'[listener'[u]] = "accepted"
    <3>1. CASE u = s
      BY <2>2, <3>1
    <3>2. CASE u # s
      BY SMTT(30), <1>2, <2>1, <2>2, <3>2
    <3> QED
      BY <3>1, <3>2
  <2> QED
    BY <2>2, <2>3 DEF ListenInv
<1>7. ASSUME NEW c \in Conns, HReadFails(c) \/ AlarmHandler(c) PROVE ListenInv'
  <2>1. UNCHANGED <<listener, backlog>> /\ sv[c] = "served" /\ sv' = [sv EXCEPT ![c] = "closed"]
    BY <1>7 DEF HReadFails, AlarmHandler, HClose, threads
  <2>2. \A d \in Conns : sv[d] \in {"queued", "accepted"} => sv'[d] = sv[d]
    BY <1>1, <2>1
  <2> QED
    BY <1>1, <1>2, <2>1, <2>2 DEF ListenInv
<1>8. CASE UNCHANGED <<listener, backlog, sv>>
  BY <1>1, <1>8 DEF ListenInv
<1> QED
  BY <1>3, <1>4, <1>5, <1>6, <1>7, <1>8, Frames DEF UDPListener

-----------------------------------------------------------------------------
(* Who waits for an answer has the mutex. *)
LEMMA MutexStep ==
    ASSUME IInv, [Next]_vars
    PROVE  MutexInv'
<1>1. /\ MutexInv /\ ServerShape /\ LinkShape /\ PreserverShape /\ PreserverInv
  BY DEF IInv
<1> DEFINE NReads(d) == notifier[d] = "reading"
           FReads(d) == finder[d].pc = "reading"
<1>2. ASSUME NEW s \in Servers, NEW m, mutex' = [mutex EXCEPT ![s] = m],
             m \in {Preserver, ConsoleThread} => active'[s] = {},
             \A u \in Servers : u # s => active'[u] = active[u],
             \A d \in Conns : Client(d) # s => (NReads(d)' <=> NReads(d)) /\ (FReads(d)' <=> FReads(d)),
             \A d \in Conns : Client(d) = s =>
                 (NReads(d)' <=> m = Notifier(d)) /\ (FReads(d)' <=> m = Finder(d))
      PROVE  MutexInv'
  <2>1. mutex'[s] = m /\ \A u \in Servers : u # s => mutex'[u] = mutex[u]
    BY <1>1, <1>2 DEF ServerShape
  <2>2. ASSUME NEW d \in Conns
        PROVE  /\ notifier'[d] = "reading" <=> mutex'[Client(d)] = Notifier(d)
               /\ finder'[d].pc = "reading" <=> mutex'[Client(d)] = Finder(d)
    <3>1. CASE Client(d) = s
      <4>1. (NReads(d)' <=> m = Notifier(d)) /\ (FReads(d)' <=> m = Finder(d))
        BY <1>2, <3>1
      <4>2. mutex'[Client(d)] = m
        BY <2>1, <3>1
      <4> QED
        BY <4>1, <4>2
    <3>2. CASE Client(d) # s
      <4>1. mutex'[Client(d)] = mutex[Client(d)]
        BY <2>1, <3>2, ConnFacts
      <4>2. (NReads(d)' <=> NReads(d)) /\ (FReads(d)' <=> FReads(d))
        BY <1>2, <3>2
      <4>3. /\ NReads(d) <=> mutex[Client(d)] = Notifier(d)
            /\ FReads(d) <=> mutex[Client(d)] = Finder(d)
        BY <1>1 DEF MutexInv
      <4> QED
        BY <4>1, <4>2, <4>3
    <3> QED
      BY <3>1, <3>2
  <2>3. \A u \in Servers : Kept(u)' => active'[u] = {}
    BY <1>1, <1>2, <2>1 DEF MutexInv, Kept
  <2> QED
    BY <2>2, <2>3 DEF MutexInv
<1>3. ASSUME UNCHANGED <<mutex, active>>,
             \A d \in Conns : (NReads(d)' <=> NReads(d)) /\ (FReads(d)' <=> FReads(d))
      PROVE  MutexInv'
  BY <1>1, <1>3 DEF MutexInv, Kept
<1>4. ASSUME NEW s \in Servers, PWake(s) \/ PInc(s) \/ LActive(s) \/ FindFile(s) PROVE MutexInv'
  <2>1. \A d \in Conns : (NReads(d)' <=> NReads(d)) /\ (FReads(d)' <=> FReads(d))
    <3>1. CASE PWake(s) \/ LActive(s)
      BY <3>1 DEF PWake, LActive
    <3>2. CASE PInc(s)
      <4>1. /\ preserver[s].sock \in Conns /\ notifier[preserver[s].sock] = "none" /\ finder' = finder
            /\ notifier' = notifier \/ notifier' = [notifier EXCEPT ![preserver[s].sock] = "ready"]
        BY <1>1, <3>2 DEF PInc, PreserverShape, PreserverInv, Entries
      <4> QED
        BY <1>1, <4>1 DEF LinkShape
    <3>3. CASE FindFile(s)
      <4>1. /\ notifier' = notifier /\ \A d \in Entries(s) : finder[d] = Ended
            /\ finder' = [d \in Conns |-> IF d \in active[s] THEN [pc |-> "spawned", sock |-> None]
                                          ELSE finder[d]]
        BY <3>3 DEF FindFile
      <4>2. active[s] \subseteq Entries(s)
        BY <1>1 DEF ServerShape
      <4> QED
        BY <4>1, <4>2 DEF Ended
    <3> QED
      BY <1>4, <3>1, <3>2, <3>3
  <2>2. \A u \in Servers : u # s => active'[u] = active[u]
    BY <1>1, <1>4 DEF PWake, PInc, LActive, FindFile, ServerShape
  <2>3. CASE UNCHANGED mutex /\ PWake(s)
    BY <1>3, <2>1, <2>3 DEF PWake
  <2>4. CASE ~ (UNCHANGED mutex /\ PWake(s))
    <3>1. PICK m \in {Free, Preserver, ConsoleThread} :
            /\ mutex[s] \in {Free, Preserver, ConsoleThread}
            /\ mutex' = [mutex EXCEPT ![s] = m]
            /\ m # Free => active[s] = {} /\ (PWake(s) \/ LActive(s))
      BY <1>4, <2>4, Keeping
    <3>2. m \in {Preserver, ConsoleThread} => active'[s] = {}
      BY <3>1, ThreadFacts DEF PWake, LActive
    <3>3. \A d \in Conns : m # Notifier(d) /\ m # Finder(d)
      BY <3>1, ThreadFacts
    <3>4. \A d \in Conns : Client(d) = s => ~ NReads(d) /\ ~ FReads(d)
      BY <1>1, <3>1, ThreadFacts DEF MutexInv
    <3> HIDE DEF NReads, FReads
    <3> QED
      BY <1>2, <2>1, <2>2, <3>1, <3>2, <3>3, <3>4
  <2> QED
    BY <2>3, <2>4
<1>5. ASSUME NEW s \in Servers, Crash(s) PROVE MutexInv'
  <2>1. mutex' = [mutex EXCEPT ![s] = Free] /\ active' = [active EXCEPT ![s] = {}]
    BY <1>5 DEF Crash
  <2>2. \A d \in Conns : Client(d) # s => (NReads(d)' <=> NReads(d)) /\ (FReads(d)' <=> FReads(d))
    BY <1>5 DEF Crash
  <2>3. \A d \in Conns : Client(d) = s => ~ NReads(d)' /\ ~ FReads(d)'
    BY <1>5 DEF Crash, Ended
  <2>4. \A u \in Servers : u # s => active'[u] = active[u]
    BY <1>1, <2>1 DEF ServerShape
  <2> HIDE DEF NReads, FReads
  <2> QED
    BY <1>2, <2>1, <2>2, <2>3, <2>4, ThreadFacts
<1>6. ASSUME NEW c \in Conns, NEW m, mutex' = [mutex EXCEPT ![Client(c)] = m],
             mutex[Client(c)] \in {Free, Notifier(c), Finder(c)},
             m \in {Free, Notifier(c), Finder(c)},
             \A u \in Servers : u # Client(c) => active'[u] = active[u],
             \A d \in Conns : d # c => (NReads(d)' <=> NReads(d)) /\ (FReads(d)' <=> FReads(d)),
             NReads(c)' <=> m = Notifier(c), FReads(c)' <=> m = Finder(c)
      PROVE  MutexInv'
  <2>1. \A d \in Conns : Client(d) = Client(c) /\ d # c =>
            ~ NReads(d) /\ ~ FReads(d) /\ m # Notifier(d) /\ m # Finder(d)
    BY <1>1, <1>6, ThreadFacts DEF MutexInv
  <2>2. m \notin {Preserver, ConsoleThread} /\ Client(c) \in Servers
    BY <1>6, ThreadFacts, ConnFacts
  <2>3. \A d \in Conns : Client(d) # Client(c) => (NReads(d)' <=> NReads(d)) /\ (FReads(d)' <=> FReads(d))
    BY <1>6
  <2>4. \A d \in Conns : Client(d) = Client(c) =>
            (NReads(d)' <=> m = Notifier(d)) /\ (FReads(d)' <=> m = Finder(d))
    BY <1>6, <2>1
  <2> HIDE DEF NReads, FReads
  <2> QED
    BY <1>2, <1>6, <2>2, <2>3, <2>4
<1>7. ASSUME NEW c \in Conns, NPing(c) \/ NRead(c) PROVE MutexInv'
  <2>1. /\ finder' = finder /\ active' = active
        /\ \A d \in Conns : d # c => (NReads(d)' <=> NReads(d))
    BY <1>1, <1>7 DEF NPing, NRead, LinkShape
  <2>2. /\ NPing(c) => mutex[Client(c)] = Free /\ mutex' = [mutex EXCEPT ![Client(c)] = Notifier(c)]
        /\ NRead(c) => mutex[Client(c)] = Notifier(c) /\ mutex' = [mutex EXCEPT ![Client(c)] = Free]
    BY <1>1, Locking DEF NRead, Signal, MutexInv
  <2>3. (NPing(c) => NReads(c)') /\ (NRead(c) => ~ NReads(c)')
    BY <1>1 DEF NPing, NRead, LinkShape
  <2>4. ~ FReads(c) /\ ~ FReads(c)'
    BY <1>1, <1>7, <2>1, <2>2, ThreadFacts DEF MutexInv
  <2>5. \A d \in Conns : FReads(d)' <=> FReads(d)
    BY <2>1
  <2> HIDE DEF NReads, FReads
  <2> QED
    BY <1>6, <1>7, <2>1, <2>2, <2>3, <2>4, <2>5, ThreadFacts
<1>8. ASSUME NEW c \in Conns, NWriteFails(c) \/ NReadFails(c) \/ AlarmNotifier(c) PROVE MutexInv'
  <2>1. /\ mutex[Client(c)] \in {Free, Notifier(c)} /\ mutex' = [mutex EXCEPT ![Client(c)] = Free]
        /\ \A u \in Servers : u # Client(c) => active'[u] = active[u]
        /\ finder' = finder /\ notifier' = [notifier EXCEPT ![c] = "none"]
    BY <1>1, <1>8, Losing DEF ServerShape
  <2>2. /\ ~ NReads(c)' /\ ~ FReads(c)'
        /\ \A d \in Conns : d # c => (NReads(d)' <=> NReads(d))
        /\ \A d \in Conns : FReads(d)' <=> FReads(d)
    BY <1>1, <2>1, ThreadFacts DEF MutexInv, LinkShape
  <2> HIDE DEF NReads, FReads
  <2> QED
    BY <1>6, <2>1, <2>2, ThreadFacts
<1>9. ASSUME NEW c \in Conns, FWrite(c) \/ FRead(c) \/ FReadFails(c) \/ AlarmFinder(c) PROVE MutexInv'
  <2>1. /\ notifier' = notifier /\ active' = active
        /\ finder' = [finder EXCEPT ![c] = Ended] \/ finder' = [finder EXCEPT ![c].pc = "reading"]
    BY <1>1, <1>9, Giving DEF FWrite
  <2>2. /\ \A d \in Conns : d # c => (FReads(d)' <=> FReads(d))
        /\ \A d \in Conns : NReads(d)' <=> NReads(d)
    BY <1>1, <2>1 DEF LinkShape
  <2>3. \/ /\ mutex[Client(c)] = Free /\ mutex' = [mutex EXCEPT ![Client(c)] = Finder(c)] /\ FReads(c)'
        \/ /\ mutex[Client(c)] = Finder(c) /\ mutex' = [mutex EXCEPT ![Client(c)] = Free] /\ ~ FReads(c)'
    BY <1>1, <1>9, Locking, Giving DEF FWrite, LinkShape, Ended
  <2>4. ~ NReads(c) /\ ~ NReads(c)'
    BY <1>1, <2>1, <2>3, ThreadFacts DEF MutexInv
  <2> HIDE DEF NReads, FReads
  <2> QED
    BY <1>6, <2>1, <2>2, <2>3, <2>4, ThreadFacts
<1>10. ASSUME NEW c \in Conns, FSocket(c) \/ FWriteFails(c) PROVE MutexInv'
  <2>1. UNCHANGED <<mutex, active, notifier>> /\ finder[c].pc \in {"spawned", "ready"}
    BY <1>10 DEF FSocket, FWriteFails
  <2>2. \A d \in Conns : FReads(d)' <=> FReads(d)
    BY <1>1, <1>10 DEF FSocket, FWriteFails, FEnds, Ended, LinkShape
  <2>3. \A d \in Conns : NReads(d)' <=> NReads(d)
    BY <2>1
  <2> HIDE DEF NReads, FReads
  <2> QED
    BY <1>3, <2>1, <2>2, <2>3
<1>11. CASE UNCHANGED <<mutex, active, notifier, finder>>
  BY <1>3, <1>11
<1> QED
  BY <1>4, <1>5, <1>7, <1>8, <1>9, <1>10, <1>11, Frames DEF KeepAliveNotifier, FindWildcard

-----------------------------------------------------------------------------
(* The connection that a preserver holds is nobody else's. *)
LEMMA PreserverStep ==
    ASSUME IInv, [Next]_vars
    PROVE  PreserverInv'
<1>1. /\ PreserverInv /\ PreserverShape /\ LinkShape /\ MutexInv /\ ListedIsPinged
      /\ ServerShape
  BY DEF IInv
<1>2. \A s \in Servers : preserver[s].pc = "inc" =>
          /\ preserver[s].sock \in Conns /\ Client(preserver[s].sock) = s
          /\ cl[preserver[s].sock] = "open" /\ notifier[preserver[s].sock] = "none"
  BY <1>1 DEF PreserverInv, PreserverShape, Entries
<1>3. ASSUME \A u \in Servers : preserver'[u].pc = "inc" =>
                  /\ preserver[u].pc = "inc" /\ preserver'[u].sock = preserver[u].sock
                  /\ cl'[preserver[u].sock] = "open" /\ notifier'[preserver[u].sock] = "none"
      PROVE  PreserverInv'
  BY <1>1, <1>3 DEF PreserverInv
<1>4. ASSUME NEW s \in Servers, PConnect(s) PROVE PreserverInv'
  <2>1. PICK k \in 1 .. K[s] :
           /\ Unused(<<s, Host(s), k>>)
           /\ preserver' = [preserver EXCEPT ![s].pc = "inc", ![s].sock = <<s, Host(s), k>>]
           /\ cl' = [cl EXCEPT ![<<s, Host(s), k>>] = "open"]
    BY <1>4 DEF PConnect
  <2> DEFINE c == <<s, Host(s), k>>
  <2>2. c \in Conns /\ Client(c) = s /\ c # None
    BY <1>1, <1>4, HostKnown, ConnFacts
  <2>3. notifier' = notifier /\ notifier[c] = "none"
    BY <1>1, <1>4, <2>1, <2>2 DEF PConnect, ListedIsPinged, Unused
  <2>4. /\ preserver'[s].sock = c /\ cl'[c] = "open"
        /\ \A u \in Servers : u # s => preserver'[u] = preserver[u]
        /\ \A d \in Conns : cl[d] = "open" => cl'[d] = "open"
    BY <1>1, <2>1, <2>2 DEF PreserverShape, LinkShape
  <2> HIDE DEF c
  <2> QED
    BY <1>2, <2>2, <2>3, <2>4, ConnFacts DEF PreserverInv
<1>5. ASSUME NEW s \in Servers, PWake(s) \/ PConnectFails(s) \/ PInc(s) PROVE PreserverInv'
  <2>1. preserver'[s].pc # "inc" /\ \A u \in Servers : u # s => preserver'[u] = preserver[u]
    BY <1>1, <1>5 DEF PWake, PConnectFails, PInc, TryNext, Try, Asleep, PreserverShape
  <2>2. CASE PInc(s)
    <3>1. preserver[s].sock \in Conns /\ Client(preserver[s].sock) = s
      BY <1>2, <2>2 DEF PInc
    <3>2. \A d \in Conns : d # preserver[s].sock => cl'[d] = cl[d] /\ notifier'[d] = notifier[d]
      BY <1>1, <2>2, <3>1 DEF PInc, LinkShape
    <3> QED
      BY <1>2, <1>3, <2>1, <3>1, <3>2
  <2>3. CASE ~ PInc(s)
    BY <1>2, <1>3, <1>5, <2>1, <2>3 DEF PWake, PConnectFails, net
  <2> QED
    BY <2>2, <2>3
<1>6. ASSUME NEW s \in Servers, Crash(s) PROVE PreserverInv'
  <2>1. preserver'[s].pc # "inc" /\ \A u \in Servers : u # s => preserver'[u] = preserver[u]
    BY <1>1, <1>6 DEF Crash, Asleep, PreserverShape
  <2>2. \A d \in Conns : Client(d) # s => cl'[d] = cl[d] /\ notifier'[d] = notifier[d]
    BY <1>6 DEF Crash
  <2> QED
    BY <1>2, <1>3, <2>1, <2>2
<1>7. ASSUME NEW s \in Servers, Hangs(s)
      PROVE  \A u \in Servers : preserver'[u].pc = "inc" =>
                 preserver[u].pc = "inc" /\ preserver'[u].sock = preserver[u].sock
  BY <1>1, <1>7 DEF Hangs, PreserverShape
<1>8. ASSUME NEW c \in Conns, KeepAliveNotifier(c) \/ AlarmNotifier(c) PROVE PreserverInv'
  <2>1. \A u \in Servers : preserver'[u].pc = "inc" =>
            preserver[u].pc = "inc" /\ preserver'[u].sock = preserver[u].sock
    <3>1. CASE KeepAliveNotifier(c)
      BY <3>1 DEF KeepAliveNotifier, NPing, NWriteFails, NRead, NReadFails
    <3>2. CASE AlarmNotifier(c)
      BY <1>7, <3>2, ConnFacts DEF AlarmNotifier
    <3> QED
      BY <1>8, <3>1, <3>2
  <2>2. notifier[c] # "none"
    BY <1>8 DEF KeepAliveNotifier, NPing, NWriteFails, NRead, NReadFails, AlarmNotifier
  <2>3. \A d \in Conns : d # c => cl'[d] = cl[d] /\ notifier'[d] = notifier[d]
    <3>1. CASE NPing(c) \/ NRead(c)
      BY <1>1, <3>1 DEF NPing, NRead, LinkShape
    <3>2. CASE NWriteFails(c) \/ NReadFails(c) \/ AlarmNotifier(c)
      BY <1>1, <3>2, Losing DEF LinkShape
    <3> QED
      BY <1>8, <3>1, <3>2 DEF KeepAliveNotifier
  <2> QED
    BY <1>2, <1>3, <2>1, <2>2, <2>3
<1>9. ASSUME UNCHANGED <<cl, notifier>>, UNCHANGED preserver \/ \E s \in Servers : Hangs(s)
      PROVE  PreserverInv'
  BY <1>2, <1>3, <1>7, <1>9
<1>10. ASSUME NEW s \in Servers, AlarmOther(s) PROVE PreserverInv'
  BY <1>9, <1>10 DEF AlarmOther, net
<1>11. ASSUME NEW c \in Conns, AlarmFinder(c) \/ AlarmHandler(c) PROVE PreserverInv'
  BY <1>9, <1>11, ConnFacts DEF AlarmFinder, AlarmHandler, GivesUp, net
<1> QED
  BY <1>4, <1>5, <1>6, <1>8, <1>9, <1>10, <1>11, Frames DEF PreserverThread, KeepAliveNotifier

(* A find reads from a socket of its own server. *)
LEMMA FinderStep ==
    ASSUME IInv, [Next]_vars
    PROVE  FinderInv'
<1>1. FinderInv /\ LinkShape
  BY DEF IInv
<1>2. ASSUME NEW s \in Servers, FindFile(s) \/ Crash(s) PROVE FinderInv'
  BY <1>1, <1>2 DEF FinderInv, FindFile, Crash, Ended
<1>3. ASSUME NEW c \in Conns, FindWildcard(c) \/ AlarmFinder(c) PROVE FinderInv'
  <2>1. \A d \in Conns : d # c => finder'[d] = finder[d]
    BY <1>1, <1>3 DEF FindWildcard, FSocket, FWrite, FWriteFails, FRead, FReadFails, AlarmFinder,
                      GivesUp, FEnds, LinkShape
  <2>2. /\ finder'[c].sock \in {None} \cup Entries(Client(c))
        /\ finder'[c].pc = "reading" => finder'[c].sock # None
    <3>1. CASE FSocket(c)
      BY <1>1, <3>1 DEF FSocket, Entries, LinkShape
    <3>2. CASE FWrite(c)
      BY <1>1, <3>2 DEF FWrite, FinderInv, LinkShape
    <3>3. CASE finder' = [finder EXCEPT ![c] = Ended]
      BY <1>1, <3>3 DEF Ended, LinkShape
    <3> QED
      BY <1>3, <3>1, <3>2, <3>3 DEF FindWildcard, FWriteFails, FRead, FReadFails, AlarmFinder,
                                    GivesUp, FEnds
  <2> QED
    BY <1>1, <2>1, <2>2 DEF FinderInv
<1>4. CASE UNCHANGED finder
  BY <1>1, <1>4 DEF FinderInv
<1> QED
  BY <1>2, <1>3, <1>4, Frames

-----------------------------------------------------------------------------
(* What is listed is pinged, and listed once. *)
LEMMA ListedStep ==
    ASSUME IInv, [Next]_vars
    PROVE  ListedIsPinged'
<1>1. /\ ListedIsPinged /\ PreserverInv /\ PreserverShape /\ LinkShape /\ MutexInv
      /\ ServerShape
  BY DEF IInv
<1>2. /\ \A s \in Servers : active[s] \subseteq Entries(s)
      /\ \A c \in Conns : c \in active[Client(c)] <=> notifier[c] # "none"
      /\ \A c \in Conns : notifier[c] # "none" => cl[c] = "open"
      /\ \A c, d \in Conns : /\ Client(c) = Client(d) /\ Server(c) = Server(d)
                             /\ c \in active[Client(c)] /\ d \in active[Client(d)]
                             => c = d
  BY <1>1 DEF ListedIsPinged, ServerShape
<1>3. ASSUME \A s \in Servers : active'[s] \subseteq Entries(s),
             \A c \in Conns : c \in active'[Client(c)] <=> notifier'[c] # "none",
             \A c \in Conns : notifier'[c] # "none" => cl'[c] = "open",
             \A c, d \in Conns : /\ Client(c) = Client(d) /\ Server(c) = Server(d)
                                 /\ c \in active'[Client(c)] /\ d \in active'[Client(d)]
                                 => c = d
      PROVE  ListedIsPinged'
  BY <1>3, ConnFacts DEF ListedIsPinged, Entries
<1>4. ASSUME UNCHANGED active, \A c \in Conns : notifier'[c] = "none" <=> notifier[c] = "none",
             \A c \in Conns : cl[c] = "open" /\ notifier[c] # "none" => cl'[c] = "open"
      PROVE  ListedIsPinged'
  BY <1>2, <1>3, <1>4
<1>5. ASSUME NEW s \in Servers, PConnect(s) PROVE ListedIsPinged'
  <2>1. /\ UNCHANGED <<active, notifier>>
        /\ \E k \in 1 .. K[s] : cl' = [cl EXCEPT ![<<s, Host(s), k>>] = "open"]
    BY <1>5 DEF PConnect
  <2>2. \A c \in Conns : cl[c] = "open" => cl'[c] = "open"
    BY <1>1, <2>1 DEF LinkShape
  <2> QED
    BY <1>4, <2>1, <2>2
<1>6. ASSUME NEW s \in Servers, PInc(s) PROVE ListedIsPinged'
  <2> DEFINE c == preserver[s].sock
  <2>1. c \in Conns /\ Client(c) = s /\ cl[c] = "open" /\ notifier[c] = "none"
    BY <1>1, <1>6 DEF PInc, PreserverInv, PreserverShape, Entries
  <2>2. CASE Listed(s, c)
    <3>1. UNCHANGED <<active, notifier>> /\ cl' = [cl EXCEPT ![c] = "closed"]
      BY <1>6, <2>2 DEF PInc
    <3> QED
      BY <1>1, <1>4, <2>1, <3>1 DEF LinkShape
  <2>3. CASE ~ Listed(s, c)
    <3>1. /\ active' = [active EXCEPT ![s] = @ \cup {c}] /\ notifier' = [notifier EXCEPT ![c] = "ready"]
          /\ cl' = cl
      BY <1>6, <2>3 DEF PInc
    <3>2. \A l \in active[s] : Server(l) # Server(c)
      BY <2>3 DEF Listed
    <3>3. /\ active'[s] = active[s] \cup {c} /\ \A u \in Servers : u # s => active'[u] = active[u]
          /\ notifier'[c] = "ready" /\ \A d \in Conns : d # c => notifier'[d] = notifier[d]
      BY <1>1, <2>1, <3>1 DEF ServerShape, LinkShape
    <3> HIDE DEF c
    <3>4. \A u \in Servers : active'[u] \subseteq Entries(u)
      BY <1>2, <2>1, <3>3 DEF Entries
    <3>5. \A d \in Conns : d \in active'[Client(d)] <=> notifier'[d] # "none"
      BY <1>2, <2>1, <3>3, ConnFacts
    <3>6. \A d, e \in Conns : /\ Client(d) = Client(e) /\ Server(d) = Server(e)
                              /\ d \in active'[Client(d)] /\ e \in active'[Client(e)]
                              => d = e
      BY <1>2, <2>1, <3>2, <3>3, ConnFacts
    <3> QED
      BY <1>2, <1>3, <2>1, <3>1, <3>3, <3>4, <3>5, <3>6
  <2> QED
    BY <2>2, <2>3
<1>7. ASSUME NEW c \in Conns, NWriteFails(c) \/ NReadFails(c) \/ AlarmNotifier(c)
      PROVE  ListedIsPinged'
  <2>1. /\ notifier[c] # "none"
        /\ active' = [active EXCEPT ![Client(c)] = {l \in @ : Server(l) # Server(c)}]
        /\ cl' = [cl EXCEPT ![c] = "closed"] /\ notifier' = [notifier EXCEPT ![c] = "none"]
    BY <1>1, <1>7, Losing
  <2>2. /\ active'[Client(c)] = {l \in active[Client(c)] : Server(l) # Server(c)}
        /\ \A u \in Servers : u # Client(c) => active'[u] = active[u]
        /\ notifier'[c] = "none"
        /\ \A d \in Conns : d # c => notifier'[d] = notifier[d] /\ cl'[d] = cl[d]
    BY <1>1, <2>1, ConnFacts DEF ServerShape, LinkShape
  \* The entry of that address and port is that of c.
  <2>3. \A d \in Conns : d \in active'[Client(d)] <=> d \in active[Client(d)] /\ d # c
    <3>1. ASSUME NEW d \in Conns, Client(d) = Client(c)
          PROVE  d \in active'[Client(d)] <=> d \in active[Client(d)] /\ d # c
      BY <1>2, <2>1, <2>2, <3>1
    <3>2. ASSUME NEW d \in Conns, Client(d) # Client(c)
          PROVE  d \in active'[Client(d)] <=> d \in active[Client(d)] /\ d # c
      BY <2>2, <3>2, ConnFacts
    <3> QED
      BY <3>1, <3>2
  <2>4. \A u \in Servers : active'[u] \subseteq Entries(u)
    BY <1>2, <2>2
  <2> QED
    BY <1>2, <1>3, <2>2, <2>3, <2>4
<1>8. ASSUME NEW c \in Conns, NPing(c) \/ NRead(c) PROVE ListedIsPinged'
  <2>1. /\ UNCHANGED <<active, cl>> /\ notifier[c] # "none"
        /\ notifier' = [notifier EXCEPT ![c] = "reading"] \/ notifier' = [notifier EXCEPT ![c] = "ready"]
    BY <1>8 DEF NPing, NRead
  <2> QED
    BY <1>1, <1>4, <2>1 DEF LinkShape
<1>9. ASSUME NEW s \in Servers, Crash(s) PROVE ListedIsPinged'
  <2>1. /\ active'[s] = {} /\ \A u \in Servers : u # s => active'[u] = active[u]
        /\ \A d \in Conns : Client(d) = s => notifier'[d] = "none"
        /\ \A d \in Conns : Client(d) # s => notifier'[d] = notifier[d] /\ cl'[d] = cl[d]
    BY <1>1, <1>9 DEF Crash, ServerShape
  <2> QED
    BY <1>2, <1>3, <2>1, ConnFacts
<1>10. CASE UNCHANGED <<active, notifier, cl>>
  BY <1>4, <1>10
<1> QED
  BY <1>5, <1>6, <1>7, <1>8, <1>9, <1>10, Frames DEF KeepAliveNotifier

-----------------------------------------------------------------------------
(* One element is all that two sequences hold: it is in one of them. *)
LEMMA OneElement ==
    ASSUME NEW S, NEW q \in Seq(S), NEW r \in Seq(S)
    PROVE  /\ q \o r = << >> <=> q = << >> /\ r = << >>
           /\ \A m \in S : q \o r = <<m>> <=> (q = <<m>> /\ r = << >>) \/ (q = << >> /\ r = <<m>>)
<1>1. PICK t \in Seq(S) : t = q \o r
  BY ConcatProperties
<1>2. /\ \A i \in 1 .. Len(q) : t[i] = q[i]
      /\ \A i \in 1 .. Len(r) : t[Len(q) + i] = r[i]
  BY <1>1, ConcatProperties
<1>3. PICK a \in Nat, b \in Nat : a = Len(q) /\ b = Len(r) /\ Len(t) = a + b
  BY <1>1, ConcatProperties
<1>4. /\ q = << >> <=> a = 0
      /\ r = << >> <=> b = 0
      /\ t = << >> <=> a + b = 0
  BY <1>3, EmptySeq
<1>5. ASSUME NEW m \in S, NEW u \in Seq(S)
      PROVE  u = <<m>> <=> Len(u) = 1 /\ u[1] = m
  OBVIOUS
<1>6. ASSUME NEW m \in S
      PROVE  t = <<m>> <=> (q = <<m>> /\ r = << >>) \/ (q = << >> /\ r = <<m>>)
  <2>1. /\ q = <<m>> <=> a = 1 /\ q[1] = m
        /\ r = <<m>> <=> b = 1 /\ r[1] = m
        /\ t = <<m>> <=> a + b = 1 /\ t[1] = m
    BY <1>3, <1>5
  <2>2. a + b = 1 <=> (a = 1 /\ b = 0) \/ (a = 0 /\ b = 1)
    OBVIOUS
  <2>3. (a = 1 => t[1] = q[1]) /\ (a = 0 /\ b = 1 => t[1] = r[1])
    BY <1>2, <1>3
  <2> QED
    BY <1>4, <2>1, <2>2, <2>3
<1>7. t = << >> <=> q = << >> /\ r = << >>
  BY <1>4
<1> QED
  BY <1>1, <1>6, <1>7

(* The requests and the answers of a connection, if they are at most one. *)
LEMMA OneMessage ==
    \A q, r \in Seq(Messages) :
       /\ q \o r = << >> <=> q = << >> /\ r = << >>
       /\ \A m \in {"ping", "find"} :
             q \o r = <<m>> <=> (q = <<m>> /\ r = << >>) \/ (q = << >> /\ r = <<m>>)
<1>1. ASSUME NEW q \in Seq(Messages), NEW r \in Seq(Messages)
      PROVE  /\ q \o r = << >> <=> q = << >> /\ r = << >>
             /\ \A m \in Messages :
                   q \o r = <<m>> <=> (q = <<m>> /\ r = << >>) \/ (q = << >> /\ r = <<m>>)
  <2> DEFINE S == Messages
  <2> HIDE DEF S
  <2>1. q \in Seq(S) /\ r \in Seq(S)
    BY DEF S
  <2>2. /\ q \o r = << >> <=> q = << >> /\ r = << >>
        /\ \A m \in S : q \o r = <<m>> <=> (q = <<m>> /\ r = << >>) \/ (q = << >> /\ r = <<m>>)
    BY <2>1, OneElement
  <2> QED
    BY <2>2 DEF S
<1> QED
  BY <1>1, Zenon DEF Messages

(* Every answer under way is for the thread that waits for it. *)
LEMMA AnswersStep ==
    ASSUME IInv, [Next]_vars
    PROVE  AnswersMatch'
<1>1. /\ AnswersMatch /\ MessageShape /\ LinkShape /\ MutexInv /\ FinderInv /\ ServerShape
      /\ PreserverInv /\ PreserverShape
  BY DEF IInv
<1> DEFINE Quiet(d) == req[d] = << >> /\ res[d] = << >>
           One(d, m) == (req[d] = <<m>> /\ res[d] = << >>) \/ (req[d] = << >> /\ res[d] = <<m>>)
           Found(d) == \E f \in Conns : /\ Client(f) = Client(d)
                                        /\ finder[f].pc = "reading" /\ finder[f].sock = d
           Match(d) == cl[d] = "open" /\ d \notin torn =>
                          \/ Quiet(d)
                          \/ One(d, "ping") /\ notifier[d] = "reading"
                          \/ One(d, "find") /\ Found(d)
           Reads(u) == \E c \in Conns : Client(c) = u /\ notifier[c] = "reading"
           Finds(u) == \E c \in Conns : Client(c) = u /\ finder[c].pc = "reading"
<1>2. /\ \A d \in Conns : req[d] \in Seq(Messages) /\ res[d] \in Seq(Messages)
      /\ \A d \in Conns : req'[d] \in Seq(Messages) /\ res'[d] \in Seq(Messages)
  BY <1>1, MessageShapeStep DEF MessageShape
<1>3. "ping" \in Messages /\ "find" \in Messages
  BY DEF Messages
<1>4. \A d \in Conns : Match(d)
  <2> SUFFICES ASSUME NEW d \in Conns, cl[d] = "open", d \notin torn
               PROVE  \/ Quiet(d)
                      \/ One(d, "ping") /\ notifier[d] = "reading"
                      \/ One(d, "find") /\ Found(d)
    OBVIOUS
  <2>1. \/ req[d] \o res[d] = << >>
        \/ req[d] \o res[d] = <<"ping">> /\ notifier[d] = "reading"
        \/ req[d] \o res[d] = <<"find">> /\ \E f \in Finding(Client(d)) : finder[f].sock = d
    BY <1>1 DEF AnswersMatch
  <2>2. (\E f \in Finding(Client(d)) : finder[f].sock = d) => Found(d)
    BY DEF Finding, Entries
  <2>3. /\ req[d] \o res[d] = << >> => Quiet(d)
        /\ req[d] \o res[d] = <<"ping">> => One(d, "ping")
        /\ req[d] \o res[d] = <<"find">> => One(d, "find")
    BY <1>2, OneMessage, Zenon
  <2> HIDE DEF Quiet, One, Found
  <2> QED
    BY <2>1, <2>2, <2>3
<1>5. ASSUME \A d \in Conns : Match(d)' PROVE AnswersMatch'
  <2> SUFFICES ASSUME NEW d \in Conns, cl'[d] = "open", d \notin torn'
               PROVE  \/ req'[d] \o res'[d] = << >>
                      \/ req'[d] \o res'[d] = <<"ping">> /\ notifier'[d] = "reading"
                      \/ /\ req'[d] \o res'[d] = <<"find">>
                         /\ \E f \in Finding(Client(d))' : finder'[f].sock = d
    BY DEF AnswersMatch
  <2>1. \/ Quiet(d)'
        \/ One(d, "ping")' /\ notifier'[d] = "reading"
        \/ One(d, "find")' /\ Found(d)'
    BY <1>5
  <2>2. Found(d)' => \E f \in Finding(Client(d))' : finder'[f].sock = d
    BY DEF Finding, Entries
  <2>3. /\ Quiet(d)' => req'[d] \o res'[d] = << >>
        /\ One(d, "ping")' => req'[d] \o res'[d] = <<"ping">>
        /\ One(d, "find")' => req'[d] \o res'[d] = <<"find">>
    BY <1>2, OneMessage, Zenon
  <2> HIDE DEF Quiet, One, Found
  <2> QED
    BY <2>1, <2>2, <2>3
\* While nobody of a server holds its mutex to read, its connections are quiet.
<1>6. ASSUME NEW u \in Servers, mutex[u] = Free
      PROVE  ~ Reads(u) /\ ~ Finds(u)
  BY <1>1, <1>6, ThreadFacts DEF MutexInv
<1>7. ASSUME NEW d \in Conns, ~ Reads(Client(d)), ~ Finds(Client(d)), cl[d] = "open", d \notin torn
      PROVE  Quiet(d)
  BY <1>4, <1>7
\* Nothing that concerns d changes.
<1>8. ASSUME NEW d \in Conns, req'[d] = req[d], res'[d] = res[d],
             cl'[d] = "open" /\ d \notin torn' => cl[d] = "open" /\ d \notin torn,
             cl'[d] = "open" /\ notifier[d] = "reading" => notifier'[d] = "reading",
             cl'[d] = "open" /\ Found(d) => Found(d)'
      PROVE  Match(d)'
  <2> HIDE DEF Found
  <2> QED
    BY <1>4, <1>8
<1>9. ASSUME NEW s \in Servers, PConnect(s) PROVE \A d \in Conns : Match(d)'
  <2>1. \A k \in 1 .. K[s] : <<s, Host(s), k>> \in Conns
    BY <1>1, <1>9, HostKnown, ConnFacts
  <2>2. PICK c \in Conns : /\ cl' = [cl EXCEPT ![c] = "open"]
                           /\ req' = [req EXCEPT ![c] = << >>]
                           /\ res' = [res EXCEPT ![c] = << >>]
                           /\ torn' = torn \ {c}
    BY <1>9, <2>1 DEF PConnect
  <2>3. UNCHANGED <<notifier, finder>>
    BY <1>9 DEF PConnect
  <2>4. Match(c)'
    <3>1. req'[c] = << >> /\ res'[c] = << >>
      BY <1>1, <2>2 DEF MessageShape
    <3> QED
      BY <3>1
  <2>5. ASSUME NEW d \in Conns, d # c PROVE Match(d)'
    <3>1. req'[d] = req[d] /\ res'[d] = res[d] /\ cl'[d] = cl[d] /\ (d \notin torn' => d \notin torn)
      BY <1>1, <2>2, <2>5 DEF MessageShape, LinkShape
    <3>2. Found(d) => Found(d)'
      BY <2>3
    <3> HIDE DEF Match, Found
    <3> QED
      BY <1>8, <2>3, <3>1, <3>2
  <2> HIDE DEF Match
  <2> QED
    BY <2>4, <2>5
<1>10. ASSUME NEW s \in Servers, PInc(s) PROVE \A d \in Conns : Match(d)'
  <2>1. /\ UNCHANGED <<req, res, torn, finder>>
        /\ cl' = cl \/ cl' = [cl EXCEPT ![preserver[s].sock] = "closed"]
        /\ notifier' = notifier \/ notifier' = [notifier EXCEPT ![preserver[s].sock] = "ready"]
        /\ notifier[preserver[s].sock] = "none"
    BY <1>1, <1>10 DEF PInc, PreserverInv
  <2>2. \A d \in Conns : /\ cl'[d] = "open" => cl[d] = "open"
                         /\ notifier[d] = "reading" => notifier'[d] = "reading"
                         /\ Found(d) => Found(d)'
    BY <1>1, <2>1 DEF LinkShape
  <2> HIDE DEF Match, Found
  <2> QED
    BY <1>8, <2>1, <2>2
<1>11. ASSUME NEW s \in Servers, FindFile(s) PROVE \A d \in Conns : Match(d)'
  <2>1. /\ UNCHANGED <<req, res, torn, cl, notifier>> /\ \A d \in Entries(s) : finder[d] = Ended
        /\ finder' = [d \in Conns |-> IF d \in active[s] THEN [pc |-> "spawned", sock |-> None]
                                      ELSE finder[d]]
    BY <1>11 DEF FindFile, net
  <2>2. \A f \in Conns : finder[f].pc = "reading" => finder'[f] = finder[f]
    BY <1>1, <2>1 DEF ServerShape, Ended
  <2>3. \A d \in Conns : Found(d) => Found(d)'
    BY <2>2
  <2> HIDE DEF Match, Found
  <2> QED
    BY <1>8, <2>1, <2>3
<1>12. ASSUME NEW s \in Servers, Crash(s) PROVE \A d \in Conns : Match(d)'
  <2>1. /\ UNCHANGED <<req, res, torn>>
        /\ \A d \in Conns : Client(d) = s => cl'[d] = "closed"
        /\ \A d \in Conns : Client(d) # s =>
              cl'[d] = cl[d] /\ notifier'[d] = notifier[d] /\ finder'[d] = finder[d]
    BY <1>12 DEF Crash
  <2>2. \A d \in Conns : Client(d) # s /\ Found(d) => Found(d)'
    BY <2>1
  <2> HIDE DEF Match, Found
  <2> QED
    BY <1>8, <2>1, <2>2
<1>13. ASSUME NEW c \in Conns, NWriteFails(c) \/ NReadFails(c) \/ AlarmNotifier(c)
       PROVE  \A d \in Conns : Match(d)'
  <2>1. /\ UNCHANGED <<req, res, torn, finder>> /\ cl' = [cl EXCEPT ![c] = "closed"]
        /\ notifier' = [notifier EXCEPT ![c] = "none"]
    BY <1>1, <1>13, Losing
  <2>2. /\ cl'[c] = "closed" /\ \A d \in Conns : d # c => cl'[d] = cl[d] /\ notifier'[d] = notifier[d]
        /\ \A d \in Conns : Found(d) => Found(d)'
    BY <1>1, <2>1 DEF LinkShape
  <2> HIDE DEF Match, Found
  <2> QED
    BY <1>8, <2>1, <2>2
<1>14. ASSUME NEW m \in Messages
       PROVE  Append(<< >>, m) = <<m>> /\ Head(<<m>>) = m /\ Len(<<m>>) = 1 /\ SubSeq(<<m>>, 2, 1) = << >>
  OBVIOUS
<1>15. ASSUME NEW c \in Conns, NPing(c) PROVE \A d \in Conns : Match(d)'
  <2>1. /\ UNCHANGED <<res, torn, cl, finder>> /\ notifier' = [notifier EXCEPT ![c] = "reading"]
        /\ req' = req \/ req' = [req EXCEPT ![c] = Append(@, "ping")]
    BY <1>15 DEF NPing, Write
  <2>2. ~ Reads(Client(c)) /\ ~ Finds(Client(c))
    BY <1>1, <1>6, <1>15, Locking, ConnFacts
  <2>3. Match(c)'
    <3>1. SUFFICES ASSUME cl[c] = "open", c \notin torn
                   PROVE  Quiet(c)' \/ (One(c, "ping")' /\ notifier'[c] = "reading")
      BY <2>1
    <3>2. Quiet(c)
      BY <1>7, <2>2, <3>1
    <3>3. notifier'[c] = "reading" /\ (req'[c] = req[c] \/ req'[c] = Append(req[c], "ping"))
      BY <1>1, <2>1 DEF LinkShape, MessageShape
    <3> QED
      BY <1>3, <1>14, <2>1, <3>2, <3>3
  <2>4. ASSUME NEW d \in Conns, d # c PROVE Match(d)'
    <3>1. req'[d] = req[d] /\ notifier'[d] = notifier[d]
      BY <1>1, <2>1, <2>4 DEF LinkShape, MessageShape
    <3>2. Found(d) => Found(d)'
      BY <2>1
    <3> HIDE DEF Match, Found
    <3> QED
      BY <1>8, <2>1, <3>1, <3>2
  <2> HIDE DEF Match
  <2> QED
    BY <2>3, <2>4
<1>16. ASSUME NEW c \in Conns, NRead(c) PROVE \A d \in Conns : Match(d)'
  <2>1. /\ UNCHANGED <<req, torn, cl, finder>> /\ notifier' = [notifier EXCEPT ![c] = "ready"]
        /\ notifier[c] = "reading"
    BY <1>16 DEF NRead
  <2>2. PICK n \in 1 .. Len(res[c]) : res' = [res EXCEPT ![c] = SubSeq(@, n + 1, Len(@))]
    BY <1>16 DEF NRead
  <2>3. ~ Found(c)
    BY <1>1, <2>1, ThreadFacts DEF MutexInv
  <2>4. Match(c)'
    <3>1. SUFFICES ASSUME cl[c] = "open", c \notin torn
                   PROVE  Quiet(c)'
      BY <2>1
    <3>2. req[c] = << >> /\ res[c] = <<"ping">>
      BY <1>4, <2>2, <2>3, <3>1
    <3>3. res'[c] = SubSeq(<<"ping">>, n + 1, 1) /\ n = 1
      BY <1>1, <1>3, <1>14, <2>2, <3>2 DEF MessageShape
    <3> QED
      BY <1>3, <1>14, <2>1, <3>2, <3>3
  <2>5. ASSUME NEW d \in Conns, d # c PROVE Match(d)'
    <3>1. res'[d] = res[d] /\ notifier'[d] = notifier[d]
      BY <1>1, <2>1, <2>2, <2>5 DEF LinkShape, MessageShape
    <3>2. Found(d) => Found(d)'
      BY <2>1
    <3> HIDE DEF Match, Found
    <3> QED
      BY <1>8, <2>1, <3>1, <3>2
  <2> HIDE DEF Match
  <2> QED
    BY <2>4, <2>5
<1>17. ASSUME NEW c \in Conns, FSocket(c) \/ FWriteFails(c) PROVE \A d \in Conns : Match(d)'
  <2>1. /\ UNCHANGED <<req, res, torn, cl, notifier>> /\ finder[c].pc # "reading"
        /\ \A f \in Conns : f # c => finder'[f] = finder[f]
    BY <1>1, <1>17 DEF FSocket, FWriteFails, FEnds, net, LinkShape
  <2>2. \A d \in Conns : Found(d) => Found(d)'
    BY <2>1
  <2> HIDE DEF Match, Found
  <2> QED
    BY <1>8, <2>1, <2>2
<1>18. ASSUME NEW c \in Conns, FWrite(c) PROVE \A d \in Conns : Match(d)'
  <2>1. finder[c].sock \in Conns /\ Client(finder[c].sock) = Client(c)
    BY <1>1, <1>18 DEF FWrite, FinderInv, Entries
  <2>2. PICK sock \in Conns : sock = finder[c].sock /\ Client(sock) = Client(c)
    BY <2>1
  <2>3. /\ UNCHANGED <<res, torn, cl, notifier>> /\ finder' = [finder EXCEPT ![c].pc = "reading"]
        /\ req' = req \/ req' = [req EXCEPT ![sock] = Append(@, "find")]
    BY <1>18, <2>2 DEF FWrite, Write
  <2>4. ~ Reads(Client(c)) /\ ~ Finds(Client(c))
    BY <1>1, <1>6, <1>18, Locking, ConnFacts
  <2>5. finder'[c].pc = "reading" /\ finder'[c].sock = sock
    BY <1>1, <2>3, <2>2 DEF LinkShape
  <2>6. Match(sock)'
    <3>1. SUFFICES ASSUME cl[sock] = "open", sock \notin torn
                   PROVE  Quiet(sock)' \/ (One(sock, "find")' /\ Found(sock)')
      BY <2>3
    <3>2. Quiet(sock)
      BY <1>7, <2>2, <2>4, <3>1
    <3>3. Found(sock)'
      BY <2>2, <2>5
    <3>4. req'[sock] = req[sock] \/ req'[sock] = Append(req[sock], "find")
      BY <1>1, <2>3, <2>2 DEF MessageShape
    <3> HIDE DEF Found
    <3> QED
      BY <1>3, <1>14, <2>3, <3>2, <3>3, <3>4
  <2>7. ASSUME NEW d \in Conns, d # sock PROVE Match(d)'
    <3>1. req'[d] = req[d]
      BY <1>1, <2>3, <2>7 DEF MessageShape
    <3>2. Found(d) => Found(d)'
      BY <1>1, <2>3, <2>2, <2>7 DEF LinkShape
    <3> HIDE DEF Match, Found
    <3> QED
      BY <1>8, <2>3, <3>1, <3>2
  <2> HIDE DEF Match
  <2> QED
    BY <2>6, <2>7
<1>19. ASSUME NEW c \in Conns, FRead(c) \/ FReadFails(c) \/ AlarmFinder(c)
       PROVE  \A d \in Conns : Match(d)'
  <2>1. /\ finder[c].pc = "reading" /\ UNCHANGED <<notifier, cl>>
        /\ finder' = [finder EXCEPT ![c] = Ended]
        /\ mutex[Client(c)] = Finder(c)
    BY <1>1, <1>19, Giving
  <2>2. PICK sock \in Conns : sock = finder[c].sock /\ Client(sock) = Client(c)
    BY <1>1, <2>1 DEF FinderInv, Entries
  <2>3. /\ req' = req /\ torn \subseteq torn'
        /\ \A d \in Conns : d # sock => res'[d] = res[d] /\ (d \notin torn' => d \notin torn)
    BY <1>1, <1>19, <2>2 DEF FRead, FReadFails, AlarmFinder, GivesUp, net, MessageShape
  <2>4. /\ notifier[sock] # "reading"
        /\ \A f \in Conns : Client(f) = Client(c) /\ finder[f].pc = "reading" => f = c
    BY <1>1, <2>1, <2>2, ThreadFacts DEF MutexInv
  <2>5. Match(sock)'
    <3>1. CASE FRead(c)
      <4>1. PICK n \in 1 .. Len(res[sock]) : res' = [res EXCEPT ![sock] = SubSeq(@, n + 1, Len(@))]
        BY <2>2, <3>1 DEF FRead
      <4>2. SUFFICES ASSUME cl[sock] = "open", sock \notin torn
                     PROVE  Quiet(sock)'
        BY <2>1, <2>3
      <4>3. req[sock] = << >> /\ res[sock] = <<"find">>
        BY <1>4, <2>2, <2>4, <4>1, <4>2
      <4>4. res'[sock] = SubSeq(<<"find">>, n + 1, 1) /\ n = 1
        BY <1>1, <1>3, <1>14, <2>2, <4>1, <4>3 DEF MessageShape
      <4> QED
        BY <1>3, <1>14, <2>3, <4>3, <4>4
    <3>2. CASE FReadFails(c) \/ AlarmFinder(c)
      BY <2>2, <3>2 DEF FReadFails, AlarmFinder, GivesUp
    <3> QED
      BY <1>19, <3>1, <3>2
  <2>6. ASSUME NEW d \in Conns, d # sock PROVE Match(d)'
    <3>1. Found(d) => Found(d)'
      BY <1>1, <2>1, <2>2, <2>6 DEF LinkShape
    <3> HIDE DEF Match, Found
    <3> QED
      BY <1>8, <2>1, <2>3, <2>6, <3>1
  <2> HIDE DEF Match
  <2> QED
    BY <2>5, <2>6
<1>20. ASSUME NEW c \in Conns, HAnswer(c) PROVE \A d \in Conns : Match(d)'
  <2>1. UNCHANGED <<cl, torn, notifier, finder>> /\ res' = [res EXCEPT ![c] = Append(@, Head(req[c]))]
    BY <1>20 DEF HAnswer, Answer, threads
  <2>2. PICK n \in 1 .. Len(req[c]) : req' = [req EXCEPT ![c] = SubSeq(@, n + 1, Len(@))]
    BY <1>20 DEF HAnswer, Answer
  <2>3. Match(c)'
    <3>1. ASSUME NEW m \in Messages, One(c, m) PROVE One(c, m)'
      <4>1. req[c] = <<m>> /\ res[c] = << >>
        BY <2>2, <3>1
      <4>2. req'[c] = SubSeq(<<m>>, n + 1, 1) /\ n = 1 /\ res'[c] = Append(<< >>, Head(<<m>>))
        BY <1>1, <1>14, <2>1, <2>2, <4>1 DEF MessageShape
      <4> QED
        BY <1>14, <4>2
    <3>2. ~ Quiet(c)
      BY <2>2
    <3>3. Found(c) => Found(c)'
      BY <2>1
    <3>4. Match(c)
      BY <1>4
    <3> HIDE DEF One, Quiet, Found
    <3> QED
      BY <1>3, <2>1, <3>1, <3>2, <3>3, <3>4
  <2>4. ASSUME NEW d \in Conns, d # c PROVE Match(d)'
    <3>1. req'[d] = req[d] /\ res'[d] = res[d]
      BY <1>1, <2>1, <2>2, <2>4 DEF MessageShape
    <3>2. Found(d) => Found(d)'
      BY <2>1
    <3> HIDE DEF Match, Found
    <3> QED
      BY <1>8, <2>1, <3>1, <3>2
  <2> HIDE DEF Match
  <2> QED
    BY <2>3, <2>4
<1>21. CASE UNCHANGED <<cl, torn, notifier, finder, req, res>>
  <2>1. \A d \in Conns : /\ req'[d] = req[d] /\ res'[d] = res[d]
                         /\ cl'[d] = cl[d] /\ notifier'[d] = notifier[d]
                         /\ d \notin torn' => d \notin torn
                         /\ Found(d) => Found(d)'
    BY <1>21
  <2> HIDE DEF Match, Found
  <2> QED
    BY <1>5, <1>8, <2>1
<1> HIDE DEF Match
<1> QED
  BY <1>5, <1>9, <1>10, <1>11, <1>12, <1>13, <1>15, <1>16, <1>17, <1>18, <1>19, <1>20, <1>21, Frames
     DEF KeepAliveNotifier, FindWildcard

-----------------------------------------------------------------------------
(* At the start nothing is connected, and every mutex is free. *)
LEMMA InitHolds ==
    ASSUME Init
    PROVE  IInv
<1>1. /\ \A s \in Servers : mutex[s] = Free /\ active[s] = {}
      /\ \A c \in Conns : notifier[c] = "none" /\ finder[c].pc = "none"
  BY DEF Init
<1>2. MutexInv
  BY <1>1, ConnFacts, ThreadFacts DEF MutexInv, Kept
<1>3. /\ mutex \in [Servers -> UNION {Threads(s) : s \in Servers}]
      /\ \A s \in Servers : mutex[s] \in Threads(s)
  <2>1. \A s \in Servers : Free \in Threads(s)
    BY DEF Threads
  <2> QED
    BY <2>1 DEF Init
<1>4. ServerShape
  BY <1>3, P2PAssumption DEF Init, ServerShape
<1>5. PreserverShape /\ PreserverInv
  BY P2PAssumption DEF Init, PreserverShape, PreserverInv, Asleep
<1>6. LinkShape /\ SvShape /\ FinderInv
  BY DEF Init, LinkShape, SvShape, FinderInv
<1>7. MessageShape /\ AnswersMatch
  BY DEF Init, MessageShape, AnswersMatch
<1>8. ListenInv
  BY DEF Init, ListenInv
<1>9. ListedIsPinged
  BY ConnFacts DEF Init, ListedIsPinged
<1> QED
  BY <1>5, <1>6, <1>7, <1>8, <1>9, <1>2, <1>4 DEF IInv

(* The invariant that the theorems below follow from. *)
LEMMA Strengthening == Spec => []IInv
<1>1. Init => IInv
  BY InitHolds
<1>2. IInv /\ [Next]_vars => IInv'
  <2> SUFFICES ASSUME IInv, [Next]_vars PROVE IInv'
    OBVIOUS
  <2> QED
    BY ServerShapeStep, PreserverShapeStep, LinkShapeStep, MessageShapeStep, SvShapeStep, ListenStep,
       MutexStep, PreserverStep, FinderStep, ListedStep, AnswersStep DEF IInv
<1> QED
  BY <1>1, <1>2, PTL DEF Spec

\* Every variable keeps its type, a listener holds a connection to its own server, and
\* the connections in a backlog are to its server and nobody has accepted them.
THEOREM TypeCorrect == Spec => []TypeOK
<1>1. IInv => TypeOK
  <2> SUFFICES ASSUME IInv PROVE TypeOK
    OBVIOUS
  <2>1. ServerShape /\ PreserverShape /\ LinkShape /\ MessageShape /\ SvShape /\ ListenInv
    BY DEF IInv
  <2>2. mutex \in [Servers -> {Free, Preserver, ConsoleThread} \cup {Notifier(c) : c \in Conns}
                                                \cup {Finder(c) : c \in Conns}]
    BY <2>1 DEF ServerShape, Threads, Entries
  <2>3. \A s \in Servers :
            listener[s] \in {None} \cup {c \in Conns : Server(c) = s /\ sv[c] = "accepted"}
    BY <2>1 DEF ListenInv
  <2>4. \A s \in Servers : \A i \in DOMAIN backlog[s] :
            Server(backlog[s][i]) = s /\ sv[backlog[s][i]] = "queued"
    BY <2>1 DEF ListenInv
  <2>5. \A c \in Conns : \A m \in {req[c], res[c]} : \A i \in DOMAIN m : m[i] \in {"ping", "find"}
    <3>1. \A c \in Conns : req[c] \in Seq(Messages) /\ res[c] \in Seq(Messages)
      BY <2>1 DEF MessageShape
    <3>2. \A m \in Seq(Messages) : \A i \in DOMAIN m : m[i] \in Messages
      OBVIOUS
    <3> QED
      BY <3>1, <3>2 DEF Messages
  <2>6. \A s \in Servers : /\ preserver[s].pc \in {"connect", "hang", "inc", "sleep"}
                           /\ preserver[s].at \in 1 .. Len(Known[s]) + 1
                           /\ preserver[s].sock \in {None} \cup Entries(s)
    BY <2>1 DEF PreserverShape
  <2> QED
    BY <2>1, <2>2, <2>3, <2>4, <2>5, <2>6 DEF TypeOK, ServerShape, LinkShape, SvShape
<1> QED
  BY <1>1, Strengthening, PTL

\* The mutex of a server is held by the one thread that waits for an answer, and by
\* nobody else: except that SyncerInfo keeps it while no server is listed.
THEOREM HeldToRead == Spec => []MutexHeldToRead
<1>1. IInv => MutexHeldToRead
  <2> SUFFICES ASSUME IInv, NEW s \in Servers
               PROVE  \/ mutex[s] = Free /\ Reading(s) = {} /\ Finding(s) = {}
                      \/ \E c \in Entries(s) :
                            mutex[s] = Notifier(c) /\ Reading(s) = {c} /\ Finding(s) = {}
                      \/ \E c \in Entries(s) :
                            mutex[s] = Finder(c) /\ Reading(s) = {} /\ Finding(s) = {c}
                      \/ Kept(s) /\ active[s] = {} /\ Reading(s) = {} /\ Finding(s) = {}
    BY DEF MutexHeldToRead
  <2>1. /\ \A c \in Entries(s) : c \in Reading(s) <=> mutex[s] = Notifier(c)
        /\ \A c \in Entries(s) : c \in Finding(s) <=> mutex[s] = Finder(c)
        /\ Reading(s) \subseteq Entries(s) /\ Finding(s) \subseteq Entries(s)
        /\ Kept(s) => active[s] = {}
    BY DEF IInv, MutexInv, Reading, Finding, Entries
  <2>2. \A c \in Entries(s) : c \in Conns
    BY DEF Entries
  <2>3. CASE mutex[s] = Free
    BY <2>1, <2>2, <2>3, ThreadFacts
  <2>4. CASE mutex[s] \in {Preserver, ConsoleThread}
    BY <2>1, <2>2, <2>4, ThreadFacts DEF Kept
  <2>5. CASE \E c \in Entries(s) : mutex[s] = Notifier(c)
    BY <2>1, <2>2, <2>5, ThreadFacts
  <2>6. CASE \E c \in Entries(s) : mutex[s] = Finder(c)
    BY <2>1, <2>2, <2>6, ThreadFacts
  <2>7. mutex[s] \in Threads(s)
    BY DEF IInv, ServerShape
  <2> QED
    BY <2>3, <2>4, <2>5, <2>6, <2>7 DEF Threads
<1> QED
  BY <1>1, Strengthening, PTL

\* A server is listed at most once, and exactly for the open connection on which a
\* notifier pings it, whatever fails and whoever crashes.
THEOREM ListedOnce == Spec => []ListedIsPinged
BY Strengthening, PTL DEF IInv

\* An answer is read by the thread whose request it answers, as long as no find gave up.
THEOREM AnswersGoHome == Spec => []AnswersMatch
BY Strengthening, PTL DEF IInv
=============================================================================
