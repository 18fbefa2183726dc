------------------------------ MODULE P2PLinks ------------------------------
(***************************************************************************)
(* The links between the servers of P2P (KApp.cc).  A server has one mutex *)
(* and many threads:                                                       *)
(*   - the preserver connects to known servers until there are Desired     *)
(*     links, and starts a KeepAliveNotifier for each one;                 *)
(*   - a notifier takes the mutex, writes a ping, and reads the answer     *)
(*     with the mutex held;                                                *)
(*   - find, from the console, starts a FindWildcard for each active       *)
(*     server, which uses the notifier's socket, under the same mutex;     *)
(*   - the listener accepts, takes the mutex to look the client up, and    *)
(*     starts a handler, which answers with no mutex at all.               *)
(* alarm(3) limits connect, but SIGALRM may interrupt any thread: its      *)
(* handler returns and sa_flags is 0, so a read it hits fails.             *)
(* Abstracted: sleeping is one step of any length; a thread has read its   *)
(* socket from the list of known servers before the preserver comes round  *)
(* again, 30 seconds later; of the messages, only their types are kept.    *)
(***************************************************************************)
EXTENDS Integers, Sequences, FiniteSets

CONSTANTS Servers,     \* the servers that run
          Dead,        \* known hosts on which no server runs
          Known,       \* the list of known hosts of each server
          Desired,     \* the links each server wants (option -n)
          Console,     \* the servers that run with a console (option -c)
          Commands,    \* the commands typed there, out of "find" and "lactive"
          ErrorCheck,  \* a thread that locks twice gets EDEADLK (FreeBSD) and goes on
          K,           \* bound: connections from each server to one other at a time
          MaxCrashes   \* bound: crashes of servers

ASSUME P2PAssumption ==
    /\ Servers \cap Dead = {}
    /\ Known \in [Servers -> Seq(Servers \cup Dead)]
    /\ \A s \in Servers : Desired[s] \in 0 .. Len(Known[s])  \* asserted by PreserverThread
    /\ Console \subseteq Servers
    /\ Commands \subseteq {"find", "lactive"}
    /\ ErrorCheck \in BOOLEAN
    /\ K \in [Servers -> Nat \ {0}]
    /\ MaxCrashes \in Nat

VARIABLES up,         \* the servers that are up
          mutex,      \* the thread of each server that holds its mutex
          active,     \* active_servers: the connections of each server that are listed
          preserver,  \* label of each preserver, its place in Known, its socket
          listener,   \* label of each listener, and the connection it accepted
          notifier,   \* label of the KeepAliveNotifier of each connection
          finder,     \* label of the FindWildcard of each listed entry, and its socket
          backlog,    \* connections each server has not accepted yet
          cl,         \* the client's end of each connection
          sv,         \* the server's end of each connection
          req, res,   \* the messages under way
          torn,       \* history: connections whose find was given up with its answer due
          crashes

vars == <<up, mutex, active, preserver, listener, notifier, finder, backlog, cl, sv, req, res,
          torn, crashes>>

threads == <<preserver, listener, notifier, finder>>
net == <<backlog, cl, sv, req, res>>

\* A connection: its client, its server, and a number.
Knows(s, t) == \E i \in DOMAIN Known[s] : Known[s][i] = t
Conns == UNION {{s} \X {t \in Servers : Knows(s, t)} \X (1 .. K[s]) : s \in Servers}
Client(c) == c[1]
Server(c) == c[2]
None == << >>

Free == <<"free">>
Preserver == <<"preserver">>
Listener == <<"listener">>
ConsoleThread == <<"console">>
Notifier(c) == <<"notifier", c>>
Finder(c) == <<"finder", c>>

CanLock(s, thread) == mutex[s] = Free \/ (mutex[s] = thread /\ ErrorCheck)
Lock(s, thread) == CanLock(s, thread) /\ mutex' = [mutex EXCEPT ![s] = thread]
LockAndFree(s, thread) == CanLock(s, thread) /\ mutex' = [mutex EXCEPT ![s] = Free]
Signal(s) == mutex' = [mutex EXCEPT ![s] = Free]

Asleep == [pc |-> "sleep", at |-> 1, sock |-> None]

Init == /\ up = Servers
        /\ mutex = [s \in Servers |-> Free]
        /\ active = [s \in Servers |-> {}]
        /\ preserver = [s \in Servers |-> Asleep]
        /\ listener = [s \in Servers |-> None]
        /\ notifier = [c \in Conns |-> "none"]
        /\ finder = [c \in Conns |-> [pc |-> "none", sock |-> None]]
        /\ backlog = [s \in Servers |-> << >>]
        /\ cl = [c \in Conns |-> "closed"]
        /\ sv = [c \in Conns |-> "closed"]
        /\ req = [c \in Conns |-> << >>]
        /\ res = [c \in Conns |-> << >>]
        /\ torn = {}
        /\ crashes = 0

-----------------------------------------------------------------------------
(* The preserver.                                                          *)
\* SyncerInfo takes the mutex, and gives it back only if there is something to list.
SyncerInfo(s, thread) == IF active[s] = {} THEN Lock(s, thread) ELSE LockAndFree(s, thread)

\* PreserverThread's loops: the next host to try if n links are too few, or sleep again.
\* (num_conns is read without the mutex; reading it at once shows no less.)
Try(s, at, n) ==
    preserver' = [preserver EXCEPT ![s] = IF n < Desired[s] /\ at <= Len(Known[s])
                                          THEN [pc |-> "connect", at |-> at, sock |-> None]
                                          ELSE Asleep]

\* With a console the preserver's SyncerInfo returns at once.
PWake(s) == /\ s \in up
            /\ preserver[s].pc = "sleep"
            /\ IF s \in Console THEN UNCHANGED mutex ELSE SyncerInfo(s, Preserver)
            /\ Try(s, 1, Cardinality(active[s]))
            /\ UNCHANGED <<up, active, listener, notifier, finder, net, torn, crashes>>

\* TryConnect, up to its mutex->Wait().  It connects to listed servers, too.
Host(s) == Known[s][preserver[s].at]
Connecting(s) == s \in up /\ preserver[s].pc \in {"connect", "hang"}
Unused(c) == cl[c] = "closed" /\ sv[c] = "closed"

PConnect(s) ==
    /\ Connecting(s)
    /\ Host(s) \in up
    /\ \E k \in 1 .. K[s] :
         LET c == <<s, Host(s), k>> IN
         /\ Unused(c)
         /\ \A j \in 1 .. k - 1 : ~ Unused(<<s, Host(s), j>>)
         /\ preserver' = [preserver EXCEPT ![s].pc = "inc", ![s].sock = c]
         /\ backlog' = [backlog EXCEPT ![Host(s)] = Append(@, c)]
         /\ cl' = [cl EXCEPT ![c] = "open"]
         /\ sv' = [sv EXCEPT ![c] = "queued"]
         /\ req' = [req EXCEPT ![c] = << >>]
         /\ res' = [res EXCEPT ![c] = << >>]
         /\ torn' = torn \ {c}
    /\ UNCHANGED <<up, mutex, active, listener, notifier, finder, crashes>>

TryNext(s, n) == Try(s, preserver[s].at + 1, n)

\* No server there, no room in its backlog, or the alarm.
PConnectFails(s) ==
    /\ Connecting(s)
    /\ \/ Host(s) \notin up
       \/ Host(s) \in up /\ \A k \in 1 .. K[s] : ~ Unused(<<s, Host(s), k>>)
       \/ preserver[s].pc = "connect"
    /\ TryNext(s, Cardinality(active[s]))
    /\ UNCHANGED <<up, mutex, active, listener, notifier, finder, net, torn, crashes>>

\* A write to a connection that its server has closed may succeed, and is lost.
Write(c, m) == req' = IF sv[c] = "closed" THEN req ELSE [req EXCEPT ![c] = Append(@, m)]

\* Mutant: IncCons does not look whether the server is listed.
Listed_never(s, c) == FALSE

\* IncCons, and the rest of TryConnect.
Listed(s, c) == \E l \in active[s] : Server(l) = Server(c)

\* Mutant: "Cannot add server to list" returns with the mutex.
PInc_noSignal(s) ==
    LET c == preserver[s].sock IN
    /\ s \in up
    /\ preserver[s].pc = "inc"
    /\ IF Listed(s, c)
       THEN /\ Lock(s, Preserver)
            /\ cl' = [cl EXCEPT ![c] = "closed"]
            /\ UNCHANGED <<active, notifier>>
       ELSE /\ LockAndFree(s, Preserver)
            /\ active' = [active EXCEPT ![s] = @ \cup {c}]
            /\ notifier' = [notifier EXCEPT ![c] = "ready"]
            /\ UNCHANGED cl
    /\ TryNext(s, Cardinality(active'[s]))
    /\ UNCHANGED <<up, listener, finder, backlog, sv, req, res, torn, crashes>>

PInc(s) ==
    LET c == preserver[s].sock IN
    /\ s \in up
    /\ preserver[s].pc = "inc"
    /\ LockAndFree(s, Preserver)
    /\ IF Listed(s, c)
       THEN /\ cl' = [cl EXCEPT ![c] = "closed"]
            /\ UNCHANGED <<active, notifier>>
       ELSE /\ active' = [active EXCEPT ![s] = @ \cup {c}]
            /\ notifier' = [notifier EXCEPT ![c] = "ready"]
            /\ UNCHANGED cl
    /\ TryNext(s, Cardinality(active'[s]))
    /\ UNCHANGED <<up, listener, finder, backlog, sv, req, res, torn, crashes>>

-----------------------------------------------------------------------------
(* KeepAliveNotifier.                                                      *)

\* DecCons finds the entry by its address and port.
DecCons(s, c) == active' = [active EXCEPT ![s] = {l \in @ : Server(l) # Server(c)}]

\* Mutant: a notifier whose read fails ends with the mutex.
Lost_noSignal(c) == /\ DecCons(Client(c), c)
                    /\ cl' = [cl EXCEPT ![c] = "closed"]
                    /\ notifier' = [notifier EXCEPT ![c] = "none"]
                    /\ UNCHANGED <<up, mutex, listener, finder, backlog, sv, req, res, torn, crashes>>

\* What a notifier does when its write or its read fails.
Lost(c) == /\ DecCons(Client(c), c)
           /\ cl' = [cl EXCEPT ![c] = "closed"]
           /\ Signal(Client(c))
           /\ notifier' = [notifier EXCEPT ![c] = "none"]
           /\ UNCHANGED <<up, listener, finder, backlog, sv, req, res, torn, crashes>>

\* Mutant: the mutex guards the list only, as in the calls that are commented out.
NPing_noWait(c) == /\ notifier[c] = "ready"
                   /\ notifier' = [notifier EXCEPT ![c] = "reading"]
                   /\ Write(c, "ping")
                   /\ UNCHANGED <<up, mutex, active, preserver, listener, finder, backlog, cl, sv, res,
                                  torn, crashes>>

NPing(c) == /\ notifier[c] = "ready"
            /\ Lock(Client(c), Notifier(c))
            /\ notifier' = [notifier EXCEPT ![c] = "reading"]
            /\ Write(c, "ping")
            /\ UNCHANGED <<up, active, preserver, listener, finder, backlog, cl, sv, res, torn, crashes>>

NWriteFails(c) == /\ notifier[c] = "ready"
                  /\ CanLock(Client(c), Notifier(c))
                  /\ sv[c] = "closed"
                  /\ Lost(c)
                  /\ UNCHANGED preserver

\* One read may take several answers; what it takes first is stored as the description.
NRead(c) == /\ notifier[c] = "reading"
            /\ \E n \in 1 .. Len(res[c]) : res' = [res EXCEPT ![c] = SubSeq(@, n + 1, Len(@))]
            /\ Signal(Client(c))
            /\ notifier' = [notifier EXCEPT ![c] = "ready"]
            /\ UNCHANGED <<up, active, preserver, listener, finder, backlog, cl, sv, req, torn, crashes>>

NReadFails(c) == /\ notifier[c] = "reading"
                 /\ sv[c] = "closed"
                 /\ res[c] = << >>
                 /\ Lost(c)
                 /\ UNCHANGED preserver

-----------------------------------------------------------------------------
(* The console: lactive; find, with a FindWildcard for each active server. *)
LActive(s) == /\ s \in up \cap Console
              /\ "lactive" \in Commands
              /\ SyncerInfo(s, ConsoleThread)
              /\ UNCHANGED <<up, active, preserver, listener, notifier, finder, net, torn, crashes>>

Ended == [pc |-> "none", sock |-> None]
FEnds(c) == finder' = [finder EXCEPT ![c] = Ended]
Entries(s) == {c \in Conns : Client(c) = s}

\* Bound: the console waits until the threads of its last find have ended.
FindFile(s) == /\ s \in up \cap Console
               /\ "find" \in Commands
               /\ \A c \in Entries(s) : finder[c] = Ended
               /\ LockAndFree(s, ConsoleThread)
               /\ finder' = [c \in Conns |-> IF c \in active[s] THEN [pc |-> "spawned", sock |-> None]
                                             ELSE finder[c]]
               /\ UNCHANGED <<up, active, preserver, listener, notifier, net, torn, crashes>>

\* The socket is read from the entry before the mutex is taken.  If the entry has been
\* deleted, the number it finds may by now be that of any socket, or of none.
FSocket(c) == LET s == Client(c) IN
              /\ finder[c].pc = "spawned"
              /\ \E sock \in IF c \in active[s] THEN {c} ELSE {None} \cup {d \in Entries(s) : cl[d] = "open"} :
                    finder' = [finder EXCEPT ![c] = [pc |-> "ready", sock |-> sock]]
              /\ UNCHANGED <<up, mutex, active, preserver, listener, notifier, net, torn, crashes>>

FWrite(c) == LET sock == finder[c].sock IN
             /\ finder[c].pc = "ready"
             /\ sock # None /\ cl[sock] = "open"
             /\ Lock(Client(c), Finder(c))
             /\ finder' = [finder EXCEPT ![c].pc = "reading"]
             /\ Write(sock, "find")
             /\ UNCHANGED <<up, active, preserver, listener, notifier, backlog, cl, sv, res, torn, crashes>>

FWriteFails(c) == LET sock == finder[c].sock IN
                  /\ finder[c].pc = "ready"
                  /\ CanLock(Client(c), Finder(c))
                  /\ IF sock = None THEN TRUE ELSE cl[sock] = "closed" \/ sv[sock] = "closed"
                  /\ FEnds(c)
                  /\ UNCHANGED <<up, mutex, active, preserver, listener, notifier, net, torn, crashes>>

FRead(c) == LET sock == finder[c].sock IN
            /\ finder[c].pc = "reading"
            /\ \E n \in 1 .. Len(res[sock]) : res' = [res EXCEPT ![sock] = SubSeq(@, n + 1, Len(@))]
            /\ Signal(Client(c))
            /\ FEnds(c)
            /\ UNCHANGED <<up, active, preserver, listener, notifier, backlog, cl, sv, req, torn, crashes>>

\* The socket stays open, and the notifier goes on using it.
GivesUp(c) == /\ Signal(Client(c))
              /\ FEnds(c)
              /\ torn' = torn \cup {finder[c].sock}
              /\ UNCHANGED <<up, active, listener, notifier, net, crashes>>

FReadFails(c) == LET sock == finder[c].sock IN
                 /\ finder[c].pc = "reading"
                 /\ sv[sock] = "closed"
                 /\ res[sock] = << >>
                 /\ GivesUp(c)
                 /\ UNCHANGED preserver

-----------------------------------------------------------------------------
(* UDPListener and UDPhandler.                                             *)

\* accept, and CheckIfKnown if accept gave an address (clilen is never set before).
Spawn(c) == sv' = [sv EXCEPT ![c] = "served"]

LAccept(s) == LET c == Head(backlog[s]) IN
              /\ s \in up
              /\ listener[s] = None
              /\ backlog[s] # << >>
              /\ backlog' = [backlog EXCEPT ![s] = Tail(@)]
              /\ \/ Spawn(c) /\ UNCHANGED listener
                 \/ /\ sv' = [sv EXCEPT ![c] = "accepted"]
                    /\ listener' = [listener EXCEPT ![s] = c]
              /\ UNCHANGED <<up, mutex, active, preserver, notifier, finder, cl, req, res, torn, crashes>>

\* Mutant: CheckIfKnown returns with the mutex.
LCheckIfKnown_noSignal(s) == /\ s \in up
                             /\ listener[s] # None
                             /\ Lock(s, Listener)
                             /\ Spawn(listener[s])
                             /\ listener' = [listener EXCEPT ![s] = None]
                             /\ UNCHANGED <<up, active, preserver, notifier, finder, backlog, cl, req, res,
                                            torn, crashes>>

LCheckIfKnown(s) == /\ s \in up
                    /\ listener[s] # None
                    /\ mutex[s] = Free
                    /\ Spawn(listener[s])
                    /\ listener' = [listener EXCEPT ![s] = None]
                    /\ UNCHANGED <<up, mutex, active, preserver, notifier, finder, backlog, cl, req, res,
                                   torn, crashes>>

\* A handler answers what it reads first; one read may take several messages.
Answer(c) == /\ sv[c] = "served"
             /\ \E n \in 1 .. Len(req[c]) : req' = [req EXCEPT ![c] = SubSeq(@, n + 1, Len(@))]
             /\ res' = [res EXCEPT ![c] = Append(@, Head(req[c]))]
             /\ UNCHANGED <<up, mutex, active, threads, backlog, cl, sv, torn, crashes>>

\* Mutant: the handler takes the mutex, as the comment before its switch suggests.
HAnswer_locked(c) == mutex[Server(c)] = Free /\ Answer(c)

HAnswer(c) == Answer(c)

HClose(c) == sv' = [sv EXCEPT ![c] = "closed"]

HReadFails(c) == /\ sv[c] = "served"
                 /\ cl[c] = "closed"
                 /\ HClose(c)
                 /\ UNCHANGED <<up, mutex, active, threads, backlog, cl, req, res, torn, crashes>>

-----------------------------------------------------------------------------
(* The alarm of TryConnect, when it does not interrupt connect.            *)
Hangs(s) == /\ s \in up
            /\ preserver[s].pc = "connect"
            /\ preserver' = [preserver EXCEPT ![s].pc = "hang"]

AlarmNotifier(c) == /\ Hangs(Client(c))
                    /\ notifier[c] = "reading"
                    /\ Lost(c)

\* Bound: the alarm hits one find on each connection.
AlarmFinder(c) == /\ Hangs(Client(c))
                  /\ finder[c].pc = "reading"
                  /\ finder[c].sock \notin torn
                  /\ GivesUp(c)

AlarmHandler(c) == /\ Hangs(Server(c))
                   /\ sv[c] = "served"
                   /\ req[c] = << >>
                   /\ HClose(c)
                   /\ UNCHANGED <<up, mutex, active, listener, notifier, finder, backlog, cl, req, res,
                                  torn, crashes>>

\* A thread that accepts or sleeps just does it again.
AlarmOther(s) == /\ Hangs(s)
                 /\ UNCHANGED <<up, mutex, active, listener, notifier, finder, net, torn, crashes>>

-----------------------------------------------------------------------------
(* A server dies, and is started again.                                    *)
Crash(s) == /\ s \in up
            /\ crashes < MaxCrashes
            /\ crashes' = crashes + 1
            /\ up' = up \ {s}
            /\ mutex' = [mutex EXCEPT ![s] = Free]
            /\ active' = [active EXCEPT ![s] = {}]
            /\ preserver' = [preserver EXCEPT ![s] = Asleep]
            /\ listener' = [listener EXCEPT ![s] = None]
            /\ notifier' = [c \in Conns |-> IF Client(c) = s THEN "none" ELSE notifier[c]]
            /\ finder' = [c \in Conns |-> IF Client(c) = s THEN Ended ELSE finder[c]]
            /\ backlog' = [backlog EXCEPT ![s] = << >>]
            /\ cl' = [c \in Conns |-> IF Client(c) = s THEN "closed" ELSE cl[c]]
            /\ sv' = [c \in Conns |-> IF Server(c) = s THEN "closed" ELSE sv[c]]
            /\ UNCHANGED <<req, res, torn>>

Start(s) == /\ s \in Servers \ up
            /\ up' = up \cup {s}
            /\ UNCHANGED <<mutex, active, threads, net, torn, crashes>>

-----------------------------------------------------------------------------
PreserverThread(s) == PWake(s) \/ PConnect(s) \/ PConnectFails(s) \/ PInc(s)
KeepAliveNotifier(c) == NPing(c) \/ NWriteFails(c) \/ NRead(c) \/ NReadFails(c)
FindWildcard(c) == FSocket(c) \/ FWrite(c) \/ FWriteFails(c) \/ FRead(c) \/ FReadFails(c)
UDPListener(s) == LAccept(s) \/ LCheckIfKnown(s)
UDPhandler(c) == HAnswer(c) \/ HReadFails(c)

Next == \/ \E s \in Servers : PreserverThread(s) \/ UDPListener(s) \/ LActive(s) \/ FindFile(s)
                              \/ AlarmOther(s) \/ Crash(s) \/ Start(s)
        \/ \E c \in Conns : KeepAliveNotifier(c) \/ FindWildcard(c) \/ UDPhandler(c)
                            \/ AlarmNotifier(c) \/ AlarmFinder(c) \/ AlarmHandler(c)

Spec == Init /\ [][Next]_vars

\* Threads run when they can.  A listener that waits for the mutex gets it if it is free
\* again and again: between two uses of it, the other threads sleep for seconds.
Fairness == /\ \A s \in Servers : /\ WF_vars(PreserverThread(s))
                                  /\ WF_vars(LAccept(s))
                                  /\ SF_vars(LCheckIfKnown(s))
            /\ \A c \in Conns : /\ WF_vars(KeepAliveNotifier(c))
                                /\ WF_vars(FindWildcard(c))
                                /\ WF_vars(UDPhandler(c))

FairSpec == Spec /\ Fairness

Reading(s) == {c \in Entries(s) : notifier[c] = "reading"}
Finding(s) == {c \in Entries(s) : finder[c].pc = "reading"}

\* The connections whose answer the holder of the mutex of s waits for.
Awaited(s) == Reading(s) \cup {finder[c].sock : c \in Finding(s)}

TypeOK ==
    /\ up \subseteq Servers
    /\ mutex \in [Servers -> {Free, Preserver, ConsoleThread} \cup {Notifier(c) : c \in Conns}
                                               \cup {Finder(c) : c \in Conns}]
    /\ \A s \in Servers : active[s] \subseteq Entries(s)
    /\ \A s \in Servers : /\ preserver[s].pc \in {"connect", "hang", "inc", "sleep"}
                          /\ preserver[s].at \in 1 .. Len(Known[s]) + 1
                          /\ preserver[s].sock \in {None} \cup Entries(s)
    /\ \A s \in Servers : listener[s] \in {None} \cup {c \in Conns : Server(c) = s /\ sv[c] = "accepted"}
    /\ notifier \in [Conns -> {"none", "ready", "reading"}]
    /\ finder \in [Conns -> [pc : {"none", "spawned", "ready", "reading"}, sock : {None} \cup Conns]]
    /\ \A s \in Servers : \A i \in DOMAIN backlog[s] : Server(backlog[s][i]) = s /\ sv[backlog[s][i]] = "queued"
    /\ cl \in [Conns -> {"open", "closed"}]
    /\ sv \in [Conns -> {"queued", "accepted", "served", "closed"}]
    /\ \A c \in Conns : \A m \in {req[c], res[c]} : \A i \in DOMAIN m : m[i] \in {"ping", "find"}
    /\ torn \subseteq Conns
    /\ crashes \in 0 .. MaxCrashes

\* The mutex is held by who reads an answer and by nobody else, except that SyncerInfo
\* keeps it while no server is listed.
Kept(s) == mutex[s] \in {Preserver, ConsoleThread}
MutexHeldToRead ==
    \A s \in Servers :
       \/ mutex[s] = Free /\ Reading(s) = {} /\ Finding(s) = {}
       \/ \E c \in Entries(s) : mutex[s] = Notifier(c) /\ Reading(s) = {c} /\ Finding(s) = {}
       \/ \E c \in Entries(s) : mutex[s] = Finder(c) /\ Reading(s) = {} /\ Finding(s) = {c}
       \/ Kept(s) /\ active[s] = {} /\ Reading(s) = {} /\ Finding(s) = {}

\* A server is listed once, for the one open connection on which a notifier pings it.
ListedIsPinged ==
    \A c \in Conns : /\ c \in active[Client(c)] <=> notifier[c] # "none"
                     /\ notifier[c] # "none" => cl[c] = "open"
                     /\ \A d \in active[Client(c)] : c \in active[Client(c)] /\ Server(c) = Server(d) => c = d

\* Pings and finds share a socket, and each thread reads the answer to its own request:
\* unless SIGALRM made a find on it give up, which leaves the answer to the next reader.
AnswersMatch ==
    \A c \in Conns :
       LET msgs == req[c] \o res[c] IN
       cl[c] = "open" /\ c \notin torn /\ msgs # << >> =>
          \/ msgs = <<"ping">> /\ notifier[c] = "reading"
          \/ msgs = <<"find">> /\ \E f \in Finding(Client(c)) : finder[f].sock = c

\* On a link that is handled a ping is answered, or fails, whatever the mutexes of the
\* two servers do, because handlers take none.
PingEnds == \A c \in Conns : []<>~(notifier[c] = "reading" /\ sv[c] = "served")

\* UDPListener is to "listen for connections and correctly handle them" (KApp.cc:1488).  Each
\* is handled or closed, unless SyncerInfo kept the mutex or listeners wait in a ring, each
\* for a mutex that is held to read from a connection the next one has not handled.
Waits(c) == cl[c] = "open" /\ sv[c] \in {"queued", "accepted"}
MutexKept == \E s \in Servers : Kept(s)
Ring == \E ring \in SUBSET Servers \ {{}} :
           \A s \in ring : /\ listener[s] # None
                           /\ \E c \in Awaited(s) : /\ Server(c) \in ring
                                                    /\ sv[c] \in {"queued", "accepted"}
HandledUnlessRing == \A c \in Conns : []<>(~ Waits(c) \/ MutexKept \/ Ring)

=============================================================================
