-------------------------- MODULE HttpServer_proofs ---------------------------
(***************************************************************************)
(* Proofs about the processes of HTTPServer, for any number of clients,    *)
(* entries, sockets and commands.                                          *)
(***************************************************************************)
EXTENDS HttpServer, SequenceTheorems, TLAPS

Entry == [pid : Clients, sock : Sockets]

\* TypeOK, taken apart, and what it leaves out.
Places == Waits \cup {"none", "add", "read", "in", "out", "write", "leave"} \cup Ended
ClientShape == /\ peer \in [Clients -> {"off", "asking", "waiting", "answered", "left asking", "left"}]
               /\ backlog \in Seq(Clients)
               /\ admin \in {"off", "silent", "sent", "left sent", "left"}
ParentShape == /\ ppc \in {"select", "accept_wait", "accept", "fork", "accept_admin", "admin_read",
                           "admin_wait", "admin_loop", "answer", "exit", "exited"}
               /\ cmd \in Commands \cup {"none", "halt", "unknown"}
               /\ i \in Int /\ n \in Nat
               /\ cur \in Clients \cup {NoOne}
               /\ fds \in [Sockets -> Clients \cup {NoOne}]
TableShape == /\ table \in Seq(Entry)
              /\ Len(table) <= MaxClients
ChildShape == /\ cpc \in [Clients -> Places]
              /\ sock \in [Clients -> Nat]
              /\ lpc \in {"sleep", "wait", "stats", "dead"}
SharedShape == /\ mutex \in Clients \cup {"parent", "logger", "removed", NoOne}
               /\ stopped \subseteq Clients \cup {"logger", "parent"}
               /\ killed \subseteq Clients \cup {"logger"}
Shape == ClientShape /\ ParentShape /\ TableShape /\ ChildShape /\ SharedShape

\* The semaphore is with who is between Wait and Signal, until it is removed.
Critical == {"add", "in", "out", "leave"}
MutexInv == /\ \A c \in Clients : cpc[c] \in Critical => mutex \in {c, "removed"}
            /\ lpc = "stats" => mutex \in {"logger", "removed"}
            /\ ppc \in {"accept", "admin_loop"} => mutex = "parent"
            /\ mutex = "removed" => ppc = "exited"

\* A connection that waits for accept, or for fork, has no child yet.
Forking(c) == ppc = "fork" /\ c = cur
Queued(c) == \E k \in 1 .. Len(backlog) : backlog[k] = c
NewInv == /\ \A c \in Clients : Queued(c) \/ Forking(c) => cpc[c] = "none" /\ peer[c] # "off"
          /\ \A c \in Clients : peer[c] = "off" => cpc[c] = "none"
          /\ \A c \in Clients : Forking(c) => ~ Queued(c)
          /\ \A j, k \in 1 .. Len(backlog) : backlog[j] = backlog[k] => j = k
          /\ ppc \in {"accept_wait", "accept"} => backlog # << >>
          /\ ppc = "fork" => cur \in Clients

\* Who is in the table has come past CAdd.
TableInv == /\ RegisteredIsInTable
            /\ \A k \in 1 .. Len(table) : cpc[table[k].pid] \notin {"none", "wait_add", "add"}

\* A child that has not registered yet has its socket, too.
Unregistered(c) == cpc[c] \in {"wait_add", "add"} \/ Forking(c)
SocketInv == /\ SocketsBelong
             /\ \A c \in Clients : Unregistered(c) => sock[c] \in Sockets
             /\ \A c \in Clients : Unregistered(c) /\ ppc # "exited" => fds[sock[c]] = c

\* Those whom the command has stopped, continued or told to end.
Reached == CASE cmd = "suspend" -> stopped
             [] cmd = "resume"  -> (Clients \cup {"logger"}) \ stopped
             [] OTHER           -> killed

\* A turn of the loop that finds no pid is still to come.
Sweeps == Len(table) < n /\ i <= n

LoopInv == /\ ppc \in {"admin_wait", "admin_loop"} => cmd \notin {"none", "unknown"}
           /\ ppc = "admin_loop" =>
                /\ Len(table) <= n
                /\ cmd = "reset" => i = Len(table)
                /\ cmd # "reset" =>
                     /\ i >= 1
                     /\ lpc # "dead" => "logger" \in Reached
                     /\ \A k \in 1 .. Len(table) :
                          table[k].pid \in AliveChildren => table[k].pid \in Reached \/ k >= i \/ Sweeps

IInv == Shape /\ MutexInv /\ NewInv /\ TableInv /\ SocketInv /\ LoopInv

-----------------------------------------------------------------------------
(* The table without p: one entry fewer if p was in it, no other is lost,  *)
(* each is where it was or is the last one in the place that p had.        *)
LEMMA RemoveFacts ==
    ASSUME NEW p, table \in Seq(Entry), RegisteredIsInTable
    PROVE  LET t == RemoveClient(p)
           IN  /\ t \in Seq(Entry)
               /\ Len(t) = IF InTable(p) THEN Len(table) - 1 ELSE Len(table)
               /\ \A k \in 1 .. Len(t) :
                     /\ t[k].pid # p
                     /\ \/ t[k] = table[k]
                        \/ t[k] = table[Len(table)] /\ table[k].pid = p
               /\ \A k \in 1 .. Len(table) :
                     table[k].pid # p => \E j \in 1 .. Len(t) : t[j] = table[k]
               /\ \A j, k \in 1 .. Len(t) : t[j].pid = t[k].pid => j = k
<1> DEFINE t == RemoveClient(p)
<1> SUFFICES /\ t \in Seq(Entry)
             /\ Len(t) = IF InTable(p) THEN Len(table) - 1 ELSE Len(table)
             /\ \A k \in 1 .. Len(t) :
                   /\ t[k].pid # p
                   /\ \/ t[k] = table[k]
                      \/ t[k] = table[Len(table)] /\ table[k].pid = p
             /\ \A k \in 1 .. Len(table) :
                   table[k].pid # p => \E j \in 1 .. Len(t) : t[j] = table[k]
             /\ \A j, k \in 1 .. Len(t) : t[j].pid = t[k].pid => j = k
  OBVIOUS
<1>1. CASE ~ InTable(p)
  <2>1. t = table
    BY <1>1 DEF RemoveClient
  <2> QED
    BY <1>1, <2>1 DEF InTable, RegisteredIsInTable
<1>2. CASE InTable(p)
  <2> DEFINE last == Len(table)
             f == [k \in 1 .. last - 1 |-> IF table[k].pid = p THEN table[last] ELSE table[k]]
  <2>1. t = f
    BY <1>2 DEF RemoveClient
  <2>2. last \in Nat /\ \A k \in 1 .. last : table[k] \in Entry
    OBVIOUS
  <2>3. PICK h \in 1 .. last : table[h].pid = p
    BY <1>2 DEF InTable
  <2>4. \A j, k \in 1 .. last : table[j].pid = table[k].pid => j = k
    BY DEF RegisteredIsInTable
  <2>5. f \in Seq(Entry) /\ Len(f) = last - 1
    <3>1. last - 1 \in Nat
      BY <2>2, <2>3
    <3>2. \A k \in 1 .. last - 1 : f[k] \in Entry
      BY <2>2, <2>3
    <3> QED
      BY <3>1, <3>2
  <2>6. \A k \in 1 .. last - 1 :
          /\ f[k].pid # p
          /\ f[k] = table[k] \/ (f[k] = table[last] /\ table[k].pid = p)
    BY <2>2, <2>3, <2>4
  <2>7. ASSUME NEW k \in 1 .. last, table[k].pid # p
        PROVE  \E j \in 1 .. last - 1 : f[j] = table[k]
    <3>1. CASE k = last
      <4>1. h \in 1 .. last - 1 /\ f[h] = table[k]
        BY <2>2, <2>3, <2>7, <3>1
      <4> QED
        BY <4>1
    <3>2. CASE k # last
      <4>1. k \in 1 .. last - 1 /\ f[k] = table[k]
        BY <2>2, <2>7, <3>2
      <4> QED
        BY <4>1
    <3> QED
      BY <3>1, <3>2
  <2>8. \A j, k \in 1 .. last - 1 : f[j].pid = f[k].pid => j = k
    BY <2>2, <2>3, <2>4
  <2> HIDE DEF f, t
  <2> QED
    BY <1>2, <2>1, <2>5, <2>6, <2>7, <2>8
<1> QED
  BY <1>1, <1>2

-----------------------------------------------------------------------------
(* The shape says all that TypeOK says. *)
LEMMA ShapeTypes == Shape => TypeOK
<1> SUFFICES ASSUME Shape PROVE TypeOK
  OBVIOUS
<1>1. \A k \in 1 .. Len(table) : table[k] \in Entry
  BY DEF Shape, TableShape
<1> QED
  BY <1>1 DEF TypeOK, Shape, ClientShape, ParentShape, TableShape, ChildShape, SharedShape,
              Entry, Places

(* What is left of the table was in it, and is not p's. *)
LEMMA RemovedEntries ==
    ASSUME NEW p, table \in Seq(Entry), RegisteredIsInTable
    PROVE  \A k \in 1 .. Len(RemoveClient(p)) :
             \E j \in 1 .. Len(table) :
               RemoveClient(p)[k] = table[j] /\ table[j].pid # p
<1> DEFINE t == RemoveClient(p)
<1>1. /\ Len(t) <= Len(table) /\ Len(t) \in Nat /\ Len(table) \in Nat
      /\ \A k \in 1 .. Len(t) :
            t[k].pid # p /\ (t[k] = table[k] \/ t[k] = table[Len(table)])
  BY RemoveFacts
<1> HIDE DEF t
<1>2. ASSUME NEW k \in 1 .. Len(t)
      PROVE  \E j \in 1 .. Len(table) : t[k] = table[j] /\ table[j].pid # p
  <2>1. k \in 1 .. Len(table) /\ Len(table) \in 1 .. Len(table)
    BY <1>1
  <2> QED
    BY <1>1, <2>1
<1> QED
  BY <1>2 DEF t

(* What is left is a table, and no longer than it was. *)
LEMMA RemoveShape ==
    ASSUME NEW p, TableShape, RegisteredIsInTable, table' = RemoveClient(p)
    PROVE  TableShape'
<1>1. table' \in Seq(Entry) /\ Len(table') = IF InTable(p) THEN Len(table) - 1 ELSE Len(table)
  BY RemoveFacts DEF TableShape
<1>2. Len(table') <= Len(table) /\ Len(table) <= MaxClients /\ MaxClients \in Nat
  BY <1>1, HttpAssumption DEF TableShape
<1> QED
  BY <1>1, <1>2 DEF TableShape

(* A command is sent to processes of the server, never to end the parent. *)
LEMMA SendShape ==
    ASSUME SharedShape, NEW S \in SUBSET (Clients \cup {"logger", "parent"}), Send(S)
    PROVE  /\ stopped' \subseteq Clients \cup {"logger", "parent"}
           /\ killed' \subseteq Clients \cup {"logger"}
<1>1. stopped' = stopped \cup S \/ stopped' = stopped \ S \/ stopped' = stopped
  BY DEF Send
<1>2. killed' = killed \cup (S \ {"parent"}) \/ killed' = killed
  BY DEF Send
<1> QED
  BY <1>1, <1>2 DEF SharedShape

(* Which actions change what. *)
LEMMA Frames ==
    ASSUME [Next]_vars
    PROVE  /\ \/ PRefuse \/ PAccept \/ PExit \/ PBrokenPipe
              \/ \E c \in Clients : Connect(c) \/ GoAway(c) \/ CRead(c) \/ CWrite(c)
              \/ UNCHANGED <<peer, backlog>>
           /\ Parent \/ Interrupt \/ UNCHANGED <<ppc, cmd, i, n, cur, fds>>
           /\ \/ PAdminStep
              \/ \E c \in Clients : CAdd(c) \/ CLeave(c)
              \/ UNCHANGED table
           /\ PAccept \/ UNCHANGED sock
           /\ PFork \/ (\E c \in Clients : Child(c) \/ Kill9(c)) \/ UNCHANGED cpc
           /\ Logger \/ UNCHANGED lpc
           /\ \/ PAdminWait \/ PAdminStep
              \/ \E c \in Clients : CDies(c) \/ Kill9(c)
              \/ UNCHANGED <<stopped, killed>>
           /\ Parent \/ Logger \/ (\E c \in Clients : Child(c) \/ Kill9(c)) \/ UNCHANGED mutex
           /\ Parent \/ Admin \/ UNCHANGED admin
<1> USE DEF parentVars, childVars, counters
<1>1. CASE Parent
  BY <1>1
    DEF Parent, PSelect, PAcceptAdmin, PAdminRead, PAnswer, PBrokenPipe, PAcceptWait, PRefuse, PAccept, PAcceptFails, PFork, PAdminWait,
         PAdminStep, PAdminDone, PExit
<1>2. CASE Interrupt
  BY <1>2 DEF Interrupt
<1>3. CASE Logger \/ Admin
  BY <1>3 DEF Logger, Admin
<1>4. ASSUME NEW c \in Clients, Connect(c) \/ GoAway(c)
      PROVE  UNCHANGED <<admin, ppc, cmd, i, n, cur, fds, table, mutex, cpc, sock, lpc, stopped, killed>>
  BY <1>4 DEF Connect, GoAway
<1>5. ASSUME NEW c \in Clients, Child(c) \/ Kill9(c)
      PROVE  /\ CRead(c) \/ CWrite(c) \/ UNCHANGED <<peer, backlog>>
             /\ CAdd(c) \/ CLeave(c) \/ UNCHANGED table
             /\ CDies(c) \/ Kill9(c) \/ UNCHANGED <<stopped, killed>>
             /\ UNCHANGED <<admin, ppc, cmd, i, n, cur, fds, sock, lpc>>
  BY <1>5
    DEF Child, CWait, CWaitFails, CAdd, CRead, CIn, COut, CCount, CWrite, CLeave, CDies,
         Kill9
<1>6. CASE UNCHANGED vars
  BY <1>6 DEF vars
<1> QED
  BY <1>1, <1>2, <1>3, <1>4, <1>5, <1>6 DEF Next

(* A child that moves was forked and is never new again; it goes to add    *)
(* from wait_add only.                                                     *)
LEMMA ChildMoves ==
    ASSUME ChildShape, NEW c \in Clients, Child(c) \/ Kill9(c)
    PROVE  /\ cpc' \in [Clients -> Places]
           /\ cpc[c] \notin Ended \cup {"none"} /\ cpc'[c] \notin {"none", "wait_add"}
           /\ cpc'[c] = "add" => cpc[c] = "wait_add"
           /\ cpc[c] = "wait_add" => cpc'[c] \in Ended \cup {"add"}
           /\ cpc[c] = "add" => CAdd(c) \/ cpc'[c] \in Ended
           /\ \A d \in Clients : d # c => cpc'[d] = cpc[d]
<1> SUFFICES /\ cpc[c] \notin Ended \cup {"none"}
             /\ \E to \in Places \ {"none", "wait_add"} :
                  /\ cpc' = [cpc EXCEPT ![c] = to]
                  /\ to = "add" => cpc[c] = "wait_add"
                  /\ cpc[c] = "wait_add" => to \in Ended \cup {"add"}
                  /\ cpc[c] = "add" => CAdd(c) \/ to \in Ended
  BY DEF ChildShape
<1> USE DEF Goto, SignalThen, Places, Ended, Waits, ChildRuns
<1>1. CASE CWait(c)
  <2>1. \A w \in Waits : /\ After[w] \in {"add", "in", "out", "leave"}
                         /\ After[w] = "add" => w = "wait_add"
                         /\ w = "wait_add" => After[w] = "add"
    BY DEF After
  <2>2. cpc[c] \in Waits /\ cpc' = [cpc EXCEPT ![c] = After[cpc[c]]]
    BY <1>1 DEF CWait
  <2> QED
    BY <2>1, <2>2
<1>2. CASE CWaitFails(c) \/ CAdd(c)
  BY <1>2 DEF CWaitFails, CAdd
<1>3. CASE CRead(c) \/ CIn(c) \/ COut(c)
  BY <1>3 DEF CRead, CIn, COut, CCount
<1>4. CASE CWrite(c) \/ CLeave(c)
  BY <1>4 DEF CWrite, CLeave
<1>5. CASE CDies(c) \/ Kill9(c)
  BY <1>5 DEF CDies, Kill9, AliveChildren
<1> QED
  BY <1>1, <1>2, <1>3, <1>4, <1>5 DEF Child

(* The shape of the variables is kept, group by group. *)
LEMMA ClientShapeStep ==
    ASSUME IInv, [Next]_vars
    PROVE  ClientShape'
<1>1. ClientShape /\ NewInv
  BY DEF IInv, Shape
<1>2. /\ peer \in [Clients -> {"off", "asking", "waiting", "answered", "left asking", "left"}]
      /\ backlog \in Seq(Clients)
  BY <1>1 DEF ClientShape
<1>9. admin' \in {"off", "silent", "sent", "left sent", "left"}
  <2>1. CASE Parent
    BY <1>1, <2>1 DEF ClientShape, Parent, PSelect, PAcceptAdmin, PAdminRead, PAnswer, PBrokenPipe,
                      PAcceptWait, PRefuse, PAccept, PAcceptFails, PFork, PAdminWait, PAdminStep,
                      PAdminDone, PExit
  <2>2. CASE Admin
    BY <1>1, <2>2 DEF ClientShape, Admin, AdminConnect, AdminSend, AdminGoAway
  <2> QED
    BY <1>1, <2>1, <2>2, Frames DEF ClientShape
<1> USE <1>9
<1>3. CASE PRefuse \/ PAccept
  <2>1. backlog # << >>
    BY <1>1, <1>3 DEF PRefuse, PAccept, ParentRuns, NewInv
  <2>2. peer' = peer /\ backlog' = Tail(backlog)
    BY <1>3 DEF PRefuse, PAccept
  <2> QED
    BY <1>2, <2>1, <2>2, HeadTailProperties DEF ClientShape
<1>4. CASE PExit \/ PBrokenPipe
  BY <1>2, <1>4, <1>9, EmptySeq DEF PExit, PBrokenPipe, ClientShape
<1>5. ASSUME NEW c \in Clients, Connect(c) PROVE ClientShape'
  <2>1. peer' \in [Clients -> {"off", "asking", "waiting", "answered", "left asking", "left"}]
    BY <1>2, <1>5 DEF Connect
  <2> QED
    BY <1>2, <1>5, <2>1, AppendProperties DEF Connect, ClientShape
<1>6. ASSUME NEW c \in Clients, GoAway(c) PROVE ClientShape'
  BY <1>2, <1>6 DEF GoAway, ClientShape
<1>7. ASSUME NEW c \in Clients, CRead(c) \/ CWrite(c) PROVE ClientShape'
  <2>1. PICK p \in {"waiting", "left", "answered", peer[c]} :
          peer' = peer \/ peer' = [peer EXCEPT ![c] = p]
    BY <1>7 DEF CRead, CWrite
  <2>2. peer' \in [Clients -> {"off", "asking", "waiting", "answered", "left asking", "left"}]
    BY <1>2, <2>1
  <2>3. backlog' = backlog
    BY <1>7 DEF CRead, CWrite
  <2> QED
    BY <1>2, <2>2, <2>3 DEF ClientShape
<1>8. CASE UNCHANGED <<peer, backlog>>
  BY <1>2, <1>8 DEF ClientShape
<1> QED
  BY <1>3, <1>4, <1>5, <1>6, <1>7, <1>8, Frames

LEMMA ParentShapeStep ==
    ASSUME IInv, [Next]_vars
    PROVE  ParentShape'
<1>1. ParentShape /\ TableShape /\ ClientShape /\ NewInv
  BY DEF IInv, Shape
<1> USE <1>1 DEF ParentShape, ParentRuns
<1>2. CASE PSelect \/ PAcceptAdmin \/ PAdminRead \/ PAnswer \/ PAcceptWait \/ PRefuse \/ PAcceptFails \/ Interrupt
  BY <1>2 DEF PSelect, PAcceptAdmin, PAdminRead, PAnswer, PAcceptWait, PRefuse, PAcceptFails, Interrupt, parentVars
<1>3. CASE PAccept
  <2>1. backlog # << >>
    BY <1>3 DEF PAccept, NewInv
  <2>2. Head(backlog) \in Clients
    BY <2>1, HeadTailProperties DEF ClientShape
  <2>3. fds' \in [Sockets -> Clients \cup {NoOne}]
    BY <1>3, <2>2 DEF PAccept, FreeSockets
  <2> QED
    BY <1>3, <2>2, <2>3 DEF PAccept
<1>4. CASE PFork \/ PExit \/ PBrokenPipe
  BY <1>4 DEF PFork, PExit, PBrokenPipe
<1>5. CASE PAdminWait
  <2>1. Len(table) \in Nat
    BY DEF TableShape
  <2>2. i' \in Int /\ n' \in Nat
    BY <1>5, <2>1 DEF PAdminWait
  <2> QED
    BY <1>5, <2>2 DEF PAdminWait
<1>6. CASE PAdminStep
  <2>1. fds' \in [Sockets -> Clients \cup {NoOne}] /\ i' \in Int
    BY <1>6 DEF PAdminStep
  <2> QED
    BY <1>6, <2>1 DEF PAdminStep
<1>7. CASE PAdminDone
  BY <1>7 DEF PAdminDone
<1>8. CASE UNCHANGED <<ppc, cmd, i, n, cur, fds>>
  BY <1>8
<1> QED
  BY <1>2, <1>3, <1>4, <1>5, <1>6, <1>7, <1>8, Frames DEF Parent

LEMMA TableShapeStep ==
    ASSUME IInv, [Next]_vars
    PROVE  TableShape'
<1>1. TableShape /\ TableInv /\ SocketInv /\ ChildShape
  BY DEF IInv, Shape
<1>2. CASE PAdminStep
  <2>1. table' = table \/ table' = RemoveClient(PidAt(i))
    BY <1>2 DEF PAdminStep
  <2> QED
    BY <1>1, <2>1, RemoveShape DEF TableInv, TableShape
<1>3. ASSUME NEW c \in Clients, CAdd(c) PROVE TableShape'
  <2>1. CASE Len(table) < MaxClients
    <3>1. [pid |-> c, sock |-> sock[c]] \in Entry
      BY <1>1, <1>3 DEF CAdd, ChildRuns, SocketInv, Unregistered, Entry
    <3>2. table' = Append(table, [pid |-> c, sock |-> sock[c]])
      BY <1>3, <2>1 DEF CAdd, AddClient
    <3>3. table' \in Seq(Entry) /\ Len(table') = Len(table) + 1
      BY <1>1, <3>1, <3>2, AppendProperties DEF TableShape
    <3> QED
      BY <1>1, <2>1, <3>3, HttpAssumption DEF TableShape
  <2>2. CASE ~ (Len(table) < MaxClients)
    BY <1>1, <1>3, <2>2 DEF CAdd, TableShape
  <2> QED
    BY <2>1, <2>2
<1>4. ASSUME NEW c \in Clients, CLeave(c) PROVE TableShape'
  BY <1>1, <1>4, RemoveShape DEF CLeave, TableInv
<1>5. CASE UNCHANGED table
  BY <1>1, <1>5 DEF TableShape
<1> QED
  BY <1>2, <1>3, <1>4, <1>5, Frames

LEMMA ChildShapeStep ==
    ASSUME IInv, [Next]_vars
    PROVE  ChildShape'
<1>1. ChildShape /\ ClientShape /\ NewInv
  BY DEF IInv, Shape
<1>2. cpc' \in [Clients -> Places]
  <2>1. CASE PFork
    BY <1>1, <2>1 DEF PFork, ChildShape, Places, Waits
  <2>2. ASSUME NEW c \in Clients, Child(c) \/ Kill9(c) PROVE cpc' \in [Clients -> Places]
    BY <1>1, <2>2, ChildMoves
  <2>3. CASE UNCHANGED cpc
    BY <1>1, <2>3 DEF ChildShape
  <2> QED
    BY <2>1, <2>2, <2>3, Frames
<1>3. sock' \in [Clients -> Nat]
  <2>1. CASE PAccept
    <3>1. backlog # << >>
      BY <1>1, <2>1 DEF PAccept, ParentRuns, NewInv
    <3>2. Head(backlog) \in Clients
      BY <1>1, <3>1, HeadTailProperties DEF ClientShape
    <3>3. PICK s \in FreeSockets : sock' = [sock EXCEPT ![Head(backlog)] = s]
      BY <2>1 DEF PAccept
    <3>4. s \in Nat
      BY <3>3, HttpAssumption DEF FreeSockets, Sockets
    <3> QED
      BY <1>1, <3>2, <3>3, <3>4 DEF ChildShape
  <2> QED
    BY <1>1, <2>1, Frames DEF ChildShape
<1>4. lpc' \in {"sleep", "wait", "stats", "dead"}
  BY <1>1, Frames DEF Logger, LSleep, LWait, LStats, LWaitFails, LDies, ChildShape
<1> QED
  BY <1>2, <1>3, <1>4 DEF ChildShape

LEMMA SharedShapeStep ==
    ASSUME IInv, [Next]_vars
    PROVE  SharedShape'
<1>1. SharedShape
  BY DEF IInv, Shape
<1>2. mutex' \in Clients \cup {"parent", "logger", "removed", NoOne}
  <2>1. CASE Parent
    BY <1>1, <2>1
      DEF Parent, PSelect, PAcceptAdmin, PAdminRead, PAnswer, PBrokenPipe, PAcceptWait, PRefuse, PAccept, PAcceptFails, PFork, PAdminWait,
          PAdminStep, PAdminDone, PExit, SharedShape
  <2>2. CASE Logger
    BY <1>1, <2>2 DEF Logger, LSleep, LWait, LStats, LWaitFails, LDies, Undone, SharedShape
  <2>3. ASSUME NEW c \in Clients, Child(c) \/ Kill9(c)
        PROVE  mutex' \in Clients \cup {"parent", "logger", "removed", NoOne}
    BY <1>1, <2>3
      DEF Child, CWait, CWaitFails, CAdd, CRead, CIn, COut, CCount, CWrite, CLeave, CDies,
          Kill9, SignalThen, Undone, SharedShape
  <2> QED
    BY <1>1, <2>1, <2>2, <2>3, Frames DEF SharedShape
<1>3. /\ stopped' \subseteq Clients \cup {"logger", "parent"}
      /\ killed' \subseteq Clients \cup {"logger"}
  <2>1. CASE PAdminWait
    <3>1. PICK S \in SUBSET {"logger"} : Send(S)
      BY <2>1 DEF PAdminWait, Alive
    <3> QED
      BY <1>1, <3>1, SendShape
  <2>2. CASE PAdminStep
    <3>1. PICK S \in SUBSET (Clients \cup {"logger", "parent"}) : Send(S)
      BY <2>2 DEF PAdminStep, Alive, AliveChildren
    <3> QED
      BY <1>1, <3>1, SendShape
  <2>3. ASSUME NEW c \in Clients, CDies(c) \/ Kill9(c)
        PROVE  stopped' \subseteq stopped /\ killed' \subseteq killed
    BY <2>3 DEF CDies, Kill9
  <2> QED
    BY <1>1, <2>1, <2>2, <2>3, Frames DEF SharedShape
<1> QED
  BY <1>2, <1>3 DEF SharedShape

-----------------------------------------------------------------------------
(* The semaphore is with one process at a time. *)
LEMMA MutexStep ==
    ASSUME IInv, [Next]_vars
    PROVE  MutexInv'
<1>1. MutexInv /\ ChildShape /\ ParentShape
  BY DEF IInv, Shape
<1>2. \A c \in Clients : c \notin {NoOne, "parent", "logger", "removed"}
  BY HttpAssumption
<1>3. NoOne \notin {"parent", "logger", "removed"}
  BY HttpAssumption
<1> USE <1>1, <1>2, <1>3 DEF MutexInv, Critical, ParentRuns, parentVars, childVars, counters
<1>4. CASE PSelect \/ PAcceptAdmin \/ PAdminRead \/ PAnswer \/ PAcceptFails \/ PAdminStep \/ Interrupt
  BY <1>4 DEF PSelect, PAcceptAdmin, PAdminRead, PAnswer, PAcceptFails, PAdminStep, Interrupt
<1>5. CASE PAcceptWait \/ PAdminWait
  BY <1>5 DEF PAcceptWait, PAdminWait
<1>6. CASE PRefuse \/ PAccept
  BY <1>6 DEF PRefuse, PAccept
<1>7. CASE PFork
  <2>1. \A c \in Clients : cpc'[c] \in Critical => cpc[c] \in Critical
    BY <1>7 DEF PFork, ChildShape
  <2> QED
    BY <1>7, <2>1 DEF PFork
<1>8. CASE PAdminDone \/ PExit \/ PBrokenPipe
  BY <1>8 DEF PAdminDone, PExit, PBrokenPipe
<1>9. CASE Logger \/ Admin
  BY <1>9 DEF Logger, LSleep, LWait, LStats, LWaitFails, LDies, LoggerRuns, Undone, Admin
<1>10. ASSUME NEW c \in Clients, Connect(c) \/ GoAway(c) PROVE MutexInv'
  BY <1>10 DEF Connect, GoAway
<1>11. ASSUME NEW c \in Clients, Child(c) \/ Kill9(c) PROVE MutexInv'
  <2>1. \A d \in Clients : d # c => cpc'[d] = cpc[d]
    BY <1>11, ChildMoves
  <2>2. UNCHANGED <<ppc, lpc>>
    BY <1>11 DEF Child, CWait, CWaitFails, CAdd, CRead, CIn, COut, CCount, CWrite, CLeave,
                 CDies, Kill9
  <2> USE DEF Goto, SignalThen, ChildRuns, ChildShape, Waits
  <2>3. CASE CWait(c)
    BY <2>1, <2>2, <2>3 DEF CWait
  <2>4. CASE CWaitFails(c) \/ CRead(c) \/ CWrite(c)
    <3>1. mutex' = mutex /\ cpc'[c] \notin Critical
      BY <2>4 DEF CWaitFails, CRead, CWrite
    <3> QED
      BY <2>1, <2>2, <3>1
  <2>5. CASE CAdd(c) \/ CIn(c) \/ COut(c) \/ CLeave(c)
    <3>1. /\ cpc[c] \in Critical /\ cpc'[c] \notin Critical
          /\ mutex' = IF mutex = "removed" THEN mutex ELSE NoOne
      BY <2>5 DEF CAdd, CIn, COut, CCount, CLeave
    <3> QED
      BY <2>1, <2>2, <3>1
  <2>6. CASE CDies(c) \/ Kill9(c)
    <3>1. cpc'[c] \notin Critical /\ mutex' = IF mutex = c THEN NoOne ELSE mutex
      BY <2>6 DEF CDies, Kill9, Undone
    <3> QED
      BY <2>1, <2>2, <3>1
  <2> QED
    BY <1>11, <2>3, <2>4, <2>5, <2>6 DEF Child
<1>12. CASE UNCHANGED vars
  BY <1>12 DEF vars
<1> QED
  BY <1>4, <1>5, <1>6, <1>7, <1>8, <1>9, <1>10, <1>11, <1>12 DEF Next, Parent

-----------------------------------------------------------------------------
(* A connection waits once, and has no child before fork. *)
LEMMA NewStep ==
    ASSUME IInv, [Next]_vars
    PROVE  NewInv'
<1>1. NewInv /\ ClientShape /\ ChildShape /\ ParentShape
  BY DEF IInv, Shape
<1> USE <1>1 DEF NewInv, Queued, Forking, ParentRuns, parentVars, childVars, counters
<1>2. CASE PSelect \/ PAcceptAdmin \/ PAdminRead \/ PAnswer \/ PAcceptWait \/ PAcceptFails \/ PAdminWait \/ PAdminStep \/ PAdminDone
           \/ Interrupt
  BY <1>2 DEF PSelect, PAcceptAdmin, PAdminRead, PAnswer, PAcceptWait, PAcceptFails, PAdminWait, PAdminStep, PAdminDone, Interrupt
<1>3. CASE PRefuse \/ PAccept
  <2>1. backlog \in Seq(Clients) /\ backlog # << >>
    BY <1>3 DEF PRefuse, PAccept, ClientShape
  <2>2. /\ backlog' = Tail(backlog) /\ Head(backlog) = backlog[1] /\ backlog[1] \in Clients
        /\ Len(backlog') = Len(backlog) - 1 /\ Len(backlog) \in Nat \ {0}
        /\ \A k \in 1 .. Len(backlog') : backlog'[k] = backlog[k + 1]
    <3>1. backlog' = Tail(backlog)
      BY <1>3 DEF PRefuse, PAccept
    <3>2. Len(backlog) \in Nat \ {0}
      BY <2>1, EmptySeq
    <3> QED
      BY <2>1, <3>1, <3>2, HeadTailProperties
  <2>3. /\ \A c \in Clients : Queued(c)' => Queued(c) /\ c # backlog[1]
        /\ \A j, k \in 1 .. Len(backlog') : backlog'[j] = backlog'[k] => j = k
        /\ Queued(backlog[1])
    BY <2>2
  <2>4. UNCHANGED <<peer, cpc>>
    BY <1>3 DEF PRefuse, PAccept
  <2>5. ppc' = "select" \/ (ppc' = "fork" /\ cur' = backlog[1])
    BY <1>3, <2>2 DEF PRefuse, PAccept
  <2> HIDE DEF Queued
  <2> QED
    BY <2>2, <2>3, <2>4, <2>5
<1>4. CASE PFork
  BY <1>4 DEF PFork, ChildShape
<1>5. CASE PExit \/ PBrokenPipe
  <2>1. ppc' = "exited" /\ backlog' = << >> /\ UNCHANGED <<peer, cpc, cur>>
    BY <1>5 DEF PExit, PBrokenPipe
  <2> QED
    BY <2>1
<1>6. CASE Logger \/ Admin
  BY <1>6 DEF Logger, Admin
<1>7. ASSUME NEW c \in Clients, Connect(c) PROVE NewInv'
  <2>1. /\ backlog' = Append(backlog, c) /\ Len(backlog) \in Nat
        /\ Len(backlog') = Len(backlog) + 1 /\ backlog'[Len(backlog) + 1] = c
        /\ \A k \in 1 .. Len(backlog) : backlog'[k] = backlog[k]
    <3>1. backlog' = Append(backlog, c) /\ backlog \in Seq(Clients)
      BY <1>7 DEF Connect, ClientShape
    <3> QED
      BY <3>1, AppendProperties, LenProperties
  <2>2. \A k \in 1 .. Len(backlog) : backlog[k] \in Clients
    <3>1. backlog \in Seq(Clients)
      BY DEF ClientShape
    <3> QED
      BY <3>1
  <2>3. /\ cpc[c] = "none" /\ ~ Queued(c) /\ ~ Forking(c)
        /\ peer'[c] # "off" /\ \A d \in Clients : d # c => peer'[d] = peer[d]
    BY <1>7 DEF Connect, ClientShape
  <2>4. UNCHANGED <<cpc, ppc, cur>>
    BY <1>7 DEF Connect
  <2>5. /\ \A d \in Clients : Queued(d)' => Queued(d) \/ d = c
        /\ \A j, k \in 1 .. Len(backlog') : backlog'[j] = backlog'[k] => j = k
        /\ backlog' # << >>
    BY <2>1, <2>2, <2>3, EmptySeq
  <2> HIDE DEF Queued
  <2> QED
    BY <2>3, <2>4, <2>5
<1>8. ASSUME NEW c \in Clients, GoAway(c) PROVE NewInv'
  BY <1>8 DEF GoAway, ClientShape
<1>9. ASSUME NEW c \in Clients, Child(c) \/ Kill9(c) PROVE NewInv'
  <2>1. UNCHANGED <<ppc, cur, backlog>>
    BY <1>9 DEF Child, CWait, CWaitFails, CAdd, CRead, CIn, COut, CCount, CWrite, CLeave,
                CDies, Kill9
  <2>2. \A d \in Clients : d # c => cpc'[d] = cpc[d]
    BY <1>9, ChildMoves
  <2>3. cpc[c] # "none"
    BY <1>9, ChildMoves
  <2>4. \A d \in Clients : peer'[d] = "off" <=> peer[d] = "off"
    <3>1. CASE CRead(c) \/ CWrite(c)
      <4>1. PICK p \in {"waiting", "left", "answered", peer[c]} :
              peer' = peer \/ peer' = [peer EXCEPT ![c] = p]
        BY <3>1 DEF CRead, CWrite
      <4>2. peer[c] # "off"
        BY <2>3
      <4> QED
        BY <4>1, <4>2 DEF ClientShape
    <3>2. CASE UNCHANGED peer
      BY <3>2
    <3> QED
      BY <1>9, <3>1, <3>2 DEF Child, CWait, CWaitFails, CAdd, CIn, COut, CCount, CLeave, CDies,
                              Kill9
  <2> QED
    BY <2>1, <2>2, <2>3, <2>4
<1>10. CASE UNCHANGED vars
  BY <1>10 DEF vars
<1> QED
  BY <1>2, <1>3, <1>4, <1>5, <1>6, <1>7, <1>8, <1>9, <1>10 DEF Next, Parent

-----------------------------------------------------------------------------
(* A turn of the administrator's loop removes the entry at i, whose child  *)
(* is gone or told to end, or leaves the table and the sockets alone.      *)
LEMMA AdminTurn ==
    ASSUME IInv, PAdminStep
    PROVE  /\ UNCHANGED <<ppc, cmd, n, cur, mutex, cpc, sock, lpc>>
           /\ ppc = "admin_loop" /\ i \in 1 .. n /\ Len(table) \in Nat
           /\ killed \subseteq killed'
           /\ \/ UNCHANGED <<table, fds>> /\ cmd # "reset"
              \/ /\ i \in 1 .. Len(table) /\ table[i] \in Entry
                 /\ table' = RemoveClient(table[i].pid)
                 /\ fds' = [fds EXCEPT ![table[i].sock] = NoOne]
                 /\ \/ table[i].pid \notin AliveChildren
                    \/ cmd = "reset" /\ table[i].pid \in killed'
<1>1. LoopInv /\ TableShape /\ ParentShape
  BY DEF IInv, Shape
<1>2. /\ UNCHANGED <<ppc, cmd, n, cur, mutex, cpc, sock, lpc>>
      /\ ppc = "admin_loop" /\ i \in 1 .. n
  BY DEF PAdminStep, ParentRuns, childVars
<1>3. Len(table) \in Nat /\ i \in Int /\ n \in Nat
  BY <1>1 DEF TableShape, ParentShape
<1> DEFINE pid == PidAt(i)
           hit == IF pid = NoOne THEN Alive \cup {"parent"} ELSE {pid} \cap Alive
<1>4. /\ Send(hit)
      /\ IF hit = {} \/ cmd = "reset"
         THEN fds' = [fds EXCEPT ![table[i].sock] = NoOne] /\ table' = RemoveClient(pid)
         ELSE UNCHANGED <<fds, table>>
  BY DEF PAdminStep
<1>5. killed \subseteq killed' /\ (cmd = "reset" => hit \ {"parent"} \subseteq killed')
  BY <1>4 DEF Send
<1>6. CASE hit = {} \/ cmd = "reset"
  <2>1. i \in 1 .. Len(table)
    <3>1. CASE cmd = "reset"
      BY <1>1, <1>2, <1>3, <3>1 DEF LoopInv
    <3>2. CASE cmd # "reset"
      <4>1. pid # NoOne
        BY <1>6, <3>2
      <4> QED
        BY <1>2, <1>3, <4>1 DEF PidAt
    <3> QED
      BY <3>1, <3>2
  <2>2. table[i] \in Entry
    BY <1>1, <2>1 DEF TableShape
  <2>3. pid = table[i].pid /\ pid \in Clients
    BY <1>3, <2>1, <2>2 DEF PidAt, Entry
  <2>4. hit = {pid} \cap Alive /\ pid # "parent"
    BY <2>3, HttpAssumption
  <2>5. pid \notin AliveChildren \/ (cmd = "reset" /\ pid \in killed')
    BY <1>5, <1>6, <2>4 DEF Alive
  <2> HIDE DEF pid, hit
  <2> QED
    BY <1>2, <1>3, <1>4, <1>5, <1>6, <2>1, <2>2, <2>3, <2>5
<1>7. CASE ~ (hit = {} \/ cmd = "reset")
  BY <1>2, <1>3, <1>4, <1>5, <1>7
<1> QED
  BY <1>6, <1>7

(* Registration holds: a child enters the table once, and stays until it   *)
(* leaves, dies or is told to end.                                         *)
LEMMA TableStep ==
    ASSUME IInv, [Next]_vars
    PROVE  TableInv'
<1>1. TableInv /\ TableShape /\ ChildShape /\ NewInv /\ RegisteredIsInTable
  BY DEF IInv, Shape, TableInv
<1>2. table \in Seq(Entry) /\ Len(table) \in Nat /\ \A k \in 1 .. Len(table) : table[k] \in Entry
  BY <1>1 DEF TableShape
<1>3. ASSUME UNCHANGED table,
             \A c \in Clients : cpc'[c] \in Registered /\ c \notin killed' =>
                                  cpc[c] \in Registered /\ c \notin killed,
             \A c \in Clients : cpc'[c] \in {"none", "wait_add", "add"} =>
                                  cpc[c] \in {"none", "wait_add", "add"}
      PROVE  TableInv'
  <2>1. RegisteredIsInTable'
    BY <1>1, <1>3 DEF RegisteredIsInTable, InTable
  <2>2. \A k \in 1 .. Len(table) : table[k].pid \in Clients
    BY <1>2 DEF Entry
  <2> QED
    BY <1>1, <1>3, <2>1, <2>2 DEF TableInv
<1>4. CASE PSelect \/ PAcceptAdmin \/ PAdminRead \/ PAnswer \/ PAcceptWait \/ PRefuse \/ PAccept \/ PAcceptFails \/ PAdminDone \/ PExit
           \/ PBrokenPipe \/ Interrupt \/ Logger \/ Admin \/ UNCHANGED vars
           \/ \E c \in Clients : Connect(c) \/ GoAway(c)
  <2>1. UNCHANGED <<table, cpc, killed>>
    BY <1>4 DEF PSelect, PAcceptAdmin, PAdminRead, PAnswer, PAcceptWait, PRefuse, PAccept, PAcceptFails, PAdminDone, PExit,
                PBrokenPipe, Interrupt, Logger, Admin, Connect, GoAway, childVars, vars
  <2> QED
    BY <1>3, <2>1
<1>5. CASE PFork
  <2>1. cur \in Clients /\ cpc[cur] = "none"
    BY <1>1, <1>5 DEF PFork, ParentRuns, NewInv, Forking
  <2>2. UNCHANGED <<table, killed>> /\ cpc' = [cpc EXCEPT ![cur] = "wait_add"]
    BY <1>5 DEF PFork
  <2> QED
    BY <1>1, <1>3, <2>1, <2>2 DEF ChildShape, Registered
<1>6. CASE PAdminWait
  <2>1. UNCHANGED <<table, cpc>> /\ killed \subseteq killed'
    BY <1>6 DEF PAdminWait, Send, childVars
  <2> QED
    BY <1>3, <2>1
<1>7. CASE PAdminStep
  <2>1. CASE UNCHANGED table
    BY <1>3, <1>7, <2>1, AdminTurn
  <2>2. CASE ~ UNCHANGED table
    <3> DEFINE p == table[i].pid
    <3>1. /\ i \in 1 .. Len(table) /\ table' = RemoveClient(p) /\ cpc' = cpc
          /\ killed \subseteq killed'
          /\ p \notin AliveChildren \/ p \in killed'
      BY <1>7, <2>2, AdminTurn
    <3> HIDE DEF p
    <3>2. ASSUME NEW c \in Clients, cpc'[c] \in Registered, c \notin killed'
          PROVE  InTable(c)'
      <4>1. PICK k \in 1 .. Len(table) : table[k].pid = c
        BY <1>1, <3>1, <3>2 DEF RegisteredIsInTable, InTable
      <4>2. c # p
        BY <3>1, <3>2 DEF AliveChildren, Registered, Ended
      <4>3. \E j \in 1 .. Len(table') : table'[j] = table[k]
        BY <1>1, <1>2, <3>1, <4>1, <4>2, RemoveFacts
      <4> QED
        BY <4>1, <4>3 DEF InTable
    <3>3. \A j, k \in 1 .. Len(table') : table'[j].pid = table'[k].pid => j = k
      BY <1>1, <1>2, <3>1, RemoveFacts
    <3>4. ASSUME NEW k \in 1 .. Len(table')
          PROVE  cpc'[table'[k].pid] \notin {"none", "wait_add", "add"}
      BY <1>1, <1>2, <3>1, RemovedEntries DEF TableInv
    <3> QED
      BY <3>2, <3>3, <3>4 DEF TableInv, RegisteredIsInTable
  <2> QED
    BY <2>1, <2>2
<1>8. ASSUME NEW c \in Clients, Child(c) \/ Kill9(c) PROVE TableInv'
  <2>1. /\ \A d \in Clients : d # c => cpc'[d] = cpc[d]
        /\ cpc'[c] \in {"none", "wait_add", "add"} => cpc[c] = "wait_add"
        /\ cpc'[c] \in Registered => CAdd(c) \/ cpc[c] \in Registered
    BY <1>1, <1>8, ChildMoves DEF ChildShape, Places, Ended, Waits, Registered
  <2>2. CASE UNCHANGED table /\ ~ CAdd(c)
    <3>1. \A d \in Clients : d \in killed /\ d \notin killed' => d = c /\ cpc'[d] \in Ended
      BY <1>1, <1>8 DEF Child, CWait, CWaitFails, CAdd, CRead, CIn, COut, CCount, CWrite, CLeave,
                        CDies, Kill9, Goto, ChildShape, Ended
    <3> QED
      BY <1>3, <2>1, <2>2, <3>1 DEF Registered, Ended
  <2>3. CASE CAdd(c)
    <3>1. cpc[c] = "add" /\ killed' = killed
      BY <2>3 DEF CAdd, ChildRuns
    <3>2. CASE Len(table) < MaxClients
      <4> DEFINE e == [pid |-> c, sock |-> sock[c]]
      <4>1. table' = Append(table, e) /\ cpc'[c] \in {"read", "dead"}
        BY <1>1, <2>3, <3>2 DEF CAdd, AddClient, SignalThen, Goto, ChildShape
      <4>2. /\ Len(table') = Len(table) + 1
            /\ \A k \in 1 .. Len(table) : table'[k] = table[k]
            /\ table'[Len(table) + 1] = e
        <5> HIDE DEF e
        <5> QED
          BY <1>2, <4>1
      <4>3. e.pid = c
        OBVIOUS
      <4>4. \A k \in 1 .. Len(table) : table[k].pid \in Clients /\ table[k].pid # c
        BY <1>1, <1>2, <3>1 DEF TableInv, Entry
      <4> HIDE DEF e
      <4>5. \A d \in Clients : cpc'[d] \in Registered /\ d \notin killed' => InTable(d)'
        BY <1>1, <1>2, <2>1, <3>1, <4>2, <4>3 DEF RegisteredIsInTable, InTable
      <4>6. \A j, k \in 1 .. Len(table') : table'[j].pid = table'[k].pid => j = k
        BY <1>1, <1>2, <4>2, <4>3, <4>4 DEF RegisteredIsInTable
      <4>7. \A k \in 1 .. Len(table') : cpc'[table'[k].pid] \notin {"none", "wait_add", "add"}
        BY <1>1, <1>2, <2>1, <4>1, <4>2, <4>3, <4>4 DEF TableInv
      <4> QED
        BY <4>5, <4>6, <4>7 DEF TableInv, RegisteredIsInTable
    <3>3. CASE ~ (Len(table) < MaxClients)
      <4>1. UNCHANGED table /\ cpc'[c] \in Ended
        BY <1>1, <2>3, <3>3 DEF CAdd, SignalThen, Goto, ChildShape, Ended
      <4> QED
        BY <1>3, <2>1, <3>1, <4>1 DEF Registered, Ended
    <3> QED
      BY <3>2, <3>3
  <2>4. CASE CLeave(c)
    <3>1. table' = RemoveClient(c) /\ killed' = killed /\ cpc'[c] = "dead"
      BY <1>1, <2>4 DEF CLeave, SignalThen, Goto, ChildShape
    <3>2. ASSUME NEW d \in Clients, cpc'[d] \in Registered, d \notin killed'
          PROVE  InTable(d)'
      <4>1. d # c /\ cpc[d] \in Registered
        BY <2>1, <3>1, <3>2 DEF Registered
      <4>2. PICK k \in 1 .. Len(table) : table[k].pid = d
        BY <1>1, <3>1, <3>2, <4>1 DEF RegisteredIsInTable, InTable
      <4>3. \E j \in 1 .. Len(table') : table'[j] = table[k]
        BY <1>1, <1>2, <3>1, <4>1, <4>2, RemoveFacts
      <4> QED
        BY <4>2, <4>3 DEF InTable
    <3>3. \A j, k \in 1 .. Len(table') : table'[j].pid = table'[k].pid => j = k
      BY <1>1, <1>2, <3>1, RemoveFacts
    <3>4. ASSUME NEW k \in 1 .. Len(table')
          PROVE  cpc'[table'[k].pid] \notin {"none", "wait_add", "add"}
      <4>1. \E j \in 1 .. Len(table) : table'[k] = table[j] /\ table[j].pid # c
        BY <1>1, <1>2, <3>1, RemovedEntries
      <4> QED
        BY <1>1, <1>2, <2>1, <4>1 DEF TableInv, Entry
    <3> QED
      BY <3>2, <3>3, <3>4 DEF TableInv, RegisteredIsInTable
  <2>5. UNCHANGED table \/ CAdd(c) \/ CLeave(c)
    BY <1>8 DEF Child, CWait, CWaitFails, CAdd, CRead, CIn, COut, CCount, CWrite, CLeave, CDies,
                Kill9
  <2> QED
    BY <2>2, <2>3, <2>4, <2>5
<1> QED
  BY <1>4, <1>5, <1>6, <1>7, <1>8 DEF Next, Parent

-----------------------------------------------------------------------------
(* Sockets stay with their connections: a number is used again only once   *)
(* its entry is gone.                                                      *)
LEMMA SocketStep ==
    ASSUME IInv, [Next]_vars
    PROVE  SocketInv'
<1>1. /\ SocketInv /\ TableInv /\ RegisteredIsInTable
      /\ TableShape /\ ChildShape /\ ClientShape /\ ParentShape /\ NewInv
  BY DEF IInv, Shape, TableInv
<1>2. table \in Seq(Entry) /\ Len(table) \in Nat /\ \A k \in 1 .. Len(table) : table[k] \in Entry
  BY <1>1 DEF TableShape
<1>3. ASSUME UNCHANGED <<table, fds, sock>>, ppc = "exited" => ppc' = "exited",
             \A c \in Clients : Unregistered(c)' => Unregistered(c)
      PROVE  SocketInv'
  BY <1>1, <1>3 DEF SocketInv, SocketsBelong
<1>4. CASE PSelect \/ PAcceptAdmin \/ PAdminRead \/ PAnswer \/ PAcceptWait \/ PRefuse \/ PAcceptFails \/ PAdminWait \/ PAdminDone
           \/ Interrupt \/ Logger \/ Admin \/ UNCHANGED vars
           \/ \E c \in Clients : Connect(c) \/ GoAway(c)
  <2>1. UNCHANGED <<table, fds, sock, cpc>> /\ (ppc = "exited" => ppc' = "exited")
    BY <1>4 DEF PSelect, PAcceptAdmin, PAdminRead, PAnswer, PAcceptWait, PRefuse, PAcceptFails, PAdminWait, PAdminDone, Interrupt,
                Logger, Admin, Connect, GoAway, ParentRuns, childVars, parentVars, vars
  <2>2. ppc' = "fork" => UNCHANGED <<ppc, cur>>
    BY <1>4 DEF PSelect, PAcceptAdmin, PAdminRead, PAnswer, PAcceptWait, PRefuse, PAcceptFails, PAdminWait, PAdminDone, Interrupt,
                Logger, Admin, Connect, GoAway, ParentRuns, parentVars, vars
  <2> QED
    BY <1>3, <2>1, <2>2 DEF Unregistered, Forking
<1>5. CASE PAccept
  <2> DEFINE c == Head(backlog)
  <2>1. backlog # << >>
    BY <1>1, <1>5 DEF PAccept, ParentRuns, NewInv
  <2>2. c \in Clients
    BY <1>1, <2>1, HeadTailProperties DEF ClientShape
  <2>3. PICK s \in FreeSockets : fds' = [fds EXCEPT ![s] = c] /\ sock' = [sock EXCEPT ![c] = s]
    BY <1>5 DEF PAccept
  <2>4. s \in Sockets /\ fds[s] = NoOne
    BY DEF FreeSockets
  <2>5. /\ UNCHANGED <<table, cpc>> /\ ppc = "accept"
        /\ ppc' = "fork" /\ cur' = c
    BY <1>5 DEF PAccept, ParentRuns
  <2> HIDE DEF c
  <2>6. \A d \in Clients : d # NoOne
    BY HttpAssumption
  <2>7. ASSUME NEW k \in 1 .. Len(table)
        PROVE  fds'[table[k].sock] = table[k].pid
    <3>1. table[k].sock \in Sockets /\ table[k].pid \in Clients
      BY <1>2 DEF Entry
    <3>2. fds[table[k].sock] = table[k].pid
      BY <1>1, <2>5 DEF SocketInv, SocketsBelong
    <3> QED
      BY <1>1, <2>3, <2>4, <2>6, <3>1, <3>2 DEF ParentShape
  <2>8. ASSUME NEW d \in Clients, Unregistered(d)'
        PROVE  sock'[d] \in Sockets /\ fds'[sock'[d]] = d
    <3>1. CASE d = c
      BY <1>1, <2>2, <2>3, <2>4, <3>1 DEF ParentShape, ChildShape
    <3>2. CASE d # c
      <4>1. Unregistered(d)
        BY <2>5, <2>8, <3>2 DEF Unregistered, Forking
      <4>2. sock[d] \in Sockets /\ fds[sock[d]] = d
        BY <1>1, <2>5, <4>1 DEF SocketInv
      <4>3. sock'[d] = sock[d] /\ sock[d] # s
        BY <1>1, <2>3, <2>4, <2>6, <3>2, <4>2 DEF ChildShape
      <4> QED
        BY <1>1, <2>3, <4>2, <4>3 DEF ParentShape
    <3> QED
      BY <3>1, <3>2
  <2> QED
    BY <2>5, <2>7, <2>8 DEF SocketInv, SocketsBelong
<1>6. CASE PFork
  <2>1. /\ cur \in Clients /\ ppc = "fork" /\ ppc' = "select"
        /\ UNCHANGED <<table, fds, sock>> /\ cpc' = [cpc EXCEPT ![cur] = "wait_add"]
    BY <1>1, <1>6 DEF PFork, ParentRuns, NewInv
  <2> QED
    BY <1>1, <1>3, <2>1 DEF Unregistered, Forking, ChildShape
<1>7. CASE PAdminStep
  <2>1. /\ UNCHANGED <<ppc, cur, cpc, sock>> /\ ppc = "admin_loop"
    BY <1>7, AdminTurn
  <2>2. CASE UNCHANGED <<table, fds>>
    BY <1>3, <2>1, <2>2 DEF Unregistered, Forking
  <2>3. CASE ~ UNCHANGED <<table, fds>>
    <3> DEFINE p == table[i].pid
    <3>1. /\ i \in 1 .. Len(table) /\ table[i] \in Entry /\ table' = RemoveClient(p)
          /\ fds' = [fds EXCEPT ![table[i].sock] = NoOne]
      BY <1>7, <2>3, AdminTurn
    <3>2. fds[table[i].sock] = p /\ p \in Clients /\ cpc[p] \notin {"wait_add", "add"}
      BY <1>1, <2>1, <3>1 DEF SocketInv, SocketsBelong, TableInv, Entry
    <3> HIDE DEF p
    <3>3. ASSUME NEW k \in 1 .. Len(table')
          PROVE  fds'[table'[k].sock] = table'[k].pid
      <4>1. PICK j \in 1 .. Len(table) : table'[k] = table[j] /\ table[j].pid # p
        BY <1>1, <1>2, <3>1, RemovedEntries
      <4>2. fds[table[j].sock] = table[j].pid /\ table[j].sock \in Sockets
        BY <1>1, <1>2, <2>1 DEF SocketInv, SocketsBelong, Entry
      <4>3. table[j].sock # table[i].sock
        BY <3>2, <4>1, <4>2
      <4> QED
        BY <1>1, <3>1, <4>1, <4>2, <4>3 DEF ParentShape
    <3>4. ASSUME NEW d \in Clients, Unregistered(d)'
          PROVE  sock'[d] \in Sockets /\ fds'[sock'[d]] = d
      <4>1. Unregistered(d) /\ d # p
        BY <2>1, <3>2, <3>4 DEF Unregistered, Forking
      <4>2. sock[d] \in Sockets /\ fds[sock[d]] = d
        BY <1>1, <2>1, <4>1 DEF SocketInv
      <4> QED
        BY <1>1, <2>1, <3>1, <3>2, <4>1, <4>2 DEF ParentShape
    <3> QED
      BY <3>3, <3>4 DEF SocketInv, SocketsBelong
  <2> QED
    BY <2>2, <2>3
<1>8. CASE PExit \/ PBrokenPipe
  <2>1. ppc' = "exited" /\ UNCHANGED <<cpc, sock>>
    BY <1>8 DEF PExit, PBrokenPipe, childVars
  <2> QED
    BY <1>1, <2>1 DEF SocketInv, SocketsBelong, Unregistered, Forking
<1>9. ASSUME NEW c \in Clients, Child(c) \/ Kill9(c) PROVE SocketInv'
  <2>1. UNCHANGED <<ppc, cur, fds, sock>>
    BY <1>9 DEF Child, CWait, CWaitFails, CAdd, CRead, CIn, COut, CCount, CWrite, CLeave, CDies,
                Kill9, parentVars
  <2>2. ASSUME NEW d \in Clients, Unregistered(d)' PROVE Unregistered(d)
    BY <1>1, <1>9, <2>1, <2>2, ChildMoves DEF Unregistered, Forking
  <2>3. CASE UNCHANGED table
    BY <1>3, <2>1, <2>2, <2>3
  <2>4. CASE CAdd(c) /\ Len(table) < MaxClients
    <3> DEFINE e == [pid |-> c, sock |-> sock[c]]
    <3>1. table' = Append(table, e) /\ cpc[c] = "add"
      BY <2>4 DEF CAdd, AddClient, ChildRuns
    <3>2. e.pid = c /\ e.sock = sock[c]
      OBVIOUS
    <3>3. ppc # "exited" => fds[sock[c]] = c
      BY <1>1, <3>1 DEF SocketInv, Unregistered
    <3> HIDE DEF e
    <3>4. /\ Len(table') = Len(table) + 1
          /\ \A k \in 1 .. Len(table) : table'[k] = table[k]
          /\ table'[Len(table) + 1] = e
      BY <1>2, <3>1
    <3>5. SocketsBelong'
      BY <1>1, <1>2, <2>1, <3>2, <3>3, <3>4 DEF SocketInv, SocketsBelong
    <3> QED
      BY <1>1, <2>1, <2>2, <3>5 DEF SocketInv
  <2>5. CASE CLeave(c)
    <3>1. table' = RemoveClient(c)
      BY <2>5 DEF CLeave
    <3>2. \A k \in 1 .. Len(table') : \E j \in 1 .. Len(table) : table'[k] = table[j]
      BY <1>1, <1>2, <3>1, RemovedEntries
    <3>3. SocketsBelong'
      BY <1>1, <2>1, <3>2 DEF SocketInv, SocketsBelong
    <3> QED
      BY <1>1, <2>1, <2>2, <3>3 DEF SocketInv
  <2>6. UNCHANGED table \/ (CAdd(c) /\ Len(table) < MaxClients) \/ CLeave(c)
    BY <1>9 DEF Child, CWait, CWaitFails, CAdd, CRead, CIn, COut, CCount, CWrite, CLeave, CDies,
                Kill9
  <2> QED
    BY <2>3, <2>4, <2>5, <2>6
<1> QED
  BY <1>4, <1>5, <1>6, <1>7, <1>8, <1>9 DEF Next, Parent

-----------------------------------------------------------------------------
(* A command reaches whom it is sent to, and nobody escapes it again.      *)
LEMMA SendReaches ==
    ASSUME NEW S \in SUBSET (Clients \cup {"logger", "parent"}), Send(S),
           cmd \in {"suspend", "resume", "reset", "halt"}, cmd' = cmd
    PROVE  /\ S \ {"parent"} \subseteq Reached'
           /\ Reached \subseteq Reached'
<1>1. CASE cmd = "suspend"
  BY <1>1 DEF Send, Reached
<1>2. CASE cmd = "resume"
  BY <1>2 DEF Send, Reached
<1>3. CASE cmd \in {"reset", "halt"}
  BY <1>3 DEF Send, Reached
<1> QED
  BY <1>1, <1>2, <1>3

(* While the loop runs, a child that it has passed was reached, or a turn  *)
(* that finds no pid, and reaches everyone, is still to come.              *)
LEMMA LoopStep ==
    ASSUME IInv, [Next]_vars
    PROVE  LoopInv'
<1>1. /\ LoopInv /\ MutexInv /\ TableInv /\ RegisteredIsInTable
      /\ TableShape /\ ChildShape /\ ParentShape
  BY DEF IInv, Shape, TableInv
<1>2. table \in Seq(Entry) /\ Len(table) \in Nat /\ \A k \in 1 .. Len(table) : table[k] \in Entry
  BY <1>1 DEF TableShape
<1>3. cmd \in {"none", "unknown", "suspend", "resume", "reset", "halt"} /\ i \in Int /\ n \in Nat
  BY <1>1, HttpAssumption DEF ParentShape
<1>4. CASE PSelect \/ PAcceptAdmin \/ PAdminRead \/ PAnswer \/ PAcceptWait \/ PRefuse \/ PAccept \/ PAcceptFails \/ PFork \/ PAdminDone
           \/ PExit \/ PBrokenPipe \/ Interrupt
  <2>1. ppc' # "admin_loop" /\ (ppc' = "admin_wait" => cmd' \notin {"none", "unknown"})
    BY <1>4, HttpAssumption DEF PSelect, PAcceptAdmin, PAdminRead, PAnswer, PAcceptWait, PRefuse, PAccept, PAcceptFails, PFork,
                                PAdminDone, PExit, PBrokenPipe, Interrupt
  <2> QED
    BY <2>1 DEF LoopInv
<1>5. CASE PAdminWait
  <2>1. /\ ppc = "admin_wait" /\ cmd' = cmd /\ cmd \notin {"none", "unknown"}
        /\ UNCHANGED <<table, lpc, cpc>> /\ n' = Len(table)
        /\ i' = IF cmd = "reset" THEN Len(table) ELSE 1
        /\ Send(IF cmd = "reset" THEN {} ELSE Alive \cap {"logger"})
    BY <1>1, <1>5 DEF PAdminWait, ParentRuns, LoopInv, childVars
  <2>2. ASSUME cmd # "reset", lpc' # "dead" PROVE "logger" \in Reached'
    <3>1. "logger" \in Alive
      BY <2>1, <2>2 DEF Alive
    <3>2. Send(Alive \cap {"logger"}) /\ "logger" \in (Alive \cap {"logger"}) \ {"parent"}
      BY <2>1, <2>2, <3>1
    <3>3. cmd \in {"suspend", "resume", "reset", "halt"}
      BY <1>3, <2>1
    <3> QED
      BY <2>1, <3>2, <3>3, SendReaches
  <2> QED
    BY <1>2, <2>1, <2>2 DEF LoopInv
<1>6. CASE PAdminStep
  <2>1. /\ UNCHANGED <<ppc, cmd, n, cpc, lpc>> /\ ppc = "admin_loop" /\ i \in 1 .. n
    BY <1>6, AdminTurn
  <2>2. cmd \notin {"none", "unknown"} /\ Len(table) <= n /\ (cmd = "reset" => i = Len(table))
    BY <1>1, <2>1 DEF LoopInv
  <2>3. i' = IF cmd = "reset" THEN i - 1 ELSE i + 1
    BY <1>6 DEF PAdminStep
  <2>4. CASE cmd = "reset"
    <3>1. i \in 1 .. Len(table) /\ table' = RemoveClient(table[i].pid)
      BY <1>6, <2>4, AdminTurn
    <3>2. Len(table') = Len(table) - 1
      BY <1>1, <1>2, <3>1, RemoveFacts DEF InTable
    <3> QED
      BY <1>2, <1>3, <2>1, <2>2, <2>3, <2>4, <3>2 DEF LoopInv
  <2>5. CASE cmd # "reset"
    <3> DEFINE pid == PidAt(i)
               hit == IF pid = NoOne THEN Alive \cup {"parent"} ELSE {pid} \cap Alive
    <3>1. Send(hit) /\ IF hit = {} THEN table' = RemoveClient(pid) ELSE table' = table
      BY <1>6, <2>5 DEF PAdminStep
    <3>2. cmd \in {"suspend", "resume", "reset", "halt"}
      BY <1>3, <2>2
    <3>3. /\ \A p \in hit \ {"parent"} : p \in Reached'
          /\ \A p : p \in Reached => p \in Reached'
      <4>1. hit \in SUBSET (Clients \cup {"logger", "parent"})
        BY DEF Alive, AliveChildren
      <4> HIDE DEF hit
      <4> QED
        BY <2>1, <3>1, <3>2, <4>1, SendReaches
    <3>4. lpc' # "dead" => "logger" \in Reached'
      BY <1>1, <2>1, <2>5, <3>3 DEF LoopInv
    <3>5. \A k \in 1 .. Len(table) :
            table[k].pid \in AliveChildren => table[k].pid \in Reached \/ k >= i \/ Sweeps
      BY <1>1, <2>1, <2>5 DEF LoopInv
    <3>6. \A k \in 1 .. Len(table) : table[k].pid \in Clients /\ table[k].pid \notin {NoOne, "parent"}
      BY <1>2, HttpAssumption DEF Entry
    <3>7. AliveChildren' = AliveChildren /\ AliveChildren \subseteq Alive
      BY <2>1 DEF AliveChildren, Alive
    <3>8. /\ Len(table') <= n
          /\ \A k \in 1 .. Len(table') :
                table'[k].pid \in AliveChildren' =>
                  table'[k].pid \in Reached' \/ k >= i' \/ Sweeps'
      <4>1. CASE i > Len(table)
        <5>1. pid = NoOne
          BY <1>2, <1>3, <4>1 DEF PidAt
        <5>2. hit = Alive \cup {"parent"} /\ table' = table
          BY <3>1, <5>1
        <5> HIDE DEF hit, pid
        <5> QED
          BY <2>2, <3>3, <3>6, <3>7, <5>2
      <4>2. CASE i <= Len(table)
        <5>1. i \in 1 .. Len(table)
          BY <1>2, <1>3, <2>1, <4>2
        <5>2. pid = table[i].pid /\ hit = {pid} \cap Alive
          BY <1>2, <1>3, <3>6, <5>1 DEF PidAt
        <5>3. CASE hit # {}
          <6>1. hit = {pid} /\ table' = table /\ pid \in Reached'
            BY <3>1, <3>3, <3>6, <5>1, <5>2, <5>3
          <6> HIDE DEF hit, pid
          <6>2. ASSUME NEW k \in 1 .. Len(table), table[k].pid \in AliveChildren
                PROVE  table[k].pid \in Reached' \/ k >= i' \/ Sweeps'
            <7>1. CASE table[k].pid \in Reached
              BY <3>3, <7>1
            <7>2. CASE k = i
              BY <5>2, <6>1, <7>2
            <7>3. CASE k >= i /\ k # i
              BY <1>3, <2>3, <2>5, <7>3
            <7>4. CASE Sweeps
              BY <1>2, <1>3, <2>1, <2>3, <2>5, <4>2, <6>1, <7>4 DEF Sweeps
            <7> QED
              BY <3>5, <6>2, <7>1, <7>2, <7>3, <7>4
          <6> QED
            BY <2>2, <3>7, <6>1, <6>2
        <5>4. CASE hit = {}
          <6>1. table' = RemoveClient(pid) /\ InTable(pid)
            BY <3>1, <5>1, <5>2, <5>4 DEF InTable
          <6> HIDE DEF hit, pid
          <6>2. /\ Len(table') = Len(table) - 1
                /\ \A k \in 1 .. Len(table') :
                      table'[k] = table[k] \/ table[k].pid = pid
            BY <1>1, <1>2, <6>1, RemoveFacts
          <6>3. CASE i < n
            <7>1. Sweeps'
              BY <1>2, <1>3, <2>1, <2>2, <2>3, <2>5, <6>2, <6>3 DEF Sweeps
            <7> QED
              BY <1>2, <1>3, <2>2, <6>2, <7>1
          <6>4. CASE i = n
            <7>1. i = Len(table)
              BY <1>2, <1>3, <2>2, <4>2, <6>4
            <7>2. ASSUME NEW k \in 1 .. Len(table'), table'[k].pid \in AliveChildren
                  PROVE  table'[k].pid \in Reached'
              <8>1. k \in 1 .. Len(table) /\ k < i
                BY <1>2, <6>2, <7>1
              <8>2. table'[k] = table[k]
                BY <1>1, <5>1, <5>2, <6>2, <8>1 DEF RegisteredIsInTable
              <8>3. ~ Sweeps
                BY <1>2, <1>3, <6>4, <7>1 DEF Sweeps
              <8>4. table[k].pid \in Reached
                BY <1>3, <3>5, <7>2, <8>1, <8>2, <8>3
              <8> QED
                BY <3>3, <8>2, <8>4
            <7> QED
              BY <1>2, <1>3, <2>2, <3>7, <6>2, <7>2
          <6> QED
            BY <1>3, <2>1, <6>3, <6>4
        <5> QED
          BY <5>3, <5>4
      <4> QED
        BY <1>2, <1>3, <4>1, <4>2
    <3>9. i' >= 1
      BY <1>3, <2>1, <2>3, <2>5
    <3> QED
      BY <2>1, <2>2, <2>5, <3>4, <3>8, <3>9 DEF LoopInv
  <2> QED
    BY <2>4, <2>5
<1>7. CASE Logger \/ Admin
  <2>1. /\ UNCHANGED <<ppc, cmd, i, n, table, cpc, stopped, killed>>
        /\ lpc' # "dead" => lpc # "dead"
    BY <1>7 DEF Logger, LSleep, LWait, LStats, LWaitFails, LDies, LoggerRuns, Admin, parentVars,
                childVars
  <2> QED
    BY <1>1, <2>1 DEF LoopInv, Reached, Sweeps, AliveChildren
<1>8. ASSUME NEW c \in Clients, Connect(c) \/ GoAway(c) PROVE LoopInv'
  BY <1>1, <1>8 DEF Connect, GoAway, LoopInv, Reached, Sweeps, AliveChildren, parentVars,
                    childVars
<1>9. ASSUME NEW c \in Clients, Child(c) \/ Kill9(c) PROVE LoopInv'
  <2>1. UNCHANGED <<ppc, cmd, i, n, lpc>>
    BY <1>9 DEF Child, CWait, CWaitFails, CAdd, CRead, CIn, COut, CCount, CWrite, CLeave, CDies,
                Kill9, parentVars
  <2>2. CASE ppc = "admin_loop"
    <3>1. UNCHANGED table
      <4>1. cpc[c] \notin Critical
        BY <1>1, <2>2, HttpAssumption DEF MutexInv
      <4> QED
        BY <1>9, <4>1 DEF Child, CWait, CWaitFails, CAdd, CRead, CIn, COut, CCount, CWrite, CLeave,
                          CDies, Kill9, ChildRuns, Critical
    <3>2. /\ \A p \in AliveChildren' : p \in AliveChildren
          /\ \A p \in AliveChildren' \cup {"logger"} : p \in Reached => p \in Reached'
      <4>1. \A d \in Clients : d \in AliveChildren' => d \in AliveChildren
        BY <1>1, <1>9, ChildMoves DEF AliveChildren
      <4>2. /\ \A p : p # c => (p \in stopped' <=> p \in stopped) /\ (p \in killed' <=> p \in killed)
            /\ UNCHANGED <<stopped, killed>> \/ c \notin AliveChildren'
        BY <1>1, <1>9 DEF Child, CWait, CWaitFails, CAdd, CRead, CIn, COut, CCount, CWrite, CLeave,
                          CDies, Kill9, Goto, AliveChildren, Ended, ChildShape
      <4>3. c # "logger"
        BY HttpAssumption
      <4> QED
        BY <2>1, <4>1, <4>2, <4>3 DEF Reached, AliveChildren
    <3>3. Sweeps' = Sweeps
      BY <2>1, <3>1 DEF Sweeps
    <3> QED
      BY <1>1, <2>1, <2>2, <3>1, <3>2, <3>3 DEF LoopInv
  <2>3. CASE ppc # "admin_loop"
    BY <1>1, <2>1, <2>3 DEF LoopInv
  <2> QED
    BY <2>2, <2>3
<1>10. CASE UNCHANGED vars
  BY <1>1, <1>10 DEF LoopInv, Reached, Sweeps, AliveChildren, vars, parentVars, childVars
<1> QED
  BY <1>4, <1>5, <1>6, <1>7, <1>8, <1>9, <1>10 DEF Next, Parent

-----------------------------------------------------------------------------
(* The strengthening holds at first, before anyone has connected. *)
LEMMA InitIInv == Init => IInv
<1> SUFFICES ASSUME Init PROVE IInv
  OBVIOUS
<1>1. Shape
  <2>1. ClientShape
    BY EmptySeq DEF Init, ClientShape
  <2>2. TableShape
    BY EmptySeq, HttpAssumption DEF Init, TableShape
  <2>3. ParentShape
    BY DEF Init, ParentShape
  <2>4. ChildShape
    BY DEF Init, ChildShape, Places
  <2>5. SharedShape
    BY DEF Init, SharedShape
  <2> QED
    BY <2>1, <2>2, <2>3, <2>4, <2>5 DEF Shape
<1>2. MutexInv
  BY HttpAssumption DEF Init, MutexInv, Critical
<1>3. NewInv
  BY DEF Init, NewInv, Queued, Forking
<1>4. TableInv
  BY DEF Init, TableInv, RegisteredIsInTable, Registered
<1>5. SocketInv
  BY DEF Init, SocketInv, SocketsBelong, Unregistered, Forking
<1>6. LoopInv
  BY DEF Init, LoopInv
<1> QED
  BY <1>1, <1>2, <1>3, <1>4, <1>5, <1>6 DEF IInv

(* The strengthening holds in every reachable state. *)
LEMMA Strengthening == Spec => []IInv
<1>1. ASSUME IInv, [Next]_vars PROVE IInv'
  BY <1>1, ClientShapeStep, ParentShapeStep, TableShapeStep, ChildShapeStep, SharedShapeStep,
     MutexStep, NewStep, TableStep, SocketStep, LoopStep DEF IInv, Shape
<1> QED
  BY <1>1, InitIInv, PTL DEF Spec

(* Every variable keeps its shape, whoever runs, dies or is signalled: in  *)
(* particular the table never has more than max_clients entries, and its   *)
(* entries have a process and a socket (XServerMain.cc, XShM).             *)
THEOREM TypeCorrect == Spec => []TypeOK
<1>1. IInv => TypeOK
  BY ShapeTypes DEF IInv
<1> QED
  BY <1>1, Strengthening, PTL

(* A child that registered and was not told to end is in the table, once,  *)
(* until it removes itself: the assertions of AnswerRequest never fail     *)
(* (XServerMain.cc:318, 349).                                              *)
THEOREM RegistrationHolds == Spec => []RegisteredIsInTable
<1>1. IInv => RegisteredIsInTable
  BY DEF IInv, TableInv
<1> QED
  BY <1>1, Strengthening, PTL

(* What the administrator's commands close is the socket of the child      *)
(* whose entry they remove, although numbers are used again                *)
(* (XServerMain.cc:598).                                                   *)
THEOREM SocketsAreTheirs == Spec => []SocketsBelong
<1>1. IInv => SocketsBelong
  BY DEF IInv, SocketInv
<1> QED
  BY <1>1, Strengthening, PTL

(* A command has reached every child in the table and the logger when its  *)
(* loop is over, although it removes entries from the table it runs over,  *)
(* and a reset leaves the table empty (XServerMain.cc:532-606).            *)
THEOREM CommandsReach == Spec => []CommandReachesAll
<1>1. IInv => CommandReachesAll
  <2> SUFFICES ASSUME IInv, ppc = "admin_loop", i \notin 1 .. n
               PROVE  CommandReachesAll
    BY DEF CommandReachesAll
  <2>1. LoopInv /\ TableShape /\ ParentShape /\ ChildShape
    BY DEF IInv, Shape
  <2>2. /\ cmd \in {"suspend", "resume", "reset", "halt"} /\ i \in Int /\ n \in Nat
        /\ table \in Seq(Entry) /\ Len(table) \in Nat
    BY <2>1, HttpAssumption DEF LoopInv, ParentShape, TableShape
  <2>3. CASE cmd = "reset"
    <3>1. Len(table) = 0
      BY <2>1, <2>2, <2>3 DEF LoopInv
    <3>2. table = << >>
      BY <2>2, <3>1, EmptySeq
    <3> QED
      BY <2>3, <3>2 DEF CommandReachesAll
  <2>4. CASE cmd # "reset"
    <3>1. i > n /\ Len(table) <= n
      BY <2>1, <2>2, <2>4 DEF LoopInv
    <3>2. ASSUME NEW c \in AliveChildren, InTable(c) PROVE c \in Reached
      <4>1. PICK k \in 1 .. Len(table) : table[k].pid = c
        BY <3>2 DEF InTable
      <4>2. ~ Sweeps /\ ~ (k >= i)
        BY <2>2, <3>1, <4>1 DEF Sweeps
      <4> QED
        BY <2>1, <2>4, <4>1, <4>2 DEF LoopInv
    <3>3. "logger" \in Alive => "logger" \in Reached
      BY <2>1, <2>4, HttpAssumption DEF LoopInv, Alive, AliveChildren
    <3> QED
      BY <2>2, <2>4, <3>2, <3>3 DEF CommandReachesAll, Reached
  <2> QED
    BY <2>3, <2>4
<1> QED
  BY <1>1, Strengthening, PTL
=============================================================================
