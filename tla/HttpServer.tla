----------------------------- MODULE HttpServer ------------------------------
(***************************************************************************)
(* The processes of src/HTTPServer: the parent that accepts connections    *)
(* and obeys the administrator, one child for each connection, and the     *)
(* logger.  They share                                                     *)
(*   - a table of the children in shared memory (XShM),                    *)
(*   - one semaphore that guards it, with SEM_UNDO (XSemaphore),           *)
(*   - the sockets a child inherits when it is forked.                     *)
(* A connection and the child that serves it have one name.  A connection  *)
(* carries one request at most.                                            *)
(***************************************************************************)
EXTENDS Integers, Sequences, FiniteSets

CONSTANTS Clients,      \* connections, and the children forked for them
          MaxClients,   \* max_clients: the entries of the table
          MaxFd,        \* sockets the parent can have open for clients
          Commands,     \* what the administrator sends
          MaxCommands,  \* how often an administrator connects
          MaxKills,     \* how many children are killed with kill -9
          Interrupts,   \* whether SIGINT is sent to the parent at any time
          NoOne         \* not a process

ASSUME HttpAssumption ==
    /\ Clients \cap {NoOne, "parent", "logger", "removed"} = {}
    /\ NoOne \notin {"parent", "logger", "removed"}
    /\ MaxClients \in Nat \ {0} /\ MaxFd \in Nat \ {0}
    /\ MaxCommands \in Nat /\ MaxKills \in Nat
    /\ Commands \subseteq {"suspend", "resume", "reset", "halt"}
    /\ Interrupts \in BOOLEAN

VARIABLES peer,      \* the client's side of each connection
          backlog,   \* connections the kernel keeps for accept
          admin,     \* the administrator's side of its connection
          ppc,       \* where the parent is
          cmd, i, n, \* the command it carries out, its loop's i and nclients
          cur,       \* the connection it has accepted and forks for
          fds,       \* the parent's sockets: fds[s] is the connection of s
          table,     \* the entries of the table, [pid, sock]
          mutex,     \* who holds the semaphore; "removed" after IPC_RMID
          cpc,       \* where each child is
          sock,      \* the number of each child's socket
          inh,       \* the connections whose sockets it inherited
          lpc,       \* where the logger is
          stopped,   \* processes that SIGSTOP holds
          killed,    \* processes that SIGUSR1 or SIGUSR2 will end
          commands, kills

parentVars == <<ppc, cmd, i, n, cur>>
childVars == <<cpc, sock, inh>>
counters == <<commands, kills>>
vars == <<peer, backlog, admin, parentVars, fds, table, mutex, childVars, lpc, stopped, killed, counters>>

Sockets == 1 .. MaxFd
Ended == {"dead", "refused", "killed"}
AliveChildren == {c \in Clients : cpc[c] \notin Ended \cup {"none"}}
Alive == AliveChildren \cup (IF lpc = "dead" THEN {} ELSE {"logger"})

\* A connection is open as long as a process has a socket of it.
Open(c) == \/ \E k \in 1 .. Len(backlog) : backlog[k] = c
           \/ \E s \in Sockets : fds[s] = c
           \/ \E d \in AliveChildren : c \in inh[d]

-----------------------------------------------------------------------------
(* XShM: the table.  An entry past the last is all 0, so it has no pid.    *)

InTable(c) == \E k \in 1 .. Len(table) : table[k].pid = c

PidAt(k) == IF k <= Len(table) THEN table[k].pid ELSE NoOne

\* Mutant: the last entry is dropped, not moved into the hole.
RemoveClient_noMove(c) ==
    IF InTable(c) THEN SubSeq(table, 1, Len(table) - 1) ELSE table

\* Mutant: the entry is zeroed and the others stay where they are.
RemoveClient_hole(c) ==
    [k \in 1 .. Len(table) |-> IF table[k].pid = c THEN [pid |-> NoOne, sock |-> 0] ELSE table[k]]

\* The last entry moves into the hole that c's leaves.
RemoveClient(c) ==
    LET last == Len(table)
    IN  IF InTable(c)
        THEN [k \in 1 .. last - 1 |-> IF table[k].pid = c THEN table[last] ELSE table[k]]
        ELSE table

AddClient(c) == Append(table, [pid |-> c, sock |-> sock[c]])

\* The semaphore after the death of p, whose undo entry gives it back.
Undone(p) == IF mutex = p THEN NoOne ELSE mutex

-----------------------------------------------------------------------------
Init == /\ peer = [c \in Clients |-> "off"]
        /\ backlog = << >>
        /\ admin = "off"
        /\ ppc = "select" /\ cmd = "none" /\ i = 0 /\ n = 0 /\ cur = NoOne
        /\ fds = [s \in Sockets |-> NoOne]
        /\ table = << >>
        /\ mutex = NoOne
        /\ cpc = [c \in Clients |-> "none"]
        /\ sock = [c \in Clients |-> 0]
        /\ inh = [c \in Clients |-> {}]
        /\ lpc = "sleep"
        /\ stopped = {} /\ killed = {}
        /\ commands = 0 /\ kills = 0

-----------------------------------------------------------------------------
(* The client's side.  It connects and sends its request at once, and may  *)
(* go away at any time.                                                    *)

Connect(c) == /\ peer[c] = "off"
              /\ ppc # "exited"
              /\ peer' = [peer EXCEPT ![c] = "asking"]
              /\ backlog' = Append(backlog, c)
              /\ UNCHANGED <<admin, parentVars, fds, table, mutex, childVars, lpc, stopped,
                             killed, counters>>

GoAway(c) == /\ peer[c] \in {"asking", "waiting", "answered"}
             /\ peer' = [peer EXCEPT ![c] = IF @ = "asking" THEN "left asking" ELSE "left"]
             /\ UNCHANGED <<backlog, admin, parentVars, fds, table, mutex, childVars, lpc, stopped,
                            killed, counters>>

(* The administrator, terminal.c or telnet: one at a time.  It connects,   *)
(* sends a command or nothing, and may go away at any time.                *)

AdminConnect == /\ admin = "off" /\ ppc # "exited"
                /\ commands < MaxCommands
                /\ commands' = commands + 1
                /\ admin' = "silent"

AdminSend == admin = "silent" /\ admin' = "sent" /\ UNCHANGED commands

AdminGoAway == /\ admin \in {"silent", "sent"}
               /\ admin' = IF admin = "sent" THEN "left sent" ELSE "left"
               /\ UNCHANGED commands

Admin == /\ AdminConnect \/ AdminSend \/ AdminGoAway
         /\ UNCHANGED <<peer, backlog, parentVars, fds, table, mutex, childVars, lpc, stopped,
                        killed, kills>>

-----------------------------------------------------------------------------
(* The parent: Listen, AcceptClient, AcceptAdmin and what it calls.        *)

ParentRuns(at) == ppc = at /\ "parent" \notin stopped

PSelect == /\ ParentRuns("select")
           /\ \/ backlog # << >> /\ ppc' = "accept_wait"
              \/ admin # "off" /\ ppc' = "accept_admin"
           /\ UNCHANGED <<peer, backlog, admin, cmd, i, n, cur, fds, table, mutex, childVars,
                          lpc, stopped, killed, counters>>

PAcceptWait == /\ ParentRuns("accept_wait")
               /\ mutex = NoOne
               /\ mutex' = "parent"
               /\ ppc' = "accept"
               /\ UNCHANGED <<peer, backlog, admin, cmd, i, n, cur, fds, table, childVars, lpc,
                              stopped, killed, counters>>

FreeSockets == {s \in Sockets : fds[s] = NoOne}

\* Mutant: the early return of a full table keeps the mutex.
PRefuse_keeps == /\ ParentRuns("accept")
                 /\ FreeSockets # {}
                 /\ Len(table) >= MaxClients
                 /\ backlog' = Tail(backlog)
                 /\ ppc' = "select"
                 /\ UNCHANGED <<peer, admin, cmd, i, n, cur, fds, table, mutex, childVars, lpc,
                                stopped, killed, counters>>

(* The table is full: the connection is accepted and closed.               *)
PRefuse == /\ ParentRuns("accept")
           /\ FreeSockets # {}
           /\ Len(table) >= MaxClients
           /\ backlog' = Tail(backlog)
           /\ mutex' = NoOne
           /\ ppc' = "select"
           /\ UNCHANGED <<peer, admin, cmd, i, n, cur, fds, table, childVars, lpc, stopped,
                          killed, counters>>

PAccept == /\ ParentRuns("accept")
           /\ Len(table) < MaxClients
           /\ \E s \in FreeSockets :
                /\ \A f \in FreeSockets : s <= f
                /\ fds' = [fds EXCEPT ![s] = Head(backlog)]
                /\ sock' = [sock EXCEPT ![Head(backlog)] = s]
           /\ cur' = Head(backlog)
           /\ backlog' = Tail(backlog)
           /\ mutex' = NoOne
           /\ ppc' = "fork"
           /\ UNCHANGED <<peer, admin, cmd, i, n, table, cpc, inh, lpc, stopped, killed, counters>>

(* accept fails, for want of a descriptor or because the client has reset  *)
(* the connection: the assertion raises SIGABRT, whose handler destroys    *)
(* the server.  The parent has the mutex.                                  *)
PAcceptFails == /\ ParentRuns("accept")
                /\ FreeSockets = {} \/ peer[Head(backlog)] = "left asking"
                /\ ppc' = "admin_wait" /\ cmd' = "halt"
                /\ UNCHANGED <<peer, backlog, admin, i, n, cur, fds, table, mutex, childVars, lpc,
                               stopped, killed, counters>>

(* The child has every socket its parent had; the parent closes none.      *)
PFork == /\ ParentRuns("fork")
         /\ cpc' = [cpc EXCEPT ![cur] = "wait_add"]
         /\ inh' = [inh EXCEPT ![cur] = {fds[s] : s \in Sockets} \ {NoOne}]
         /\ ppc' = "select" /\ cur' = NoOne
         /\ UNCHANGED <<peer, backlog, admin, cmd, i, n, fds, table, mutex, sock, lpc, stopped,
                        killed, counters>>

\* accept fails as it does for a client, but here without the mutex.
PAcceptAdmin ==
    /\ ParentRuns("accept_admin")
    /\ \/ FreeSockets # {} /\ ppc' = "admin_read" /\ UNCHANGED cmd
       \/ /\ FreeSockets = {} \/ admin = "left"
          /\ ppc' = "admin_wait" /\ cmd' = "halt"
    /\ UNCHANGED <<peer, backlog, admin, i, n, cur, fds, table, mutex, childVars, lpc, stopped,
                   killed, counters>>

(* The parent waits for what the administrator sends, and does nothing     *)
(* else meanwhile.  To halt and to what it does not know it answers at     *)
(* once.                                                                   *)
PAdminRead ==
    /\ ParentRuns("admin_read")
    /\ \/ /\ admin \in {"sent", "left sent"}
          /\ cmd' \in Commands \cup {"unknown"}
          /\ ppc' = IF cmd' \in {"halt", "unknown"} THEN "answer" ELSE "admin_wait"
          /\ UNCHANGED admin
       \/ /\ admin = "left" /\ admin' = "off"
          /\ ppc' = "select" /\ UNCHANGED cmd
    /\ UNCHANGED <<peer, backlog, i, n, cur, fds, table, mutex, childVars, lpc, stopped, killed,
                   counters>>

(* SHRED, OK or UNKNOWN is written and the connection closed; for halt the *)
(* parent then sends itself SIGINT.                                        *)
PAnswer ==
    /\ ParentRuns("answer")
    /\ admin' = "off"
    /\ IF cmd = "halt" THEN ppc' = "admin_wait" /\ UNCHANGED cmd
                       ELSE ppc' = "select" /\ cmd' = "none"
    /\ UNCHANGED <<peer, backlog, i, n, cur, fds, table, mutex, childVars, lpc, stopped, killed,
                   counters>>

(* The administrator has gone, and the answer raises SIGPIPE, which        *)
(* nothing catches: the parent ends there.  Children, logger and           *)
(* semaphore are left as they are.                                         *)
PBrokenPipe ==
    /\ ParentRuns("answer")
    /\ admin = "left sent"
    /\ ppc' = "exited"
    /\ fds' = [s \in Sockets |-> NoOne]
    /\ backlog' = << >>
    /\ UNCHANGED <<peer, admin, cmd, i, n, cur, table, mutex, childVars, lpc, stopped, killed,
                   counters>>

(* What the signal of the command does to the processes of S: SIGSTOP,     *)
(* SIGCONT, or SIGUSR1 (SIGUSR2 for the logger), which ends them.          *)
Send(S) == /\ stopped' = CASE cmd = "suspend" -> stopped \cup S
                           [] cmd = "resume"  -> stopped \ S
                           [] OTHER           -> stopped
           /\ killed' = IF cmd \in {"reset", "halt"} THEN killed \cup (S \ {"parent"})
                                                    ELSE killed

(* SuspendAll, ResumeAll, ResetServer and DestroyAllClients begin alike;   *)
(* only ResetServer leaves the logger alone and counts down.               *)
PAdminWait == /\ ParentRuns("admin_wait")
              /\ mutex = NoOne
              /\ mutex' = "parent"
              /\ ppc' = "admin_loop"
              /\ n' = Len(table)
              /\ i' = IF cmd = "reset" THEN Len(table) ELSE 1
              /\ Send(IF cmd = "reset" THEN {} ELSE Alive \cap {"logger"})
              /\ UNCHANGED <<peer, backlog, admin, cmd, cur, fds, table, childVars, lpc, counters>>

\* Mutant: an entry whose process is gone has its socket closed and stays.
PAdminStep_keeps ==
    /\ ParentRuns("admin_loop")
    /\ i \in 1 .. n
    /\ LET pid == PidAt(i)
           hit == IF pid = NoOne THEN Alive \cup {"parent"} ELSE {pid} \cap Alive
       IN  /\ Send(hit)
           /\ IF hit = {} \/ cmd = "reset"
              THEN /\ fds' = [fds EXCEPT ![table[i].sock] = NoOne]
                   /\ table' = IF cmd = "reset" THEN RemoveClient(pid) ELSE table
              ELSE UNCHANGED <<fds, table>>
    /\ i' = IF cmd = "reset" THEN i - 1 ELSE i + 1
    /\ UNCHANGED <<peer, backlog, admin, ppc, cmd, n, cur, mutex, childVars, lpc, counters>>

\* Mutant: an entry without a pid is skipped.
PAdminStep_skips ==
    /\ ParentRuns("admin_loop")
    /\ i \in 1 .. n
    /\ LET pid == PidAt(i)
           hit == {pid} \cap Alive
       IN  /\ Send(hit)
           /\ IF pid # NoOne /\ (hit = {} \/ cmd = "reset")
              THEN /\ fds' = [fds EXCEPT ![table[i].sock] = NoOne]
                   /\ table' = RemoveClient(pid)
              ELSE UNCHANGED <<fds, table>>
    /\ i' = IF cmd = "reset" THEN i - 1 ELSE i + 1
    /\ UNCHANGED <<peer, backlog, admin, ppc, cmd, n, cur, mutex, childVars, lpc, counters>>

(* One turn of the loop.  nclients was read before it began, so once an    *)
(* entry has been removed the last turn finds no pid, and kill(0) signals  *)
(* the whole process group.  A kill that finds no process, and ResetServer *)
(* always, closes the socket and removes the entry.                        *)
PAdminStep ==
    /\ ParentRuns("admin_loop")
    /\ i \in 1 .. n
    /\ LET pid == PidAt(i)
           hit == IF pid = NoOne THEN Alive \cup {"parent"} ELSE {pid} \cap Alive
       IN  /\ Send(hit)
           /\ IF hit = {} \/ cmd = "reset"
              THEN /\ fds' = [fds EXCEPT ![table[i].sock] = NoOne]
                   /\ table' = RemoveClient(pid)
              ELSE UNCHANGED <<fds, table>>
    /\ i' = IF cmd = "reset" THEN i - 1 ELSE i + 1
    /\ UNCHANGED <<peer, backlog, admin, ppc, cmd, n, cur, mutex, childVars, lpc, counters>>

(* The loop is over.  ResetServer first waits for the table to be empty.   *)
PAdminDone ==
    /\ ParentRuns("admin_loop")
    /\ i \notin 1 .. n
    /\ cmd = "reset" => table = << >>
    /\ mutex' = NoOne
    /\ ppc' = IF cmd = "halt" THEN "exit" ELSE "answer"
    /\ i' = 0 /\ n' = 0 /\ cur' = NoOne
    /\ UNCHANGED <<peer, backlog, admin, cmd, fds, table, childVars, lpc, stopped, killed, counters>>

(* After DestroyAllClients the semaphore is removed, the sockets are       *)
(* closed, and the parent exits.  The children keep the shared memory.     *)
PExit == /\ ParentRuns("exit")
         /\ ppc' = "exited"
         /\ mutex' = "removed"
         /\ fds' = [s \in Sockets |-> NoOne]
         /\ backlog' = << >>
         /\ UNCHANGED <<peer, admin, cmd, i, n, cur, table, childVars, lpc, stopped, killed, counters>>

(* SIGINT reaches the parent, wherever it is.  The handler deletes the     *)
(* server and does not return; all signals are blocked meanwhile.          *)
Interrupt == /\ Interrupts
             /\ ppc # "exited" /\ "parent" \notin stopped
             /\ cmd = "halt" => ppc = "answer"
             /\ ppc' = "admin_wait" /\ cmd' = "halt"
             /\ UNCHANGED <<peer, backlog, admin, i, n, cur, fds, table, mutex, childVars, lpc,
                            stopped, killed, counters>>

Parent == \/ PSelect \/ PAcceptWait \/ PRefuse \/ PAccept \/ PAcceptFails \/ PFork
          \/ PAcceptAdmin \/ PAdminRead \/ PAnswer \/ PBrokenPipe
          \/ PAdminWait \/ PAdminStep \/ PAdminDone \/ PExit

-----------------------------------------------------------------------------
(* A child: ProcessClient and AnswerRequest.                               *)

ChildRuns(c, at) == cpc[c] = at /\ c \notin stopped \cup killed

Goto(c, to) == cpc' = [cpc EXCEPT ![c] = to]

Waits == {"wait_add", "wait_in", "wait_out", "wait_leave"}
After == [wait_add |-> "add", wait_in |-> "in", wait_out |-> "out", wait_leave |-> "leave"]

CWait(c) == /\ cpc[c] \in Waits /\ ChildRuns(c, cpc[c])
            /\ mutex = NoOne
            /\ mutex' = c
            /\ Goto(c, After[cpc[c]])
            /\ UNCHANGED <<peer, backlog, admin, parentVars, fds, table, sock, inh, lpc, stopped,
                           killed, counters>>

\* Mutant: Wait tries again for ever.
CWaitFails_retries(c) == /\ cpc[c] \in Waits /\ ChildRuns(c, cpc[c])
                         /\ mutex = "removed"
                         /\ UNCHANGED vars

(* The semaphore is gone: the assertion in Wait fails, and the handler of  *)
(* SIGABRT exits.                                                          *)
CWaitFails(c) == /\ cpc[c] \in Waits /\ ChildRuns(c, cpc[c])
                 /\ mutex = "removed"
                 /\ Goto(c, "dead")
                 /\ UNCHANGED <<peer, backlog, admin, parentVars, fds, table, mutex, sock, inh, lpc,
                                stopped, killed, counters>>

(* Signal, after which the child goes on at to: unless the semaphore is     *)
(* gone, when the assertion in Signal fails.                               *)
SignalThen(c, to) == IF mutex = "removed" THEN UNCHANGED mutex /\ Goto(c, "dead")
                                          ELSE mutex' = NoOne /\ Goto(c, to)

(* Other children may have filled the table since the parent looked.       *)
CAdd(c) ==
    /\ ChildRuns(c, "add")
    /\ IF Len(table) < MaxClients
       THEN table' = AddClient(c) /\ SignalThen(c, "read")
       ELSE UNCHANGED table /\ SignalThen(c, "refused")
    /\ UNCHANGED <<peer, backlog, admin, parentVars, fds, sock, inh, lpc, stopped, killed, counters>>

(* read returns the request, or 0 if the client went away.                 *)
CRead(c) ==
    /\ ChildRuns(c, "read")
    /\ \/ /\ peer[c] \in {"asking", "left asking"}
          /\ peer' = [peer EXCEPT ![c] = IF @ = "asking" THEN "waiting" ELSE "left"]
          /\ Goto(c, "wait_in")
       \/ /\ peer[c] = "left"
          /\ Goto(c, "wait_leave")
          /\ UNCHANGED peer
    /\ UNCHANGED <<backlog, admin, parentVars, fds, table, mutex, sock, inh, lpc, stopped, killed,
                   counters>>

(* The bytes of the request, then those of the answer, are added to the    *)
(* child's entry, which the assertions say is there.                       *)
CCount(c, at, to) ==
    /\ ChildRuns(c, at)
    /\ InTable(c)
    /\ SignalThen(c, to)
    /\ UNCHANGED <<peer, backlog, admin, parentVars, fds, table, sock, inh, lpc, stopped, killed,
                   counters>>

CIn(c) == CCount(c, "in", "wait_out")
COut(c) == CCount(c, "out", "write")

(* The answer is written; after an HTTP error the child leaves.  If the    *)
(* client is gone, write may succeed, may fail, or may raise SIGPIPE,      *)
(* which nothing catches.                                                  *)
CWrite(c) ==
    /\ ChildRuns(c, "write")
    /\ \/ peer[c] # "left" /\ peer' = [peer EXCEPT ![c] = "answered"]
       \/ peer[c] = "left" /\ UNCHANGED peer
    /\ \/ Goto(c, "read")
       \/ Goto(c, "wait_leave")
       \/ peer[c] = "left" /\ Goto(c, "dead")
    /\ UNCHANGED <<backlog, admin, parentVars, fds, table, mutex, sock, inh, lpc, stopped, killed,
                   counters>>

CLeave(c) == /\ ChildRuns(c, "leave")
             /\ table' = RemoveClient(c)
             /\ SignalThen(c, "dead")
             /\ UNCHANGED <<peer, backlog, admin, parentVars, fds, sock, inh, lpc, stopped, killed,
                            counters>>

\* SIGUSR1 is delivered once SIGSTOP does not hold the process.
CDies(c) == /\ c \in killed \cap AliveChildren /\ c \notin stopped
            /\ Goto(c, "killed")
            /\ killed' = killed \ {c}
            /\ mutex' = Undone(c)
            /\ UNCHANGED <<peer, backlog, admin, parentVars, fds, table, sock, inh, lpc, stopped,
                           counters>>

Kill9(c) == /\ c \in AliveChildren
            /\ kills < MaxKills
            /\ kills' = kills + 1
            /\ Goto(c, "killed")
            /\ stopped' = stopped \ {c} /\ killed' = killed \ {c}
            /\ mutex' = Undone(c)
            /\ UNCHANGED <<peer, backlog, admin, parentVars, fds, table, sock, inh, lpc, commands>>

Child(c) == \/ CWait(c) \/ CWaitFails(c) \/ CAdd(c) \/ CRead(c) \/ CIn(c) \/ COut(c)
            \/ CWrite(c) \/ CLeave(c) \/ CDies(c)

-----------------------------------------------------------------------------
(* The logger holds the mutex while it writes what is in the table.        *)

LoggerRuns(at) == lpc = at /\ "logger" \notin stopped \cup killed

LSleep == LoggerRuns("sleep") /\ lpc' = "wait" /\ UNCHANGED mutex
LWait  == LoggerRuns("wait") /\ mutex = NoOne /\ mutex' = "logger" /\ lpc' = "stats"
LStats == /\ LoggerRuns("stats")
          /\ IF mutex = "removed" THEN UNCHANGED mutex /\ lpc' = "dead"
                                  ELSE mutex' = NoOne /\ lpc' = "sleep"
LWaitFails == LoggerRuns("wait") /\ mutex = "removed" /\ lpc' = "dead" /\ UNCHANGED mutex
LDies  == /\ lpc # "dead" /\ "logger" \in killed \ stopped
          /\ lpc' = "dead" /\ mutex' = Undone("logger")

Logger == /\ LSleep \/ LWait \/ LStats \/ LWaitFails \/ LDies
          /\ UNCHANGED <<peer, backlog, admin, parentVars, fds, table, childVars, stopped, killed,
                         counters>>

-----------------------------------------------------------------------------
Next == \/ Parent \/ Interrupt \/ Logger \/ Admin
        \/ \E c \in Clients : Connect(c) \/ GoAway(c) \/ Child(c) \/ Kill9(c)

Spec == Init /\ [][Next]_vars

(* Every process that can run does.  The logger sleeps for minutes between *)
(* two uses of the mutex and a connection makes few, so whoever waits for  *)
(* it gets it in the end.                                                  *)
FairSpec == /\ Spec
            /\ WF_vars(Parent) /\ SF_vars(PAcceptWait \/ PAdminWait)
            /\ WF_vars(Logger)
            /\ \A c \in Clients : WF_vars(Child(c)) /\ SF_vars(CWait(c))

-----------------------------------------------------------------------------
(* Properties.                                                             *)

(* Every variable has the shape the code gives it. *)
TypeOK ==
    /\ peer \in [Clients -> {"off", "asking", "waiting", "answered", "left asking", "left"}]
    /\ admin \in {"off", "silent", "sent", "left sent", "left"}
    /\ ppc \in {"select", "accept_wait", "accept", "fork", "accept_admin", "admin_read",
                "admin_wait", "admin_loop", "answer", "exit", "exited"}
    /\ cmd \in Commands \cup {"none", "halt", "unknown"}
    /\ Len(table) <= MaxClients
    /\ \A k \in 1 .. Len(table) : table[k].pid \in Clients /\ table[k].sock \in Sockets
    /\ fds \in [Sockets -> Clients \cup {NoOne}]
    /\ mutex \in Clients \cup {"parent", "logger", "removed", NoOne}
    /\ cpc \in [Clients -> Waits \cup {"none", "add", "read", "in", "out", "write", "leave"} \cup Ended]
    /\ stopped \subseteq Clients \cup {"logger", "parent"}
    /\ killed \subseteq Clients \cup {"logger"}

Registered == {"read", "wait_in", "in", "wait_out", "out", "write", "wait_leave", "leave"}

(* A child that has registered and was not told to end is in the table     *)
(* until it removes itself, whatever the administrator does and whoever    *)
(* dies: the two assertions in AnswerRequest (XServerMain.cc:318, 349)     *)
(* never fail, and no process is in the table twice.                       *)
RegisteredIsInTable ==
    /\ \A c \in Clients : cpc[c] \in Registered /\ c \notin killed => InTable(c)
    /\ \A j, k \in 1 .. Len(table) : table[j].pid = table[k].pid => j = k

(* The socket in an entry is one that the parent has open, and of that     *)
(* child's connection, although numbers are used again: what ResetServer   *)
(* and the others close is never another client's (XServerMain.cc:598).    *)
SocketsBelong ==
    ppc # "exited" => \A k \in 1 .. Len(table) : fds[table[k].sock] = table[k].pid

(* When its loop is over, a command has reached every child in the table   *)
(* that is alive, and the logger, although entries are removed and moved   *)
(* while the loop runs over as many as there were: the child that was      *)
(* moved to a place the loop has passed is reached by kill(0).  ResetServer *)
(* has nothing left to wait for (XServerMain.cc:603), which is as well, as *)
(* no child could leave while it has the mutex.                            *)
CommandReachesAll ==
    LET InTableAlive == {c \in AliveChildren : InTable(c)} \cup (Alive \cap {"logger"})
    IN  ppc = "admin_loop" /\ i \notin 1 .. n =>
            CASE cmd = "suspend" -> InTableAlive \subseteq stopped
              [] cmd = "resume"  -> InTableAlive \cap stopped = {}
              [] cmd = "reset"   -> table = << >>
              [] cmd = "halt"    -> InTableAlive \subseteq killed

\* The parent waits for a mutex that it has itself.
SelfLocked == ppc = "admin_wait" /\ cmd = "halt" /\ mutex = "parent"

\* The parent waits for an administrator who sends nothing (XServerMain.cc:635).
Silenced == ppc = "admin_read" /\ admin = "silent"

\* SIGPIPE has ended the parent; everything else goes on.
Orphaned == ppc = "exited" /\ mutex # "removed"

(* A client waits for ever for its answer, on a connection that is open,    *)
(* in these cases only: its child was refused when it registered or was    *)
(* killed, and the parent keeps the socket; its child is suspended; the    *)
(* server has been taken down; or the parent accepts no more, for it is    *)
(* suspended, waits for its own mutex or for an administrator who is       *)
(* silent.  The mutex and the table never hold a client up.                *)
Served ==
    \A c \in Clients :
        []<>(\/ peer[c] \notin {"asking", "waiting"}
             \/ ~ Open(c)
             \/ cpc[c] \in {"refused", "killed"} \/ c \in stopped
             \/ mutex = "removed"
             \/ "parent" \in stopped \/ SelfLocked \/ Silenced)

(* A server that is told to halt, by the administrator or by SIGINT, is    *)
(* gone in the end, and so are its logger and its children, those that had *)
(* not registered too; unless it waits for its own mutex, or the           *)
(* administrator had gone and SIGPIPE ended the parent as it answered.     *)
(* What remains was suspended, or registered itself between                *)
(* DestroyAllClients and the removal of the semaphore and reads from a     *)
(* client that stays.                                                      *)
HaltEndsAll ==
    []<>(\/ cmd # "halt" \/ SelfLocked \/ Orphaned
         \/ /\ ppc = "exited"
            /\ Alive \subseteq
                 stopped \cup {c \in Clients : cpc[c] = "read" /\ peer[c] = "answered"})
=============================================================================
