----------------------------- MODULE GameServer ------------------------------
(***************************************************************************)
(* src/GameServer: the server's threads and its clients.  The main thread  *)
(* registers clients one at a time; each has a reader thread that carries  *)
(* out its requests.  They share one errorcheck mutex (a thread that locks *)
(* it twice, or unlocks another's, gets an error nobody looks at), the     *)
(* list of clients, the board, and the flag sig of the signal handler.     *)
(*                                                                         *)
(* A client's two sockets are told apart by what they carry: wire, where   *)
(* the server speaks and the client's reader thread answers, and keys,     *)
(* where its X thread asks and the server answers.  The two round trips of *)
(* BANE, DEAD and KILL, of which any failure ends the server, are one.  Of *)
(* the board only how many cells hold each id is kept; GameBoard has the   *)
(* rest.                                                                   *)
(***************************************************************************)
EXTENDS Integers, Sequences, FiniteSets, SequencesExt

CONSTANTS Clients,      \* clients, and the reader threads that serve them
          MaxClients,   \* cls
          MaxIds,       \* 0x20, the length of get_first_free's table; cls < 0x1F
          MaxRequests,  \* requests sent by all clients together
          MaxEvents,    \* hits by fire, teleports, overruns of free_idx at a
                        \* registration and SIGINTs, all together
          NoOne

ASSUME GameAssumption == /\ NoOne \notin Clients \cup {"main"} /\ "main" \notin Clients
                         /\ IsFiniteSet(Clients)
                         /\ MaxClients \in Nat \ {0} /\ MaxIds \in Nat /\ MaxClients < MaxIds
                         /\ {MaxRequests, MaxEvents} \subseteq Nat

VARIABLES link,      \* each client's sockets: "off", "open", "closed"
          wire,      \* the dialogue with its reader: what it is asked, and its answer
          creader,   \* its reader thread
          keys,      \* its X thread, which keeps its mutex from request to answer
          backlog,   \* clients that wait for accept
          pc, at,    \* each server thread, and the list entry it looks at
          mutex, sig,
          clients,   \* the list, from its head; an entry is named by its client
          freed,     \* entries that have been freed
          nclients,
          reg,       \* nclients as the thread has read it
          id,        \* the id each client got, or -1
          cells,     \* matrix: on how many cells each id stands
          bmatrix,   \* the copy that progress_fire works on
          under,     \* ids put on the cell that a teleport has chosen
          strayed,   \* free_idx was overrun, and gave the cell of an id, or none
          halt,      \* why the server has ended; "" while it runs
          requests, events, teleports,
          cut        \* clients whose dialogue a signal has cut short

wires == <<link, wire, creader, keys>>
list == <<clients, freed, nclients, reg>>
board == <<cells, bmatrix, under, strayed>>
counters == <<requests, events, teleports, cut>>
vars == <<wires, backlog, pc, at, mutex, sig, list, id, board, halt, counters>>

Threads == Clients \cup {"main"}
Ids == 0 .. MaxIds - 1

-----------------------------------------------------------------------------
(* The list and the board.                                                 *)

Listed == {clients[k] : k \in 1 .. Len(clients)}
Dangling == Listed \cap freed # {}
First == IF clients = << >> THEN NoOne ELSE Head(clients)
Pos(c) == CHOOSE k \in 1 .. Len(clients) : clients[k] = c
NextOf(c) == IF c \notin Listed \/ Pos(c) = Len(clients) THEN NoOne ELSE clients[Pos(c) + 1]

\* The entries a walk that starts at c comes to.
From(c) == IF c \notin Listed THEN {} ELSE {clients[k] : k \in Pos(c) .. Len(clients)}

FreeIds == Ids \ {id[c] : c \in Listed}
get_first_free == IF FreeIds = {} THEN -1 ELSE CHOOSE i \in FreeIds : \A j \in FreeIds : i <= j

remove_id(i) == cells' = [cells EXCEPT ![i] = 0]

NoCells == [i \in Ids |-> 0]

Goto(t, l) == pc' = [pc EXCEPT ![t] = l]
Free(t) == mutex' = IF mutex = t THEN NoOne ELSE mutex
Halt(why) == /\ halt' = why
             /\ UNCHANGED <<wires, backlog, pc, at, mutex, sig, list, id, board, counters>>

-----------------------------------------------------------------------------
Init == /\ link = [c \in Clients |-> "off"]
        /\ wire = [c \in Clients |-> "none"]
        /\ creader = [c \in Clients |-> "off"]
        /\ keys = [c \in Clients |-> "off"]
        /\ backlog = << >>
        /\ pc = [t \in Threads |-> IF t = "main" THEN "accept" ELSE "none"]
        /\ at = [t \in Threads |-> NoOne]
        /\ mutex = NoOne /\ sig = 0
        /\ clients = << >> /\ freed = {} /\ nclients = 0
        /\ reg = [t \in Threads |-> 0]
        /\ id = [c \in Clients |-> -1]
        /\ cells = NoCells /\ bmatrix = NoCells /\ under = {} /\ strayed = FALSE
        /\ halt = ""
        /\ requests = 0 /\ events = 0 /\ teleports = 0 /\ cut = {}

-----------------------------------------------------------------------------
(* The client.  Both of its connections are accepted together: what the    *)
(* server does when two clients connect at once and their sockets are      *)
(* paired crosswise is not followed.                                       *)

serverSide == <<pc, at, mutex, sig, list, id, board, halt>>

Connect(c) == /\ link[c] = "off"
              /\ link' = [link EXCEPT ![c] = "open"]
              /\ creader' = [creader EXCEPT ![c] = "listen"]
              /\ backlog' = Append(backlog, c)
              /\ UNCHANGED <<wire, keys, serverSide, counters>>

\* What the client answers to each message, and what its reader thread does then.
Answers == [IDCL |-> "more", id |-> "reply", BOAR |-> "more", board |-> "reply",
            DEAD |-> "reply", KILL |-> "reply", BANE |-> "reply"]
After == [IDCL |-> "half", id |-> "listen", BOAR |-> "half", board |-> "locking",
          DEAD |-> "dying", KILL |-> "dying", BANE |-> "dying"]

(* The reader thread answers.  After IDIS or BOIS it takes whatever comes  *)
(* for the id or the board; KILL is then the first bytes of a board that   *)
(* does not come.  get_board sends BOOK and only then waits for the        *)
(* client's mutex.                                                         *)
Reply(c) == /\ wire[c] \in DOMAIN Answers
            /\ creader[c] = IF wire[c] \in {"id", "board"} THEN "half" ELSE "listen"
            /\ wire' = [wire EXCEPT ![c] = Answers[wire[c]]]
            /\ creader' = [creader EXCEPT ![c] = After[wire[c]]]
            /\ UNCHANGED <<link, keys, backlog, serverSide, counters>>

(* get_board, with the mutex: the first board starts the X thread.         *)
Refresh(c) == /\ creader[c] = "locking"
              /\ keys[c] \in {"off", "idle"}
              /\ creader' = [creader EXCEPT ![c] = "listen"]
              /\ keys' = [keys EXCEPT ![c] = "idle"]
              /\ UNCHANGED <<link, wire, backlog, serverSide, counters>>

(* A key is pressed while the client's sig is 0.                           *)
Key(c) == /\ keys[c] = "idle" /\ creader[c] = "listen"
          /\ requests < MaxRequests
          /\ requests' = requests + 1
          /\ keys' = [keys EXCEPT ![c] = "asked"]
          /\ UNCHANGED <<link, wire, creader, backlog, serverSide, events, teleports, cut>>

KeyDone(c) == /\ keys[c] = "answered" /\ link[c] = "open"
              /\ keys' = [keys EXCEPT ![c] = "idle"]
              /\ UNCHANGED <<link, wire, creader, backlog, serverSide, counters>>

(* The client ends, at any time, or when the server's last FINE has come.  *)
(* A request that it has sent may still be read.                           *)
Gone(c) == /\ link' = [link EXCEPT ![c] = "closed"]
           /\ creader' = [creader EXCEPT ![c] = "off"]
           /\ keys' = [keys EXCEPT ![c] = IF @ = "asked" THEN @ ELSE "off"]
           /\ UNCHANGED <<wire, backlog, serverSide, counters>>

Leave(c) == link[c] = "open" /\ Gone(c)
Dismissed(c) == creader[c] = "dying" /\ wire[c] # "reply" /\ Gone(c)

(* The server has closed its sockets: an error for the thread that reads,  *)
(* unless it is get_board, which reads on.                                 *)
SeesEnd(c) == /\ link[c] = "open" /\ c \in freed
              /\ creader[c] # "half" \/ keys[c] \in {"asked", "pending"}
              /\ Gone(c)

-----------------------------------------------------------------------------
(* What the server's threads have in common.  A write to a client that has *)
(* gone may still succeed; when it fails, SIGPIPE runs the handler in the  *)
(* thread that wrote: catch_int takes the thread over (sig was 0), makes   *)
(* sig 2 and lets the write fail, or exits.                                *)

Answered(c) == wire[c] = "reply"
Broken(c) == link[c] = "closed"
Failed(c) == Broken(c) \/ c \in cut \cup freed
Heard(c) == [wire EXCEPT ![c] = "none"]

\* An answer that comes after its dialogue was cut short is not read.
Over(c) == IF c \in cut THEN wire ELSE Heard(c)

\* Mutant: catch_int counts the signals, but never gives up.
Say_counts(t, c, m, l, w) ==
    \/ /\ w[c] = "none"
       /\ wire' = [w EXCEPT ![c] = m]
       /\ at' = [at EXCEPT ![t] = c] /\ Goto(t, l)
       /\ UNCHANGED <<sig, halt>>
    \/ /\ w[c] # "none"
       /\ halt' = "mixed"
       /\ UNCHANGED <<wire, at, pc, sig>>
    \/ /\ Broken(c) /\ sig = 0
       /\ sig' = 1 /\ Goto(t, "sig_wait") /\ wire' = w
       /\ UNCHANGED <<at, halt>>
    \/ /\ Broken(c) /\ sig # 0
       /\ sig' = sig + 1 /\ wire' = w
       /\ at' = [at EXCEPT ![t] = c] /\ Goto(t, l)
       /\ UNCHANGED halt

\* t writes m to c, on the wires w, and waits for the answer at l.
Say(t, c, m, l, w) ==
    \/ /\ w[c] = "none"
       /\ wire' = [w EXCEPT ![c] = m]
       /\ at' = [at EXCEPT ![t] = c] /\ Goto(t, l)
       /\ UNCHANGED <<sig, halt>>
    \/ /\ w[c] # "none"
       /\ halt' = "mixed"
       /\ UNCHANGED <<wire, at, pc, sig>>
    \/ /\ Broken(c) /\ sig = 0
       /\ sig' = 1 /\ Goto(t, "sig_wait") /\ wire' = w
       /\ UNCHANGED <<at, halt>>
    \/ /\ Broken(c) /\ sig = 1
       /\ sig' = 2 /\ wire' = w
       /\ at' = [at EXCEPT ![t] = c] /\ Goto(t, l)
       /\ UNCHANGED halt
    \/ /\ Broken(c) /\ sig = 2
       /\ halt' = "exit"
       /\ UNCHANGED <<wire, at, pc, sig>>

\* c's request is answered; its reader thread goes on at l.
AnswerTo(c, l) ==
    \/ /\ keys' = [keys EXCEPT ![c] = IF Broken(c) THEN "off" ELSE "answered"]
       /\ Goto(c, l)
       /\ UNCHANGED <<sig, halt>>
    \/ /\ Broken(c) /\ sig = 0
       /\ sig' = 1 /\ Goto(c, "sig_wait")
       /\ UNCHANGED <<keys, halt>>
    \/ /\ Broken(c) /\ sig # 0
       /\ halt' = IF sig = 1 THEN "answer" ELSE "exit"
       /\ UNCHANGED <<keys, pc, sig>>

(* The second half of send_client_id and of send_board: IDIS or BOIS is    *)
(* read, and then the id or the board is written.                          *)
AfterTelling == [tell |-> "accept", bcast |-> "spin", tbcast |-> "spin", last |-> "done"]
Sending == {"idok", "book"} \cup DOMAIN AfterTelling

SecondHalf(t) ==
    /\ pc[t] \in Sending /\ at[t] \in Clients \ (cut \cup freed)
    /\ \/ /\ wire[at[t]] = "more"
          /\ wire' = [wire EXCEPT ![at[t]] = "half"]
          /\ UNCHANGED <<pc, at, sig, halt>>
       \/ /\ wire[at[t]] = "half"
          /\ Say(t, at[t], IF pc[t] = "idok" THEN "id" ELSE "board", pc[t], Heard(at[t]))
    /\ UNCHANGED <<link, creader, keys, backlog, mutex, list, id, board, counters>>

(* broadcast_board: the board goes to one entry after the other, whether   *)
(* or not it takes it, and then the mutex is freed.                        *)
Walk(t, e, l, w, m) ==
    CASE e = NoOne  -> /\ mutex' = IF m = t THEN NoOne ELSE m
                       /\ wire' = w
                       /\ Goto(t, AfterTelling[l])
                       /\ at' = [at EXCEPT ![t] = NoOne]
                       /\ UNCHANGED <<sig, halt>>
      [] e \in freed -> /\ halt' = "wild"
                        /\ UNCHANGED <<mutex, wire, pc, at, sig>>
      [] OTHER       -> mutex' = m /\ Say(t, e, "BOAR", l, w)

BroadcastStep(t) ==
    /\ pc[t] \in DOMAIN AfterTelling
    /\ Answered(at[t]) \/ Failed(at[t])
    /\ IF at[t] \in freed THEN Walk(t, at[t], pc[t], wire, mutex)
                          ELSE Walk(t, NextOf(at[t]), pc[t], Over(at[t]), mutex)
    /\ UNCHANGED <<link, creader, keys, backlog, list, id, board, counters>>

-----------------------------------------------------------------------------
(* The main thread: server and register_client.                            *)

Main(l) == pc["main"] = l
cur == at["main"]

Accept == /\ Main("accept") /\ backlog # << >>
          /\ at' = [at EXCEPT !["main"] = Head(backlog)]
          /\ backlog' = Tail(backlog)
          /\ Goto("main", IF nclients >= MaxClients THEN "refuse" ELSE "first_free")
          /\ UNCHANGED <<wires, mutex, sig, list, id, board, halt, counters>>

inform_refuse == /\ Main("refuse") /\ mutex = NoOne
                 /\ mutex' = "main"
                 /\ Say("main", cur, "BANE", "bane", wire)
                 /\ UNCHANGED <<link, creader, keys, backlog, list, id, board, counters>>

(* Every early return comes after warning(), which exits.                  *)
Refused == /\ Main("bane")
           /\ \/ /\ Answered(cur)
                 /\ wire' = Heard(cur) /\ mutex' = NoOne /\ Goto("main", "accept")
                 /\ UNCHANGED <<link, creader, keys, backlog, at, sig, list, id, board, halt, counters>>
              \/ Broken(cur) /\ Halt("warning")

FirstFree == /\ Main("first_free") /\ mutex = NoOne
             /\ \/ Dangling /\ Halt("wild")
                \/ /\ ~Dangling
                   /\ id' = [id EXCEPT ![cur] = get_first_free]
                   /\ Goto("main", "place")
                   /\ UNCHANGED <<wires, backlog, at, mutex, sig, list, board, halt, counters>>

\* While a teleport is under way, an id may be put on the cell it has chosen.
Lands(i) == under' = IF \E t \in Clients : pc[t] = "tp_put" THEN under \cup {i} ELSE under

Put(n, i) == [j \in Ids |-> IF j = i THEN n[j] + 1 ELSE n[j]]
Take(n, i) == [j \in Ids |-> IF j = i /\ n[j] > 0 THEN n[j] - 1 ELSE n[j]]

(* The index that mrandom(nfree) gives may be nfree, one past the end of   *)
(* free_idx (GameBoard has mrandom).  Whatever stands there is then the    *)
(* cell.  It may be one of no id, as it should be; else it is outside of   *)
(* the matrix, where the write may fail too ("wild"), or is one of an id.  *)
Strays(n, i) == {n} \cup {Put(Take(n, j), i) : j \in {j \in Ids : n[j] > 0}}

\* An id of -1 is stored as 0xff, which is nobody's.
place_client_onboard ==
    /\ Main("place") /\ mutex = NoOne
    /\ \/ /\ cells' = Put(cells, id[cur])
          /\ Lands(id[cur]) /\ Goto("main", "idcl")
          /\ UNCHANGED <<strayed, events, halt>>
       \/ /\ Goto("main", "refuse")
          /\ UNCHANGED <<cells, under, strayed, events, halt>>
       \/ /\ events < MaxEvents
          /\ events' = events + 1
          /\ strayed' = TRUE
          /\ \/ /\ cells' \in Strays(cells, id[cur])
                /\ Goto("main", "idcl")
                /\ UNCHANGED halt
             \/ halt' = "wild" /\ UNCHANGED <<pc, cells>>
          /\ UNCHANGED under
    /\ UNCHANGED <<wires, backlog, at, mutex, sig, list, id, bmatrix, requests, teleports, cut>>

send_client_id == /\ Main("idcl")
                  /\ IF id[cur] < 0 THEN Halt("no id")
                     ELSE /\ mutex = NoOne
                          /\ mutex' = "main"
                          /\ Say("main", cur, "IDCL", "idok", wire)
                          /\ UNCHANGED <<link, creader, keys, backlog, list, id, board, counters>>

\* Success keeps the mutex; failure gives it back.
\* Mutant: failure keeps the mutex, as success does.
IdSent_keeps == /\ Main("idok")
                /\ \/ Answered(cur) /\ cur \notin cut /\ Goto("main", "boar")
                   \/ Failed(cur) /\ Goto("main", "unplace")
                /\ wire' = Over(cur)
                /\ UNCHANGED <<link, creader, keys, backlog, at, mutex, sig, list, id, board, halt, counters>>

IdSent == /\ Main("idok")
          /\ \/ Answered(cur) /\ cur \notin cut /\ Goto("main", "boar") /\ UNCHANGED mutex
             \/ Failed(cur) /\ Goto("main", "unplace") /\ Free("main")
          /\ wire' = Over(cur)
          /\ UNCHANGED <<link, creader, keys, backlog, at, sig, list, id, board, halt, counters>>

\* Locked a second time, which fails and changes nothing.
send_board == /\ Main("boar") /\ mutex \in {NoOne, "main"}
              /\ mutex' = "main"
              /\ Say("main", cur, "BOAR", "book", wire)
              /\ UNCHANGED <<link, creader, keys, backlog, list, id, board, counters>>

BoardSent == /\ Main("book")
             /\ \/ Answered(cur) /\ cur \notin cut /\ Goto("main", "create")
                \/ Failed(cur) /\ Goto("main", "unplace")
             /\ wire' = Over(cur) /\ Free("main")
             /\ UNCHANGED <<link, creader, keys, backlog, at, sig, list, id, board, halt, counters>>

(* The id is taken off the board again, without the mutex.                 *)
Unplace == /\ Main("unplace")
           /\ \/ cells[id[cur]] > 1 /\ Halt("ids")
              \/ /\ cells[id[cur]] < 2
                 /\ remove_id(id[cur])
                 /\ under' = under \ {id[cur]}
                 /\ Goto("main", "accept")
                 /\ UNCHANGED <<wires, backlog, at, mutex, sig, list, id, bmatrix, strayed, halt, counters>>

(* The reader thread runs before its client is on the list.                *)
CreateReader == /\ Main("create")
                /\ pc' = [pc EXCEPT !["main"] = "add", ![cur] = "spin"]
                /\ UNCHANGED <<wires, backlog, at, mutex, sig, list, id, board, halt, counters>>

add_client == /\ Main("add") /\ mutex = NoOne
              /\ clients' = <<cur>> \o clients
              /\ Goto("main", "count")
              /\ UNCHANGED <<wires, backlog, at, mutex, sig, freed, nclients, reg, id, board,
                             halt, counters>>

(* nclients++ without the mutex: read, then written.                       *)
Count == /\ \/ /\ Main("count")
               /\ reg' = [reg EXCEPT !["main"] = nclients]
               /\ Goto("main", "counted") /\ UNCHANGED nclients
            \/ /\ Main("counted")
               /\ nclients' = reg["main"] + 1 /\ reg' = [reg EXCEPT !["main"] = 0]
               /\ Goto("main", "tell_wait")
         /\ UNCHANGED <<wires, backlog, at, mutex, sig, clients, freed, id, board, halt, counters>>

TellAll == /\ Main("tell_wait") /\ mutex = NoOne
           /\ Walk("main", First, "tell", wire, "main")
           /\ UNCHANGED <<link, creader, keys, backlog, list, id, board, counters>>

MainStep == \/ Accept \/ inform_refuse \/ Refused \/ FirstFree \/ place_client_onboard
            \/ send_client_id \/ IdSent \/ send_board \/ BoardSent \/ Unplace
            \/ CreateReader \/ add_client \/ Count \/ TellAll

-----------------------------------------------------------------------------
(* A reader thread.                                                        *)

Spin(c) == /\ pc[c] = "spin" /\ sig = 0
           /\ Goto(c, "read")
           /\ UNCHANGED <<wires, backlog, at, mutex, sig, list, id, board, halt, counters>>

(* A request that finds the mutex taken is refused.                        *)
ReadBusy(c) == /\ pc[c] = "read" /\ keys[c] = "asked" /\ mutex # NoOne
               /\ AnswerTo(c, "spin")
               /\ UNCHANGED <<link, wire, creader, backlog, at, mutex, list, id, board, counters>>

(* move_up and its like, and fire: the client and its id are looked up and *)
(* progress_fire copies the board.                                         *)
ReadRequest(c) ==
    /\ pc[c] = "read" /\ keys[c] = "asked" /\ mutex = NoOne
    /\ \/ Dangling /\ Halt("wild")
       \/ ~Dangling /\ c \notin Listed /\ Halt("not listed")
       \/ ~Dangling /\ c \in Listed /\ cells[id[c]] = 0 /\ Halt("no id")
       \/ /\ ~Dangling /\ c \in Listed /\ cells[id[c]] > 0
          /\ keys' = [keys EXCEPT ![c] = IF Broken(c) THEN "off" ELSE "pending"]
          /\ mutex' = c
          /\ bmatrix' = cells
          /\ Goto(c, "progress")
          /\ UNCHANGED <<link, wire, creader, backlog, at, sig, list, id, cells, under, strayed, halt, counters>>

(* Fire hits a cell with an id: player_hit tells the first client on the   *)
(* list that has this id.                                                  *)
player_hit(c) ==
    /\ pc[c] = "progress" /\ events < MaxEvents
    /\ \E i \in {j \in Ids : cells[j] > 0} :
         LET hit == {k \in 1 .. Len(clients) : id[clients[k]] = i}
         IN  \/ hit = {} /\ Halt("hit nobody")
             \/ \E k \in hit : /\ \A j \in hit : k <= j
                               /\ Say(c, clients[k], "DEAD", "hit", wire)
                               /\ events' = events + 1
                               /\ UNCHANGED <<link, creader, keys, backlog, mutex, list, id, board,
                                              requests, teleports, cut>>

(* The hit cell is copied as it is now.  What a read that finds the end of *)
(* the stream leaves in the buffer may still be the last FINE.             *)
HitTaken(c) ==
    /\ pc[c] = "hit"
    /\ \/ Broken(at[c]) /\ Halt("hit")
       \/ /\ Answered(at[c]) \/ Broken(at[c])
          /\ wire' = Heard(at[c])
          /\ bmatrix' = [bmatrix EXCEPT ![id[at[c]]] = cells[id[at[c]]]]
          /\ Goto(c, "progress")
          /\ UNCHANGED <<link, creader, keys, backlog, at, mutex, sig, list, id, cells, under, strayed, halt, counters>>

(* progress_fire writes the copy back, and the request is carried out: in  *)
(* vain (CANT), done (MOVE, FIRO), or by a teleport.                       *)
Cant(c) == /\ pc[c] = "progress"
           /\ cells' = bmatrix /\ bmatrix' = NoCells
           /\ AnswerTo(c, "spin")
           /\ Free(c)
           /\ UNCHANGED <<link, wire, creader, backlog, at, list, id, under, strayed, counters>>

Can(c) == /\ pc[c] = "progress"
          /\ cells' = bmatrix /\ bmatrix' = NoCells
          /\ Lands(id[c])
          /\ AnswerTo(c, "bcast_all")
          /\ UNCHANGED <<link, wire, creader, backlog, at, mutex, list, id, strayed, counters>>

(* teleport locks the mutex a second time, in vain, and then frees it.     *)
teleport(c) == /\ pc[c] = "progress" /\ events < MaxEvents
               /\ events' = events + 1 /\ teleports' = teleports + 1
               /\ cells' = bmatrix /\ bmatrix' = NoCells
               /\ mutex' = NoOne
               /\ \/ Goto(c, "tp_put") \/ Goto(c, "tp_cant")
               /\ UNCHANGED <<wires, backlog, at, sig, list, id, under, strayed, halt,
                              requests, cut>>

(* The player is put on the cell that was chosen, on which an id may stand *)
(* by now, or on the one that an overrun gives, and taken off his own.  He *)
(* does it without the mutex: who copies the board meanwhile may copy both *)
(* cells, or none.                                                         *)
TeleportPut(c) ==
    /\ pc[c] = "tp_put"
    /\ \/ Halt("wild")
       \/ /\ \/ /\ UNCHANGED strayed
                /\ \E S \in {{}} \cup {{i} : i \in under \ {id[c]}} :
                      /\ cells' = [i \in Ids |-> IF i \in S /\ cells[i] > 0 THEN cells[i] - 1 ELSE cells[i]]
                      /\ under' = IF \E t \in Clients \ {c} : pc[t] = "tp_put" THEN (under \ S) \cup {id[c]} ELSE {}
             \/ /\ strayed' = TRUE
                /\ cells' \in Strays(Take(cells, id[c]), id[c])
                /\ UNCHANGED under
          /\ \E n \in IF \E t \in Clients : pc[t] \in {"progress", "hit"} THEN 0 .. 2 ELSE {bmatrix[id[c]]} :
                bmatrix' = [bmatrix EXCEPT ![id[c]] = n]
          /\ AnswerTo(c, "tbcast_all")
          /\ UNCHANGED <<link, wire, creader, backlog, at, mutex, list, id, counters>>

TeleportCant(c) == /\ pc[c] = "tp_cant"
                   /\ AnswerTo(c, "spin")
                   /\ UNCHANGED <<link, wire, creader, backlog, at, mutex, list, id, board, counters>>

TellMove(c) == /\ \/ pc[c] = "bcast_all" /\ Walk(c, First, "bcast", wire, mutex)
                  \/ pc[c] = "tbcast_all" /\ Walk(c, First, "tbcast", wire, mutex)
               /\ UNCHANGED <<link, creader, keys, backlog, list, id, board, counters>>

(* The client has left: exit_client_dead (the end of the stream) and       *)
(* exit_client (an error) read the head of the list and set sig before     *)
(* they wait for the mutex.                                                *)
ReadEnd(c) == /\ pc[c] = "read" /\ Broken(c)
              /\ at' = [at EXCEPT ![c] = First]
              /\ sig' = 1
              /\ \/ keys[c] # "asked" /\ Goto(c, "dead_wait")
                 \/ Goto(c, "exit_wait")
              /\ keys' = [keys EXCEPT ![c] = "off"]
              /\ UNCHANGED <<link, wire, creader, backlog, mutex, list, id, board, halt, counters>>

\* Mutant: the id stays on the board.
Unlist_stays(c) ==
    /\ pc[c] \in {"exit_wait", "dead_wait"} /\ mutex = NoOne
    /\ ~Dangling /\ c \in From(at[c])
    /\ mutex' = c /\ sig' = 1
    /\ clients' = RemoveAt(clients, Pos(c))
    /\ reg' = [reg EXCEPT ![c] = nclients]
    /\ Goto(c, IF pc[c] = "exit_wait" THEN "exit" ELSE "dead")
    /\ UNCHANGED <<wires, backlog, at, freed, nclients, id, board, halt, counters>>

(* The entry is looked for from the head as it was.  If that head is the   *)
(* entry, and no longer the head, it is freed but stays on the list.       *)
Unlist(c) ==
    /\ pc[c] \in {"exit_wait", "dead_wait"} /\ mutex = NoOne
    /\ \/ (Dangling \/ at[c] \in freed) /\ Halt("wild")
       \/ /\ ~Dangling /\ at[c] \notin freed
          /\ \/ c \notin From(at[c]) /\ Halt("no client")
             \/ c \in From(at[c]) /\ cells[id[c]] > 1 /\ Halt("ids")
             \/ /\ c \in From(at[c]) /\ cells[id[c]] < 2
                /\ mutex' = c /\ sig' = 1
                /\ remove_id(id[c]) /\ under' = under \ {id[c]}
                /\ clients' = IF c = at[c] /\ c # First THEN clients ELSE RemoveAt(clients, Pos(c))
                /\ reg' = [reg EXCEPT ![c] = nclients]
                /\ Goto(c, IF pc[c] = "exit_wait" THEN "exit" ELSE "dead")
                /\ UNCHANGED <<wires, backlog, at, freed, nclients, id, bmatrix, strayed, halt, counters>>


Finish(c) ==
    /\ pc[c] \in {"exit", "dead"}
    /\ \/ /\ pc[c] = "exit" => Broken(c) \/ keys[c] = "asked"
          /\ nclients' = reg[c] - 1 /\ reg' = [reg EXCEPT ![c] = 0]
          /\ freed' = freed \cup {c}
          /\ sig' = 0 /\ Free(c)
          /\ Goto(c, "unsig") /\ UNCHANGED halt
       \/ /\ pc[c] = "exit" /\ Broken(c) /\ sig # 1
          /\ IF sig = 0 THEN sig' = 1 /\ Goto(c, "sig_wait") /\ UNCHANGED halt
                        ELSE halt' = "exit" /\ UNCHANGED <<sig, pc>>
          /\ UNCHANGED <<nclients, reg, freed, mutex>>
    /\ UNCHANGED <<wires, backlog, at, clients, id, board, counters>>

Unsig(c) == /\ pc[c] = "unsig"
            /\ sig' = 0
            /\ Goto(c, "last_wait")
            /\ UNCHANGED <<wires, backlog, at, mutex, list, id, board, halt, counters>>

\* Mutant: broadcast_board(0).
TellLeft_unlocked(c) == /\ pc[c] = "last_wait"
                        /\ Walk(c, First, "last", wire, mutex)
                        /\ UNCHANGED <<link, creader, keys, backlog, list, id, board, counters>>

TellLeft(c) == /\ pc[c] = "last_wait" /\ mutex = NoOne
               /\ Walk(c, First, "last", wire, c)
               /\ UNCHANGED <<link, creader, keys, backlog, list, id, board, counters>>

ReaderStep(c) == \/ Spin(c) \/ ReadBusy(c) \/ ReadRequest(c) \/ player_hit(c) \/ HitTaken(c)
                 \/ Cant(c) \/ Can(c) \/ teleport(c) \/ TeleportPut(c) \/ TeleportCant(c)
                 \/ TellMove(c) \/ ReadEnd(c) \/ Unlist(c) \/ Finish(c) \/ Unsig(c) \/ TellLeft(c)

-----------------------------------------------------------------------------
(* catch_int, in any thread.  It never returns to what it interrupted,     *)
(* unless sig says that a signal, or the end of a client, is being handled *)
(* already; then the accept or the read it interrupts fails (EINTR).       *)

Idle == {"none", "done", "sig_wait", "kill", "kill_last"}

\* The thread waits for an answer.
Waits(t) == at[t] # NoOne /\ wire[at[t]] \in DOMAIN Answers

Interrupted(t) ==
    \/ /\ \/ pc[t] = "accept" /\ backlog = << >>
          \/ pc[t] \in {"bane", "hit"} /\ Waits(t)
       /\ halt' = "exit"
       /\ UNCHANGED <<pc, at, sig, cut>>
    \/ /\ pc[t] \in Sending /\ Waits(t)
       /\ cut' = cut \cup {at[t]}
       /\ sig' = 2
       /\ UNCHANGED <<pc, at, halt>>
    \/ /\ pc[t] = "read" /\ keys[t] # "asked"
       /\ at' = [at EXCEPT ![t] = First]
       /\ sig' = 1 /\ Goto(t, "exit_wait")
       /\ UNCHANGED <<cut, halt>>
    \/ /\ pc[t] = "exit"
       /\ sig' = 2 /\ Goto(t, "dead")
       /\ UNCHANGED <<at, cut, halt>>

Interrupt(t) ==
    /\ events < MaxEvents /\ pc[t] \notin Idle
    /\ events' = events + 1
    /\ \/ /\ sig = 0
          /\ sig' = 1 /\ Goto(t, "sig_wait")
          /\ UNCHANGED <<at, cut, halt>>
       \/ /\ sig = 1
          /\ sig' = 2
          /\ UNCHANGED <<pc, at, cut, halt>>
       \/ /\ sig = 1
          /\ Interrupted(t)
       \/ /\ sig = 2
          /\ halt' = "exit"
          /\ UNCHANGED <<pc, at, sig, cut>>
    /\ UNCHANGED <<wires, backlog, mutex, list, id, board, requests, teleports>>

(* shutdown_clients: each client's threads are cancelled, where they read  *)
(* or are about to, and it is asked to leave; whatever fails, or is not    *)
(* the answer to KILL, ends it all.                                        *)
Cancelled(t, e) == IF e # t /\ pc[e] \in {"spin", "read", "tp_put", "tp_cant", "tbcast_all", "tbcast"}
                   THEN [pc EXCEPT ![e] = "none"] ELSE pc

ShutFrom(t, e, w) ==
    CASE e = NoOne   -> halt' = "exit" /\ UNCHANGED <<wire, at, pc>>
      [] e \in freed -> halt' = "wild" /\ UNCHANGED <<wire, at, pc>>
      [] OTHER ->
           \/ \E s \in Clients \ {t} : /\ pc[s] = "tbcast" /\ at[s] = e
                                       /\ halt' = "mixed" /\ UNCHANGED <<wire, at, pc>>
           \/ /\ \A s \in Clients \ {t} : pc[s] = "tbcast" => at[s] # e
              /\ at' = [at EXCEPT ![t] = e]
              /\ wire' = IF w[e] \in {"none", "half"} THEN [w EXCEPT ![e] = "KILL"] ELSE w
              /\ pc' = [Cancelled(t, e) EXCEPT ![t] = IF w[e] = "none" THEN "kill" ELSE "kill_last"]
              /\ UNCHANGED halt
           \/ Broken(e) /\ halt' = "exit" /\ UNCHANGED <<wire, at, pc>>

SigWait(t) == /\ pc[t] = "sig_wait" /\ mutex \in {NoOne, t}
              /\ mutex' = t
              /\ ShutFrom(t, First, wire)
              /\ UNCHANGED <<link, creader, keys, backlog, sig, list, id, board, counters>>

Shutdown(t) == /\ \/ /\ pc[t] = "kill" /\ Answered(at[t])
                     /\ ShutFrom(t, NextOf(at[t]), Heard(at[t]))
                  \/ /\ \/ pc[t] \in {"kill", "kill_last"} /\ Broken(at[t])
                        \/ pc[t] = "kill_last" /\ wire[at[t]] \in {"more", "reply"}
                     /\ halt' = "exit" /\ UNCHANGED <<wire, at, pc>>
               /\ UNCHANGED <<link, creader, keys, backlog, mutex, sig, list, id, board, counters>>

-----------------------------------------------------------------------------
ServerStep(t) == /\ halt = ""
                 /\ \/ t = "main" /\ MainStep
                    \/ t \in Clients /\ ReaderStep(t)
                    \/ SecondHalf(t) \/ BroadcastStep(t) \/ SigWait(t) \/ Shutdown(t)

ClientStep(c) == halt = "" /\ (Reply(c) \/ Refresh(c) \/ KeyDone(c) \/ Dismissed(c) \/ SeesEnd(c))

Users == halt = "" /\ \/ \E c \in Clients : Connect(c) \/ Key(c) \/ Leave(c)
                      \/ \E t \in Threads : Interrupt(t)

Next == \/ \E t \in Threads : ServerStep(t)
        \/ \E c \in Clients : ClientStep(c)
        \/ Users

Spec == Init /\ [][Next]_vars

(* The scheduler runs every thread; the users owe nothing.  No thread goes *)
(* on for ever, so one condition for all of them says it.                  *)
FairSpec == Spec /\ WF_vars(\/ \E t \in Threads : ServerStep(t)
                            \/ \E c \in Clients : ClientStep(c))

-----------------------------------------------------------------------------
(* Types.  The count of clients is not exact (nclients++, server.c:1171,   *)
(* is done without the mutex), but it never leaves these bounds, and a     *)
(* client on the list has an id of the table (get_first_free's -1,         *)
(* server.c:1127, ends the server).                                        *)
GTypeOK ==
    /\ link \in [Clients -> {"off", "open", "closed"}]
    /\ wire \in [Clients -> DOMAIN Answers \cup {"none", "more", "half", "reply"}]
    /\ creader \in [Clients -> {"off", "listen", "half", "locking", "dying"}]
    /\ keys \in [Clients -> {"off", "idle", "asked", "pending", "answered"}]
    /\ at \in [Threads -> Clients \cup {NoOne}]
    /\ mutex \in Threads \cup {NoOne} /\ sig \in 0 .. 2
    /\ Listed \subseteq Clients /\ IsInjective(clients)
    /\ freed \subseteq Clients /\ cut \subseteq Clients
    /\ id \in [Clients -> Ids \cup {-1}] /\ \A c \in Listed : id[c] \in Ids
    /\ cells \in [Ids -> Nat] /\ bmatrix \in [Ids -> Nat]
    /\ under \subseteq Ids \cup {-1} /\ strayed \in BOOLEAN
    /\ nclients \in -Cardinality(Clients) .. Cardinality(Clients)

Handled == \E t \in Threads : pc[t] \in {"sig_wait", "kill", "kill_last"}

(* A thread that talks to clients, walks the list to its end or changes it *)
(* has the mutex, and who has it is such a thread, or was when the handler *)
(* took it over: although send_client_id keeps the mutex only when all     *)
(* goes well, send_board locks it a second time, and both of them give it  *)
(* back.  Only what a move still does after its teleport, and the look at  *)
(* the head of the list with which exit_client begins (server.c:381, 421), *)
(* are done without it.                                                    *)
Critical == {"bane", "idok", "boar", "book", "tell", "progress", "hit", "bcast_all", "bcast",
             "exit", "dead", "last", "kill", "kill_last"}
MutexCovers == halt = "" => \A t \in Threads : /\ pc[t] \in Critical => mutex = t
                                               /\ mutex = t => pc[t] \in Critical \cup {"sig_wait"}

\* A thread that sends boards after its teleport, or whose handler took it over while it did.
Unlocked(t) == pc[t] \in {"tbcast_all", "tbcast", "sig_wait"} /\ mutex # t

(* "OTHER THREADS CAN TRY TO SEND A BOAR AT THIS TIME" (server.c:1056):    *)
(* they cannot; two threads never speak to a client at once, so each gets  *)
(* the answer to its own message.  That takes a thread that sends boards   *)
(* without the mutex, or a dialogue that a signal has cut short.           *)
OneConversation == halt = "mixed" => cut # {} \/ \E t \in Clients : Unlocked(t)

\* While main is there, its client has no reader thread and is on no list.
NewLabels == {"refuse", "bane", "first_free", "place", "idcl", "idok", "boar", "book", "unplace", "create"}

\* A client that got an id, and then no reader thread.
GaveUp(c) == id[c] # -1 /\ pc[c] = "none" /\ ~(c = cur /\ pc["main"] \in NewLabels)
Playing(c) == c \in Listed \ freed /\ pc[c] \notin {"exit", "dead"}
Registering(c) == c = cur /\ pc["main"] \in {"idcl", "idok", "boar", "book", "unplace", "create", "add"}

(* Each player's id stands on one cell, and an id on the board is that of  *)
(* one client who plays or is about to.  The exceptions: an overwritten    *)
(* cell after a teleport, or after an index past the end of free_idx; and  *)
(* a client who is turned away after it was placed, whose id, removed      *)
(* without the mutex (server.c:1163), comes back with the copy that        *)
(* progress_fire had made.                                                 *)
BoardMatchesList ==
    halt = "" /\ teleports = 0 /\ ~strayed /\ ~Handled /\ (\A c \in Clients : ~GaveUp(c)) =>
       \A i \in Ids : /\ cells[i] = Cardinality({c \in Clients : id[c] = i /\ (Playing(c) \/ Registering(c))})
                      /\ cells[i] <= 1

(* What remains of the deadlock of client.c:596 ("CAUSED MUTEX/READ_SOCKET *)
(* DEADLOCK"): the X thread waits, with the client's mutex, for the answer *)
(* to its request; the reader thread, done with a board, waits for that    *)
(* mutex; and the server, with its own mutex, waits for the reader thread  *)
(* to answer DEAD, KILL or BOAR.                                           *)
Frozen(c) == creader[c] = "locking" /\ keys[c] \in {"asked", "pending"} /\ wire[c] \in DOMAIN Answers

(* What a signal may leave behind: the server waits, with its mutex, for a *)
(* client that it has taken off the list and that sends nothing            *)
(* (server.c:322); its KILL is taken for the beginning of a board; or a    *)
(* client whose registration was cut short plays without a reader thread.  *)
Lingering(c) == pc[c] = "exit" /\ link[c] = "open" /\ keys[c] # "asked"
Swallowed(c) == wire[c] = "KILL" /\ creader[c] = "half"
Abandoned(c) == c \in cut /\ pc[c] = "none"

\* A request without an answer, or a client that has left and is still on the list.
Waiting(c) == \/ keys[c] \in {"asked", "pending"} /\ link[c] = "open"
              \/ c \in Listed \ freed /\ link[c] = "closed"

=============================================================================
