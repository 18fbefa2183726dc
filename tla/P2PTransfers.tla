---------------------------- MODULE P2PTransfers -----------------------------
(***************************************************************************)
(* src/P2P/KApp.cc: files are downloaded by threads (TCPTransfer) that the *)
(* console's "get" starts, from threads (TCPhandler, AIORead) of another   *)
(* server.  Every process is client and server.  Its threads share the     *)
(* lists of files found, of downloads and of uploads, the working          *)
(* directory, the static pointers cbw and cbr to the control blocks of     *)
(* asynchronous I/O, and the kernel's requests, of which aio_waitcomplete  *)
(* takes whichever is done.                                                *)
(*                                                                         *)
(* Each transfer is of a file of its own, whose name is the transfer's; a  *)
(* control block is named by the thread that allocated it.  What is done   *)
(* with memory that has been freed may end the process.                    *)
(***************************************************************************)
EXTENDS Integers, Sequences, FiniteSets

CONSTANTS Processes, Transfers,
          Routes,    \* functions from transfers to [client, server, parts], where
                     \* parts is the length of the file, in AIO_BUFSIZ bytes
          MaxFails,  \* at most, failures of asynchronous I/O and reads ended by SIGALRM
          None

ASSUME TransfersAssumption ==
    /\ Routes \subseteq [Transfers -> [client : Processes, server : Processes, parts : Nat \ {0}]]
    /\ MaxFails \in Nat

VARIABLES route,      \* who downloads which file, and from whom
          up,         \* the processes that run
          found,      \* files_found: the names on each process's list
          downloads, uploads,
          deleted,    \* transfers whose entry of files_found was deleted
          cwd,        \* each process's working directory
          cb,         \* the static pointers
          live,       \* control blocks allocated and not freed
          aio,        \* the kernel's requests: by whom, at which block, for which part
          fails,      \* how often that has happened
          th,         \* threads: pc, the part i, the directory to return to, aiobuff
          stored,     \* what has been downloaded
          s2c, c2s,   \* bytes on the way
          mishaps     \* history: what has happened to a transfer that should not

lists == <<found, downloads, uploads, deleted>>
blocks == <<cb, live, aio, fails>>
net == <<s2c, c2s>>
vars == <<route, up, lists, cwd, blocks, th, stored, net, mishaps>>

Threads == Transfers \X {"client", "server"}
Client(t) == route[t].client
Server(t) == route[t].server
Parts(t) == route[t].parts
Proc(h) == route[h[1]][h[2]]
Static(h) == IF h[2] = "client" THEN "cbw" ELSE "cbr"
C(t) == <<t, "client">>
S(t) == <<t, "server">>

Source(t) == [n \in 1 .. Parts(t) |-> <<t, n>>]
Junk == <<"junk", 0>>
Sending == <<"sending", 0>>
Error == <<"error", 0>>
Idle(l) == [pc |-> l, i |-> 1, wd |-> "start", buff |-> Junk]

Init == /\ route \in Routes
        /\ up = Processes
        /\ found = [p \in Processes |-> {t \in Transfers : Client(t) = p}]
        /\ downloads = [p \in Processes |-> {}]
        /\ uploads = [p \in Processes |-> {}]
        /\ deleted = {}
        /\ cwd = [p \in Processes |-> "start"]
        /\ cb = [p \in Processes |-> [s \in {"cbw", "cbr"} |-> None]]
        /\ live = {}
        /\ aio = [p \in Processes |-> {}]
        /\ fails = 0
        /\ th = [h \in Threads |-> Idle("none")]
        /\ stored = [t \in Transfers |-> << >>]
        /\ s2c = [t \in Transfers |-> << >>]
        /\ c2s = [t \in Transfers |-> << >>]
        /\ mishaps = {}

-----------------------------------------------------------------------------
pc(h) == th[h].pc
At(h, l) == pc(h) = l
Goto(h, l) == th' = [th EXCEPT ![h].pc = l]
Ended == {"none", "over", "finished", "dead"}
Open(h) == pc(h) \notin Ended \cup {"connect"}
Mishap(t, what) == mishaps' = mishaps \cup {<<t, what>>}

\* abort, or the use of memory that is no longer there: the process ends.
Abort(p) == /\ up' = up \ {p}
            /\ th' = [h \in Threads |-> IF Proc(h) = p THEN Idle("dead") ELSE th[h]]
            /\ found' = [found EXCEPT ![p] = {}]
            /\ downloads' = [downloads EXCEPT ![p] = {}]
            /\ uploads' = [uploads EXCEPT ![p] = {}]
            /\ aio' = [aio EXCEPT ![p] = {}]
            /\ live' = {h \in live : Proc(h) # p}
            /\ cb' = [cb EXCEPT ![p] = [s \in {"cbw", "cbr"} |-> None]]
            /\ stored' = [t \in Transfers |-> IF Client(t) = p /\ pc(C(t)) # "finished" THEN << >> ELSE stored[t]]
            /\ UNCHANGED <<route, deleted, cwd, net, mishaps>>

(* Between malloc and free: the threads that use a static pointer, and the *)
(* kernel's requests, of p.                                                *)
Transferring == {"submit", "wait", "send", "read", "ack"}
InAio(p) == {h \in Threads : Proc(h) = p /\ pc(h) \in Transferring \cup {"open_w"}}
Malloc(h) == /\ cb' = [cb EXCEPT ![Proc(h)][Static(h)] = h]
             /\ live' = live \cup {h}
             /\ LET others == InAio(Proc(h)) \ {h} IN
                mishaps' = mishaps \cup IF others = {} /\ aio[Proc(h)] = {} THEN {}
                                        ELSE {<<g[1], "shared">> : g \in others \cup {h}}
             /\ UNCHANGED <<aio, fails>>

\* The thread ends, or goes on to l, and its process returns to the directory it had got.
Leave(h, l) == LET p == Proc(h) IN
               /\ live' = live \ {cb[p][Static(h)]}
               /\ cb' = IF InAio(p) = {h} THEN [cb EXCEPT ![p][Static(h)] = None] ELSE cb
               /\ cwd' = [cwd EXCEPT ![p] = th[h].wd]
               /\ th' = [th EXCEPT ![h] = Idle(l)]
               /\ stored' = IF h[2] = "client" /\ l = "over" THEN [stored EXCEPT ![h[1]] = << >>] ELSE stored
               /\ UNCHANGED <<route, up, aio>>

-----------------------------------------------------------------------------
(* The console.                                                            *)

Uses == {"connect", "answer", "length", "chdir_w", "open_w"}
RemoveDownloadEntry(t) == found' = [found EXCEPT ![Client(t)] = @ \ {t}]

Get(t) == /\ At(C(t), "none") /\ t \in found[Client(t)]
          /\ Goto(C(t), "connect")
          /\ UNCHANGED <<route, up, lists, cwd, blocks, stored, net, mishaps>>

LClear(p) == /\ found[p] # {}
             /\ found' = [found EXCEPT ![p] = {}]
             /\ deleted' = deleted \cup {t \in found[p] : pc(C(t)) \in Uses}
             /\ UNCHANGED <<route, up, downloads, uploads, cwd, blocks, th, stored, net, mishaps>>

-----------------------------------------------------------------------------
(* Asynchronous I/O, the same in TCPTransfer and in AIORead.               *)

Block(h) == cb[Proc(h)][Static(h)]
AfterIO(h) == IF h[2] = "client" THEN "ack" ELSE "send"
Request(h, done, ok) == [by |-> h, at |-> Block(h), part |-> th[h].i, done |-> done, ok |-> ok]

Fails == fails < MaxFails /\ fails' = fails + 1

\* A pointer that is null, or to a block that was freed, may end the process.
BadPointer(h) == At(h, "submit") /\ Block(h) \notin live /\ Abort(Proc(h)) /\ UNCHANGED fails

(* The entry in downloads or uploads is left there.                        *)
AioFails(h) == /\ Fails
               /\ Leave(h, IF h[2] = "client" THEN "over" ELSE "error")
               /\ Mishap(h[1], "aio failed")
               /\ UNCHANGED <<lists, net>>

\* The file or the buffer gets what a request asks for.
Written(h, part) ==
    stored' = IF h[2] = "server" THEN stored
              ELSE [stored EXCEPT ![h[1]] = [n \in DOMAIN @ \cup 1 .. part |->
                       CASE n = part                     -> th[h].buff
                         [] n # part /\ n \in DOMAIN @ -> @[n]
                         [] OTHER                        -> Junk]]
Buffer(h, part) == IF h[2] = "server" THEN Source(h[1])[part] ELSE th[h].buff

\* Mutant: what is in progress is not waited for.
Submit_goes_on(h) ==
    /\ At(h, "submit") /\ Block(h) # None
    /\ \/ /\ aio' = [aio EXCEPT ![Proc(h)] = @ \cup {Request(h, FALSE, TRUE)}]
          /\ Goto(h, AfterIO(h)) /\ UNCHANGED <<cb, stored>>
       \/ /\ Written(h, th[h].i)
          /\ th' = [th EXCEPT ![h].pc = AfterIO(h), ![h].buff = Buffer(h, th[h].i)]
          /\ UNCHANGED <<aio, cb>>
    /\ UNCHANGED <<route, up, lists, cwd, live, fails, net, mishaps>>

(* aio_read or aio_write, then aio_error: the request is in progress, and  *)
(* aio_waitcomplete empties the pointer as it begins; or it is done.       *)
Submit(h) == /\ At(h, "submit") /\ Block(h) # None
             /\ \/ /\ aio' = [aio EXCEPT ![Proc(h)] = @ \cup {Request(h, FALSE, TRUE)}]
                   /\ cb' = [cb EXCEPT ![Proc(h)][Static(h)] = None]
                   /\ Goto(h, "wait") /\ UNCHANGED stored
                \/ /\ Written(h, th[h].i)
                   /\ th' = [th EXCEPT ![h].pc = AfterIO(h), ![h].buff = Buffer(h, th[h].i)]
                   /\ UNCHANGED <<aio, cb>>
             /\ UNCHANGED <<route, up, lists, cwd, live, fails, net, mishaps>>
SubmitFails(h) == At(h, "submit") /\ AioFails(h)

\* aio_waitcomplete: nobody looks at how the request ended.
Wait(h) == /\ At(h, "wait")
           /\ \E r \in aio[Proc(h)] :
                 /\ r.done
                 /\ aio' = [aio EXCEPT ![Proc(h)] = @ \ {r}]
                 /\ cb' = [cb EXCEPT ![Proc(h)][Static(h)] = r.at]
                 /\ mishaps' = mishaps \cup (IF r.ok THEN {} ELSE {<<r.by[1], "not seen">>})
           /\ Goto(h, AfterIO(h))
           /\ UNCHANGED <<route, up, lists, cwd, live, fails, stored, net>>
\* A signal ends aio_waitcomplete.
WaitFails(h) == At(h, "wait") /\ AioFails(h)

AioStep(h) == Submit(h) \/ SubmitFails(h) \/ Wait(h) \/ WaitFails(h) \/ BadPointer(h)

(* The kernel reads or writes a part, if the file is open still, or fails. *)
Complete(p) ==
    \E r \in aio[p], ok \in BOOLEAN :
       LET open == pc(r.by) \in Transferring
       IN  /\ ~r.done
           /\ IF open /\ ~ok THEN Fails
                             ELSE ok = open /\ UNCHANGED fails
           /\ aio' = [aio EXCEPT ![p] = (@ \ {r}) \cup {[r EXCEPT !.done = TRUE, !.ok = ok]}]
           /\ IF ok THEN /\ Written(r.by, r.part)
                         /\ th' = [th EXCEPT ![r.by].buff = Buffer(r.by, r.part)]
                    ELSE UNCHANGED <<stored, th>>
           /\ UNCHANGED <<route, up, lists, cwd, cb, live, net, mishaps>>

-----------------------------------------------------------------------------
(* TCPhandler and AIORead: an upload.                                      *)

\* What is sent to a client that has gone is lost.
SendTo(t, m) == s2c' = IF Open(C(t)) THEN [s2c EXCEPT ![t] = Append(@, m)] ELSE s2c

\* The request comes in one read, or is not understood; chdir(start_dir).
SRequest(t) == /\ At(S(t), "request")
               /\ \/ Goto(S(t), "getcwd") /\ cwd' = [cwd EXCEPT ![Server(t)] = "start"]
                  \/ Goto(S(t), "over") /\ UNCHANGED cwd
               /\ UNCHANGED <<route, up, lists, blocks, stored, net, mishaps>>

SGetcwd(t) == /\ At(S(t), "getcwd")
              /\ th' = [th EXCEPT ![S(t)].wd = cwd[Server(t)], ![S(t)].pc = "open_r"]
              /\ cwd' = [cwd EXCEPT ![Server(t)] = "upload"]
              /\ UNCHANGED <<route, up, lists, blocks, stored, net, mishaps>>

\* In another directory there is no such file.
SOpen(t) == /\ At(S(t), "open_r") /\ cwd[Server(t)] = "upload"
            /\ SendTo(t, Sending)
            /\ uploads' = [uploads EXCEPT ![Server(t)] = @ \cup {t}]
            /\ Malloc(S(t))
            /\ Goto(S(t), "submit")
            /\ UNCHANGED <<route, up, found, downloads, deleted, cwd, stored, c2s>>
SOpenFails(t) == /\ At(S(t), "open_r")
                 /\ cwd' = [cwd EXCEPT ![Server(t)] = th[S(t)].wd]
                 /\ th' = [th EXCEPT ![S(t)] = Idle("error")]
                 /\ UNCHANGED <<route, up, lists, blocks, stored, net, mishaps>>

\* Mutant: whoever fails leaves the entry on the list.
SEnds_keeps(t, l) == /\ Leave(S(t), l)
                     /\ uploads' = IF l = "error" THEN uploads ELSE [uploads EXCEPT ![Server(t)] = @ \ {t}]
                     /\ UNCHANGED <<found, downloads, deleted, mishaps>>

SEnds(t, l) == /\ Leave(S(t), l)
               /\ uploads' = [uploads EXCEPT ![Server(t)] = @ \ {t}]
               /\ UNCHANGED <<found, downloads, deleted, mishaps>>

SSend(t) == /\ At(S(t), "send")
            /\ SendTo(t, th[S(t)].buff)
            /\ Goto(S(t), "ack")
            /\ UNCHANGED <<route, up, lists, cwd, blocks, stored, c2s, mishaps>>
SSendFails(t) == /\ At(S(t), "send") /\ ~Open(C(t))
                 /\ SEnds(t, "error") /\ UNCHANGED <<net, fails>>

SAck(t) == /\ At(S(t), "ack") /\ c2s[t] # << >>
           /\ c2s' = [c2s EXCEPT ![t] = Tail(@)]
           /\ UNCHANGED s2c
           /\ \/ /\ th[S(t)].i < Parts(t)
                 /\ th' = [th EXCEPT ![S(t)].i = @ + 1, ![S(t)].pc = "submit"]
                 /\ UNCHANGED <<route, up, lists, cwd, blocks, stored, mishaps>>
              \/ th[S(t)].i = Parts(t) /\ SEnds(t, "over") /\ UNCHANGED fails
SAckFails(t) == /\ At(S(t), "ack")
                /\ (c2s[t] = << >> /\ ~Open(C(t)) /\ UNCHANGED fails) \/ Fails
                /\ SEnds(t, "error") /\ UNCHANGED net

(* GenerateError, whatever has been sent before; then four bytes are read. *)
SError(t) == /\ At(S(t), "error")
             /\ SendTo(t, Error)
             /\ Goto(S(t), IF Open(C(t)) THEN "confirm" ELSE "over")
             /\ UNCHANGED <<route, up, lists, cwd, blocks, stored, c2s, mishaps>>

SConfirm(t) == /\ At(S(t), "confirm")
               /\ ((c2s[t] # << >> \/ ~Open(C(t))) /\ UNCHANGED fails) \/ Fails
               /\ Goto(S(t), "over")
               /\ UNCHANGED <<route, up, lists, cwd, cb, live, aio, stored, net, mishaps>>

TCPhandler(t) == \/ SRequest(t) \/ SGetcwd(t) \/ SOpen(t) \/ SOpenFails(t) \/ SSend(t) \/ SSendFails(t)
                 \/ SAck(t) \/ SAckFails(t) \/ SError(t) \/ SConfirm(t) \/ AioStep(S(t))

-----------------------------------------------------------------------------
(* TCPTransfer: a download.                                                *)

\* The entry srv is of files_found: if it has been deleted, its use may end the process.
BadEntry(t) == pc(C(t)) \in Uses /\ t \in deleted /\ Abort(Client(t)) /\ UNCHANGED fails

\* connect, and the request.
CConnect(t) == /\ At(C(t), "connect")
               /\ \/ /\ Server(t) \in up
                     /\ th' = [th EXCEPT ![C(t)].pc = "answer", ![S(t)].pc = "request"]
                  \/ Goto(C(t), "over")
               /\ UNCHANGED <<route, up, lists, cwd, blocks, stored, net, mishaps>>

Arrives(t, m) == s2c[t] # << >> /\ Head(s2c[t]) = m /\ s2c' = [s2c EXCEPT ![t] = Tail(@)]
AtEnd(t) == s2c[t] = << >> /\ ~Open(S(t))

\* An error is confirmed if the file was not on the list any more.
CAnswer(t) ==
    /\ At(C(t), "answer")
    /\ \/ /\ Arrives(t, Sending)
          /\ downloads' = [downloads EXCEPT ![Client(t)] = @ \cup {t}]
          /\ Goto(C(t), "length") /\ UNCHANGED <<found, c2s>>
       \/ /\ Arrives(t, Error)
          /\ RemoveDownloadEntry(t)
          /\ c2s' = IF t \in found[Client(t)] THEN c2s ELSE [c2s EXCEPT ![t] = Append(@, "confirm")]
          /\ Goto(C(t), "over") /\ UNCHANGED downloads
       \/ AtEnd(t) /\ Goto(C(t), "over") /\ UNCHANGED <<found, downloads, net>>
    /\ UNCHANGED <<route, up, uploads, deleted, cwd, blocks, stored, mishaps>>
CAnswerFails(t) == /\ At(C(t), "answer") /\ Fails
                   /\ Goto(C(t), "over")
                   /\ UNCHANGED <<route, up, lists, cwd, cb, live, aio, stored, net, mishaps>>

RemoveDEntry(t) == downloads' = [downloads EXCEPT ![Client(t)] = @ \ {t}]

\* The length has come with the answer, or the server has gone.
CLength(t) == /\ At(C(t), "length")
              /\ \/ Goto(C(t), "chdir_w") /\ UNCHANGED downloads
                 \/ ~Open(S(t)) /\ RemoveDEntry(t) /\ Goto(C(t), "over")
              /\ UNCHANGED <<route, up, found, uploads, deleted, cwd, blocks, stored, net, mishaps>>

CChdir(t) == /\ At(C(t), "chdir_w")
             /\ th' = [th EXCEPT ![C(t)].wd = cwd[Client(t)], ![C(t)].pc = "open_w"]
             /\ cwd' = [cwd EXCEPT ![Client(t)] = "start"]
             /\ Malloc(C(t))
             /\ UNCHANGED <<route, up, lists, stored, net>>

\* The file is emptied, and the entry copied to srvc.
COpen(t) == /\ At(C(t), "open_w") /\ cwd[Client(t)] = "start"
            /\ Goto(C(t), "read")
            /\ deleted' = deleted \ {t}
            /\ UNCHANGED <<route, up, found, downloads, uploads, cwd, blocks, stored, net, mishaps>>
\* There is no srvc yet: RemoveDEntry's assertion fails.
COpenFails(t) == At(C(t), "open_w") /\ Abort(Client(t)) /\ UNCHANGED fails

\* srvc is deleted, and then used: the entry is removed, or not found, or the process ends.
CGivesUp(t) == \/ /\ Leave(C(t), "over")
                  /\ \/ RemoveDEntry(t) /\ UNCHANGED mishaps
                     \/ UNCHANGED downloads /\ Mishap(t, "srvc")
                  /\ UNCHANGED <<found, uploads, deleted, net>>
               \/ Abort(Client(t))

\* The text of an error counts as contents: it may complete the last part, or not.
CRead(t) == /\ At(C(t), "read")
            /\ \/ \E m \in {Junk} \cup {<<t, n>> : n \in 1 .. Parts(t)} :
                     /\ Arrives(t, m)
                     /\ th' = [th EXCEPT ![C(t)].buff = m, ![C(t)].pc = "submit"]
                     /\ UNCHANGED mishaps
               \/ /\ Arrives(t, Error)
                  /\ Mishap(t, "text")
                  /\ \/ /\ th[C(t)].i = Parts(t)
                        /\ th' = [th EXCEPT ![C(t)].buff = Junk, ![C(t)].pc = "submit"]
                     \/ UNCHANGED th
            /\ UNCHANGED <<route, up, lists, cwd, blocks, stored, c2s>>
CReadFails(t) == At(C(t), "read") /\ ((AtEnd(t) /\ UNCHANGED fails) \/ Fails) /\ CGivesUp(t)

\* Mutant: only the last part is confirmed.
CAck_late(t) == /\ At(C(t), "ack")
                /\ UNCHANGED <<s2c, mishaps>>
                /\ \/ /\ th[C(t)].i < Parts(t)
                      /\ th' = [th EXCEPT ![C(t)].i = @ + 1, ![C(t)].pc = "read"]
                      /\ UNCHANGED <<c2s, route, up, lists, cwd, blocks, stored>>
                   \/ /\ th[C(t)].i = Parts(t)
                      /\ c2s' = [c2s EXCEPT ![t] = IF Open(S(t)) THEN Append(@, "ok") ELSE @]
                      /\ RemoveDEntry(t) /\ RemoveDownloadEntry(t)
                      /\ Leave(C(t), "finished") /\ UNCHANGED <<uploads, deleted, fails>>

CAck(t) == /\ At(C(t), "ack")
           /\ c2s' = [c2s EXCEPT ![t] = IF Open(S(t)) THEN Append(@, "ok") ELSE @]
           /\ UNCHANGED <<s2c, mishaps>>
           /\ \/ /\ th[C(t)].i < Parts(t)
                 /\ th' = [th EXCEPT ![C(t)].i = @ + 1, ![C(t)].pc = "read"]
                 /\ UNCHANGED <<route, up, lists, cwd, blocks, stored>>
              \/ /\ th[C(t)].i = Parts(t)
                 /\ RemoveDEntry(t) /\ RemoveDownloadEntry(t)
                 /\ Leave(C(t), "finished") /\ UNCHANGED <<uploads, deleted, fails>>
CAckFails(t) == At(C(t), "ack") /\ ~Open(S(t)) /\ CGivesUp(t) /\ UNCHANGED fails

TCPTransfer(t) == \/ CConnect(t) \/ CAnswer(t) \/ CAnswerFails(t) \/ CLength(t) \/ CChdir(t)
                  \/ COpen(t) \/ COpenFails(t) \/ CRead(t) \/ CReadFails(t) \/ CAck(t) \/ CAckFails(t) \/ BadEntry(t) \/ AioStep(C(t))

-----------------------------------------------------------------------------
Next == \/ \E p \in Processes : LClear(p) \/ Complete(p)
        \/ \E t \in Transfers : Get(t) \/ TCPTransfer(t) \/ TCPhandler(t)

Spec == Init /\ [][Next]_vars

-----------------------------------------------------------------------------
\* What may spoil a file: a shared control block, a failed request nobody saw, the text of an error.
Spoilt(t) == \E what \in {"shared", "not seen", "text"} : <<t, what>> \in mishaps

(* A file of which TCPTransfer says that it is finished is the server's,   *)
(* part by part, although the parts go through static control blocks and   *)
(* aio_waitcomplete may return for anybody's request; unless one of the    *)
(* three mishaps has happened to the transfer.                             *)
Intact == \A t \in Transfers : At(C(t), "finished") => stored[t] = Source(t) \/ Spoilt(t)

Downloading(t) == pc(C(t)) \in {"length", "chdir_w", "open_w"} \cup Transferring

(* "listu" and "listd" show the transfers under way and no others: every   *)
(* way out of AIORead and of TCPTransfer takes the entry off again, except *)
(* those after a failure of asynchronous I/O, and those that look for an   *)
(* entry like srvc after srvc is deleted.                                  *)
ListsMatch ==
    \A t \in Transfers :
       /\ pc(S(t)) \in Transferring => t \in uploads[Server(t)]
       /\ t \in uploads[Server(t)] => pc(S(t)) \in Transferring \/ <<t, "aio failed">> \in mishaps
       /\ Downloading(t) => t \in downloads[Client(t)]
       /\ t \in downloads[Client(t)] => \/ Downloading(t)
                                        \/ <<t, "aio failed">> \in mishaps \/ <<t, "srvc">> \in mishaps

\* The server waits for a confirmation, and none is on the way.
SWaits(t) == (At(S(t), "ack") \/ At(S(t), "confirm")) /\ c2s[t] = << >>

(* The two ends of a transfer never wait for each other, unless the client *)
(* takes the text of an error for contents; and a thread that waits for    *)
(* asynchronous I/O has a request to wait for, unless another thread of    *)
(* the process, with the same control block or the same queue, took it.    *)
NoVainWait ==
    \A t \in Transfers :
       /\ At(C(t), "answer") \/ At(C(t), "read") => s2c[t] # << >> \/ ~ SWaits(t) \/ <<t, "text">> \in mishaps
       /\ \A h \in {C(t), S(t)} : At(h, "wait") => aio[Proc(h)] # {} \/ <<t, "shared">> \in mishaps
=============================================================================
