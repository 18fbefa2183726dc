------------------------------ MODULE MutCopy -------------------------------
(***************************************************************************)
(* IPC64's mutcopy: n forked clients read their parts of a file, chunk by  *)
(* chunk, into one shared buffer, and the server writes the chunks to the  *)
(* copy.  sems lets one client fill the buffer, semf lets the server empty *)
(* it, semc guards it; a message in que tells the server which bytes of    *)
(* the file the buffer holds, and -1 -1 that a client is done.             *)
(* A client that is done sleeps for a second and exits.  The kernel then   *)
(* undoes its waits and signals (SEM_UNDO in libmipc.c): it adds to sems   *)
(* every token the client took and takes from semf every one it gave.      *)
(* Nothing makes the second long enough for the server to be done first.   *)
(* The length of the queue is not bounded here; IpcMessages has that.      *)
(***************************************************************************)
EXTENDS Integers, Sequences

CONSTANTS N,       \* number of clients (option -n, 5 by default)
          BUFS,    \* size of the buffer (20 in mutcopy.c)
          Sizes    \* the sizes of the input file to be checked

ASSUME CopyAssumption == /\ N \in Nat \ {0}
                         /\ BUFS \in Nat \ {0}
                         /\ Sizes \subseteq Nat

Clients == 0 .. N - 1

VARIABLES size,       \* size of the input file
          pc,         \* label of each client
          spc,        \* label of the server
          sems, semc, semf,
          que,        \* messages <<from, to>>
          buff,       \* the shared buffer
          out,        \* the output file
          part,       \* client_run's local part
          done,       \* client_run's local done
          i,          \* server: children forked; then whether it is past the first round
          clients,    \* server_run's local clients
          early       \* history: a client ended before the server was done, or was never born

vars == <<size, pc, spc, sems, semc, semf, que, buff, out, part, done, i, clients, early>>

files == <<size, buff, out>>
semaphores == <<sems, semc, semf>>

\* The input: its bytes are told apart, and none is 0.
Input(k) == k + 1

\* file_c: the output gets its size at once, from one 0 byte at its end.  For an
\* empty input lseek(fdo, -1) fails, and that byte is written at 0.
OutLast == IF size = 0 THEN 0 ELSE size - 1

Init == /\ size \in Sizes
        /\ pc = [a \in Clients |-> "unborn"]
        /\ spc = "fork"
        /\ sems = 0
        /\ semc = 1
        /\ semf = 1
        /\ que = << >>
        /\ buff = [j \in 0 .. BUFS - 1 |-> 0]
        /\ out = [k \in 0 .. OutLast |-> 0]
        /\ part = [a \in Clients |-> 0]
        /\ done = [a \in Clients |-> FALSE]
        /\ i = 0
        /\ clients = N
        /\ early = FALSE

-----------------------------------------------------------------------------
(* A client.                                                               *)
CGoto(a, from, to) == pc[a] = from /\ pc' = [pc EXCEPT ![a] = to]

CWaitSems(a) == /\ CGoto(a, "wait_sems", "wait_semc")
                /\ sems > 0
                /\ sems' = sems - 1
                /\ UNCHANGED <<files, spc, semc, semf, que, part, done, i, clients, early>>

CWaitSemc(a) == /\ CGoto(a, "wait_semc", "write")
                /\ semc > 0
                /\ semc' = semc - 1
                /\ UNCHANGED <<files, spc, sems, semf, que, part, done, i, clients, early>>

\* write_to_buffer: where the client's next chunk begins, and where it ends.
Offset(a) == ((size * a) \div N) + BUFS * part[a]

\* Mutant: parts are rounded before they are multiplied.
To_rounded(a) == LET to == (size \div N) * (a + 1) IN
                 IF Offset(a) + BUFS > to THEN to ELSE Offset(a) + BUFS

To(a) == LET to == (size * (a + 1)) \div N IN
         IF Offset(a) + BUFS > to THEN to ELSE Offset(a) + BUFS

CWrite(a) ==
    /\ CGoto(a, "write", "signal_semc")
    /\ \/ /\ Offset(a) > To(a)
          /\ que' = Append(que, <<-1, -1>>)
          /\ done' = [done EXCEPT ![a] = TRUE]
          /\ UNCHANGED buff
       \/ /\ Offset(a) <= To(a)
          /\ que' = Append(que, <<Offset(a), To(a)>>)
          /\ buff' = [j \in DOMAIN buff |-> IF Offset(a) + j < To(a) THEN Input(Offset(a) + j)
                                                                     ELSE buff[j]]
          /\ UNCHANGED done
    /\ UNCHANGED <<size, out, semaphores, spc, part, i, clients, early>>

CSignalSemc(a) == /\ CGoto(a, "signal_semc", "signal_semf")
                  /\ semc' = semc + 1
                  /\ UNCHANGED <<files, spc, sems, semf, que, part, done, i, clients, early>>

CSignalSemf(a) == /\ CGoto(a, "signal_semf", IF done[a] THEN "sleep" ELSE "wait_sems")
                  /\ semf' = semf + 1
                  /\ part' = [part EXCEPT ![a] = @ + 1]
                  /\ UNCHANGED <<files, spc, sems, semc, que, done, i, clients, early>>

\* The second is over.  If the semaphores are still there, part[a] waits for
\* sems and part[a] signals of semf are undone; semf stops at 0.
CExit(a) == /\ CGoto(a, "sleep", "gone")
            /\ IF spc \in {"sleep", "gone"}
               THEN UNCHANGED <<sems, semf, early>>
               ELSE /\ sems' = sems + part[a]
                    /\ semf' = IF semf < part[a] THEN 0 ELSE semf - part[a]
                    /\ early' = (early \/ spc # "drop")
            /\ UNCHANGED <<files, spc, semc, que, part, done, i, clients>>

-----------------------------------------------------------------------------
(* The server.                                                             *)
SGoto(from, to) == spc = from /\ spc' = to

\* fork's result -1 counts as success: the client is missing, nobody notices.
SFork == /\ spc = "fork"
         /\ i < N
         /\ \/ pc' = [pc EXCEPT ![i] = "wait_sems"] /\ UNCHANGED early
            \/ UNCHANGED pc /\ early' = TRUE
         /\ i' = i + 1
         /\ UNCHANGED <<files, semaphores, spc, que, part, done, clients>>

SForked == /\ SGoto("fork", "wait_semf")
           /\ i = N
           /\ i' = 0
           /\ UNCHANGED <<files, semaphores, pc, que, part, done, clients, early>>

SWaitSemf == /\ SGoto("wait_semf", "wait_semc")
             /\ semf > 0
             /\ semf' = semf - 1
             /\ UNCHANGED <<files, sems, semc, pc, que, part, done, i, clients, early>>

SWaitSemc == /\ SGoto("wait_semc", "read")
             /\ semc > 0
             /\ semc' = semc - 1
             /\ UNCHANGED <<files, sems, semf, pc, que, part, done, i, clients, early>>

\* Mutant: the server is done when the first client is.
SRead_firstDone ==
    /\ spc = "read"
    /\ \/ i = 0 /\ UNCHANGED <<que, out, clients>>
       \/ /\ i > 0 /\ que # << >>
          /\ que' = Tail(que)
          /\ LET from == Head(que)[1]  to == Head(que)[2] IN
             IF from = -1 THEN clients' = 0 /\ UNCHANGED out
             ELSE /\ out' = [k \in DOMAIN out |-> IF k \in from .. to - 1 THEN buff[k - from]
                                                                         ELSE out[k]]
                  /\ UNCHANGED clients
    /\ spc' = IF clients' = 0 THEN "drop" ELSE "signal_semc"
    /\ UNCHANGED <<size, buff, semaphores, pc, part, done, i, early>>

\* Mutant: the first round reads from the queue, too.
SRead_always ==
    /\ spc = "read"
    /\ que # << >>
    /\ que' = Tail(que)
    /\ LET from == Head(que)[1]  to == Head(que)[2] IN
       IF from = -1 THEN clients' = clients - 1 /\ UNCHANGED out
       ELSE /\ out' = [k \in DOMAIN out |-> IF k \in from .. to - 1 THEN buff[k - from]
                                                                   ELSE out[k]]
            /\ UNCHANGED clients
    /\ spc' = IF clients' = 0 THEN "drop" ELSE "signal_semc"
    /\ UNCHANGED <<size, buff, semaphores, pc, part, done, i, early>>

\* read_from_buffer; in its first round the server leaves queue and buffer alone.
SRead ==
    /\ spc = "read"
    /\ \/ i = 0 /\ UNCHANGED <<que, out, clients>>
       \/ /\ i > 0 /\ que # << >>
          /\ que' = Tail(que)
          /\ LET from == Head(que)[1]  to == Head(que)[2] IN
             IF from = -1 THEN clients' = clients - 1 /\ UNCHANGED out
             ELSE /\ out' = [k \in DOMAIN out |-> IF k \in from .. to - 1 THEN buff[k - from]
                                                                         ELSE out[k]]
                  /\ UNCHANGED clients
    /\ spc' = IF clients' = 0 THEN "drop" ELSE "signal_semc"
    /\ UNCHANGED <<size, buff, semaphores, pc, part, done, i, early>>

SSignalSemc == /\ SGoto("signal_semc", "signal_sems")
               /\ semc' = semc + 1
               /\ UNCHANGED <<files, sems, semf, pc, que, part, done, i, clients, early>>

SSignalSems == /\ SGoto("signal_sems", "wait_semf")
               /\ sems' = sems + 1
               /\ i' = 1
               /\ UNCHANGED <<files, semc, semf, pc, que, part, done, clients, early>>

\* drop_ipc removes the semaphores and the queue.
SDrop == /\ SGoto("drop", "sleep")
         /\ UNCHANGED <<files, semaphores, pc, que, part, done, i, clients, early>>

SExit == /\ SGoto("sleep", "gone")
         /\ UNCHANGED <<files, semaphores, pc, que, part, done, i, clients, early>>

-----------------------------------------------------------------------------
Client(a) == \/ CWaitSems(a) \/ CWaitSemc(a) \/ CWrite(a)
             \/ CSignalSemc(a) \/ CSignalSemf(a)

Server == \/ SFork \/ SForked \/ SWaitSemf \/ SWaitSemc \/ SRead
          \/ SSignalSemc \/ SSignalSems \/ SDrop \/ SExit

Next == Server \/ \E a \in Clients : Client(a) \/ CExit(a)

Spec == Init /\ [][Next]_vars

\* Every process that can run is run; how long a second is stays open.
FairSpec == Spec /\ WF_vars(Server) /\ \A a \in Clients : WF_vars(Client(a))

-----------------------------------------------------------------------------
(* When the server is done the copy is the input, if no client exited      *)
(* before that (server_run, client_run); how the chunks of the clients     *)
(* interleave makes no difference.  The copy of an empty file is one byte  *)
(* long (mutcopy.c:169-170).                                               *)
CopyCorrect == spc \in {"drop", "sleep", "gone"} /\ ~ early
                  => IF size = 0 THEN out = [k \in {0} |-> 0]
                     ELSE out = [k \in 0 .. size - 1 |-> Input(k)]

(* The server removes semaphores and queue only when nothing is left in    *)
(* the queue and every client is past its last use of them; so it is with  *)
(* early exits too (mutcopy.c:103-110).                                    *)
DropDisturbsNobody == spc \in {"drop", "sleep", "gone"}
                         => /\ que = << >>
                            /\ \A a \in Clients : pc[a] \in {"sleep", "gone"}

(* The server ends, if every client was born and none exits before it.     *)
(* With an early exit it may wait for semf for ever.                       *)
Terminates == []~early => <>(spc = "gone")

=============================================================================
