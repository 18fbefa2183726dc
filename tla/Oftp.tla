-------------------------------- MODULE Oftp ---------------------------------
(***************************************************************************)
(* src/OFTP: clients (oftpc.c) send files and directories to a server      *)
(* (oftps.c) that forks a child for each connection.  Name, modes and      *)
(* contents come through one stream, each read with one read(2), which may *)
(* return less than was written; a client may be interrupted, which puts   *)
(* "!ERR!" in the stream, or killed, at any time.                          *)
(*                                                                         *)
(* A stream is a sequence of pieces.  A name is NAME and a piece of what   *)
(* is behind the name in its buffer of PATH_MAX bytes, modes and "!ERR!"   *)
(* are two pieces of eight bytes, and contents are bytes.  Every client    *)
(* sends one argument, a file or a directory, listed as send_dir walks     *)
(* through it; all files have the name that matters here, File.            *)
(***************************************************************************)
EXTENDS Integers, Sequences, SequencesExt

CONSTANTS Clients,
          Contents,    \* Contents[c]: the bytes of client c's files
          Trees,       \* Trees[c]: what c may send, sequences of "file" and "dir"
          MaxConns,    \* at most, connections of one client
          BUFS,        \* bytes of contents read at once
          Pass,        \* the password as numbers; << >> for option -n
          Byte,        \* number of values of a byte
          File, Stray  \* the file that is sent; whatever else gets created

ASSUME OftpAssumption ==
    /\ BUFS \in Nat \ {0} /\ Byte \in Nat \ {0} /\ MaxConns \in Nat
    /\ \A c \in Clients : Contents[c] \in Seq(0 .. Byte - 1)
    /\ \A c \in Clients : \A t \in Trees[c] : t \in Seq({"file", "dir"}) /\ t # << >>
    /\ Pass \in Seq(0 .. Byte - 1)
    /\ File # Stray /\ "dir" \notin {File, Stray}

VARIABLES cpc,      \* what a client does
          todo,     \* what it has still to send, what it sends first
          sent,     \* bytes of the file that it has sent
          used,     \* connections it has made; the last one is its gfd
          stream,   \* per connection, what has been written and not been read
          wopen,    \* the client has it open
          reply,    \* the server's short answer
          child,    \* the child that serves it
          fname,    \* the name the child has got
          bytes,    \* bytes of contents that it has read
          offset,   \* where in the file its next write goes
          whole,    \* name and modes came in one piece each, and no write was short
          disk,     \* the files: bytes, each with the connection it came by
          opener,   \* by which connection each file was opened last
          overwr    \* option -o

clientVars == <<cpc, todo, sent, used>>
wires == <<stream, wopen, reply>>
serverVars == <<child, fname, bytes, offset, whole, disk, opener>>
vars == <<clientVars, wires, serverVars, overwr>>

Conns == Clients \X (1 .. MaxConns)
Nothing == <<"nothing">>

\* The pieces that are no contents, and what decode makes of them.
Rest == Byte
Garbage == Byte
NAME == <<Byte + 1, Rest>>
DIR == <<Byte + 2, Rest>>
MODES == <<Byte + 3, Rest>>
ERR == <<Byte + 4, Rest>>

Key(n) == IF Pass = << >> THEN 0 ELSE Pass[(n % Len(Pass)) + 1]
encode(buff, n) == [i \in DOMAIN buff |-> (buff[i] + Key(i - 1 + n)) % Byte]
\* Mutant: every read is decoded with the password from its beginning.
decode_restarts(buff, n) == [i \in DOMAIN buff |-> IF buff[i] < Byte THEN (buff[i] - Key(i - 1)) % Byte
                                                                    ELSE Garbage]
decode(buff, n) == [i \in DOMAIN buff |-> IF buff[i] < Byte THEN (buff[i] - Key(i - 1 + n)) % Byte
                                                           ELSE Garbage]

Least(m, n) == IF m < n THEN m ELSE n

Init == /\ cpc = [c \in Clients |-> "connect"]
        /\ todo \in {t \in [Clients -> UNION {Trees[c] : c \in Clients}] :
                           \A c \in Clients : t[c] \in Trees[c]}
        /\ sent = [c \in Clients |-> 0]
        /\ used = [c \in Clients |-> 0]
        /\ stream = [k \in Conns |-> << >>]
        /\ wopen = [k \in Conns |-> FALSE]
        /\ reply = [k \in Conns |-> "none"]
        /\ child = [k \in Conns |-> "none"]
        /\ fname = [k \in Conns |-> Stray]
        /\ bytes = [k \in Conns |-> 0]
        /\ offset = [k \in Conns |-> 0]
        /\ whole = [k \in Conns |-> TRUE]
        /\ disk = [f \in {File, Stray} |-> Nothing]
        /\ opener = [f \in {File, Stray} |-> Nothing]
        /\ overwr \in BOOLEAN

-----------------------------------------------------------------------------
(* A client.                                                               *)

gfd(c) == <<c, used[c]>>
\* What is written to a child that has ended is lost.
Write(c, what) == stream' = IF child[gfd(c)] = "gone" THEN stream
                                                      ELSE [stream EXCEPT ![gfd(c)] = @ \o what]
Close(c) == wopen' = [wopen EXCEPT ![gfd(c)] = FALSE]
Goto(c, l) == cpc' = [cpc EXCEPT ![c] = l]

(* client and reconnect.  A directory has its successor's connection made  *)
(* at once; if there is none, it is closed unused.                         *)
CConnect(c) == /\ cpc[c] = "connect"
               /\ \/ /\ used[c] < MaxConns
                     /\ used' = [used EXCEPT ![c] = @ + 1]
                     /\ wopen' = [wopen EXCEPT ![gfd(c)'] = TRUE]
                     /\ child' = [child EXCEPT ![gfd(c)'] = "name"]
                     /\ Goto(c, IF todo[c] = << >> THEN "spare" ELSE "name")
                  \/ Goto(c, "failed") /\ UNCHANGED <<used, wopen, child>>
               /\ UNCHANGED <<todo, sent, stream, reply, fname, bytes, offset, whole, disk, opener, overwr>>

CSpare(c) == /\ cpc[c] = "spare"
             /\ Close(c) /\ Goto(c, "done")
             /\ UNCHANGED <<todo, sent, used, stream, reply, serverVars, overwr>>

\* A file that cannot be opened is reported.
CName(c) == /\ cpc[c] = "name"
            /\ \/ /\ Write(c, IF Head(todo[c]) = "dir" THEN DIR ELSE NAME)
                  /\ Goto(c, "modes") /\ UNCHANGED wopen
               \/ Write(c, ERR) /\ Close(c) /\ Goto(c, "failed")
            /\ UNCHANGED <<todo, sent, used, reply, serverVars, overwr>>

CModes(c) == /\ cpc[c] = "modes"
             /\ Write(c, MODES) /\ Goto(c, "wait")
             /\ UNCHANGED <<todo, sent, used, wopen, reply, serverVars, overwr>>

(* Whatever is not OK, the end of the stream too, ends the client.         *)
CAnswer(c) == /\ cpc[c] = "wait"
              /\ reply[gfd(c)] # "none" \/ child[gfd(c)] = "gone"
              /\ \/ /\ reply[gfd(c)] # "OK"
                    /\ Goto(c, "failed") /\ Close(c) /\ UNCHANGED todo
                 \/ /\ reply[gfd(c)] = "OK" /\ Head(todo[c]) = "dir"
                    /\ Goto(c, "connect") /\ Close(c)
                    /\ todo' = [todo EXCEPT ![c] = Tail(@)]
                 \/ /\ reply[gfd(c)] = "OK" /\ Head(todo[c]) # "dir"
                    /\ Goto(c, "data") /\ UNCHANGED <<wopen, todo>>
              /\ UNCHANGED <<sent, used, stream, reply, serverVars, overwr>>

Chunk(c) == encode(SubSeq(Contents[c], sent[c] + 1, Least(sent[c] + BUFS, Len(Contents[c]))), sent[c])

\* A write to a child that has ended may raise SIGPIPE, which ends the client.
CData(c) == /\ cpc[c] = "data" /\ Chunk(c) # << >>
            /\ \/ /\ Write(c, Chunk(c))
                  /\ sent' = [sent EXCEPT ![c] = @ + Len(Chunk(c))]
                  /\ UNCHANGED <<cpc, wopen>>
               \/ /\ child[gfd(c)] = "gone"
                  /\ Goto(c, "failed") /\ Close(c)
                  /\ UNCHANGED <<stream, sent>>
            /\ UNCHANGED <<todo, used, reply, serverVars, overwr>>

CEnd(c) == /\ cpc[c] = "data" /\ Chunk(c) = << >>
           /\ Close(c)
           /\ sent' = [sent EXCEPT ![c] = 0]
           /\ todo' = [todo EXCEPT ![c] = Tail(@)]
           /\ Goto(c, IF Tail(todo[c]) = << >> THEN "done" ELSE "connect")
           /\ UNCHANGED <<used, stream, reply, serverVars, overwr>>

ClientStep(c) == \/ CConnect(c) \/ CSpare(c) \/ CName(c) \/ CModes(c)
                 \/ CAnswer(c) \/ CData(c) \/ CEnd(c)

(* SIGINT: "!ERR!" is written to the server, even in the middle of a write.*)
Interrupt(c) == /\ cpc[c] \notin {"done", "failed"}
                /\ IF used[c] > 0 /\ wopen[gfd(c)]
                   THEN /\ Close(c)
                        /\ \E n \in 0 .. (IF cpc[c] = "data" THEN Len(Chunk(c)) ELSE 0) :
                              Write(c, SubSeq(Chunk(c), 1, n) \o ERR)
                   ELSE UNCHANGED <<wopen, stream>>
                /\ Goto(c, "failed")
                /\ UNCHANGED <<todo, sent, used, reply, serverVars, overwr>>

Kill(c) == /\ cpc[c] \notin {"done", "failed"}
           /\ IF used[c] > 0 THEN Close(c) ELSE UNCHANGED wopen
           /\ Goto(c, "failed")
           /\ UNCHANGED <<todo, sent, used, stream, reply, serverVars, overwr>>

-----------------------------------------------------------------------------
(* handle_client, for the connection k.                                    *)

serverRest == <<clientVars, wopen, overwr>>

\* A read of at most max pieces returns any number of those that are there.
Read(k, max, n) == /\ n \in 1 .. Least(max, Len(stream[k]))
                   /\ stream' = [stream EXCEPT ![k] = SubSeq(@, n + 1, Len(@))]
AtEnd(k) == stream[k] = << >> /\ ~wopen[k]
To(k, l) == child' = [child EXCEPT ![k] = l]
Answer(k, r) == reply' = [reply EXCEPT ![k] = r]

\* The child ends: what it had and what it has not read are gone.
Gone(k) == /\ To(k, "gone")
           /\ stream' = [stream EXCEPT ![k] = << >>]
           /\ fname' = [fname EXCEPT ![k] = Stray]
           /\ bytes' = [bytes EXCEPT ![k] = 0]
           /\ offset' = [offset EXCEPT ![k] = 0]
           /\ whole' = [whole EXCEPT ![k] = TRUE]

(* The end of the stream is no error: the buffer, never written, is taken  *)
(* for a name; it may be too long.                                         *)
SName(k) ==
    /\ child[k] = "name"
    /\ \/ /\ stream[k] # << >> /\ Head(stream[k]) # Head(ERR)
          /\ \E n \in 1 .. Len(NAME) : Read(k, Len(NAME), n) /\ whole' = [whole EXCEPT ![k] = n = Len(NAME)]
          /\ fname' = [fname EXCEPT ![k] = CASE Head(stream[k]) = Head(NAME) -> File
                                             [] Head(stream[k]) = Head(DIR)  -> "dir"
                                             [] OTHER                        -> Stray]
          /\ To(k, "modes") /\ UNCHANGED <<reply, bytes, offset>>
       \/ /\ stream[k] # << >> /\ Head(stream[k]) = Head(ERR)
          /\ Gone(k) /\ UNCHANGED reply
       \/ /\ AtEnd(k)
          /\ \/ To(k, "modes") /\ UNCHANGED <<stream, reply, fname, bytes, offset, whole>>
             \/ Answer(k, "NAME_2LONG") /\ Gone(k)
    /\ UNCHANGED <<serverRest, disk, opener>>

(* "!ERR!" instead of the modes is not recognised: the name is looked at   *)
(* once more.                                                              *)
SModes(k) ==
    /\ child[k] = "modes"
    /\ \/ \E n \in 1 .. Len(MODES) : /\ Read(k, Len(MODES), n)
                                     /\ whole' = [whole EXCEPT ![k] = @ /\ n = Len(MODES)]
       \/ AtEnd(k) /\ UNCHANGED <<stream, whole>>
    /\ To(k, IF fname[k] = "dir" THEN "mkdir" ELSE "exists")
    /\ UNCHANGED <<serverRest, reply, fname, bytes, offset, disk, opener>>

SMkdir(k) == /\ child[k] = "mkdir"
             /\ \E r \in {"OK", "ERROR"} : Answer(k, r)
             /\ Gone(k)
             /\ UNCHANGED <<serverRest, disk, opener>>

SExists(k) == /\ child[k] = "exists"
              /\ \/ /\ disk[fname[k]] = Nothing \/ overwr
                    /\ To(k, "create") /\ UNCHANGED <<stream, reply, fname, bytes, offset, whole>>
                 \/ /\ disk[fname[k]] # Nothing /\ ~overwr
                    /\ Answer(k, "EEXISTS") /\ Gone(k)
              /\ UNCHANGED <<serverRest, disk, opener>>

\* Mutant: the answer to the names and modes is left out.
SCreate_dumb(k) == /\ child[k] = "create"
                   /\ disk' = [disk EXCEPT ![fname[k]] = << >>]
                   /\ opener' = [opener EXCEPT ![fname[k]] = k]
                   /\ To(k, "data")
                   /\ UNCHANGED <<serverRest, stream, reply, fname, bytes, offset, whole>>

\* The answer to a client that has gone may raise SIGPIPE.
SCreate(k) == /\ child[k] = "create"
              /\ \/ /\ disk' = [disk EXCEPT ![fname[k]] = << >>]
                    /\ opener' = [opener EXCEPT ![fname[k]] = k]
                    /\ \/ Answer(k, "OK") /\ To(k, "data") /\ UNCHANGED <<stream, fname, bytes, offset, whole>>
                       \/ ~wopen[k] /\ Gone(k) /\ UNCHANGED reply
                 \/ Answer(k, "CANNT_WRT_OUT") /\ Gone(k) /\ UNCHANGED <<disk, opener>>
              /\ UNCHANGED serverRest

\* Bytes are written where the child is in the file; what is before is zero.
WriteAt(old, at, new) == [i \in 1 .. (IF Len(old) > at + Len(new) THEN Len(old) ELSE at + Len(new)) |->
                             IF i > at /\ i <= at + Len(new) THEN new[i - at]
                             ELSE IF i <= Len(old) THEN old[i] ELSE <<0, Nothing>>]

(* Contents, or an error of the disk, which ends the child.  A write that   *)
(* was short is not noticed: what it left out is counted in bytes, the     *)
(* password's position, and missing from the file.                         *)
SData(k) ==
    /\ child[k] = "data"
    /\ \/ \E n \in 1 .. BUFS : \E m \in 1 .. n :
            /\ Read(k, BUFS, n)
            /\ LET got == decode(SubSeq(stream[k], 1, n), bytes[k])
               IN  disk' = [disk EXCEPT ![fname[k]] = WriteAt(@, offset[k], [i \in 1 .. m |-> <<got[i], k>>])]
            /\ bytes' = [bytes EXCEPT ![k] = @ + n]
            /\ offset' = [offset EXCEPT ![k] = @ + m]
            /\ whole' = [whole EXCEPT ![k] = @ /\ m = n]
            /\ UNCHANGED <<child, fname>>
       \/ stream[k] # << >> /\ Gone(k) /\ UNCHANGED disk
    /\ UNCHANGED <<serverRest, reply, opener>>

SEnd(k) == /\ child[k] = "data" /\ AtEnd(k)
           /\ To(k, "stored")
           /\ UNCHANGED <<serverRest, stream, reply, fname, bytes, offset, whole, disk, opener>>

ChildStep(k) == SName(k) \/ SModes(k) \/ SMkdir(k) \/ SExists(k) \/ SCreate(k) \/ SData(k) \/ SEnd(k)

-----------------------------------------------------------------------------
Next == \/ \E c \in Clients : ClientStep(c) \/ Interrupt(c) \/ Kill(c)
        \/ \E k \in Conns : ChildStep(k)

Spec == Init /\ [][Next]_vars

(* Every process runs; users need not press ^C.                            *)
FairSpec == /\ Spec
            /\ \A c \in Clients : WF_vars(ClientStep(c))
            /\ \A k \in Conns : WF_vars(ChildStep(k))

-----------------------------------------------------------------------------
Values(f) == [i \in DOMAIN f |-> f[i][1]]

(* What the server has stored when it reports the bytes of a file is what  *)
(* the client has in it, however the stream was cut and whatever the       *)
(* password: all of it if the client came to its end, else the beginning,  *)
(* with the sixteen bytes of "!ERR!" behind it if it was interrupted       *)
(* (oftpc.c:390; the server takes them for contents).  The exceptions: a   *)
(* name or modes that came in pieces (oftps.c:92, 113), a short write to   *)
(* the file (157), and a file with bytes in it that another child has      *)
(* written or has left out (132).                                          *)
StoredAsSent ==
    LET k == opener[File]
        c == k[1]
        v == Values(disk[File])
    IN  /\ k # Nothing /\ child[k] = "stored" /\ whole[k]
        /\ \A i \in DOMAIN disk[File] : disk[File][i][2] = k
        => \/ v = Contents[c]
           \/ /\ cpc[c] = "failed" /\ k = gfd(c)
              /\ \E n \in 0 .. Len(Contents[c]) :
                    v \in {SubSeq(Contents[c], 1, n), SubSeq(Contents[c], 1, n) \o <<Garbage, Garbage>>}

(* Neither side waits for ever for the other: the one reads an answer only *)
(* when the other has what it needs to give it, or has ended.              *)
Ends == <>[](/\ \A c \in Clients : cpc[c] \in {"done", "failed"}
             /\ \A k \in Conns : child[k] \in {"none", "stored", "gone"})
=============================================================================
