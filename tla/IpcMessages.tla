---------------------------- MODULE IpcMessages -----------------------------
(***************************************************************************)
(* libmipc's message calls, mmsgsendtxt, mmsgrecvtxt and mmsgrecptxt, on   *)
(* one System V queue.  A text is known by its length.  On 64-bit Linux    *)
(* the kernel's message type is a long and struct mmsg has an int32_t:     *)
(* the type the kernel sees is the priority and the first four bytes of    *)
(* the text.  Every receive asks for type 0, that is, for any message, so  *)
(* nothing depends on it, except that a type must not be 0 or negative.    *)
(* Those who call the library rely on less than one queue for all: that    *)
(* what one process sends with one priority stays in order.                *)
(* mmsgrecvstr and mmsgrecpstr hand the kernel the address of their        *)
(* parameter instead of the struct's; they cannot be used, nothing uses    *)
(* them, and they are not modelled.                                        *)
(***************************************************************************)
EXTENDS Integers, Sequences, SequencesExt

CONSTANTS Senders, Receivers,
          MSGSIZ, PRIOR,     \* 2048 and 1024 in libmipc.h
          QBYTES,            \* the kernel's limit on the bytes in a queue
          Lengths,           \* lengths of the texts sent
          Priorities         \* priorities and types asked for

ASSUME MessagesAssumption == /\ MSGSIZ \in Nat /\ PRIOR \in Nat
                             /\ QBYTES \in Nat \ {0}
                             /\ Lengths \subseteq Nat
                             /\ Priorities \subseteq Int

VARIABLES queue,      \* the messages, oldest first
          dropped,    \* mdropmsg has removed the queue
          exited,     \* senders that error() has ended
          number,     \* history: for each stream, the number of its next message
          expected,   \* history: for each stream, the number to be received next
          ret,        \* what each receiver's last call returned
          got         \* history: sender, number and priority of the message received last

vars == <<queue, dropped, exited, number, expected, ret, got>>

\* A stream: the messages of one sender that have one priority.
Streams == Senders \X Priorities
Stream(m) == <<m.from, m.pri>>

\* Messages of a stream are numbered modulo more than the queue can hold.
Modulus == QBYTES + 1
Next1(n) == (n + 1) % Modulus

Bytes(q) == FoldSeq(LAMBDA m, sum : sum + m.len, 0, q)

NoMessage == [from |-> "none", n |-> 0, pri |-> 0]

Init == /\ queue = << >>
        /\ dropped = FALSE
        /\ exited = {}
        /\ number = [s \in Streams |-> 0]
        /\ expected = [s \in Streams |-> 0]
        /\ ret = [r \in Receivers |-> 0]
        /\ got = NoMessage

-----------------------------------------------------------------------------
(* mmsgsendtxt                                                             *)

\* What passes the tests of mmsgsendtxt; anything else ends the process.
Acceptable(len, pri) == len < MSGSIZ /\ pri >= 0 /\ pri < PRIOR

\* msgsnd waits while there is no room for one more message.
Room(len) == /\ Bytes(queue) + len <= QBYTES
             /\ Len(queue) + 1 <= QBYTES

SendRefused(s, len, pri) == /\ s \notin exited
                            /\ ~ Acceptable(len, pri)
                            /\ exited' = exited \cup {s}
                            /\ UNCHANGED <<queue, dropped, number, expected, ret, got>>

\* A type of 0 is EINVAL, a removed queue EIDRM: nothing is sent.
SendFails(s, len, pri) == /\ s \notin exited
                          /\ Acceptable(len, pri)
                          /\ dropped \/ (len = 0 /\ pri = 0)
                          /\ UNCHANGED vars

Send(s, len, pri) == /\ s \notin exited
                     /\ Acceptable(len, pri)
                     /\ ~ dropped /\ (len > 0 \/ pri > 0)
                     /\ Room(len)
                     /\ queue' = Append(queue, [from |-> s, n |-> number[<<s, pri>>],
                                                pri |-> pri, len |-> len])
                     /\ number' = [number EXCEPT ![<<s, pri>>] = Next1(@)]
                     /\ UNCHANGED <<dropped, exited, expected, ret, got>>

-----------------------------------------------------------------------------
(* mmsgrecvtxt(type, wt) and mmsgrecptxt(wt)                               *)

Calls == {<<"recv", type, wt>> : type \in Priorities, wt \in BOOLEAN}
           \cup {<<"recp", 0, wt>> : wt \in BOOLEAN}

\* Mutant: the newest message is taken.
Taken_newest(c) == Len(queue)

\* Which message msgrcv takes: type 0, the oldest, whatever was asked for.  (The
\* comments at libmipc.h:56 and libmipc.c:301 speak of types and priorities; the
\* remarks at libmipc.c:253 and 308-309 know that they are not used.)
Taken(c) == 1

\* A message that is too long is taken off the queue, and -1 returned.
Receive(r, c) == LET m == queue[Taken(c)] IN
    /\ ~ dropped /\ queue # << >>
    /\ queue' = [k \in 1 .. Len(queue) - 1 |-> IF k < Taken(c) THEN queue[k] ELSE queue[k + 1]]
    /\ ret' = [ret EXCEPT ![r] = IF m.len >= MSGSIZ THEN -1 ELSE 0]
    /\ expected' = [expected EXCEPT ![Stream(m)] = Next1(m.n)]
    /\ got' = [from |-> m.from, n |-> m.n, pri |-> m.pri]
    /\ UNCHANGED <<dropped, exited, number>>

\* Without a message and with wt = 0 the kernel says ENOMSG.  The code tests for EAGAIN.
ReceiveNothing(r, c) == /\ ~ dropped /\ queue = << >>
                        /\ ~ c[3]
                        /\ ret' = [ret EXCEPT ![r] = -1]
                        /\ UNCHANGED <<queue, dropped, exited, number, expected, got>>

ReceiveFails(r, c) == /\ dropped
                      /\ ret' = [ret EXCEPT ![r] = -1]
                      /\ UNCHANGED <<queue, dropped, exited, number, expected, got>>

\* mdropmsg, mdropmsgkey
Drop == /\ ~ dropped
        /\ dropped' = TRUE
        /\ queue' = << >>
        /\ UNCHANGED <<exited, number, expected, ret, got>>

-----------------------------------------------------------------------------
Next == \/ \E s \in Senders, len \in Lengths, pri \in Priorities :
              SendRefused(s, len, pri) \/ SendFails(s, len, pri) \/ Send(s, len, pri)
        \/ \E r \in Receivers, c \in Calls :
              Receive(r, c) \/ ReceiveNothing(r, c) \/ ReceiveFails(r, c)
        \/ Drop

Spec == Init /\ [][Next]_vars

\* Some receiver goes on receiving.
FairSpec == Spec /\ WF_vars(\E r \in Receivers, c \in Calls : Receive(r, c))

-----------------------------------------------------------------------------
(* Of the messages that one sender sends with one priority, each that is   *)
(* accepted is received once and in the order sent, though several         *)
(* processes send and receive and calls of all kinds are mixed: where code *)
(* and comments agree, and all that push and pop of IPC64 rely on          *)
(* (libmipc.c:222-329, common.c:8, 15).                                    *)
InOrder == [][\A r \in Receivers, c \in Calls :
                 Receive(r, c) => LET m == queue[Taken(c)] IN m.n = expected[Stream(m)]]_vars

(* No message is passed over for ever, however many come after it: type 0  *)
(* takes the oldest.                                                       *)
Delivered == \A s \in Senders, p \in Priorities :
    (\E k \in 1 .. Len(queue) : queue[k].from = s /\ queue[k].pri = p)
        ~> (got.from = s /\ got.pri = p) \/ dropped

=============================================================================
