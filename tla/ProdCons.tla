------------------------------ MODULE ProdCons ------------------------------
(***************************************************************************)
(* The steady state of IPC64's producers (prod.c) and consumers (cons.c).  *)
(* Any number of each share                                                *)
(*   - BUFS one-byte slots of a shared memory segment: buff,               *)
(*   - two System V message queues of slot numbers: qE holds the empty     *)
(*     slots, qF the filled ones,                                          *)
(*   - four System V semaphores: space and full count, prod guards qE and  *)
(*     cons guards qF.                                                     *)
(* A process takes one step per IPC call or access to buff.  Its pc names  *)
(* the call it is about to make.  Start-up, exit and the undo entries that *)
(* SEM_UNDO keeps are in IpcStart and ProdConsUndo.                        *)
(***************************************************************************)
EXTENDS Integers, Sequences, FiniteSets

CONSTANTS Producers,   \* processes that run prod
          Consumers,   \* processes that run cons
          BUFS,        \* number of slots (16 in common.h)
          Products     \* the bytes a producer may make (1..255 in prod.c)

ASSUME ConstantsAssumption ==
    /\ Producers \cap Consumers = {}
    /\ IsFiniteSet(Producers)
    /\ IsFiniteSet(Consumers)
    /\ BUFS \in Nat \ {0}

Procs == Producers \cup Consumers
Slots == 0 .. BUFS - 1
Sems  == {"space", "prod", "cons", "full"}

VARIABLES pc,        \* the call each process is about to make
          sem,       \* value of each semaphore
          qE, qF,    \* queues of empty and of filled slots
          buff,      \* the shared memory; 0 is what the kernel filled it with
          product,   \* go_produce's local product
          slot,      \* go_produce's local to, go_consume's local from
          consumed   \* go_consume's local consumed

vars == <<pc, sem, qE, qF, buff, product, slot, consumed>>

Bytes == Products \cup {0}

ProducerLabels == {"wait_space", "wait_prod", "pop_E", "signal_prod", "fill",
                   "wait_cons", "push_F", "signal_cons", "signal_full"}
ConsumerLabels == {"wait_full", "wait_cons", "pop_F", "signal_cons", "read",
                   "wait_prod", "push_E", "signal_prod", "signal_space"}

-----------------------------------------------------------------------------
(* The calls of libmipc.c and common.c that the loops are made of.         *)

Goto(x, from, to) == /\ pc[x] = from
                     /\ pc' = [pc EXCEPT ![x] = to]

\* Mutant: the wait does not wait (IPC_NOWAIT, and the result not looked at).
mwait_nowait(s) == sem' = [sem EXCEPT ![s] = @ - 1]

mwait(s) == /\ sem[s] > 0
            /\ sem' = [sem EXCEPT ![s] = @ - 1]

msignal(s) == sem' = [sem EXCEPT ![s] = @ + 1]

popE(x) == /\ qE # << >>
           /\ slot' = [slot EXCEPT ![x] = Head(qE)]
           /\ qE' = Tail(qE)

popF(x) == /\ qF # << >>
           /\ slot' = [slot EXCEPT ![x] = Head(qF)]
           /\ qF' = Tail(qF)

-----------------------------------------------------------------------------
(* The queues as the first producer leaves them: it created qE, so it      *)
(* pushed every index; space starts at BUFS-1, not BUFS (prod.c:24).       *)

Init == /\ pc = [x \in Procs |-> IF x \in Producers THEN "wait_space"
                                                    ELSE "wait_full"]
        /\ sem = [space |-> BUFS - 1, prod |-> 1, cons |-> 1, full |-> 0]
        /\ qE = [i \in 1 .. BUFS |-> i - 1]
        /\ qF = << >>
        /\ buff = [i \in Slots |-> 0]
        /\ product = [p \in Producers |-> 0]
        /\ slot = [x \in Procs |-> 0]
        /\ consumed = [c \in Consumers |-> 0]

-----------------------------------------------------------------------------
(* go_produce's loop.  The byte is made just before the wait for space.    *)

PWaitSpace(p) == /\ Goto(p, "wait_space", "wait_prod")
                 /\ mwait("space")
                 /\ \E v \in Products : product' = [product EXCEPT ![p] = v]
                 /\ UNCHANGED <<qE, qF, buff, slot, consumed>>

PWaitProd(p) == /\ Goto(p, "wait_prod", "pop_E")
                /\ mwait("prod")
                /\ UNCHANGED <<qE, qF, buff, product, slot, consumed>>

\* Mutant: pop looks at the oldest message and leaves it there (MSG_COPY).
PPopE_peek(p) == /\ Goto(p, "pop_E", "signal_prod")
                 /\ qE # << >>
                 /\ slot' = [slot EXCEPT ![p] = Head(qE)]
                 /\ UNCHANGED <<sem, qE, qF, buff, product, consumed>>

PPopE(p) == /\ Goto(p, "pop_E", "signal_prod")
            /\ popE(p)
            /\ UNCHANGED <<sem, qF, buff, product, consumed>>

PSignalProd(p) == /\ Goto(p, "signal_prod", "fill")
                  /\ msignal("prod")
                  /\ UNCHANGED <<qE, qF, buff, product, slot, consumed>>

PFill(p) == /\ Goto(p, "fill", "wait_cons")
            /\ buff' = [buff EXCEPT ![slot[p]] = product[p]]
            /\ UNCHANGED <<sem, qE, qF, product, slot, consumed>>

PWaitCons(p) == /\ Goto(p, "wait_cons", "push_F")
                /\ mwait("cons")
                /\ UNCHANGED <<qE, qF, buff, product, slot, consumed>>

\* Mutant: the queue works as a stack.
PPushF_stack(p) == /\ Goto(p, "push_F", "signal_cons")
                   /\ qF' = << slot[p] >> \o qF
                   /\ UNCHANGED <<sem, qE, buff, product, slot, consumed>>

PPushF(p) == /\ Goto(p, "push_F", "signal_cons")
             /\ qF' = Append(qF, slot[p])
             /\ UNCHANGED <<sem, qE, buff, product, slot, consumed>>

PSignalCons(p) == /\ Goto(p, "signal_cons", "signal_full")
                  /\ msignal("cons")
                  /\ UNCHANGED <<qE, qF, buff, product, slot, consumed>>

\* Mutant: full is not signalled.
PSignalFull_forgotten(p) == /\ Goto(p, "signal_full", "wait_space")
                            /\ UNCHANGED <<sem, qE, qF, buff, product, slot, consumed>>

PSignalFull(p) == /\ Goto(p, "signal_full", "wait_space")
                  /\ msignal("full")
                  /\ UNCHANGED <<qE, qF, buff, product, slot, consumed>>

-----------------------------------------------------------------------------
(* go_consume's loop.                                                      *)

\* Mutant: a consumer goes on when full is 0.
CWaitFull_trywait(c) == /\ Goto(c, "wait_full", "wait_cons")
                        /\ sem' = [sem EXCEPT !["full"] = IF @ > 0 THEN @ - 1 ELSE 0]
                        /\ UNCHANGED <<qE, qF, buff, product, slot, consumed>>

CWaitFull(c) == /\ Goto(c, "wait_full", "wait_cons")
                /\ mwait("full")
                /\ UNCHANGED <<qE, qF, buff, product, slot, consumed>>

CWaitCons(c) == /\ Goto(c, "wait_cons", "pop_F")
                /\ mwait("cons")
                /\ UNCHANGED <<qE, qF, buff, product, slot, consumed>>

CPopF(c) == /\ Goto(c, "pop_F", "signal_cons")
            /\ popF(c)
            /\ UNCHANGED <<sem, qE, buff, product, consumed>>

CSignalCons(c) == /\ Goto(c, "signal_cons", "read")
                  /\ msignal("cons")
                  /\ UNCHANGED <<qE, qF, buff, product, slot, consumed>>

CRead(c) == /\ Goto(c, "read", "wait_prod")
            /\ consumed' = [consumed EXCEPT ![c] = buff[slot[c]]]
            /\ UNCHANGED <<sem, qE, qF, buff, product, slot>>

\* Mutant: a consumer pushes to qE without sem_prod.
CWaitProd_free(c) == /\ Goto(c, "wait_prod", "push_E")
                     /\ UNCHANGED <<sem, qE, qF, buff, product, slot, consumed>>

CWaitProd(c) == /\ Goto(c, "wait_prod", "push_E")
                /\ mwait("prod")
                /\ UNCHANGED <<qE, qF, buff, product, slot, consumed>>

\* Mutant: the slot number is not sent back.
CPushE_dropped(c) == /\ Goto(c, "push_E", "signal_prod")
                     /\ UNCHANGED <<sem, qE, qF, buff, product, slot, consumed>>

CPushE(c) == /\ Goto(c, "push_E", "signal_prod")
             /\ qE' = Append(qE, slot[c])
             /\ UNCHANGED <<sem, qF, buff, product, slot, consumed>>

CSignalProd(c) == /\ Goto(c, "signal_prod", "signal_space")
                  /\ msignal("prod")
                  /\ UNCHANGED <<qE, qF, buff, product, slot, consumed>>

CSignalSpace(c) == /\ Goto(c, "signal_space", "wait_full")
                   /\ msignal("space")
                   /\ UNCHANGED <<qE, qF, buff, product, slot, consumed>>

-----------------------------------------------------------------------------
Produce(p) == \/ PWaitSpace(p) \/ PWaitProd(p) \/ PPopE(p) \/ PSignalProd(p)
              \/ PFill(p) \/ PWaitCons(p) \/ PPushF(p) \/ PSignalCons(p)
              \/ PSignalFull(p)

Consume(c) == \/ CWaitFull(c) \/ CWaitCons(c) \/ CPopF(c) \/ CSignalCons(c)
              \/ CRead(c) \/ CWaitProd(c) \/ CPushE(c) \/ CSignalProd(c)
              \/ CSignalSpace(c)

Next == \/ \E p \in Producers : Produce(p)
        \/ \E c \in Consumers : Consume(c)

Spec == Init /\ [][Next]_vars

(* The scheduler runs every process that can run; nothing is assumed about *)
(* which of several waiters a semaphore wakes.                             *)
FairSpec == /\ Spec
            /\ \A p \in Producers : WF_vars(Produce(p))
            /\ \A c \in Consumers : WF_vars(Consume(c))

-----------------------------------------------------------------------------
(* Where the slot numbers are.                                             *)

At(S, labels) == {x \in S : pc[x] \in labels}

\* Processes that popped a slot number and have not pushed it on yet.
Holders == At(Producers, {"signal_prod", "fill", "wait_cons", "push_F"})
             \cup At(Consumers, {"signal_cons", "read", "wait_prod", "push_E"})

\* Consumers between their pop of qF and their signal of space.
Hands == At(Consumers, {"signal_cons", "read", "wait_prod", "push_E",
                        "signal_prod", "signal_space"})

-----------------------------------------------------------------------------
(* Properties.                                                             *)

(* Every variable has the shape the code gives it. *)
TypeOK == /\ pc \in [Procs -> ProducerLabels \cup ConsumerLabels]
          /\ \A p \in Producers : pc[p] \in ProducerLabels
          /\ \A c \in Consumers : pc[c] \in ConsumerLabels
          /\ sem \in [Sems -> Nat]
          /\ qE \in Seq(Slots)
          /\ qF \in Seq(Slots)
          /\ buff \in [Slots -> Bytes]
          /\ product \in [Producers -> Bytes]
          /\ slot \in [Procs -> Slots]
          /\ consumed \in [Consumers -> Bytes]

(* A slot number is in one place at a time: once in qE, or once in qF, or  *)
(* with one process that popped it.  So no two processes ever work on the  *)
(* same byte of the shared memory (prod.c:44, cons.c:40).                  *)
SlotOwnership ==
    /\ \A i, j \in 1 .. Len(qE) : i # j => qE[i] # qE[j]
    /\ \A i, j \in 1 .. Len(qF) : i # j => qF[i] # qF[j]
    /\ \A i \in 1 .. Len(qE), j \in 1 .. Len(qF) : qE[i] # qF[j]
    /\ \A x, y \in Holders : x # y => slot[x] # slot[y]
    /\ \A x \in Holders, i \in 1 .. Len(qE) : qE[i] # slot[x]
    /\ \A x \in Holders, i \in 1 .. Len(qF) : qF[i] # slot[x]

(* No slot number is ever lost: the two queues and the processes that hold *)
(* one account for all BUFS of them.                                       *)
NoSlotLost == Len(qE) + Len(qF) + Cardinality(Holders) = BUFS

(* A process about to pop a queue holds that queue's semaphore, so a pop   *)
(* that waited would keep everyone who could push out.  It never waits:    *)
(* the token of space or full it took stands for a slot number that is     *)
(* there (prod.c:37-41, cons.c:34-37).                                     *)
PopNeverBlocks == \A x \in Procs : /\ pc[x] = "pop_E" => qE # << >>
                                   /\ pc[x] = "pop_F" => qF # << >>

(* sem_space starts at BUFS-1 and not BUFS, which prod.c:24 asks about:    *)
(* "IS IT OK".  It is: one slot number is always left in qE, so all it     *)
(* costs is the use of one slot.                                           *)
OneSlotSpare == qE # << >>

(* The slots work as a FIFO buffer of BUFS-1 bytes: a byte in qF is not    *)
(* overwritten before it is taken, bytes are taken in the order in which   *)
(* they were pushed, and the byte a consumer reads from the slot is the    *)
(* byte that it popped the number of, until it signals space.              *)
Buffer == INSTANCE BoundedBuffer
            WITH Capacity <- BUFS - 1,
                 queue <- [i \in 1 .. Len(qF) |-> buff[qF[i]]],
                 hand <- [c \in Consumers |->
                            IF pc[c] \in {"signal_cons", "read"} THEN << buff[slot[c]] >>
                            ELSE IF c \in Hands THEN << consumed[c] >>
                            ELSE << >>]

BufferSpec == Buffer!Spec

(* With one consumer, every slot number pushed to qF comes back to qE,     *)
(* although two or more producers compete for sem_prod and sem_cons with   *)
(* it and nothing says whom a semaphore wakes first.                       *)
EverySlotReturns ==
    \A s \in Slots : (\E i \in 1 .. Len(qF) : qF[i] = s)
                        ~> (\E i \in 1 .. Len(qE) : qE[i] = s)
=============================================================================
