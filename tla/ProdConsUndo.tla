---------------------------- MODULE ProdConsUndo ----------------------------
(***************************************************************************)
(* ProdCons with what SEM_UNDO adds to it.  mwait and msignal ask the      *)
(* kernel to undo them when the process ends (libmipc.c:118, 132), and the *)
(* loops of prod and cons end only by a signal, such as the user's ^C.     *)
(* For a mutex that is what one wants.  For the counters space and full it *)
(* is not: a producer takes from space and gives to full for good, so its  *)
(* undo entries grow with every byte it makes.                             *)
(*   - When it ends, the kernel gives all of them back.                    *)
(*   - When an entry reaches the kernel's limit, semop fails with ERANGE;  *)
(*     mwait prints a message and returns -1, which no caller looks at.    *)
(***************************************************************************)
EXTENDS ProdCons

CONSTANTS SEMAEM,      \* largest undo entry the kernel keeps (32767 on Linux)
          MaxKills,    \* bound: how many times a process is killed
          MaxSurplus   \* bound: no wait fails when that many tokens are in excess

ASSUME UndoAssumption == SEMAEM \in Nat \ {0} /\ MaxKills \in Nat /\ MaxSurplus \in Nat

VARIABLES adj,     \* for each process and semaphore, the kernel's semadj
          kills,   \* number of processes killed so far
          surplus  \* history: tokens of space and full that were used and came back

undoVars == <<vars, adj, kills, surplus>>

Alive == {x \in Procs : pc[x] # "dead"}

\* The semaphore call at a label: which semaphore, and what it adds to it.
SemCall == [wait_space  |-> <<"space", -1>>, signal_space |-> <<"space", 1>>,
            wait_prod   |-> <<"prod",  -1>>, signal_prod  |-> <<"prod",  1>>,
            wait_cons   |-> <<"cons",  -1>>, signal_cons  |-> <<"cons",  1>>,
            wait_full   |-> <<"full",  -1>>, signal_full  |-> <<"full",  1>>]

\* The label after a semaphore call, in go_produce and in go_consume.
AfterProduce == [wait_space |-> "wait_prod", wait_prod |-> "pop_E", signal_prod |-> "fill",
                 wait_cons |-> "push_F", signal_cons |-> "signal_full",
                 signal_full |-> "wait_space"]
AfterConsume == [wait_full |-> "wait_cons", wait_cons |-> "pop_F", signal_cons |-> "read",
                 wait_prod |-> "push_E", signal_prod |-> "signal_space",
                 signal_space |-> "wait_full"]

AtSemCall(x) == pc[x] \in DOMAIN SemCall

\* Mutant: mwait and msignal without SEM_UNDO.
UndoEntry_none(x) == 0

\* The undo entry the kernel would keep for the call x is about to make.
UndoEntry(x) == LET call == SemCall[pc[x]] IN adj[x][call[1]] - call[2]

InRange(x) == UndoEntry(x) \in -SEMAEM - 1 .. SEMAEM

NoUndo == [s \in Sems |-> 0]

UndoInit == /\ Init
            /\ adj = [x \in Procs |-> NoUndo]
            /\ kills = 0
            /\ surplus = [space |-> 0, full |-> 0]

-----------------------------------------------------------------------------
(* A step of the loops.  A semaphore call that succeeds also notes its     *)
(* undo entry.                                                             *)
Step(x) == /\ \/ x \in Producers /\ Produce(x)
              \/ x \in Consumers /\ Consume(x)
           /\ IF AtSemCall(x)
              THEN /\ InRange(x)
                   /\ adj' = [adj EXCEPT ![x][SemCall[pc[x]][1]] = UndoEntry(x)]
              ELSE UNCHANGED adj
           /\ UNCHANGED <<kills, surplus>>

(* semop fails with ERANGE; the kernel looks at the limit only after it    *)
(* has seen that the call would not wait.  The caller goes on as if it had *)
(* succeeded: the token it waited for is still there.                      *)
SemopFails(x) ==
    /\ AtSemCall(x)
    /\ ~ InRange(x)
    /\ LET call == SemCall[pc[x]] IN call[2] = -1 => sem[call[1]] > 0
    /\ surplus' = [s \in {"space", "full"} |->
                     IF SemCall[pc[x]] = <<s, -1>> THEN surplus[s] + 1 ELSE surplus[s]]
    /\ \A s \in {"space", "full"} : surplus'[s] > surplus[s] => surplus[s] < MaxSurplus
    /\ pc' = [pc EXCEPT ![x] = IF x \in Producers THEN AfterProduce[@] ELSE AfterConsume[@]]
    /\ IF pc[x] = "wait_space"
       THEN \E v \in Products : product' = [product EXCEPT ![x] = v]
       ELSE UNCHANGED product
    /\ UNCHANGED <<sem, qE, qF, buff, slot, consumed, adj, kills>>

\* A process that has a token of the counter and has not popped with it yet.
HasToken(x, s) == pc[x] \in (IF s = "space" THEN {"wait_prod", "pop_E"} ELSE {"wait_cons", "pop_F"})

(* The process ends.  The kernel adds its undo entries to the semaphores   *)
(* and stops at 0; messages and shared memory stay as they are.  What a    *)
(* producer gives back of space, and a consumer of full, are tokens it has *)
(* used, except for one that it has not popped with yet.                   *)
Kill(x) ==
    /\ x \in Alive
    /\ kills < MaxKills
    /\ pc' = [pc EXCEPT ![x] = "dead"]
    /\ sem' = [s \in Sems |-> IF sem[s] + adj[x][s] < 0 THEN 0 ELSE sem[s] + adj[x][s]]
    /\ adj' = [adj EXCEPT ![x] = NoUndo]
    /\ kills' = kills + 1
    /\ surplus' = [s \in {"space", "full"} |->
                     IF (s = "space") = (x \in Producers)
                     THEN surplus[s] + adj[x][s] - (IF HasToken(x, s) THEN 1 ELSE 0)
                     ELSE surplus[s]]
    /\ UNCHANGED <<qE, qF, buff, product, slot, consumed>>

\* Mutant: start-up sets the semaphores, although they exist.
Restart_setval(x) ==
    /\ pc[x] = "dead"
    /\ pc' = [pc EXCEPT ![x] = IF x \in Producers THEN "wait_space" ELSE "wait_full"]
    /\ sem' = [space |-> BUFS - 1, prod |-> 1, cons |-> 1, full |-> 0]
    /\ slot' = [slot EXCEPT ![x] = 0]
    /\ UNCHANGED <<qE, qF, buff, product, consumed, adj, kills, surplus>>

\* Mutant: newq is set whenever qE is opened, so the numbers are pushed again.
Restart_fills(x) ==
    /\ pc[x] = "dead"
    /\ pc' = [pc EXCEPT ![x] = IF x \in Producers THEN "wait_space" ELSE "wait_full"]
    /\ qE' = IF x \in Producers THEN qE \o [i \in 1 .. BUFS |-> i - 1] ELSE qE
    /\ slot' = [slot EXCEPT ![x] = 0]
    /\ UNCHANGED <<sem, qF, buff, product, consumed, adj, kills, surplus>>

(* It is started again.  Every IPC object exists, so start-up finds them   *)
(* and changes none (newq is 0: the numbers are not pushed a second time). *)
Restart(x) ==
    /\ pc[x] = "dead"
    /\ pc' = [pc EXCEPT ![x] = IF x \in Producers THEN "wait_space" ELSE "wait_full"]
    /\ slot' = [slot EXCEPT ![x] = 0]
    /\ product' = [p \in Producers |-> IF p = x THEN 0 ELSE product[p]]
    /\ consumed' = [c \in Consumers |-> IF c = x THEN 0 ELSE consumed[c]]
    /\ UNCHANGED <<sem, qE, qF, buff, adj, kills, surplus>>

UndoNext == \E x \in Procs : Step(x) \/ SemopFails(x) \/ Kill(x) \/ Restart(x)

UndoSpec == UndoInit /\ [][UndoNext]_undoVars

-----------------------------------------------------------------------------
(* What SEM_UNDO is there for: prod and cons keep guarding their queues    *)
(* whenever processes are killed, also in the middle of a critical section *)
(* (libmipc.c:118 with prod.c:39-42, cons.c:33-36).                        *)
MutexSurvivesKills ==
    /\ sem["prod"] + Cardinality(At(Procs, {"pop_E", "push_E", "signal_prod"})) = 1
    /\ sem["cons"] + Cardinality(At(Procs, {"pop_F", "push_F", "signal_cons"})) = 1

(* Kills and restarts never put one slot number in two places, and a kill  *)
(* loses at most the one number that the process had in its hands.         *)
KillLosesOneSlot ==
    /\ SlotOwnership
    /\ Len(qE) + Len(qF) + Cardinality(Holders) + kills >= BUFS

(* However processes are killed and started again, and whatever semop     *)
(* refuses, every token of space and full, or process that goes by one,    *)
(* stands for a slot number in its queue, but for the tokens that came     *)
(* back after they were used: from a killed producer or consumer all that  *)
(* it took since it was started, less the one it has not popped with, and  *)
(* one for each wait that failed.  Since space starts at BUFS-1, a pop of  *)
(* qE waits only after two of them, a pop of qF after one (libmipc.c:118,  *)
(* prod.c:24-41, cons.c:34-37).                                            *)
TokensAccountedFor ==
    /\ sem["space"] + Cardinality(At(Producers, {"wait_prod", "pop_E"}))
         + Cardinality(At(Consumers, {"signal_prod", "signal_space"})) < Len(qE) + surplus["space"]
    /\ sem["full"] + Cardinality(At(Consumers, {"wait_cons", "pop_F"}))
         + Cardinality(At(Producers, {"signal_cons", "signal_full"})) <= Len(qF) + surplus["full"]
    /\ \A x \in Procs : pc[x] = "pop_E" /\ qE = << >> => surplus["space"] >= 2
    /\ \A x \in Procs : pc[x] = "pop_F" /\ qF = << >> => surplus["full"] >= 1

Waiting(x) == \/ pc[x] = "pop_E" /\ qE = << >>
              \/ pc[x] = "pop_F" /\ qF = << >>

(* A process that waits in pop holds the semaphore that every process that *)
(* could push needs, so it waits until it is killed: no step of another    *)
(* process ever ends the wait.                                             *)
WaitInPopIsForever ==
    [][\A x \in Procs : Waiting(x) => Waiting(x)' \/ pc'[x] = "dead"]_undoVars

=============================================================================
