------------------------------ MODULE IpcStart ------------------------------
(***************************************************************************)
(* How prod and cons start up: go_produce and go_consume before their      *)
(* loops, and the calls of libmipc.c that they make there.                 *)
(*   - mque, mquenew and mshm create an object or find it, in one step.    *)
(*   - msem takes two: semget creates a semaphore, whose value is then 0,  *)
(*     and semctl(SETVAL) gives it its value.  Who finds the semaphore in  *)
(*     between uses it.                                                    *)
(*   - The producer that created qE pushes all slot numbers to it.         *)
(* A consumer that finds no producer exits, but the queue it looked for    *)
(* has been created, and stays.                                            *)
(* A process may be killed while it starts; it has not used a semaphore    *)
(* yet, so nothing is undone.  ProdConsUndo has the kills in the loops.    *)
(***************************************************************************)
EXTENDS ProdCons

CONSTANT MaxStartKills     \* bound: how many starting processes are killed

ASSUME StartAssumption == MaxStartKills \in Nat

VARIABLES made,     \* the IPC objects that exist
          newq,     \* go_produce's local newq: did mquenew create qE?
          toPush,   \* go_produce's local i: the next number to push
          startKills, \* number of processes killed
          orderly   \* history: one producer came first and nothing was killed

start == <<made, newq, toPush, startKills, orderly>>
startVars == <<vars, start>>

\* msem's and msemget's calls, in the order both programs make them.
SemOrder == <<"space", "prod", "cons", "full">>
GetLabel == <<"get_space", "get_prod", "get_cons", "get_full">>
SetLabel == <<"set_space", "set_prod", "set_cons", "set_full">>
InitialValue == [space |-> BUFS - 1, prod |-> 1, cons |-> 1, full |-> 0]

\* The label after the k-th semaphore.
AfterSem(x, k) == IF k < 4 THEN GetLabel[k + 1]
                  ELSE IF x \in Producers THEN "fill_E" ELSE "wait_full"

StartLabels == {"mshm", "mque_F", "mquenew_F", "mquenew_E", "fill_E"}
                 \cup {GetLabel[k] : k \in 1 .. 4} \cup {SetLabel[k] : k \in 1 .. 4}
ExitLabels == {"idle", "no_producent", "producent_crashed", "no_semaphore", "killed"}

\* Nothing exists, nobody runs.
StartInit == /\ pc = [x \in Procs |-> "idle"]
             /\ sem = [s \in Sems |-> 0]
             /\ qE = << >>
             /\ qF = << >>
             /\ buff = [n \in Slots |-> 0]
             /\ product = [p \in Producers |-> 0]
             /\ slot = [x \in Procs |-> 0]
             /\ consumed = [c \in Consumers |-> 0]
             /\ made = {}
             /\ newq = [p \in Producers |-> FALSE]
             /\ toPush = [p \in Producers |-> 0]
             /\ startKills = 0
             /\ orderly = TRUE

queues == <<qE, qF>>
locals == <<buff, product, slot, consumed>>

-----------------------------------------------------------------------------
(* A program is started, or started again after it has exited.  It is done *)
(* in good order when one producer comes first and everything else when    *)
(* that one has reached its loop.                                          *)
Running == \E p \in Producers : pc[p] \in ProducerLabels
Alone(x) == x \in Producers /\ \A y \in Procs : pc[y] = "idle"

Launch(x) == /\ pc[x] \in ExitLabels
             /\ pc' = [pc EXCEPT ![x] = IF x \in Producers THEN "mshm" ELSE "mquenew_F"]
             /\ slot' = [slot EXCEPT ![x] = 0]
             /\ product' = [p \in Producers |-> IF p = x THEN 0 ELSE product[p]]
             /\ consumed' = [c \in Consumers |-> IF c = x THEN 0 ELSE consumed[c]]
             /\ toPush' = [p \in Producers |-> IF p = x THEN 0 ELSE toPush[p]]
             /\ orderly' = (orderly /\ (Running \/ Alone(x)))
             /\ UNCHANGED <<sem, queues, buff, made, newq, startKills>>

Create(object) == made' = made \cup {object}

\* go_produce
PShm(p) == /\ Goto(p, "mshm", "mque_F")
           /\ Create("shm")
           /\ UNCHANGED <<sem, queues, locals, newq, toPush, startKills, orderly>>

PMqueF(p) == /\ Goto(p, "mque_F", "mquenew_E")
             /\ Create("qF")
             /\ UNCHANGED <<sem, queues, locals, newq, toPush, startKills, orderly>>

PMquenewE(p) == /\ Goto(p, "mquenew_E", "get_space")
                /\ Create("qE")
                /\ newq' = [newq EXCEPT ![p] = "qE" \notin made]
                /\ UNCHANGED <<sem, queues, locals, toPush, startKills, orderly>>

\* Mutant: without IPC_EXCL msem does not learn that the semaphore was there.
PSemget_notExcl(p, k) ==
    /\ Goto(p, GetLabel[k], SetLabel[k])
    /\ Create(SemOrder[k])
    /\ UNCHANGED <<sem, queues, locals, newq, toPush, startKills, orderly>>

\* msem: semget with IPC_CREAT and IPC_EXCL.  If the semaphore is there, it is used.
PSemget(p, k) == LET s == SemOrder[k] IN
    /\ Goto(p, GetLabel[k], IF s \in made THEN AfterSem(p, k) ELSE SetLabel[k])
    /\ Create(s)
    /\ UNCHANGED <<sem, queues, locals, newq, toPush, startKills, orderly>>

\* msem: semctl with SETVAL, whatever happened to the semaphore since.
PSetval(p, k) == LET s == SemOrder[k] IN
    /\ Goto(p, SetLabel[k], AfterSem(p, k))
    /\ sem' = [sem EXCEPT ![s] = InitialValue[s]]
    /\ UNCHANGED <<queues, locals, start>>

\* Mutant: the last number is not pushed.
PFillE_short(p) ==
    /\ pc[p] = "fill_E"
    /\ IF newq[p] /\ toPush[p] < BUFS - 1
       THEN /\ qE' = Append(qE, toPush[p])
            /\ toPush' = [toPush EXCEPT ![p] = @ + 1]
            /\ UNCHANGED pc
       ELSE /\ pc' = [pc EXCEPT ![p] = "wait_space"]
            /\ UNCHANGED <<qE, toPush>>
    /\ UNCHANGED <<sem, qF, locals, made, newq, startKills, orderly>>

PFillE(p) ==
    /\ pc[p] = "fill_E"
    /\ IF newq[p] /\ toPush[p] < BUFS
       THEN /\ qE' = Append(qE, toPush[p])
            /\ toPush' = [toPush EXCEPT ![p] = @ + 1]
            /\ UNCHANGED pc
       ELSE /\ pc' = [pc EXCEPT ![p] = "wait_space"]
            /\ UNCHANGED <<qE, toPush>>
    /\ UNCHANGED <<sem, qF, locals, made, newq, startKills, orderly>>

PStart(p) == \/ PShm(p) \/ PMqueF(p) \/ PMquenewE(p) \/ PFillE(p)
             \/ \E k \in 1 .. 4 : PSemget(p, k) \/ PSetval(p, k)

\* go_consume
CMquenewF(c) == /\ Goto(c, "mquenew_F", IF "qF" \in made THEN "mquenew_E"
                                                         ELSE "no_producent")
                /\ Create("qF")
                /\ UNCHANGED <<sem, queues, locals, newq, toPush, startKills, orderly>>

CMquenewE(c) == /\ Goto(c, "mquenew_E", IF "qE" \in made THEN "mshm"
                                                         ELSE "producent_crashed")
                /\ Create("qE")
                /\ UNCHANGED <<sem, queues, locals, newq, toPush, startKills, orderly>>

CShm(c) == /\ Goto(c, "mshm", "get_space")
           /\ Create("shm")
           /\ UNCHANGED <<sem, queues, locals, newq, toPush, startKills, orderly>>

\* msemget only finds: without the semaphore the consumer exits.
CSemget(c, k) == /\ Goto(c, GetLabel[k], IF SemOrder[k] \in made THEN AfterSem(c, k)
                                                                 ELSE "no_semaphore")
                 /\ UNCHANGED <<sem, queues, locals, start>>

CStart(c) == \/ CMquenewF(c) \/ CMquenewE(c) \/ CShm(c)
             \/ \E k \in 1 .. 4 : CSemget(c, k)

\* A process is killed while it starts.
KillStarting(x) ==
    /\ pc[x] \in StartLabels
    /\ startKills < MaxStartKills
    /\ pc' = [pc EXCEPT ![x] = "killed"]
    /\ startKills' = startKills + 1
    /\ orderly' = FALSE
    /\ UNCHANGED <<sem, queues, locals, made, newq, toPush>>

-----------------------------------------------------------------------------
Run(x) == \/ x \in Producers /\ (PStart(x) \/ (Produce(x) /\ UNCHANGED start))
          \/ x \in Consumers /\ (CStart(x) \/ (Consume(x) /\ UNCHANGED start))

\* Programs are started in any order.
StartNext == \E x \in Procs : Launch(x) \/ Run(x) \/ KillStarting(x)

StartSpec == StartInit /\ [][StartNext]_startVars

\* A program that can run is run; who starts what, and when, is left open.
FairStartSpec == StartSpec /\ \A x \in Procs : WF_startVars(Run(x))

-----------------------------------------------------------------------------
(* As long as the programs are started in good order they behave as        *)
(* ProdCons says from its initial state on: what start-up leaves behind is *)
(* that state, and a process that comes later changes none of it           *)
(* (prod.c:20-30, cons.c:19-28).                                           *)
Steady == INSTANCE ProdCons
            WITH pc <- [x \in Procs |->
                          IF pc[x] \in ProducerLabels \cup ConsumerLabels THEN pc[x]
                          ELSE IF x \in Producers THEN "wait_space" ELSE "wait_full"],
                 sem <- IF Running THEN sem ELSE InitialValue,
                 qE <- IF Running THEN qE ELSE [n \in 1 .. BUFS |-> n - 1]

StartsSteady == /\ Steady!Init
                /\ [][orderly' => [Steady!Next]_(Steady!vars)]_startVars

(* SETVAL can come late, after another process has found and used the      *)
(* semaphore.  Of the four, only full can be harmed: nobody gets past      *)
(* space, prod or cons before they have a value, but full starts at 0 and  *)
(* is signalled first, and that signal is then lost (libmipc.c:102-103).   *)
LateSetvalHarmsOnlyFull ==
    [][\A p \in Producers, k \in 1 .. 4 :
          pc[p] = SetLabel[k] /\ pc'[p] = AfterSem(p, k)
             => SemOrder[k] = "full" \/ sem[SemOrder[k]] = 0]_startVars

(* If a producer created qE and nothing is killed, the numbers are all     *)
(* there in the end, in whatever order producers and consumers come and    *)
(* however they interfere while it pushes them (prod.c:29).                *)
CreatorFills == (\E p \in Producers : newq[p]) ~> NoSlotLost \/ startKills > 0

=============================================================================
