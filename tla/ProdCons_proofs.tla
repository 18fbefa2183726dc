-------------------------- MODULE ProdCons_proofs ---------------------------
(***************************************************************************)
(* Proofs about prod and cons, for every number of producers, consumers    *)
(* and slots.                                                              *)
(*   - ProdCons, the loops.  The inductive invariant counts tokens: each   *)
(*     slot number in a queue answers to a unit of a semaphore or to a     *)
(*     process on its way.                                                 *)
(*   - ProdConsUndo, the loops with kills, for any number of kills and any *)
(*     limit of the undo entries.  That the mutexes prod and cons survive  *)
(*     ties what the kernel would undo to the place of the process.  From  *)
(*     it follows that a wait in pop never ends.  A kill loses at most the *)
(*     slot its process had, and the tokens that exceed the numbers in the *)
(*     queues are those that came back after they had been used.           *)
(*   - IpcStart, the way into the loops.  What exists, and what the        *)
(*     semaphores are, follows the place of the first producer.            *)
(***************************************************************************)
EXTENDS ProdConsUndo, IpcStart, FiniteSetTheorems, SequenceTheorems, TLAPS

N(S, labels) == Cardinality(At(S, labels))

\* Producers with a token of space: before they pop, until they push, after.
PEarly == {"wait_prod", "pop_E"}
PBusy  == {"wait_prod", "pop_E", "signal_prod", "fill", "wait_cons", "push_F"}
PDone  == {"signal_cons", "signal_full"}

\* Consumers with a token of full: before they pop, with the slot, after.
CEarly == {"wait_cons", "pop_F"}
CHand  == {"signal_cons", "read", "wait_prod", "push_E", "signal_prod", "signal_space"}
CDone  == {"signal_prod", "signal_space"}

nPEarly == N(Producers, PEarly)
nPBusy == N(Producers, PBusy)
nPDone == N(Producers, PDone)
nCEarly == N(Consumers, CEarly)
nCHand == N(Consumers, CHand)
nCDone == N(Consumers, CDone)

\* The lengths of the queues and the tokens, as counters beside those above.
nE == Len(qE)
nF == Len(qF)
nSpace == sem["space"]
nFull == sem["full"]

(* qE holds one number more than space has tokens, producers on their way  *)
(* to pop and consumers yet to signal.                                     *)
EmptyCount == nE = nSpace + 1 + nPEarly + nCDone

(* qF holds a number for every token of full, every producer yet to signal *)
(* and every consumer on its way to pop.                                   *)
FilledCount == nF = nFull + nPDone + nCEarly

(* What a token of space paid for is a number in qF or with a process.     *)
TokenCount == nSpace + nF + nPBusy + nCHand = BUFS - 1

CountInv == EmptyCount /\ FilledCount /\ TokenCount

\* What the three equations are about, and that a step of a loop changes none of it.
EmptyBalance == nE - nSpace - nPEarly - nCDone
FilledBalance == nF - nFull - nPDone - nCEarly
TokenBalance == nSpace + nF + nPBusy + nCHand
CountsInt == /\ nE \in Int /\ nF \in Int /\ nSpace \in Int /\ nFull \in Int
             /\ nPEarly \in Int /\ nPBusy \in Int /\ nPDone \in Int
             /\ nCEarly \in Int /\ nCHand \in Int /\ nCDone \in Int
Balanced == /\ EmptyBalance' = EmptyBalance
            /\ FilledBalance' = FilledBalance
            /\ TokenBalance' = TokenBalance
            /\ CountsInt'

-----------------------------------------------------------------------------
(* Every step of every process keeps the types. *)
LEMMA TypeStep ==
    ASSUME TypeOK, [Next]_vars
    PROVE  TypeOK'
<1> USE ConstantsAssumption DEF TypeOK, Goto, Procs, ProducerLabels, ConsumerLabels
<1>1. ASSUME NEW p \in Producers, Produce(p) PROVE TypeOK'
  <2>1. CASE PWaitSpace(p)
    BY <2>1 DEF PWaitSpace, mwait, Sems, Bytes
  <2>2. CASE PWaitProd(p)
    BY <2>2 DEF PWaitProd, mwait, Sems
  <2>3. CASE PPopE(p)
    BY <2>3, HeadTailProperties DEF PPopE, popE
  <2>4. CASE PSignalProd(p)
    BY <2>4 DEF PSignalProd, msignal, Sems
  <2>5. CASE PFill(p)
    BY <2>5 DEF PFill
  <2>6. CASE PWaitCons(p)
    BY <2>6 DEF PWaitCons, mwait, Sems
  <2>7. CASE PPushF(p)
    BY <2>7 DEF PPushF
  <2>8. CASE PSignalCons(p)
    BY <2>8 DEF PSignalCons, msignal, Sems
  <2>9. CASE PSignalFull(p)
    BY <2>9 DEF PSignalFull, msignal, Sems
  <2>10. QED
    BY <1>1, <2>1, <2>2, <2>3, <2>4, <2>5, <2>6, <2>7, <2>8, <2>9 DEF Produce
<1>2. ASSUME NEW c \in Consumers, Consume(c) PROVE TypeOK'
  <2>1. CASE CWaitFull(c)
    BY <2>1 DEF CWaitFull, mwait, Sems
  <2>2. CASE CWaitCons(c)
    BY <2>2 DEF CWaitCons, mwait, Sems
  <2>3. CASE CPopF(c)
    BY <2>3, HeadTailProperties DEF CPopF, popF
  <2>4. CASE CSignalCons(c)
    BY <2>4 DEF CSignalCons, msignal, Sems
  <2>5. CASE CRead(c)
    BY <2>5 DEF CRead
  <2>6. CASE CWaitProd(c)
    BY <2>6 DEF CWaitProd, mwait, Sems
  <2>7. CASE CPushE(c)
    BY <2>7 DEF CPushE
  <2>8. CASE CSignalProd(c)
    BY <2>8 DEF CSignalProd, msignal, Sems
  <2>9. CASE CSignalSpace(c)
    BY <2>9 DEF CSignalSpace, msignal, Sems
  <2>10. QED
    BY <1>2, <2>1, <2>2, <2>3, <2>4, <2>5, <2>6, <2>7, <2>8, <2>9 DEF Consume
<1>3. CASE UNCHANGED vars
  BY <1>3 DEF vars
<1>4. QED
  BY <1>1, <1>2, <1>3 DEF Next

(* Type correctness: every variable keeps the shape the code gives it.     *)
THEOREM TypeCorrect == Spec => []TypeOK
<1>1. Init => TypeOK
  <2> SUFFICES ASSUME Init PROVE TypeOK
    OBVIOUS
  <2>1. qE \in Seq(Slots) /\ qF \in Seq(Slots)
    <3>1. \A i \in 1 .. BUFS : i - 1 \in Slots
      BY ConstantsAssumption DEF Slots
    <3>2. qE \in [1 .. BUFS -> Slots] /\ BUFS \in Nat
      BY <3>1, ConstantsAssumption DEF Init
    <3>3. QED
      BY <3>2, EmptySeq DEF Init
  <2>2. sem \in [Sems -> Nat]
    BY ConstantsAssumption DEF Init, Sems
  <2>3. 0 \in Slots
    BY ConstantsAssumption DEF Slots
  <2>4. QED
    BY <2>1, <2>2, <2>3, ConstantsAssumption
       DEF Init, TypeOK, Procs, Bytes, ProducerLabels, ConsumerLabels
<1>2. TypeOK /\ [Next]_vars => TypeOK'
  BY TypeStep
<1>3. QED
  BY <1>1, <1>2, PTL DEF Spec

(* What the counts and the places of the numbers need of the types.        *)
Shaped == /\ pc = [x \in Procs |-> pc[x]]
          /\ sem \in [Sems -> Nat]
          /\ qE \in Seq(Slots)
          /\ qF \in Seq(Slots)
          /\ slot \in [Procs -> Slots]

LEMMA TypeShaped == TypeOK => Shaped
BY DEF TypeOK, Shaped

(* A step of one process changes a count of processes by at most one.      *)
LEMMA StepCount ==
    ASSUME Shaped, NEW S, S = Producers \/ S = Consumers, NEW L,
           NEW x \in Procs, NEW from, NEW to, Goto(x, from, to)
    PROVE  /\ N(S, L) \in Nat
           /\ N(S, L)' \in Nat
           /\ x \notin S => N(S, L)' = N(S, L)
           /\ (from \in L <=> to \in L) => N(S, L)' = N(S, L)
           /\ x \in S /\ from \in L /\ to \notin L => N(S, L) = N(S, L)' + 1
           /\ x \in S /\ from \notin L /\ to \in L => N(S, L)' = N(S, L) + 1
<1> DEFINE A == {y \in S : pc[y] \in L}
           B == {y \in S : pc'[y] \in L}
<1>1. pc[x] = from /\ pc'[x] = to /\ \A y \in S : y # x => pc'[y] = pc[y]
  BY DEF Shaped, Goto, Procs
<1>2. IsFiniteSet(A) /\ IsFiniteSet(B)
  BY ConstantsAssumption, FS_Subset
<1>3. Cardinality(A) \in Nat /\ Cardinality(B) \in Nat
  BY <1>2, FS_CardinalityType
<1>4. x \notin S \/ (from \in L <=> to \in L) => A = B
  BY <1>1
<1>5. ASSUME x \in S, from \in L, to \notin L
      PROVE  Cardinality(A) = Cardinality(B) + 1
  <2>1. A = B \cup {x} /\ x \notin B
    BY <1>1, <1>5
  <2>2. QED
    BY <1>2, <2>1, FS_AddElement
<1>6. ASSUME x \in S, from \notin L, to \in L
      PROVE  Cardinality(B) = Cardinality(A) + 1
  <2>1. B = A \cup {x} /\ x \notin A
    BY <1>1, <1>6
  <2>2. QED
    BY <1>2, <2>1, FS_AddElement
<1>7. N(S, L) = Cardinality(A) /\ N(S, L)' = Cardinality(B)
  BY DEF N, At
<1>8. QED
  BY <1>3, <1>4, <1>5, <1>6, <1>7

\* A counter of the processes at L, as a step from one label to another moves it.
Moved(before, after, L, from, to) ==
    IF from \in L <=> to \in L THEN after = before
    ELSE IF to \in L THEN after = before + 1
    ELSE after = before - 1

LEMMA ProducerCounts ==
    ASSUME Shaped, NEW p \in Producers, NEW from, NEW to, Goto(p, from, to)
    PROVE  /\ Moved(nPEarly, nPEarly', PEarly, from, to)
           /\ Moved(nPBusy, nPBusy', PBusy, from, to)
           /\ Moved(nPDone, nPDone', PDone, from, to)
           /\ nCEarly' = nCEarly /\ nCHand' = nCHand /\ nCDone' = nCDone
<1>1. p \in Procs /\ p \notin Consumers
  BY ConstantsAssumption DEF Procs
<1>2. ASSUME NEW L
      PROVE  /\ N(Consumers, L)' = N(Consumers, L)
             /\ Moved(N(Producers, L), N(Producers, L)', L, from, to)
  BY <1>1, StepCount DEF Moved
<1>3. QED
  BY <1>2 DEF nPEarly, nPBusy, nPDone, nCEarly, nCHand, nCDone

LEMMA ConsumerCounts ==
    ASSUME Shaped, NEW c \in Consumers, NEW from, NEW to, Goto(c, from, to)
    PROVE  /\ Moved(nCEarly, nCEarly', CEarly, from, to)
           /\ Moved(nCHand, nCHand', CHand, from, to)
           /\ Moved(nCDone, nCDone', CDone, from, to)
           /\ nPEarly' = nPEarly /\ nPBusy' = nPBusy /\ nPDone' = nPDone
<1>1. c \in Procs /\ c \notin Producers
  BY ConstantsAssumption DEF Procs
<1>2. ASSUME NEW L
      PROVE  /\ N(Producers, L)' = N(Producers, L)
             /\ Moved(N(Consumers, L), N(Consumers, L)', L, from, to)
  BY <1>1, StepCount DEF Moved
<1>3. QED
  BY <1>2 DEF nPEarly, nPBusy, nPDone, nCEarly, nCHand, nCDone

LEMMA CountsNat ==
    ASSUME Shaped
    PROVE  /\ BUFS \in Nat /\ nE \in Nat /\ nF \in Nat /\ nSpace \in Nat /\ nFull \in Nat
           /\ nPEarly \in Nat /\ nPBusy \in Nat /\ nPDone \in Nat
           /\ nCEarly \in Nat /\ nCHand \in Nat /\ nCDone \in Nat
<1>1. ASSUME NEW S, S = Producers \/ S = Consumers, NEW L
      PROVE  N(S, L) \in Nat
  <2>1. IsFiniteSet(At(S, L))
    BY <1>1, ConstantsAssumption, FS_Subset DEF At
  <2>2. QED
    BY <2>1, FS_CardinalityType DEF N
<1>2. BUFS \in Nat /\ nE \in Nat /\ nF \in Nat /\ nSpace \in Nat /\ nFull \in Nat
  BY ConstantsAssumption, LenProperties DEF Shaped, Sems, nE, nF, nSpace, nFull
<1>3. QED
  BY <1>1, <1>2 DEF nPEarly, nPBusy, nPDone, nCEarly, nCHand, nCDone

(* The counts are kept by every step: a process takes a token where it     *)
(* leaves one of the counts it stands in and enters another.               *)
LEMMA BalanceStep ==
    ASSUME Shaped, [Next]_vars
    PROVE  Balanced
<1> USE CountsNat DEF Balanced, EmptyBalance, FilledBalance, TokenBalance, CountsInt
<1>1. ASSUME NEW p \in Producers, Produce(p) PROVE Balanced
  <2>1. CASE PWaitSpace(p)
    <3>1. Goto(p, "wait_space", "wait_prod")
      BY <2>1 DEF PWaitSpace
    <3>2. /\ nPEarly' = nPEarly + 1 /\ nPBusy' = nPBusy + 1 /\ nPDone' = nPDone
          /\ nCEarly' = nCEarly /\ nCHand' = nCHand /\ nCDone' = nCDone
      BY <3>1, ProducerCounts DEF PEarly, PBusy, PDone, Moved
    <3>3. nSpace' = nSpace - 1 /\ nFull' = nFull /\ nE' = nE /\ nF' = nF
      BY <2>1 DEF PWaitSpace, Shaped, nSpace, nFull, nE, nF, mwait, Sems
    <3>4. EmptyBalance' = EmptyBalance
      BY <3>2, <3>3
    <3>5. FilledBalance' = FilledBalance
      BY <3>2, <3>3
    <3>6. TokenBalance' = TokenBalance
      BY <3>2, <3>3
    <3>7. QED
      BY <3>2, <3>3, <3>4, <3>5, <3>6
  <2>2. CASE PWaitProd(p)
    <3>1. Goto(p, "wait_prod", "pop_E")
      BY <2>2 DEF PWaitProd
    <3>2. /\ nPEarly' = nPEarly /\ nPBusy' = nPBusy /\ nPDone' = nPDone
          /\ nCEarly' = nCEarly /\ nCHand' = nCHand /\ nCDone' = nCDone
      BY <3>1, ProducerCounts DEF PEarly, PBusy, PDone, Moved
    <3>3. nSpace' = nSpace /\ nFull' = nFull /\ nE' = nE /\ nF' = nF
      BY <2>2 DEF PWaitProd, Shaped, nSpace, nFull, nE, nF, mwait, Sems
    <3>4. QED
      BY <3>2, <3>3
  <2>3. CASE PPopE(p)
    <3>1. Goto(p, "pop_E", "signal_prod")
      BY <2>3 DEF PPopE
    <3>2. /\ nPEarly' = nPEarly - 1 /\ nPBusy' = nPBusy /\ nPDone' = nPDone
          /\ nCEarly' = nCEarly /\ nCHand' = nCHand /\ nCDone' = nCDone
      BY <3>1, ProducerCounts DEF PEarly, PBusy, PDone, Moved
    <3>3. nSpace' = nSpace /\ nFull' = nFull /\ nE' = nE - 1 /\ nF' = nF
      BY <2>3, HeadTailProperties DEF PPopE, Shaped, nSpace, nFull, nE, nF, popE
    <3>4. QED
      BY <3>2, <3>3
  <2>4. CASE PSignalProd(p)
    <3>1. Goto(p, "signal_prod", "fill")
      BY <2>4 DEF PSignalProd
    <3>2. /\ nPEarly' = nPEarly /\ nPBusy' = nPBusy /\ nPDone' = nPDone
          /\ nCEarly' = nCEarly /\ nCHand' = nCHand /\ nCDone' = nCDone
      BY <3>1, ProducerCounts DEF PEarly, PBusy, PDone, Moved
    <3>3. nSpace' = nSpace /\ nFull' = nFull /\ nE' = nE /\ nF' = nF
      BY <2>4 DEF PSignalProd, Shaped, nSpace, nFull, nE, nF, msignal, Sems
    <3>4. QED
      BY <3>2, <3>3
  <2>5. CASE PFill(p)
    <3>1. Goto(p, "fill", "wait_cons")
      BY <2>5 DEF PFill
    <3>2. /\ nPEarly' = nPEarly /\ nPBusy' = nPBusy /\ nPDone' = nPDone
          /\ nCEarly' = nCEarly /\ nCHand' = nCHand /\ nCDone' = nCDone
      BY <3>1, ProducerCounts DEF PEarly, PBusy, PDone, Moved
    <3>3. nSpace' = nSpace /\ nFull' = nFull /\ nE' = nE /\ nF' = nF
      BY <2>5 DEF PFill, Shaped, nSpace, nFull, nE, nF
    <3>4. QED
      BY <3>2, <3>3
  <2>6. CASE PWaitCons(p)
    <3>1. Goto(p, "wait_cons", "push_F")
      BY <2>6 DEF PWaitCons
    <3>2. /\ nPEarly' = nPEarly /\ nPBusy' = nPBusy /\ nPDone' = nPDone
          /\ nCEarly' = nCEarly /\ nCHand' = nCHand /\ nCDone' = nCDone
      BY <3>1, ProducerCounts DEF PEarly, PBusy, PDone, Moved
    <3>3. nSpace' = nSpace /\ nFull' = nFull /\ nE' = nE /\ nF' = nF
      BY <2>6 DEF PWaitCons, Shaped, nSpace, nFull, nE, nF, mwait, Sems
    <3>4. QED
      BY <3>2, <3>3
  <2>7. CASE PPushF(p)
    <3>1. Goto(p, "push_F", "signal_cons")
      BY <2>7 DEF PPushF
    <3>2. /\ nPEarly' = nPEarly /\ nPBusy' = nPBusy - 1 /\ nPDone' = nPDone + 1
          /\ nCEarly' = nCEarly /\ nCHand' = nCHand /\ nCDone' = nCDone
      BY <3>1, ProducerCounts DEF PEarly, PBusy, PDone, Moved
    <3>3. nSpace' = nSpace /\ nFull' = nFull /\ nE' = nE /\ nF' = nF + 1
      BY <2>7 DEF PPushF, Shaped, nSpace, nFull, nE, nF, Procs
    <3>4. EmptyBalance' = EmptyBalance
      BY <3>2, <3>3
    <3>5. FilledBalance' = FilledBalance
      BY <3>2, <3>3
    <3>6. TokenBalance' = TokenBalance
      BY <3>2, <3>3
    <3>7. QED
      BY <3>2, <3>3, <3>4, <3>5, <3>6
  <2>8. CASE PSignalCons(p)
    <3>1. Goto(p, "signal_cons", "signal_full")
      BY <2>8 DEF PSignalCons
    <3>2. /\ nPEarly' = nPEarly /\ nPBusy' = nPBusy /\ nPDone' = nPDone
          /\ nCEarly' = nCEarly /\ nCHand' = nCHand /\ nCDone' = nCDone
      BY <3>1, ProducerCounts DEF PEarly, PBusy, PDone, Moved
    <3>3. nSpace' = nSpace /\ nFull' = nFull /\ nE' = nE /\ nF' = nF
      BY <2>8 DEF PSignalCons, Shaped, nSpace, nFull, nE, nF, msignal, Sems
    <3>4. QED
      BY <3>2, <3>3
  <2>9. CASE PSignalFull(p)
    <3>1. Goto(p, "signal_full", "wait_space")
      BY <2>9 DEF PSignalFull
    <3>2. /\ nPEarly' = nPEarly /\ nPBusy' = nPBusy /\ nPDone' = nPDone - 1
          /\ nCEarly' = nCEarly /\ nCHand' = nCHand /\ nCDone' = nCDone
      BY <3>1, ProducerCounts DEF PEarly, PBusy, PDone, Moved
    <3>3. nSpace' = nSpace /\ nFull' = nFull + 1 /\ nE' = nE /\ nF' = nF
      BY <2>9 DEF PSignalFull, Shaped, nSpace, nFull, nE, nF, msignal, Sems
    <3>4. QED
      BY <3>2, <3>3
  <2>10. QED
    BY <1>1, <2>1, <2>2, <2>3, <2>4, <2>5, <2>6, <2>7, <2>8, <2>9 DEF Produce
<1>2. ASSUME NEW c \in Consumers, Consume(c) PROVE Balanced
  <2>1. CASE CWaitFull(c)
    <3>1. Goto(c, "wait_full", "wait_cons")
      BY <2>1 DEF CWaitFull
    <3>2. /\ nCEarly' = nCEarly + 1 /\ nCHand' = nCHand /\ nCDone' = nCDone
          /\ nPEarly' = nPEarly /\ nPBusy' = nPBusy /\ nPDone' = nPDone
      BY <3>1, ConsumerCounts DEF CEarly, CHand, CDone, Moved
    <3>3. nSpace' = nSpace /\ nFull' = nFull - 1 /\ nE' = nE /\ nF' = nF
      BY <2>1 DEF CWaitFull, Shaped, nSpace, nFull, nE, nF, mwait, Sems
    <3>4. QED
      BY <3>2, <3>3
  <2>2. CASE CWaitCons(c)
    <3>1. Goto(c, "wait_cons", "pop_F")
      BY <2>2 DEF CWaitCons
    <3>2. /\ nCEarly' = nCEarly /\ nCHand' = nCHand /\ nCDone' = nCDone
          /\ nPEarly' = nPEarly /\ nPBusy' = nPBusy /\ nPDone' = nPDone
      BY <3>1, ConsumerCounts DEF CEarly, CHand, CDone, Moved
    <3>3. nSpace' = nSpace /\ nFull' = nFull /\ nE' = nE /\ nF' = nF
      BY <2>2 DEF CWaitCons, Shaped, nSpace, nFull, nE, nF, mwait, Sems
    <3>4. QED
      BY <3>2, <3>3
  <2>3. CASE CPopF(c)
    <3>1. Goto(c, "pop_F", "signal_cons")
      BY <2>3 DEF CPopF
    <3>2. /\ nCEarly' = nCEarly - 1 /\ nCHand' = nCHand + 1 /\ nCDone' = nCDone
          /\ nPEarly' = nPEarly /\ nPBusy' = nPBusy /\ nPDone' = nPDone
      BY <3>1, ConsumerCounts DEF CEarly, CHand, CDone, Moved
    <3>3. nSpace' = nSpace /\ nFull' = nFull /\ nE' = nE /\ nF' = nF - 1
      BY <2>3, HeadTailProperties DEF CPopF, Shaped, nSpace, nFull, nE, nF, popF
    <3>4. QED
      BY <3>2, <3>3
  <2>4. CASE CSignalCons(c)
    <3>1. Goto(c, "signal_cons", "read")
      BY <2>4 DEF CSignalCons
    <3>2. /\ nCEarly' = nCEarly /\ nCHand' = nCHand /\ nCDone' = nCDone
          /\ nPEarly' = nPEarly /\ nPBusy' = nPBusy /\ nPDone' = nPDone
      BY <3>1, ConsumerCounts DEF CEarly, CHand, CDone, Moved
    <3>3. nSpace' = nSpace /\ nFull' = nFull /\ nE' = nE /\ nF' = nF
      BY <2>4 DEF CSignalCons, Shaped, nSpace, nFull, nE, nF, msignal, Sems
    <3>4. QED
      BY <3>2, <3>3
  <2>5. CASE CRead(c)
    <3>1. Goto(c, "read", "wait_prod")
      BY <2>5 DEF CRead
    <3>2. /\ nCEarly' = nCEarly /\ nCHand' = nCHand /\ nCDone' = nCDone
          /\ nPEarly' = nPEarly /\ nPBusy' = nPBusy /\ nPDone' = nPDone
      BY <3>1, ConsumerCounts DEF CEarly, CHand, CDone, Moved
    <3>3. nSpace' = nSpace /\ nFull' = nFull /\ nE' = nE /\ nF' = nF
      BY <2>5 DEF CRead, Shaped, nSpace, nFull, nE, nF
    <3>4. QED
      BY <3>2, <3>3
  <2>6. CASE CWaitProd(c)
    <3>1. Goto(c, "wait_prod", "push_E")
      BY <2>6 DEF CWaitProd
    <3>2. /\ nCEarly' = nCEarly /\ nCHand' = nCHand /\ nCDone' = nCDone
          /\ nPEarly' = nPEarly /\ nPBusy' = nPBusy /\ nPDone' = nPDone
      BY <3>1, ConsumerCounts DEF CEarly, CHand, CDone, Moved
    <3>3. nSpace' = nSpace /\ nFull' = nFull /\ nE' = nE /\ nF' = nF
      BY <2>6 DEF CWaitProd, Shaped, nSpace, nFull, nE, nF, mwait, Sems
    <3>4. QED
      BY <3>2, <3>3
  <2>7. CASE CPushE(c)
    <3>1. Goto(c, "push_E", "signal_prod")
      BY <2>7 DEF CPushE
    <3>2. /\ nCEarly' = nCEarly /\ nCHand' = nCHand /\ nCDone' = nCDone + 1
          /\ nPEarly' = nPEarly /\ nPBusy' = nPBusy /\ nPDone' = nPDone
      BY <3>1, ConsumerCounts DEF CEarly, CHand, CDone, Moved
    <3>3. nSpace' = nSpace /\ nFull' = nFull /\ nE' = nE + 1 /\ nF' = nF
      <4>1. qE \in Seq(Slots) /\ slot[c] \in Slots
        BY DEF Shaped, Procs
      <4>2. qE' = Append(qE, slot[c]) /\ qF' = qF /\ sem' = sem
        BY <2>7 DEF CPushE
      <4>3. Len(qE') = Len(qE) + 1
        BY <4>1, <4>2, AppendProperties
      <4>4. QED
        BY <4>2, <4>3 DEF nSpace, nFull, nE, nF
    <3>4. QED
      BY <3>2, <3>3
  <2>8. CASE CSignalProd(c)
    <3>1. Goto(c, "signal_prod", "signal_space")
      BY <2>8 DEF CSignalProd
    <3>2. /\ nCEarly' = nCEarly /\ nCHand' = nCHand /\ nCDone' = nCDone
          /\ nPEarly' = nPEarly /\ nPBusy' = nPBusy /\ nPDone' = nPDone
      BY <3>1, ConsumerCounts DEF CEarly, CHand, CDone, Moved
    <3>3. nSpace' = nSpace /\ nFull' = nFull /\ nE' = nE /\ nF' = nF
      BY <2>8 DEF CSignalProd, Shaped, nSpace, nFull, nE, nF, msignal, Sems
    <3>4. QED
      BY <3>2, <3>3
  <2>9. CASE CSignalSpace(c)
    <3>1. Goto(c, "signal_space", "wait_full")
      BY <2>9 DEF CSignalSpace
    <3>2. /\ nCEarly' = nCEarly /\ nCHand' = nCHand - 1 /\ nCDone' = nCDone - 1
          /\ nPEarly' = nPEarly /\ nPBusy' = nPBusy /\ nPDone' = nPDone
      BY <3>1, ConsumerCounts DEF CEarly, CHand, CDone, Moved
    <3>3. nSpace' = nSpace + 1 /\ nFull' = nFull /\ nE' = nE /\ nF' = nF
      BY <2>9 DEF CSignalSpace, Shaped, nSpace, nFull, nE, nF, msignal, Sems
    <3>4. QED
      BY <3>2, <3>3
  <2>10. QED
    BY <1>2, <2>1, <2>2, <2>3, <2>4, <2>5, <2>6, <2>7, <2>8, <2>9 DEF Consume
<1>3. CASE UNCHANGED vars
  BY <1>3 DEF vars, N, At, nE, nF, nSpace, nFull,
              nPEarly, nPBusy, nPDone, nCEarly, nCHand, nCDone
<1>4. QED
  BY <1>1, <1>2, <1>3 DEF Next

LEMMA CountStep ==
    ASSUME Shaped, CountInv, [Next]_vars
    PROVE  CountInv'
<1>1. Balanced
  BY BalanceStep
<1>2. CountsInt /\ CountsInt'
  BY <1>1, CountsNat DEF Balanced, CountsInt
<1>3. EmptyCount'
  <2>1. EmptyBalance = 1
    BY <1>2 DEF EmptyBalance, CountsInt, CountInv, EmptyCount
  <2>2. EmptyBalance' = 1
    BY <1>1, <2>1 DEF Balanced
  <2>3. nE' - nSpace' - nPEarly' - nCDone' = 1
    BY <2>2 DEF EmptyBalance
  <2>4. nE' \in Int /\ nSpace' \in Int /\ nPEarly' \in Int /\ nCDone' \in Int
    BY <1>2 DEF CountsInt
  <2>5. PICK a, b, c, d : a = nE' /\ b = nSpace' /\ c = nPEarly' /\ d = nCDone'
    OBVIOUS
  <2>6. /\ a - b - c - d = 1
        /\ a \in Int /\ b \in Int /\ c \in Int /\ d \in Int
    BY <2>3, <2>4, <2>5
  <2>7. a = b + 1 + c + d
    BY <2>6
  <2>8. QED
    BY <2>5, <2>7 DEF EmptyCount
<1>4. FilledCount'
  <2>1. FilledBalance = 0
    BY <1>2 DEF FilledBalance, CountsInt, CountInv, FilledCount
  <2>2. FilledBalance' = 0
    BY <1>1, <2>1 DEF Balanced
  <2>3. nF' - nFull' - nPDone' - nCEarly' = 0
    BY <2>2 DEF FilledBalance
  <2>4. nF' \in Int /\ nFull' \in Int /\ nPDone' \in Int /\ nCEarly' \in Int
    BY <1>2 DEF CountsInt
  <2>5. PICK a, b, c, d : a = nF' /\ b = nFull' /\ c = nPDone' /\ d = nCEarly'
    OBVIOUS
  <2>6. /\ a - b - c - d = 0
        /\ a \in Int /\ b \in Int /\ c \in Int /\ d \in Int
    BY <2>3, <2>4, <2>5
  <2>7. a = b + c + d
    BY <2>6
  <2>8. QED
    BY <2>5, <2>7 DEF FilledCount
<1>5. TokenCount'
  BY <1>1, <1>2 DEF Balanced, TokenBalance, CountsInt, CountInv, TokenCount
<1>6. QED
  BY <1>3, <1>4, <1>5 DEF CountInv

LEMMA CountInit == Init => CountInv
<1> SUFFICES ASSUME Init PROVE CountInv
  OBVIOUS
<1>1. /\ At(Producers, PEarly) = {} /\ At(Producers, PBusy) = {} /\ At(Producers, PDone) = {}
      /\ At(Consumers, CEarly) = {} /\ At(Consumers, CHand) = {} /\ At(Consumers, CDone) = {}
  BY ConstantsAssumption DEF Init, Procs, At, PEarly, PBusy, PDone, CEarly, CHand, CDone
<1>2. /\ nPEarly = 0 /\ nPBusy = 0 /\ nPDone = 0
      /\ nCEarly = 0 /\ nCHand = 0 /\ nCDone = 0
  BY <1>1, FS_EmptySet DEF N, nPEarly, nPBusy, nPDone, nCEarly, nCHand, nCDone
<1>3. nSpace = BUFS - 1 /\ nFull = 0 /\ nE = BUFS /\ nF = 0 /\ BUFS \in Nat
  BY ConstantsAssumption DEF Init, nSpace, nFull, nE, nF
<1>4. QED
  BY <1>2, <1>3 DEF CountInv, EmptyCount, FilledCount, TokenCount

LEMMA Counted == Spec => [](TypeOK /\ CountInv)
<1>1. TypeOK /\ CountInv /\ [Next]_vars => CountInv'
  BY CountStep, TypeShaped
<1>2. QED
  BY <1>1, CountInit, TypeCorrect, PTL DEF Spec

(* The counts say so of every pop, whoever else runs or does not.          *)
LEMMA CountedPops ==
    ASSUME Shaped, CountInv, \A x \in Procs : pc[x] = "pop_F" => x \in Consumers
    PROVE  PopNeverBlocks
<1>1. nE > 0
  BY CountsNat DEF CountInv, EmptyCount
<1>2. ASSUME NEW x \in Procs, pc[x] = "pop_F" PROVE nF > 0
  <2>1. x \in At(Consumers, CEarly)
    BY <1>2 DEF At, CEarly
  <2>2. IsFiniteSet(At(Consumers, CEarly))
    BY ConstantsAssumption, FS_Subset DEF At
  <2>3. nCEarly # 0
    BY <2>1, <2>2, FS_EmptySet DEF nCEarly, N
  <2>4. QED
    BY <2>3, CountsNat DEF CountInv, FilledCount
<1>3. QED
  BY <1>1, <1>2, EmptySeq DEF nE, nF, PopNeverBlocks

(* A process that holds sem_prod or sem_cons never waits in pop: the       *)
(* token that let it in stands for a number that is in the queue.          *)
THEOREM PopsNeverBlock == Spec => []PopNeverBlocks
<1>1. TypeOK /\ CountInv => PopNeverBlocks
  BY CountedPops, TypeShaped DEF TypeOK, ProducerLabels, Procs
<1>2. QED
  BY <1>1, Counted, PTL

(* sem_space may start at BUFS-1: a slot number is always left in qE, so   *)
(* no interleaving makes a producer's pop find it empty (prod.c:24).       *)
THEOREM SpareSlot == Spec => []OneSlotSpare
<1>1. ASSUME TypeOK, CountInv PROVE OneSlotSpare
  <2>1. nE > 0
    BY <1>1, TypeShaped, CountsNat DEF CountInv, EmptyCount
  <2>2. QED
    BY <2>1, EmptySeq DEF nE, OneSlotSpare
<1>2. QED
  BY <1>1, Counted, PTL

LEMMA DisjointCount ==
    ASSUME NEW S, NEW T, IsFiniteSet(S), IsFiniteSet(T), S \cap T = {}
    PROVE  Cardinality(S \cup T) = Cardinality(S) + Cardinality(T)
<1>1. Cardinality(S) \in Nat /\ Cardinality(T) \in Nat
  BY FS_CardinalityType
<1>2. Cardinality(S \cup T) = Cardinality(S) + Cardinality(T) - Cardinality({})
  BY FS_Union
<1>3. QED
  BY <1>1, <1>2, FS_EmptySet

(* No slot number is lost: queues and holders account for all BUFS.        *)
THEOREM NothingLost == Spec => []NoSlotLost
<1>1. ASSUME TypeOK, CountInv PROVE NoSlotLost
  <2> DEFINE PH == At(Producers, {"signal_prod", "fill", "wait_cons", "push_F"})
             CH == At(Consumers, {"signal_cons", "read", "wait_prod", "push_E"})
             PE == At(Producers, PEarly)
             CD == At(Consumers, CDone)
  <2>1. /\ IsFiniteSet(PH) /\ IsFiniteSet(CH) /\ IsFiniteSet(PE) /\ IsFiniteSet(CD)
    BY ConstantsAssumption, FS_Subset DEF At
  <2>2. /\ Cardinality(PH) \in Nat /\ Cardinality(CH) \in Nat
        /\ Cardinality(PE) \in Nat /\ Cardinality(CD) \in Nat
    BY <2>1, FS_CardinalityType
  <2>3. Cardinality(Holders) = Cardinality(PH) + Cardinality(CH)
    <3>1. Holders = PH \cup CH /\ PH \cap CH = {}
      BY ConstantsAssumption DEF Holders, At
    <3>2. QED
      BY <2>1, <3>1, DisjointCount
  <2>4. nPBusy = Cardinality(PE) + Cardinality(PH)
    <3>1. At(Producers, PBusy) = PE \cup PH /\ PE \cap PH = {}
      BY DEF At, PBusy, PEarly
    <3>2. QED
      BY <2>1, <3>1, DisjointCount DEF nPBusy, N
  <2>5. nCHand = Cardinality(CH) + Cardinality(CD)
    <3>1. At(Consumers, CHand) = CH \cup CD /\ CH \cap CD = {}
      BY DEF At, CHand, CDone
    <3>2. QED
      BY <2>1, <3>1, DisjointCount DEF nCHand, N
  <2>6. nPEarly = Cardinality(PE) /\ nCDone = Cardinality(CD)
    BY DEF nPEarly, nCDone, N
  <2> HIDE DEF PH, CH, PE, CD
  <2>7. nE + nF + Cardinality(Holders) = BUFS
    BY <1>1, <2>2, <2>3, <2>4, <2>5, <2>6, TypeShaped, CountsNat DEF CountInv, EmptyCount, TokenCount
  <2>8. QED
    BY <2>7 DEF NoSlotLost, nE, nF
<1>2. QED
  BY <1>1, Counted, PTL

(* A step that leaves the queues and the holders alone keeps ownership.    *)
LEMMA OwnershipQuiet ==
    ASSUME SlotOwnership, Holders' = Holders, UNCHANGED <<qE, qF, slot>>
    PROVE  SlotOwnership'
  BY DEF SlotOwnership

(* Taking the head of one queue into the hands of a process that held      *)
(* nothing, and giving a held number to the tail of a queue, keep each     *)
(* number in one place.                                                    *)
LEMMA OwnershipPop ==
    ASSUME Shaped, SlotOwnership, NEW x \in Procs, x \notin Holders,
           Holders' = Holders \cup {x},
           \/ popE(x) /\ qF' = qF
           \/ popF(x) /\ qE' = qE
    PROVE  SlotOwnership'
<1>1. slot' \in [Procs -> Slots] /\ \A y \in Procs : y # x => slot'[y] = slot[y]
  BY SMTT(30), HeadTailProperties DEF Shaped, popE, popF
<1>2. Holders \subseteq Procs
  BY DEF Holders, At, Procs
<1>3. CASE popE(x) /\ qF' = qF
  <2>1. /\ slot'[x] = qE[1] /\ Len(qE) \in Nat \ {0} /\ Len(qE') = Len(qE) - 1
        /\ \A i \in 1 .. Len(qE') : qE'[i] = qE[i + 1]
    BY <1>3, HeadTailProperties, EmptySeq DEF popE, Shaped
  <2>2. \A i \in 1 .. Len(qE') : i + 1 \in 1 .. Len(qE) /\ i + 1 # 1
    BY <2>1
  <2>3. 1 \in 1 .. Len(qE)
    BY <2>1
  <2>4. \A i, j \in 1 .. Len(qE') : i # j => qE'[i] # qE'[j]
    BY <2>1, <2>2 DEF SlotOwnership
  <2>5. \A i \in 1 .. Len(qE'), j \in 1 .. Len(qF') : qE'[i] # qF'[j]
    BY <1>3, <2>1, <2>2 DEF SlotOwnership
  <2>6. \A y, z \in Holders' : y # z => slot'[y] # slot'[z]
    BY <1>1, <1>2, <2>1, <2>3 DEF SlotOwnership
  <2>7. \A y \in Holders', i \in 1 .. Len(qE') : qE'[i] # slot'[y]
    BY <1>1, <1>2, <2>1, <2>2, <2>3 DEF SlotOwnership
  <2>8. \A y \in Holders', i \in 1 .. Len(qF') : qF'[i] # slot'[y]
    BY <1>1, <1>2, <1>3, <2>1, <2>3 DEF SlotOwnership
  <2>9. QED
    BY <1>3, <2>4, <2>5, <2>6, <2>7, <2>8 DEF SlotOwnership
<1>4. CASE popF(x) /\ qE' = qE
  <2>1. /\ slot'[x] = qF[1] /\ Len(qF) \in Nat \ {0} /\ Len(qF') = Len(qF) - 1
        /\ \A i \in 1 .. Len(qF') : qF'[i] = qF[i + 1]
    BY <1>4, HeadTailProperties, EmptySeq DEF popF, Shaped
  <2>2. \A i \in 1 .. Len(qF') : i + 1 \in 1 .. Len(qF) /\ i + 1 # 1
    BY <2>1
  <2>3. 1 \in 1 .. Len(qF)
    BY <2>1
  <2>4. \A i, j \in 1 .. Len(qF') : i # j => qF'[i] # qF'[j]
    BY <2>1, <2>2 DEF SlotOwnership
  <2>5. \A i \in 1 .. Len(qE'), j \in 1 .. Len(qF') : qE'[i] # qF'[j]
    BY <1>4, <2>1, <2>2 DEF SlotOwnership
  <2>6. \A y, z \in Holders' : y # z => slot'[y] # slot'[z]
    BY <1>1, <1>2, <2>1, <2>3 DEF SlotOwnership
  <2>7. \A y \in Holders', i \in 1 .. Len(qE') : qE'[i] # slot'[y]
    BY <1>1, <1>2, <1>4, <2>1, <2>3 DEF SlotOwnership
  <2>8. \A y \in Holders', i \in 1 .. Len(qF') : qF'[i] # slot'[y]
    BY <1>1, <1>2, <2>1, <2>2, <2>3 DEF SlotOwnership
  <2>9. QED
    BY <1>4, <2>4, <2>5, <2>6, <2>7, <2>8 DEF SlotOwnership
<1>5. QED
  BY <1>3, <1>4

LEMMA OwnershipPush ==
    ASSUME Shaped, SlotOwnership, NEW x \in Holders, Holders' = Holders \ {x},
           slot' = slot,
           \/ qE' = Append(qE, slot[x]) /\ qF' = qF
           \/ qF' = Append(qF, slot[x]) /\ qE' = qE
    PROVE  SlotOwnership'
<1>1. x \in Procs /\ slot[x] \in Slots
  BY DEF Holders, At, Procs, Shaped
<1>2. CASE qE' = Append(qE, slot[x]) /\ qF' = qF
  <2>1. /\ Len(qE) \in Nat /\ Len(qE') = Len(qE) + 1 /\ qE'[Len(qE) + 1] = slot[x]
        /\ \A i \in 1 .. Len(qE) : qE'[i] = qE[i]
    BY <1>1, <1>2, AppendProperties, LenProperties DEF Shaped
  <2>2. \A i \in 1 .. Len(qE') : i \in 1 .. Len(qE) \/ i = Len(qE) + 1
    BY <2>1
  <2>3. QED
    BY <1>2, <2>1, <2>2 DEF SlotOwnership
<1>3. CASE qF' = Append(qF, slot[x]) /\ qE' = qE
  <2>1. /\ Len(qF) \in Nat /\ Len(qF') = Len(qF) + 1 /\ qF'[Len(qF) + 1] = slot[x]
        /\ \A i \in 1 .. Len(qF) : qF'[i] = qF[i]
    BY <1>1, <1>3, AppendProperties, LenProperties DEF Shaped
  <2>2. \A i \in 1 .. Len(qF') : i \in 1 .. Len(qF) \/ i = Len(qF) + 1
    BY <2>1
  <2>3. QED
    BY <1>3, <2>1, <2>2 DEF SlotOwnership
<1>4. QED
  BY <1>2, <1>3

\* What a step does to the queues and the holders.
Rests == Holders' = Holders /\ UNCHANGED <<qE, qF, slot>>
Pops(x) == /\ x \notin Holders /\ Holders' = Holders \cup {x}
           /\ (popE(x) /\ qF' = qF) \/ (popF(x) /\ qE' = qE)
Pushes(x) == /\ x \in Holders /\ Holders' = Holders \ {x} /\ slot' = slot
             /\ \/ qE' = Append(qE, slot[x]) /\ qF' = qF
                \/ qF' = Append(qF, slot[x]) /\ qE' = qE

(* A process leaves the queues alone, or pops a number and holds it, or    *)
(* pushes the number it holds.                                             *)
LEMMA StepMoves ==
    ASSUME Shaped, NEW x \in Procs,
           (x \in Producers /\ Produce(x)) \/ (x \in Consumers /\ Consume(x))
    PROVE  Rests \/ Pops(x) \/ Pushes(x)
<1> USE ConstantsAssumption
<1>1. CASE x \in Producers /\ Produce(x)
  <2>1. CASE PWaitSpace(x)
    BY <1>1, <2>1 DEF Rests, PWaitSpace, Goto, Holders, At, Shaped, Procs
  <2>2. CASE PWaitProd(x)
    BY <1>1, <2>2 DEF Rests, PWaitProd, Goto, Holders, At, Shaped, Procs
  <2>3. CASE PPopE(x)
    BY <1>1, <2>3 DEF Pops, PPopE, Goto, Holders, At, Shaped, Procs
  <2>4. CASE PSignalProd(x)
    BY <1>1, <2>4 DEF Rests, PSignalProd, Goto, Holders, At, Shaped, Procs
  <2>5. CASE PFill(x)
    BY <1>1, <2>5 DEF Rests, PFill, Goto, Holders, At, Shaped, Procs
  <2>6. CASE PWaitCons(x)
    BY <1>1, <2>6 DEF Rests, PWaitCons, Goto, Holders, At, Shaped, Procs
  <2>7. CASE PPushF(x)
    BY <1>1, <2>7 DEF Pushes, PPushF, Goto, Holders, At, Shaped, Procs
  <2>8. CASE PSignalCons(x)
    BY <1>1, <2>8 DEF Rests, PSignalCons, Goto, Holders, At, Shaped, Procs
  <2>9. CASE PSignalFull(x)
    BY <1>1, <2>9 DEF Rests, PSignalFull, Goto, Holders, At, Shaped, Procs
  <2>10. QED
    BY <1>1, <2>1, <2>2, <2>3, <2>4, <2>5, <2>6, <2>7, <2>8, <2>9 DEF Produce
<1>2. CASE x \in Consumers /\ Consume(x)
  <2>1. CASE CWaitFull(x)
    BY <1>2, <2>1 DEF Rests, CWaitFull, Goto, Holders, At, Shaped, Procs
  <2>2. CASE CWaitCons(x)
    BY <1>2, <2>2 DEF Rests, CWaitCons, Goto, Holders, At, Shaped, Procs
  <2>3. CASE CPopF(x)
    BY <1>2, <2>3 DEF Pops, CPopF, Goto, Holders, At, Shaped, Procs
  <2>4. CASE CSignalCons(x)
    BY <1>2, <2>4 DEF Rests, CSignalCons, Goto, Holders, At, Shaped, Procs
  <2>5. CASE CRead(x)
    BY <1>2, <2>5 DEF Rests, CRead, Goto, Holders, At, Shaped, Procs
  <2>6. CASE CWaitProd(x)
    BY <1>2, <2>6 DEF Rests, CWaitProd, Goto, Holders, At, Shaped, Procs
  <2>7. CASE CPushE(x)
    BY <1>2, <2>7 DEF Pushes, CPushE, Goto, Holders, At, Shaped, Procs
  <2>8. CASE CSignalProd(x)
    BY <1>2, <2>8 DEF Rests, CSignalProd, Goto, Holders, At, Shaped, Procs
  <2>9. CASE CSignalSpace(x)
    BY <1>2, <2>9 DEF Rests, CSignalSpace, Goto, Holders, At, Shaped, Procs
  <2>10. QED
    BY <1>2, <2>1, <2>2, <2>3, <2>4, <2>5, <2>6, <2>7, <2>8, <2>9 DEF Consume
<1>3. QED
  BY <1>1, <1>2

(* So a number that is in one place stays in one place,                    *)
LEMMA MovesKeepOwnership ==
    ASSUME Shaped, SlotOwnership, NEW x \in Procs, Rests \/ Pops(x) \/ Pushes(x)
    PROVE  SlotOwnership'
BY OwnershipQuiet, OwnershipPop, OwnershipPush DEF Rests, Pops, Pushes

(* and the numbers in the queues and in hands are as many as before.       *)
LEMMA MovesKeepNumbers ==
    ASSUME Shaped, NEW x \in Procs, Rests \/ Pops(x) \/ Pushes(x)
    PROVE  /\ qE' \in Seq(Slots) /\ qF' \in Seq(Slots) /\ slot' \in [Procs -> Slots]
           /\ Len(qE') + Len(qF') + Cardinality(Holders') = Len(qE) + Len(qF) + Cardinality(Holders)
<1>1. /\ IsFiniteSet(Holders) /\ Cardinality(Holders) \in Nat
      /\ Len(qE) \in Nat /\ Len(qF) \in Nat
  <2>1. IsFiniteSet(Holders)
    BY ConstantsAssumption, FS_Subset, FS_Union DEF Holders, At
  <2>2. QED
    BY <2>1, FS_CardinalityType, LenProperties DEF Shaped
<1>2. CASE Rests
  BY <1>2 DEF Rests, Shaped
<1>3. CASE Pops(x)
  <2>1. Cardinality(Holders') = Cardinality(Holders) + 1
    BY <1>1, <1>3, FS_AddElement DEF Pops
  <2>2. CASE popE(x) /\ qF' = qF
    <3>1. Head(qE) \in Slots /\ Tail(qE) \in Seq(Slots) /\ Len(Tail(qE)) = Len(qE) - 1
      BY <2>2, HeadTailProperties DEF popE, Shaped
    <3>2. qE' = Tail(qE) /\ slot' = [slot EXCEPT ![x] = Head(qE)]
      BY <2>2 DEF popE
    <3>3. qE' \in Seq(Slots) /\ Len(qE') = Len(qE) - 1 /\ slot' \in [Procs -> Slots]
      BY <3>1, <3>2 DEF Shaped
    <3>4. qF' = qF /\ qF' \in Seq(Slots) /\ Len(qF') = Len(qF)
      BY <2>2 DEF Shaped
    <3>5. Len(qE') + Len(qF') + Cardinality(Holders') = Len(qE) + Len(qF) + Cardinality(Holders)
      BY <1>1, <2>1, <3>3, <3>4
    <3>6. QED
      BY <3>3, <3>4, <3>5
  <2>3. CASE popF(x) /\ qE' = qE
    <3>1. Head(qF) \in Slots /\ Tail(qF) \in Seq(Slots) /\ Len(Tail(qF)) = Len(qF) - 1
      BY <2>3, HeadTailProperties DEF popF, Shaped
    <3>2. qF' = Tail(qF) /\ slot' = [slot EXCEPT ![x] = Head(qF)]
      BY <2>3 DEF popF
    <3>3. qF' \in Seq(Slots) /\ Len(qF') = Len(qF) - 1 /\ slot' \in [Procs -> Slots]
      BY <3>1, <3>2 DEF Shaped
    <3>4. qE' = qE /\ qE' \in Seq(Slots) /\ Len(qE') = Len(qE)
      BY <2>3 DEF Shaped
    <3>5. Len(qE') + Len(qF') + Cardinality(Holders') = Len(qE) + Len(qF) + Cardinality(Holders)
      BY <1>1, <2>1, <3>3, <3>4
    <3>6. QED
      BY <3>3, <3>4, <3>5
  <2>4. QED
    BY <1>3, <2>2, <2>3 DEF Pops
<1>4. CASE Pushes(x)
  <2>1. Cardinality(Holders') = Cardinality(Holders) - 1
    BY <1>1, <1>4, FS_RemoveElement DEF Pushes
  <2>2. slot[x] \in Slots /\ slot' \in [Procs -> Slots]
    BY <1>4 DEF Pushes, Shaped
  <2>3. ASSUME NEW q \in Seq(Slots)
        PROVE  Append(q, slot[x]) \in Seq(Slots) /\ Len(Append(q, slot[x])) = Len(q) + 1
    BY <2>2, AppendProperties
  <2>4. /\ qE' \in Seq(Slots) /\ qF' \in Seq(Slots)
        /\ \/ Len(qE') = Len(qE) + 1 /\ Len(qF') = Len(qF)
           \/ Len(qF') = Len(qF) + 1 /\ Len(qE') = Len(qE)
    BY <1>4, <2>3 DEF Pushes, Shaped
  <2>5. Len(qE') + Len(qF') + Cardinality(Holders') = Len(qE) + Len(qF) + Cardinality(Holders)
    BY SMTT(30), <1>1, <2>1, <2>4
  <2>6. QED
    BY <2>2, <2>4, <2>5
<1>5. QED
  BY <1>2, <1>3, <1>4

LEMMA OwnershipStep ==
    ASSUME Shaped, SlotOwnership, [Next]_vars
    PROVE  SlotOwnership'
<1>1. CASE UNCHANGED vars
  BY <1>1, OwnershipQuiet DEF vars, Holders, At
<1>2. QED
  BY <1>1, StepMoves, MovesKeepOwnership DEF Next, Procs

(* No two processes ever have the same byte of the shared memory in use,   *)
(* and no number is in a queue while a process has it.                     *)
THEOREM SlotsOwned == Spec => []SlotOwnership
<1>1. Init => SlotOwnership
  <2> SUFFICES ASSUME Init PROVE SlotOwnership
    OBVIOUS
  <2>1. Holders = {}
    BY ConstantsAssumption DEF Init, Holders, At, Procs
  <2>2. Len(qF) = 0 /\ Len(qE) = BUFS /\ \A i \in 1 .. BUFS : qE[i] = i - 1
    BY ConstantsAssumption DEF Init
  <2>3. QED
    BY <2>1, <2>2, ConstantsAssumption DEF SlotOwnership
<1>2. TypeOK /\ SlotOwnership /\ [Next]_vars => SlotOwnership'
  BY OwnershipStep, TypeShaped
<1>3. QED
  BY <1>1, <1>2, TypeCorrect, PTL DEF Spec

-----------------------------------------------------------------------------
(***************************************************************************)
(* The refinement: ProdCons implements BoundedBuffer.  Three steps of the  *)
(* program show: PPushF puts a byte, CPopF takes one and CSignalSpace      *)
(* gives its place back.                                                   *)
(***************************************************************************)

\* The refinement mapping, named, and read through one consumer.
QueueF == [i \in 1 .. Len(qF) |-> buff[qF[i]]]

HandOf(c) == IF pc[c] \in {"signal_cons", "read"} THEN << buff[slot[c]] >>
             ELSE IF c \in Hands THEN << consumed[c] >>
             ELSE << >>

HandF == [c \in Consumers |-> HandOf(c)]

(* A producer past its wait for space has made a byte, and past fill that  *)
(* byte is in its slot.                                                    *)
BytesMade ==
    \A p \in Producers :
      /\ pc[p] \in {"wait_prod", "pop_E", "signal_prod", "fill"} => product[p] \in Products
      /\ pc[p] \in {"wait_cons", "push_F"} => buff[slot[p]] \in Products

RefineInv == TypeOK /\ CountInv /\ SlotOwnership /\ BytesMade

-----------------------------------------------------------------------------
(* fill changes a slot that only this producer has. *)
LEMMA FillAlone ==
    ASSUME TypeOK, SlotOwnership, NEW p \in Producers, PFill(p)
    PROVE  /\ buff'[slot[p]] = product[p]
           /\ \A i \in 1 .. Len(qF) : buff'[qF[i]] = buff[qF[i]]
           /\ \A x \in Holders : x # p => buff'[slot[x]] = buff[slot[x]]
<1>1. p \in Holders /\ slot[p] \in Slots
  BY DEF PFill, Goto, Holders, At, TypeOK, Procs
<1>2. \A s \in Slots : buff'[s] = IF s = slot[p] THEN product[p] ELSE buff[s]
  BY DEF PFill, TypeOK
<1>3. \A i \in 1 .. Len(qF) : qF[i] \in Slots /\ qF[i] # slot[p]
  BY <1>1, ElementOfSeq DEF SlotOwnership, TypeOK
<1>4. \A x \in Holders : x # p => slot[x] \in Slots /\ slot[x] # slot[p]
  BY <1>1 DEF SlotOwnership, TypeOK, Holders, At, Procs
<1>5. QED
  BY <1>1, <1>2, <1>3, <1>4

LEMMA BytesStep ==
    ASSUME TypeOK, SlotOwnership, BytesMade, [Next]_vars
    PROVE  BytesMade'
<1> USE ConstantsAssumption DEF Procs
<1>1. ASSUME NEW p \in Producers, Produce(p) PROVE BytesMade'
  <2> SUFFICES ASSUME NEW q \in Producers
               PROVE  /\ pc'[q] \in {"wait_prod", "pop_E", "signal_prod", "fill"}
                            => product'[q] \in Products
                      /\ pc'[q] \in {"wait_cons", "push_F"} => buff'[slot'[q]] \in Products
    BY DEF BytesMade
  <2>1. CASE PWaitSpace(p)
    BY <2>1 DEF PWaitSpace, Goto, TypeOK, BytesMade
  <2>2. CASE PWaitProd(p)
    BY <2>2 DEF PWaitProd, Goto, TypeOK, BytesMade
  <2>3. CASE PPopE(p)
    <3>1. q # p => slot'[q] = slot[q] /\ pc'[q] = pc[q]
      BY <2>3 DEF PPopE, popE, Goto, TypeOK
    <3>2. pc[p] = "pop_E" /\ pc'[p] = "signal_prod"
      BY <2>3 DEF PPopE, Goto, TypeOK
    <3>3. QED
      BY <2>3, <3>1, <3>2 DEF PPopE, BytesMade
  <2>4. CASE PSignalProd(p)
    BY <2>4 DEF PSignalProd, Goto, TypeOK, BytesMade
  <2>5. CASE PFill(p)
    <3>1. pc[p] = "fill" /\ pc'[p] = "wait_cons" /\ (q # p => pc'[q] = pc[q])
      BY <2>5 DEF PFill, Goto, TypeOK
    <3>2. product' = product /\ slot' = slot
      BY <2>5 DEF PFill
    <3>3. buff'[slot[p]] \in Products
      BY <2>5, <3>1, FillAlone DEF BytesMade
    <3>4. ASSUME q # p, pc'[q] \in {"wait_cons", "push_F"}
          PROVE  buff'[slot[q]] \in Products
      <4>1. q \in Holders
        BY <3>1, <3>4 DEF Holders, At
      <4>2. QED
        BY <2>5, <3>1, <3>4, <4>1, FillAlone DEF BytesMade
    <3>5. QED
      BY <3>1, <3>2, <3>3, <3>4 DEF BytesMade
  <2>6. CASE PWaitCons(p)
    BY <2>6 DEF PWaitCons, Goto, TypeOK, BytesMade
  <2>7. CASE PPushF(p)
    BY <2>7 DEF PPushF, Goto, TypeOK, BytesMade
  <2>8. CASE PSignalCons(p)
    BY <2>8 DEF PSignalCons, Goto, TypeOK, BytesMade
  <2>9. CASE PSignalFull(p)
    BY <2>9 DEF PSignalFull, Goto, TypeOK, BytesMade
  <2>10. QED
    BY <1>1, <2>1, <2>2, <2>3, <2>4, <2>5, <2>6, <2>7, <2>8, <2>9 DEF Produce
<1>2. ASSUME NEW c \in Consumers, Consume(c) PROVE BytesMade'
  <2>1. \A q \in Producers : pc'[q] = pc[q] /\ slot'[q] = slot[q]
    <3>1. ASSUME NEW q \in Producers PROVE pc'[q] = pc[q] /\ slot'[q] = slot[q]
      <4>1. q # c
        OBVIOUS
      <4>2. pc'[q] = pc[q]
        BY <1>2, <4>1 DEF Consume, CWaitFull, CWaitCons, CPopF, CSignalCons, CRead,
              CWaitProd, CPushE, CSignalProd, CSignalSpace, Goto, TypeOK
      <4>3. slot'[q] = slot[q]
        BY <1>2, <4>1 DEF Consume, CWaitFull, CWaitCons, CPopF, CSignalCons, CRead,
              CWaitProd, CPushE, CSignalProd, CSignalSpace, popF, TypeOK
      <4>4. QED
        BY <4>2, <4>3
    <3>2. QED
      BY <3>1
  <2>2. buff' = buff /\ product' = product
    BY <1>2 DEF Consume, CWaitFull, CWaitCons, CPopF, CSignalCons, CRead,
          CWaitProd, CPushE, CSignalProd, CSignalSpace
  <2>3. QED
    BY <2>1, <2>2 DEF BytesMade
<1>3. CASE UNCHANGED vars
  BY <1>3 DEF vars, BytesMade
<1>4. QED
  BY <1>1, <1>2, <1>3 DEF Next

LEMMA Inductive == Spec => []RefineInv
<1>1. Init => BytesMade
  BY ConstantsAssumption DEF Init, BytesMade, Procs
<1>2. TypeOK /\ SlotOwnership /\ BytesMade /\ [Next]_vars => BytesMade'
  BY BytesStep
<1>3. QED
  BY <1>1, <1>2, Counted, SlotsOwned, PTL DEF Spec, RefineInv

-----------------------------------------------------------------------------
LEMMA MappedTypes ==
    ASSUME TypeOK
    PROVE  QueueF \in Seq(Bytes) /\ Len(QueueF) = Len(qF) /\ Len(qF) \in Nat
<1>1. Len(qF) \in Nat /\ \A i \in 1 .. Len(qF) : buff[qF[i]] \in Bytes
  BY LenProperties, ElementOfSeq DEF TypeOK
<1>2. QueueF \in [1 .. Len(qF) -> Bytes]
  BY <1>1 DEF QueueF
<1>3. QED
  BY <1>1, <1>2, SeqDef

LEMMA MappedTypesNext ==
    ASSUME TypeOK'
    PROVE  QueueF' \in Seq(Bytes) /\ Len(QueueF') = Len(qF') /\ Len(qF') \in Nat
<1>1. Len(qF') \in Nat /\ \A i \in 1 .. Len(qF') : buff'[qF'[i]] \in Bytes
  BY LenProperties, ElementOfSeq DEF TypeOK
<1>2. QueueF' \in [1 .. Len(qF') -> Bytes]
  BY <1>1 DEF QueueF
<1>3. QED
  BY <1>1, <1>2, SeqDef

(* A step that moves no byte of qF and none of a consumer's hand.          *)
LEMMA SameBytes ==
    ASSUME TypeOK, qF' = qF, \A i \in 1 .. Len(qF) : buff'[qF[i]] = buff[qF[i]],
           \A c \in Consumers : HandOf(c)' = HandOf(c)
    PROVE  QueueF' = QueueF /\ HandF' = HandF
<1>1. QueueF' = QueueF
  BY DEF QueueF
<1>2. HandF' = HandF
  BY DEF HandF
<1>3. QED
  BY <1>1, <1>2

(* So is every step of a producer but its push ...                         *)
LEMMA ProducerQuiet ==
    ASSUME TypeOK, SlotOwnership, NEW p \in Producers, Produce(p), ~PPushF(p)
    PROVE  QueueF' = QueueF /\ HandF' = HandF
<1> USE ConstantsAssumption DEF Procs
<1>1. qF' = qF /\ consumed' = consumed
  BY DEF Produce, PWaitSpace, PWaitProd, PPopE, PSignalProd, PFill, PWaitCons,
         PSignalCons, PSignalFull
<1>2. \A c \in Consumers : pc'[c] = pc[c] /\ slot'[c] = slot[c]
  <2>1. ASSUME NEW c \in Consumers PROVE pc'[c] = pc[c] /\ slot'[c] = slot[c]
    <3>1. c # p
      OBVIOUS
    <3>2. pc'[c] = pc[c]
      BY <3>1 DEF Produce, PWaitSpace, PWaitProd, PPopE, PSignalProd, PFill, PWaitCons,
            PSignalCons, PSignalFull, Goto, TypeOK
    <3>3. slot'[c] = slot[c]
      BY <3>1 DEF Produce, PWaitSpace, PWaitProd, PPopE, PSignalProd, PFill, PWaitCons,
            PSignalCons, PSignalFull, popE, TypeOK
    <3>4. QED
      BY <3>2, <3>3
  <2>2. QED
    BY <2>1
<1>3. \A i \in 1 .. Len(qF) : buff'[qF[i]] = buff[qF[i]]
  <2>1. CASE PFill(p)
    BY <2>1, FillAlone
  <2>2. CASE ~PFill(p)
    <3>1. buff' = buff
      BY <2>2 DEF Produce, PWaitSpace, PWaitProd, PPopE, PSignalProd, PWaitCons,
            PSignalCons, PSignalFull
    <3>2. QED
      BY <3>1
  <2>3. QED
    BY <2>1, <2>2
<1>4. \A c \in Consumers : pc[c] \in {"signal_cons", "read"} => buff'[slot[c]] = buff[slot[c]]
  <2>1. CASE PFill(p)
    <3>1. \A c \in Consumers : c # p
      OBVIOUS
    <3>2. \A c \in Consumers : pc[c] \in {"signal_cons", "read"} => c \in Holders
      BY DEF Holders, At
    <3>3. QED
      BY <2>1, <3>1, <3>2, FillAlone
  <2>2. CASE ~PFill(p)
    <3>1. buff' = buff
      BY <2>2 DEF Produce, PWaitSpace, PWaitProd, PPopE, PSignalProd, PWaitCons,
            PSignalCons, PSignalFull
    <3>2. QED
      BY <3>1
  <2>3. QED
    BY <2>1, <2>2
<1>5. \A c \in Consumers : c \in Hands' <=> c \in Hands
  BY <1>2 DEF Hands, At
<1>6. ASSUME NEW c \in Consumers PROVE HandOf(c)' = HandOf(c)
  <2>1. CASE pc[c] \in {"signal_cons", "read"}
    BY <1>2, <1>4, <2>1 DEF HandOf
  <2>2. CASE pc[c] \notin {"signal_cons", "read"}
    BY <1>1, <1>2, <1>5, <2>2 DEF HandOf
  <2>3. QED
    BY <2>1, <2>2
<1>7. QED
  BY <1>1, <1>3, <1>6, SameBytes

(* ... and of a consumer but its pop of qF and its signal of space: read   *)
(* itself takes from the slot the byte the consumer already had.           *)
LEMMA ConsumerQuiet ==
    ASSUME TypeOK, NEW c \in Consumers, Consume(c), ~CPopF(c), ~CSignalSpace(c)
    PROVE  QueueF' = QueueF /\ HandF' = HandF
<1> USE ConstantsAssumption DEF Procs
<1>1. qF' = qF /\ buff' = buff /\ slot' = slot
  BY DEF Consume, CWaitFull, CWaitCons, CSignalCons, CRead, CWaitProd, CPushE, CSignalProd
<1>2. \A d \in Consumers : d # c => pc'[d] = pc[d] /\ consumed'[d] = consumed[d]
  <2>1. ASSUME NEW d \in Consumers, d # c PROVE pc'[d] = pc[d] /\ consumed'[d] = consumed[d]
    <3>1. pc'[d] = pc[d]
      BY <2>1 DEF Consume, CWaitFull, CWaitCons, CSignalCons, CRead, CWaitProd, CPushE,
            CSignalProd, Goto, TypeOK
    <3>2. consumed'[d] = consumed[d]
      BY <2>1 DEF Consume, CWaitFull, CWaitCons, CSignalCons, CRead, CWaitProd, CPushE,
            CSignalProd, TypeOK
    <3>3. QED
      BY <3>1, <3>2
  <2>2. QED
    BY <2>1
<1>3. ASSUME NEW d \in Consumers, d # c PROVE HandOf(d)' = HandOf(d)
  BY <1>1, <1>2, <1>3 DEF HandOf, Hands, At
<1>4. HandOf(c)' = HandOf(c)
  <2>1. CASE CRead(c)
    <3>1. pc[c] = "read" /\ pc'[c] = "wait_prod" /\ consumed'[c] = buff[slot[c]]
      BY <2>1 DEF CRead, Goto, TypeOK
    <3>2. HandOf(c) = << buff[slot[c]] >>
      BY <3>1 DEF HandOf
    <3>3. HandOf(c)' = << consumed'[c] >>
      BY <3>1 DEF HandOf, Hands, At
    <3>4. QED
      BY <3>1, <3>2, <3>3
  <2>2. CASE ~CRead(c)
    <3>1. consumed' = consumed
      BY <2>2 DEF Consume, CWaitFull, CWaitCons, CSignalCons, CWaitProd, CPushE, CSignalProd
    <3>2. /\ pc'[c] \in {"signal_cons", "read"} <=> pc[c] \in {"signal_cons", "read"}
          /\ c \in Hands' <=> c \in Hands
      BY <2>2 DEF Consume, CWaitFull, CWaitCons, CSignalCons, CWaitProd, CPushE,
            CSignalProd, Goto, TypeOK, Hands, At
    <3>3. QED
      BY <1>1, <3>1, <3>2 DEF HandOf
  <2>3. QED
    BY <2>1, <2>2
<1>5. QED
  BY <1>1, <1>3, <1>4, SameBytes

-----------------------------------------------------------------------------
(* The consumers with a byte in their hands are those past their pop.      *)
LEMMA HoldingHands ==
    {c \in Consumers : HandF[c] # << >>} = Hands
<1>1. ASSUME NEW c \in Consumers PROVE HandF[c] # << >> <=> c \in Hands
  BY DEF HandF, HandOf, Hands, At
<1>2. Hands \subseteq Consumers
  BY DEF Hands, At
<1>3. QED
  BY <1>1, <1>2

(* A push finds room, since the token of space it was paid with is not     *)
(* shared, and puts the byte made and filled.                              *)
LEMMA PushPuts ==
    ASSUME RefineInv, TypeOK', NEW p \in Producers, PPushF(p)
    PROVE  /\ Len(QueueF) + Cardinality(Hands) < BUFS - 1
           /\ buff[slot[p]] \in Products
           /\ QueueF' = Append(QueueF, buff[slot[p]])
           /\ HandF' = HandF
<1> USE ConstantsAssumption DEF RefineInv, Procs
<1>1. pc[p] = "push_F"
  BY DEF PPushF, Goto
<1>2. Len(QueueF) + Cardinality(Hands) < BUFS - 1
  <2>1. p \in At(Producers, PBusy) /\ IsFiniteSet(At(Producers, PBusy))
    BY <1>1, FS_Subset DEF At, PBusy
  <2>2. nPBusy # 0
    BY <2>1, FS_EmptySet DEF nPBusy, N
  <2>3. Cardinality(Hands) = nCHand /\ Len(QueueF) = nF
    BY MappedTypes DEF nCHand, N, Hands, CHand, nF
  <2>4. nF + nCHand < BUFS - 1
    BY <2>2, TypeShaped, CountsNat DEF CountInv, TokenCount
  <2>5. QED
    BY <2>3, <2>4
<1>3. buff[slot[p]] \in Products
  BY <1>1 DEF BytesMade
<1>4. QueueF' = Append(QueueF, buff[slot[p]])
  <2> DEFINE v == buff[slot[p]]
  <2>1. slot[p] \in Slots /\ v \in Bytes
    BY <1>3 DEF TypeOK, Bytes
  <2>2. /\ qF' = Append(qF, slot[p]) /\ buff' = buff
    BY DEF PPushF
  <2>3. /\ Len(qF') = Len(qF) + 1 /\ qF'[Len(qF) + 1] = slot[p]
        /\ \A i \in 1 .. Len(qF) : qF'[i] = qF[i]
    BY <2>1, <2>2, AppendProperties DEF TypeOK
  <2>4. /\ Append(QueueF, v) \in Seq(Bytes)
        /\ Len(Append(QueueF, v)) = Len(qF) + 1
        /\ Append(QueueF, v)[Len(qF) + 1] = v
        /\ \A i \in 1 .. Len(qF) : Append(QueueF, v)[i] = QueueF[i]
    BY <2>1, MappedTypes, AppendProperties
  <2>5. QueueF' \in Seq(Bytes) /\ Len(QueueF') = Len(qF) + 1
    BY <2>3, MappedTypesNext
  <2>6. \A i \in 1 .. Len(qF) + 1 : QueueF'[i] = Append(QueueF, v)[i]
    <3>1. ASSUME NEW i \in 1 .. Len(qF) + 1 PROVE QueueF'[i] = Append(QueueF, v)[i]
      <4>1. QueueF'[i] = buff[qF'[i]]
        BY <2>2, <2>3 DEF QueueF
      <4>2. CASE i \in 1 .. Len(qF)
        BY <2>3, <2>4, <4>1, <4>2 DEF QueueF
      <4>3. CASE i = Len(qF) + 1
        BY <2>3, <2>4, <4>1, <4>3
      <4>4. QED
        BY <4>2, <4>3, MappedTypes
    <3>2. QED
      BY <3>1
  <2>7. QED
    BY <2>4, <2>5, <2>6, SeqEqual
<1>5. HandF' = HandF
  <2>1. \A c \in Consumers : pc'[c] = pc[c]
    BY DEF PPushF, Goto, TypeOK
  <2>2. slot' = slot /\ buff' = buff /\ consumed' = consumed
    BY DEF PPushF
  <2>3. \A c \in Consumers : HandOf(c)' = HandOf(c)
    BY <2>1, <2>2 DEF HandOf, Hands, At
  <2>4. QED
    BY <2>3 DEF HandF
<1>6. QED
  BY <1>2, <1>3, <1>4, <1>5

(* A pop takes the oldest byte into the consumer's hand.                   *)
LEMMA PopTakes ==
    ASSUME TypeOK, TypeOK', NEW c \in Consumers, CPopF(c)
    PROVE  /\ HandF[c] = << >>
           /\ QueueF # << >>
           /\ QueueF' = Tail(QueueF)
           /\ HandF' = [HandF EXCEPT ![c] = << Head(QueueF) >>]
<1> USE ConstantsAssumption DEF Procs
<1>1. pc[c] = "pop_F" /\ pc'[c] = "signal_cons" /\ \A d \in Consumers : d # c => pc'[d] = pc[d]
  BY DEF CPopF, Goto, TypeOK
<1>2. /\ qF # << >> /\ slot'[c] = Head(qF) /\ qF' = Tail(qF) /\ buff' = buff
      /\ consumed' = consumed /\ \A d \in Consumers : d # c => slot'[d] = slot[d]
  BY DEF CPopF, popF, TypeOK
<1>3. /\ Len(qF) \in Nat \ {0} /\ Len(qF') = Len(qF) - 1 /\ Head(qF) = qF[1]
      /\ \A i \in 1 .. Len(qF) - 1 : qF'[i] = qF[i + 1]
  BY <1>2, EmptySeq, HeadTailProperties DEF TypeOK
<1>4. /\ QueueF \in Seq(Bytes) /\ Len(QueueF) = Len(qF)
      /\ QueueF' \in Seq(Bytes) /\ Len(QueueF') = Len(qF')
  BY MappedTypes, MappedTypesNext
<1>5. QueueF # << >>
  BY <1>3, <1>4, EmptySeq
<1>6. QueueF' = Tail(QueueF)
  <2>1. /\ Tail(QueueF) \in Seq(Bytes) /\ Len(Tail(QueueF)) = Len(qF) - 1
        /\ \A i \in 1 .. Len(qF) - 1 : Tail(QueueF)[i] = QueueF[i + 1]
    BY <1>3, <1>4, <1>5, HeadTailProperties
  <2>2. ASSUME NEW i \in 1 .. Len(qF) - 1 PROVE QueueF'[i] = Tail(QueueF)[i]
    <3>1. QueueF'[i] = buff[qF'[i]]
      BY <1>2, <1>3 DEF QueueF
    <3>2. i + 1 \in 1 .. Len(qF)
      BY <1>3
    <3>3. QueueF[i + 1] = buff[qF[i + 1]]
      BY <3>2 DEF QueueF
    <3>4. QED
      BY <1>3, <2>1, <3>1, <3>3
  <2>3. QED
    BY <1>3, <1>4, <2>1, <2>2, SeqEqual
<1>7. HandF' = [HandF EXCEPT ![c] = << Head(QueueF) >>]
  <2>1. Head(QueueF) = buff[qF[1]]
    <3>1. Head(QueueF) = QueueF[1]
      BY <1>4, <1>5
    <3>2. 1 \in 1 .. Len(qF)
      BY <1>3
    <3>3. QED
      BY <3>1, <3>2 DEF QueueF
  <2>2. HandOf(c)' = << Head(QueueF) >>
    BY <1>1, <1>2, <1>3, <2>1 DEF HandOf
  <2>3. \A d \in Consumers : d # c => HandOf(d)' = HandOf(d)
    BY <1>1, <1>2 DEF HandOf, Hands, At
  <2>4. QED
    BY <2>2, <2>3 DEF HandF
<1>8. HandF[c] = << >>
  BY <1>1 DEF HandF, HandOf, Hands, At
<1>9. QED
  BY <1>5, <1>6, <1>7, <1>8

(* A signal of space empties the consumer's hand.                          *)
LEMMA SignalGivesBack ==
    ASSUME TypeOK, NEW c \in Consumers, CSignalSpace(c)
    PROVE  /\ HandF[c] # << >>
           /\ QueueF' = QueueF
           /\ HandF' = [HandF EXCEPT ![c] = << >>]
<1> USE ConstantsAssumption DEF Procs
<1>1. /\ pc[c] = "signal_space" /\ pc'[c] = "wait_full"
      /\ \A d \in Consumers : d # c => pc'[d] = pc[d]
  BY DEF CSignalSpace, Goto, TypeOK
<1>2. qF' = qF /\ buff' = buff /\ slot' = slot /\ consumed' = consumed
  BY DEF CSignalSpace
<1>3. HandOf(c) # << >> /\ HandOf(c)' = << >>
  BY <1>1 DEF HandOf, Hands, At
<1>4. \A d \in Consumers : d # c => HandOf(d)' = HandOf(d)
  BY <1>1, <1>2 DEF HandOf, Hands, At
<1>5. QED
  BY <1>2, <1>3, <1>4 DEF HandF, QueueF

-----------------------------------------------------------------------------
\* BoundedBuffer has its own instance of FiniteSets.
LEMMA SameCardinality == \A S : Buffer!Cardinality(S) = Cardinality(S)
  BY DEF Buffer!Cardinality, Cardinality

LEMMA StepMaps ==
    ASSUME RefineInv, TypeOK', [Next]_vars
    PROVE  [Buffer!Next]_<<QueueF, HandF>>
<1> USE DEF RefineInv
<1>1. ASSUME NEW p \in Producers, Produce(p) PROVE [Buffer!Next]_<<QueueF, HandF>>
  <2>1. CASE PPushF(p)
    <3>1. /\ Len(QueueF) + Cardinality({c \in Consumers : HandF[c] # << >>}) < BUFS - 1
          /\ buff[slot[p]] \in Products
          /\ QueueF' = Append(QueueF, buff[slot[p]])
          /\ HandF' = HandF
      BY <2>1, PushPuts, HoldingHands
    <3>2. PICK v \in Products : v = buff[slot[p]]
      BY <3>1
    <3>3. Buffer!Put(v)
      BY <3>1, <3>2, SameCardinality DEF Buffer!Put, Buffer!Holding, QueueF, HandF, HandOf
    <3>4. QED
      BY <3>3 DEF Buffer!Next
  <2>2. CASE ~PPushF(p)
    BY <1>1, <2>2, ProducerQuiet
  <2>3. QED
    BY <2>1, <2>2
<1>2. ASSUME NEW c \in Consumers, Consume(c) PROVE [Buffer!Next]_<<QueueF, HandF>>
  <2>1. CASE CPopF(c)
    <3>1. Buffer!Take(c)
      BY <2>1, PopTakes DEF Buffer!Take, QueueF, HandF, HandOf
    <3>2. QED
      BY <3>1 DEF Buffer!Next
  <2>2. CASE CSignalSpace(c)
    <3>1. Buffer!GiveBack(c)
      BY <2>2, SignalGivesBack DEF Buffer!GiveBack, QueueF, HandF, HandOf
    <3>2. QED
      BY <3>1 DEF Buffer!Next
  <2>3. CASE ~CPopF(c) /\ ~CSignalSpace(c)
    BY <1>2, <2>3, ConsumerQuiet
  <2>4. QED
    BY <2>1, <2>2, <2>3
<1>3. CASE UNCHANGED vars
  <2>1. \A c \in Consumers : HandOf(c)' = HandOf(c)
    BY <1>3 DEF vars, HandOf, Hands, At
  <2>2. QED
    BY <1>3, <2>1, SameBytes DEF vars
<1>4. QED
  BY <1>1, <1>2, <1>3 DEF Next

(* prod and cons together are a first-in first-out buffer of BUFS-1 bytes: *)
(* whatever the interleaving, the bytes come out of the shared memory in   *)
(* the order in which they were pushed, each once and unspoilt             *)
(* (prod.c:34-51, cons.c:31-47).                                           *)
THEOREM Refinement == Spec => BufferSpec
<1>1. Init => Buffer!Init
  <2> SUFFICES ASSUME Init PROVE Buffer!Init
    OBVIOUS
  <2>1. QueueF = << >>
    BY DEF Init, QueueF
  <2>2. HandF = [c \in Consumers |-> << >>]
    BY ConstantsAssumption DEF Init, HandF, HandOf, Hands, At, Procs
  <2>3. QED
    BY <2>1, <2>2 DEF Buffer!Init, QueueF, HandF, HandOf
<1>2. RefineInv /\ TypeOK' /\ [Next]_vars => [Buffer!Next]_<<QueueF, HandF>>
  BY StepMaps
<1>3. QED
  BY <1>1, <1>2, Inductive, TypeCorrect, PTL
     DEF Spec, BufferSpec, Buffer!Spec, QueueF, HandF, HandOf


-----------------------------------------------------------------------------
(* Kills.                                                                  *)

InProd == {"pop_E", "push_E", "signal_prod"}
InCons == {"pop_F", "push_F", "signal_cons"}

\* Who runs what, and that semaphores and undo entries are numbers.
Shape == /\ pc \in [Procs -> ProducerLabels \cup ConsumerLabels \cup {"dead"}]
         /\ \A p \in Producers : pc[p] \in ProducerLabels \cup {"dead"}
         /\ \A c \in Consumers : pc[c] \in ConsumerLabels \cup {"dead"}
         /\ sem \in [Sems -> Nat]
         /\ adj \in [Procs -> [Sems -> Int]]

\* The semaphore s is 1 and nobody is at L, or it is 0 and one process is.
Owned(s, L) == \/ sem[s] = 1 /\ \A x \in Procs : pc[x] \notin L
               \/ sem[s] = 0 /\ \E x \in Procs : /\ pc[x] \in L
                                                 /\ \A y \in Procs : pc[y] \in L => y = x

\* The kernel will give s back for the process that is at L and for no other.
Noted(s, L) == \A x \in Procs : adj[x][s] = IF pc[x] \in L THEN 1 ELSE 0

Guards(s, L) == Owned(s, L) /\ Noted(s, L)

MutexInv == Shape /\ Guards("prod", InProd) /\ Guards("cons", InCons)

(* How one process may touch the mutex s of the section L: it stays        *)
(* outside or inside, it enters, or it leaves, killed or not.              *)
Touches(x, s, L) ==
    /\ \A y \in Procs \ {x} : pc'[y] = pc[y] /\ adj'[y][s] = adj[y][s]
    /\ \/ (pc[x] \in L <=> pc'[x] \in L) /\ sem'[s] = sem[s] /\ adj'[x][s] = adj[x][s]
       \/ pc[x] \notin L /\ pc'[x] \in L /\ sem[s] > 0 /\ sem'[s] = sem[s] - 1 /\ adj'[x][s] = adj[x][s] + 1
       \/ pc[x] \in L /\ pc'[x] \notin L /\ sem'[s] = sem[s] + 1 /\ adj'[x][s] = adj[x][s] - 1

-----------------------------------------------------------------------------
(* A process that touches the mutex in one of these ways keeps it.         *)
LEMMA TouchKeeps ==
    ASSUME Shape, NEW s \in Sems, NEW L, Guards(s, L), NEW x \in Procs, Touches(x, s, L)
    PROVE  Guards(s, L)'
<1>1. sem[s] \in Nat /\ adj[x][s] \in Int
  BY DEF Shape
<1>2. Noted(s, L)'
  BY <1>1 DEF Guards, Noted, Touches
<1>3. CASE (pc[x] \in L <=> pc'[x] \in L) /\ sem'[s] = sem[s]
  <2>1. \A y \in Procs : pc'[y] \in L <=> pc[y] \in L
    BY <1>3 DEF Touches
  <2>2. Owned(s, L)'
    BY <1>3, <2>1 DEF Guards, Owned
  <2>3. QED
    BY <1>2, <2>2 DEF Guards
<1>4. CASE pc[x] \notin L /\ pc'[x] \in L /\ sem[s] > 0 /\ sem'[s] = sem[s] - 1
  <2>1. sem[s] = 1 /\ \A y \in Procs : pc[y] \notin L
    BY <1>4 DEF Guards, Owned
  <2>2. \A y \in Procs : pc'[y] \in L => y = x
    BY <2>1 DEF Touches
  <2>3. Owned(s, L)'
    BY <1>4, <2>1, <2>2 DEF Owned
  <2>4. QED
    BY <1>2, <2>3 DEF Guards
<1>5. CASE pc[x] \in L /\ pc'[x] \notin L /\ sem'[s] = sem[s] + 1
  <2>1. sem[s] = 0 /\ \A y \in Procs : pc[y] \in L => y = x
    BY <1>5 DEF Guards, Owned
  <2>2. \A y \in Procs : pc'[y] \notin L
    BY <1>5, <2>1 DEF Touches
  <2>3. Owned(s, L)'
    BY <1>5, <2>1, <2>2 DEF Owned
  <2>4. QED
    BY <1>2, <2>3 DEF Guards
<1>6. QED
  BY <1>3, <1>4, <1>5 DEF Touches

(* The kernel never refuses a call on a mutex, whatever its limit: nobody  *)
(* has more than one to be undone.                                         *)
LEMMA MutexInRange ==
    ASSUME MutexInv, NEW x \in Procs,
           pc[x] \in {"wait_prod", "signal_prod", "wait_cons", "signal_cons"}
    PROVE  InRange(x)
<1> USE UndoAssumption DEF MutexInv, Guards, Noted, InProd, InCons, InRange, UndoEntry, SemCall
<1>1. CASE pc[x] = "wait_prod"
  BY <1>1
<1>2. CASE pc[x] = "signal_prod"
  BY <1>2
<1>3. CASE pc[x] = "wait_cons"
  BY <1>3
<1>4. CASE pc[x] = "signal_cons"
  BY <1>4
<1>5. QED
  BY <1>1, <1>2, <1>3, <1>4

(* A step of a loop enters and leaves prod and cons with their semaphores, *)
(* and its undo entries follow.                                            *)
LEMMA StepTouches ==
    ASSUME MutexInv, NEW x \in Procs, Step(x)
    PROVE  Shape' /\ Touches(x, "prod", InProd) /\ Touches(x, "cons", InCons)
<1> USE ConstantsAssumption DEF MutexInv, Shape, Procs, Goto, Touches, InProd, InCons, ProducerLabels,
                                ConsumerLabels, Sems, AtSemCall, SemCall, UndoEntry
<1>1. CASE x \in Producers /\ Produce(x)
  <2>1. CASE PWaitSpace(x)
    BY <1>1, <2>1 DEF PWaitSpace, mwait, Step
  <2>2. CASE PWaitProd(x)
    BY <1>1, <2>2 DEF PWaitProd, mwait, Step
  <2>3. CASE PPopE(x)
    BY <1>1, <2>3 DEF PPopE, Step
  <2>4. CASE PSignalProd(x)
    BY <1>1, <2>4 DEF PSignalProd, msignal, Step
  <2>5. CASE PFill(x)
    BY <1>1, <2>5 DEF PFill, Step
  <2>6. CASE PWaitCons(x)
    BY <1>1, <2>6 DEF PWaitCons, mwait, Step
  <2>7. CASE PPushF(x)
    BY <1>1, <2>7 DEF PPushF, Step
  <2>8. CASE PSignalCons(x)
    BY <1>1, <2>8 DEF PSignalCons, msignal, Step
  <2>9. CASE PSignalFull(x)
    BY <1>1, <2>9 DEF PSignalFull, msignal, Step
  <2>10. QED
    BY <1>1, <2>1, <2>2, <2>3, <2>4, <2>5, <2>6, <2>7, <2>8, <2>9 DEF Produce
<1>2. CASE x \in Consumers /\ Consume(x)
  <2>1. CASE CWaitFull(x)
    BY <1>2, <2>1 DEF CWaitFull, mwait, Step
  <2>2. CASE CWaitCons(x)
    BY <1>2, <2>2 DEF CWaitCons, mwait, Step
  <2>3. CASE CPopF(x)
    BY <1>2, <2>3 DEF CPopF, Step
  <2>4. CASE CSignalCons(x)
    BY <1>2, <2>4 DEF CSignalCons, msignal, Step
  <2>5. CASE CRead(x)
    BY <1>2, <2>5 DEF CRead, Step
  <2>6. CASE CWaitProd(x)
    BY <1>2, <2>6 DEF CWaitProd, mwait, Step
  <2>7. CASE CPushE(x)
    BY <1>2, <2>7 DEF CPushE, Step
  <2>8. CASE CSignalProd(x)
    BY <1>2, <2>8 DEF CSignalProd, msignal, Step
  <2>9. CASE CSignalSpace(x)
    BY <1>2, <2>9 DEF CSignalSpace, msignal, Step
  <2>10. QED
    BY <1>2, <2>1, <2>2, <2>3, <2>4, <2>5, <2>6, <2>7, <2>8, <2>9 DEF Consume
<1>3. QED
  BY <1>1, <1>2 DEF Step

(* semop fails for the counters only, so nobody walks into prod or cons    *)
(* without having them.                                                    *)
LEMMA FailureTouches ==
    ASSUME MutexInv, NEW x \in Procs, SemopFails(x)
    PROVE  Shape' /\ Touches(x, "prod", InProd) /\ Touches(x, "cons", InCons)
<1>1. pc[x] \in {"wait_space", "signal_space", "wait_full", "signal_full"}
  BY MutexInRange DEF SemopFails, AtSemCall, SemCall
<1>2. pc'[x] \in {"wait_prod", "wait_full", "wait_cons", "wait_space"}
      /\ (x \in Producers => pc'[x] \in ProducerLabels) /\ (x \in Consumers => pc'[x] \in ConsumerLabels)
  BY <1>1, ConstantsAssumption
     DEF MutexInv, Shape, SemopFails, AfterProduce, AfterConsume, Procs, ProducerLabels, ConsumerLabels
<1>3. /\ \A y \in Procs \ {x} : pc'[y] = pc[y]
      /\ pc' \in [Procs -> ProducerLabels \cup ConsumerLabels \cup {"dead"}]
      /\ sem' = sem /\ adj' = adj
  BY <1>2, ConstantsAssumption DEF MutexInv, Shape, SemopFails, Procs
<1>4. Shape'
  BY <1>2, <1>3 DEF MutexInv, Shape, Procs
<1>5. QED
  BY <1>1, <1>2, <1>3, <1>4 DEF Touches, InProd, InCons

(* The kernel gives back what the dead process had, and nothing else.      *)
LEMMA KillTouches ==
    ASSUME MutexInv, NEW x \in Procs, Kill(x)
    PROVE  Shape' /\ Touches(x, "prod", InProd) /\ Touches(x, "cons", InCons)
<1>1. /\ \A y \in Procs \ {x} : pc'[y] = pc[y] /\ adj'[y] = adj[y]
      /\ pc'[x] = "dead" /\ adj'[x] = NoUndo
  BY DEF MutexInv, Shape, Kill
<1>2. Shape'
  BY <1>1 DEF MutexInv, Shape, Kill, NoUndo, Procs
<1>3. adj[x]["prod"] \in {0, 1} /\ (adj[x]["prod"] = 1 <=> pc[x] \in InProd)
  BY DEF MutexInv, Guards, Noted
<1>4. adj[x]["cons"] \in {0, 1} /\ (adj[x]["cons"] = 1 <=> pc[x] \in InCons)
  BY DEF MutexInv, Guards, Noted
<1>5. sem'["prod"] = sem["prod"] + adj[x]["prod"] /\ sem'["cons"] = sem["cons"] + adj[x]["cons"]
  BY <1>3, <1>4 DEF MutexInv, Shape, Kill, Sems
<1>6. adj'[x]["prod"] = 0 /\ adj'[x]["cons"] = 0
  BY <1>1 DEF NoUndo, Sems
<1>7. pc'[x] \notin InProd /\ pc'[x] \notin InCons
  BY <1>1 DEF InProd, InCons
<1>8. sem["prod"] \in Nat /\ sem["cons"] \in Nat
  BY DEF MutexInv, Shape, Sems
<1>9. Touches(x, "prod", InProd)
  BY <1>1, <1>3, <1>5, <1>6, <1>7, <1>8 DEF Touches
<1>10. Touches(x, "cons", InCons)
  BY <1>1, <1>4, <1>5, <1>6, <1>7, <1>8 DEF Touches
<1>11. QED
  BY <1>2, <1>9, <1>10

(* A process that is started again is in no critical section.              *)
LEMMA RestartTouches ==
    ASSUME MutexInv, NEW x \in Procs, Restart(x)
    PROVE  Shape' /\ Touches(x, "prod", InProd) /\ Touches(x, "cons", InCons)
BY ConstantsAssumption
   DEF MutexInv, Shape, Restart, Touches, InProd, InCons, Procs, ProducerLabels, ConsumerLabels

(* Every step keeps the invariant.                                         *)
LEMMA MutexStep ==
    ASSUME MutexInv, [UndoNext]_undoVars
    PROVE  MutexInv'
<1>1. ASSUME NEW x \in Procs, Shape', Touches(x, "prod", InProd), Touches(x, "cons", InCons)
      PROVE  MutexInv'
  BY <1>1, TouchKeeps DEF MutexInv, Sems
<1>2. ASSUME NEW x \in Procs, Step(x) \/ SemopFails(x) \/ Kill(x) \/ Restart(x)
      PROVE  MutexInv'
  BY <1>1, <1>2, StepTouches, FailureTouches, KillTouches, RestartTouches
<1>3. CASE UNCHANGED undoVars
  BY <1>3 DEF undoVars, vars, MutexInv, Shape, Guards, Owned, Noted
<1>4. QED
  BY <1>2, <1>3 DEF UndoNext

LEMMA MutexAlways == UndoSpec => []MutexInv
<1>1. UndoInit => MutexInv
  BY ConstantsAssumption
     DEF UndoInit, Init, MutexInv, Shape, Guards, Owned, Noted, NoUndo, Procs, Sems, InProd, InCons,
         ProducerLabels, ConsumerLabels
<1>2. MutexInv /\ [UndoNext]_undoVars => MutexInv'
  BY MutexStep
<1>3. QED
  BY <1>1, <1>2, PTL DEF UndoSpec

(* Whoever is killed, and wherever, prod and cons are each free with value *)
(* 1 or owned by the one process in the critical section (libmipc.c:118).  *)
THEOREM MutexesSurvive == UndoSpec => []MutexSurvivesKills
<1>1. ASSUME MutexInv, NEW s \in Sems, NEW L, Owned(s, L)
      PROVE  sem[s] + Cardinality(At(Procs, L)) = 1
  <2>1. CASE sem[s] = 1 /\ \A x \in Procs : pc[x] \notin L
    <3>1. At(Procs, L) = {}
      BY <2>1 DEF At
    <3>2. QED
      BY <2>1, <3>1, FS_EmptySet
  <2>2. CASE sem[s] = 0 /\ \E x \in Procs : pc[x] \in L /\ \A y \in Procs : pc[y] \in L => y = x
    <3>1. PICK x \in Procs : pc[x] \in L /\ \A y \in Procs : pc[y] \in L => y = x
      BY <2>2
    <3>2. At(Procs, L) = {x}
      BY <3>1 DEF At
    <3>3. Cardinality({x}) = 1
      BY FS_Singleton
    <3>4. QED
      BY <2>2, <3>2, <3>3
  <2>3. QED
    BY <1>1, <2>1, <2>2 DEF Owned
<1>2. MutexInv => MutexSurvivesKills
  BY <1>1 DEF MutexInv, Guards, MutexSurvivesKills, InProd, InCons, Sems
<1>3. QED
  BY <1>2, MutexAlways, PTL

-----------------------------------------------------------------------------
(* A wait in pop ends only with the process: whoever could push must have  *)
(* the semaphore that the waiting process has (libmipc.c:118, prod.c:41).  *)
THEOREM WaitsForever == UndoSpec => WaitInPopIsForever
<1>1. ASSUME MutexInv, UndoNext, NEW x \in Procs, Waiting(x)
      PROVE  Waiting(x)' \/ pc'[x] = "dead"
  <2>1. PICK y \in Procs : Step(y) \/ SemopFails(y) \/ Kill(y) \/ Restart(y)
    BY <1>1 DEF UndoNext
  <2>2. CASE y = x
    <3>1. ~ Step(x) /\ ~ SemopFails(x) /\ ~ Restart(x)
      BY <1>1 DEF Waiting, Step, Produce, Consume, Goto, SemopFails, AtSemCall, SemCall, Restart,
                  PWaitSpace, PWaitProd, PPopE, PSignalProd, PFill, PWaitCons, PPushF, PSignalCons,
                  PSignalFull, CWaitFull, CWaitCons, CPopF, CSignalCons, CRead, CWaitProd, CPushE,
                  CSignalProd, CSignalSpace, popE, popF
    <3>2. QED
      BY <1>1, <2>1, <2>2, <3>1 DEF Kill, MutexInv, Shape
  <2>3. CASE y # x
    <3>1. pc'[x] = pc[x]
      BY <1>1, <2>1, <2>3, StepTouches, FailureTouches, KillTouches, RestartTouches DEF Touches
    <3>2. /\ pc[x] = "pop_E" => pc[y] \notin InProd
          /\ pc[x] = "pop_F" => pc[y] \notin InCons
      BY <1>1, <2>3 DEF MutexInv, Guards, Owned, InProd, InCons
    <3>3. (pc[y] \notin InProd => qE' = qE) /\ (pc[y] \notin InCons => qF' = qF)
      <4>1. CASE Step(y) /\ y \in Producers
        <5>1. Produce(y)
          BY <4>1, ConstantsAssumption DEF Step
        <5>2. QED
          BY <5>1 DEF Produce, Goto, InProd, InCons, PWaitSpace, PWaitProd, PPopE, PSignalProd, PFill,
                      PWaitCons, PPushF, PSignalCons, PSignalFull
      <4>2. CASE Step(y) /\ y \notin Producers
        <5>1. Consume(y)
          BY <4>2 DEF Step
        <5>2. QED
          BY <5>1 DEF Consume, Goto, InProd, InCons, CWaitFull, CWaitCons, CPopF, CSignalCons, CRead,
                      CWaitProd, CPushE, CSignalProd, CSignalSpace
      <4>3. CASE SemopFails(y)
        BY <4>3 DEF SemopFails
      <4>4. CASE Kill(y) \/ Restart(y)
        BY <4>4 DEF Kill, Restart
      <4>5. QED
        BY <2>1, <4>1, <4>2, <4>3, <4>4
    <3>4. QED
      BY <1>1, <3>1, <3>2, <3>3 DEF Waiting
  <2>4. QED
    BY <2>2, <2>3
<1>2. MutexInv /\ [UndoNext]_undoVars
        => [\A x \in Procs : Waiting(x) => Waiting(x)' \/ pc'[x] = "dead"]_undoVars
  BY <1>1
<1>3. QED
  BY <1>2, MutexAlways, PTL DEF UndoSpec, WaitInPopIsForever

-----------------------------------------------------------------------------
\* Where the slot numbers are, and how many of them.
SlotInv == Shaped /\ kills \in Nat /\ KillLosesOneSlot

(* A number goes where its holder takes it, and is lost with its holder.   *)
LEMMA SlotStep ==
    ASSUME MutexInv, MutexInv', SlotInv, [UndoNext]_undoVars
    PROVE  SlotInv'
<1> DEFINE Sum == Len(qE) + Len(qF) + Cardinality(Holders)
<1>1. IsFiniteSet(Holders) /\ Cardinality(Holders) \in Nat /\ Len(qE) \in Nat /\ Len(qF) \in Nat
  <2>1. IsFiniteSet(Holders)
    BY ConstantsAssumption, FS_Subset, FS_Union DEF Holders, At
  <2>2. QED
    BY <2>1, FS_CardinalityType, LenProperties DEF SlotInv, Shaped
<1>2. Sum \in Nat /\ kills \in Nat /\ Sum + kills >= BUFS /\ SlotOwnership /\ BUFS \in Nat
  BY <1>1, ConstantsAssumption DEF SlotInv, KillLosesOneSlot
<1>3. pc' = [x \in Procs |-> pc'[x]] /\ sem' \in [Sems -> Nat]
  BY DEF MutexInv, Shape
<1>4. ASSUME SlotOwnership', qE' \in Seq(Slots), qF' \in Seq(Slots), slot' \in [Procs -> Slots],
             kills' \in Nat, Sum' + kills' >= BUFS
      PROVE  SlotInv'
  BY <1>3, <1>4 DEF SlotInv, KillLosesOneSlot, Shaped
<1>5. ASSUME NEW x \in Procs, Step(x) PROVE SlotInv'
  <2>1. Rests \/ Pops(x) \/ Pushes(x)
    BY <1>5, StepMoves DEF SlotInv, Step
  <2>2. /\ qE' \in Seq(Slots) /\ qF' \in Seq(Slots) /\ slot' \in [Procs -> Slots]
        /\ Sum' = Sum
    BY <2>1, MovesKeepNumbers DEF SlotInv
  <2>3. SlotOwnership' /\ kills' = kills
    BY <1>2, <1>5, <2>1, MovesKeepOwnership DEF SlotInv, Step
  <2> HIDE DEF Sum
  <2>4. QED
    BY <1>2, <1>4, <2>2, <2>3
<1>6. ASSUME NEW x \in Procs, SemopFails(x) PROVE SlotInv'
  <2>1. pc[x] \in {"wait_space", "signal_space", "wait_full", "signal_full"}
    BY <1>6, MutexInRange DEF SemopFails, AtSemCall, SemCall
  <2>2. pc'[x] \in {"wait_space", "wait_prod", "wait_full", "wait_cons"}
        /\ (pc'[x] = "wait_prod" => x \in Producers) /\ (pc'[x] = "wait_cons" => x \in Consumers)
    BY <1>6, <2>1, ConstantsAssumption
       DEF MutexInv, Shape, SemopFails, AfterProduce, AfterConsume, Procs, ProducerLabels, ConsumerLabels
  <2>3. \A y \in Procs : y # x => pc'[y] = pc[y]
    BY <1>6 DEF SemopFails, MutexInv, Shape
  <2>4. Holders' = Holders
    BY <2>1, <2>2, <2>3, ConstantsAssumption DEF Holders, At, Procs
  <2>5. Rests /\ kills' = kills
    BY <1>6, <2>4 DEF Rests, SemopFails
  <2>6. QED
    BY <1>2, <1>4, <2>5, OwnershipQuiet DEF Rests, SlotInv, Shaped
<1>7. ASSUME NEW x \in Procs, Kill(x) PROVE SlotInv'
  <2>1. pc'[x] = "dead" /\ \A y \in Procs : y # x => pc'[y] = pc[y]
    BY <1>7 DEF Kill, MutexInv, Shape
  <2>2. Holders' = Holders \ {x}
    BY <2>1 DEF Holders, At, Procs
  <2>3. Cardinality(Holders') \in Nat /\ Cardinality(Holders') >= Cardinality(Holders) - 1
    <3>1. CASE x \in Holders
      <4>1. Cardinality(Holders \ {x}) = Cardinality(Holders) - 1
        BY <1>1, <3>1, FS_RemoveElement
      <4>2. IsFiniteSet(Holders \ {x}) /\ Cardinality(Holders \ {x}) \in Nat
        BY <1>1, FS_Subset, FS_CardinalityType
      <4>3. QED
        BY <1>1, <2>2, <4>1, <4>2
    <3>2. CASE x \notin Holders
      <4>1. Holders' = Holders
        BY <2>2, <3>2
      <4>2. QED
        BY <1>1, <4>1
    <3>3. QED
      BY <3>1, <3>2
  <2>4. UNCHANGED <<qE, qF, slot>> /\ kills' = kills + 1
    BY <1>7 DEF Kill
  <2>5. SlotOwnership'
    BY <1>2, <2>2, <2>4 DEF SlotOwnership
  <2>6. Len(qE') = Len(qE) /\ Len(qF') = Len(qF)
    BY <2>4
  <2>7. kills' \in Nat /\ Sum' + kills' >= BUFS
    BY <1>1, <1>2, <2>3, <2>4, <2>6, SMTT(30)
  <2>8. QED
    BY <1>4, <2>4, <2>5, <2>7 DEF SlotInv, Shaped
<1>8. ASSUME NEW x \in Procs, Restart(x) PROVE SlotInv'
  <2>1. /\ pc[x] = "dead" /\ pc'[x] \in {"wait_space", "wait_full"}
        /\ \A y \in Procs : y # x => pc'[y] = pc[y] /\ slot'[y] = slot[y]
        /\ UNCHANGED <<qE, qF, kills>> /\ slot' = [slot EXCEPT ![x] = 0]
    BY <1>8 DEF Restart, MutexInv, Shape, SlotInv, Shaped
  <2>2. Holders' = Holders /\ x \notin Holders /\ Holders \subseteq Procs
    BY <2>1 DEF Holders, At, Procs
  <2>3. SlotOwnership'
    BY <1>2, <2>1, <2>2 DEF SlotOwnership
  <2>4. slot' \in [Procs -> Slots]
    BY <2>1, ConstantsAssumption DEF SlotInv, Shaped, Slots
  <2>5. Sum' = Sum
    BY <2>1, <2>2
  <2> HIDE DEF Sum
  <2>6. QED
    BY <1>2, <1>4, <2>1, <2>3, <2>4, <2>5 DEF SlotInv, Shaped
<1>9. CASE UNCHANGED undoVars
  <2>1. Rests /\ kills' = kills
    BY <1>9 DEF undoVars, vars, Rests, Holders, At
  <2>2. QED
    BY <1>2, <1>4, <2>1, OwnershipQuiet DEF Rests, SlotInv, Shaped
<1>10. QED
  BY <1>5, <1>6, <1>7, <1>8, <1>9 DEF UndoNext

LEMMA SlotInit == UndoInit => SlotInv
<1> SUFFICES ASSUME UndoInit PROVE SlotInv
  OBVIOUS
<1>1. Init /\ kills = 0
  BY DEF UndoInit
<1>2. Shaped
  <2>1. \A i \in 1 .. BUFS : i - 1 \in Slots
    BY ConstantsAssumption DEF Slots
  <2>2. qE \in Seq(Slots) /\ qF \in Seq(Slots)
    BY <1>1, <2>1, ConstantsAssumption, EmptySeq DEF Init
  <2>3. sem \in [Sems -> Nat] /\ 0 \in Slots
    BY <1>1, ConstantsAssumption DEF Init, Sems, Slots
  <2>4. QED
    BY <1>1, <2>2, <2>3 DEF Init, Shaped
<1>3. Holders = {}
  BY <1>1, ConstantsAssumption DEF Init, Holders, At, Procs
<1>4. Len(qF) = 0 /\ Len(qE) = BUFS /\ \A i \in 1 .. BUFS : qE[i] = i - 1
  BY <1>1, ConstantsAssumption DEF Init
<1>5. SlotOwnership
  BY <1>3, <1>4, ConstantsAssumption DEF SlotOwnership
<1>6. QED
  BY <1>1, <1>2, <1>3, <1>4, <1>5, ConstantsAssumption, FS_EmptySet DEF SlotInv, KillLosesOneSlot

LEMMA SlotAlways == UndoSpec => []SlotInv
<1>1. MutexInv /\ MutexInv' /\ SlotInv /\ [UndoNext]_undoVars => SlotInv'
  BY SlotStep
<1>2. QED
  BY <1>1, SlotInit, MutexAlways, PTL DEF UndoSpec

(* Kills and restarts never put one number in two places, and each kill    *)
(* loses at most the number the process had in its hands (prod.c:41-47).   *)
THEOREM KillsLoseOneSlot == UndoSpec => []KillLosesOneSlot
BY SlotAlways, PTL DEF SlotInv

-----------------------------------------------------------------------------
\* A producer only takes from space and gives to full, a consumer the other way round.
OneWay == /\ \A p \in Producers : adj[p]["space"] >= 0 /\ adj[p]["full"] <= 0
          /\ \A c \in Consumers : adj[c]["full"] >= 0 /\ adj[c]["space"] <= 0

SurplusInv == /\ surplus["space"] \in Int /\ surplus["full"] \in Int
              /\ EmptyBalance >= 1 - surplus["space"]
              /\ FilledBalance >= - surplus["full"]

LEMMA OneWayStep ==
    ASSUME MutexInv, OneWay, [UndoNext]_undoVars
    PROVE  OneWay'
<1>1. \A y \in Procs : adj[y]["space"] \in Int /\ adj[y]["full"] \in Int
  BY DEF MutexInv, Shape, Sems
<1>2. ASSUME NEW x \in Procs, Step(x) PROVE OneWay'
  <2>1. \A y \in Procs \ {x} : adj'[y] = adj[y]
    BY <1>2 DEF Step, MutexInv, Shape
  <2>2. CASE x \in Producers
    <3>1. Produce(x)
      BY <1>2, <2>2, ConstantsAssumption DEF Step
    <3>2. pc[x] \in ProducerLabels
      BY <3>1 DEF Produce, Goto, ProducerLabels, PWaitSpace, PWaitProd, PPopE, PSignalProd, PFill,
                  PWaitCons, PPushF, PSignalCons, PSignalFull
    <3>3. /\ adj'[x]["space"] = adj[x]["space"] \/ adj'[x]["space"] = adj[x]["space"] + 1
          /\ adj'[x]["full"] = adj[x]["full"] \/ adj'[x]["full"] = adj[x]["full"] - 1
      BY <1>1, <1>2, <3>2 DEF Step, AtSemCall, SemCall, UndoEntry, ProducerLabels, MutexInv, Shape, Sems
    <3>4. QED
      BY <1>1, <2>1, <2>2, <3>3, ConstantsAssumption DEF OneWay, Procs
  <2>3. CASE x \in Consumers
    <3>1. Consume(x)
      BY <1>2, <2>3, ConstantsAssumption DEF Step
    <3>2. pc[x] \in ConsumerLabels
      BY <3>1 DEF Consume, Goto, ConsumerLabels, CWaitFull, CWaitCons, CPopF, CSignalCons, CRead,
                  CWaitProd, CPushE, CSignalProd, CSignalSpace
    <3>3. /\ adj'[x]["full"] = adj[x]["full"] \/ adj'[x]["full"] = adj[x]["full"] + 1
          /\ adj'[x]["space"] = adj[x]["space"] \/ adj'[x]["space"] = adj[x]["space"] - 1
      BY <1>1, <1>2, <3>2 DEF Step, AtSemCall, SemCall, UndoEntry, ConsumerLabels, MutexInv, Shape, Sems
    <3>4. QED
      BY <1>1, <2>1, <2>3, <3>3, ConstantsAssumption DEF OneWay, Procs
  <2>4. QED
    BY <2>2, <2>3 DEF Procs
<1>3. ASSUME NEW x \in Procs, Kill(x) PROVE OneWay'
  <2>1. adj'[x] = NoUndo /\ \A y \in Procs \ {x} : adj'[y] = adj[y]
    BY <1>3 DEF Kill, MutexInv, Shape
  <2>2. NoUndo["space"] = 0 /\ NoUndo["full"] = 0
    BY DEF NoUndo, Sems
  <2>3. QED
    BY <2>1, <2>2 DEF OneWay, Procs
<1>4. ASSUME adj' = adj PROVE OneWay'
  BY <1>4 DEF OneWay
<1>5. QED
  BY <1>2, <1>3, <1>4 DEF UndoNext, SemopFails, Restart, undoVars

(* A process leaves the counts it stands in, and what the kernel gives     *)
(* back of its counter was not in a queue's favour.                        *)
LEMMA KillSurplus ==
    ASSUME MutexInv, Shaped, OneWay, SurplusInv, NEW x \in Procs, Kill(x)
    PROVE  SurplusInv'
<1>1. Goto(x, pc[x], "dead")
  BY DEF Kill, Goto
<1>2. /\ nSpace' = IF nSpace + adj[x]["space"] < 0 THEN 0 ELSE nSpace + adj[x]["space"]
      /\ nFull' = IF nFull + adj[x]["full"] < 0 THEN 0 ELSE nFull + adj[x]["full"]
      /\ nE' = nE /\ nF' = nF /\ adj[x]["space"] \in Int /\ adj[x]["full"] \in Int
  BY DEF Kill, nSpace, nFull, nE, nF, MutexInv, Shape, Sems
<1>3. CASE x \in Producers
  <2>1. /\ Moved(nPEarly, nPEarly', PEarly, pc[x], "dead")
        /\ Moved(nPDone, nPDone', PDone, pc[x], "dead")
        /\ nCEarly' = nCEarly /\ nCDone' = nCDone
    BY <1>1, <1>3, ProducerCounts
  <2>2. /\ surplus'["space"] = surplus["space"] + adj[x]["space"] - (IF pc[x] \in PEarly THEN 1 ELSE 0)
        /\ surplus'["full"] = surplus["full"]
    BY <1>3 DEF Kill, HasToken, PEarly
  <2>3. /\ nPEarly' = nPEarly - (IF pc[x] \in PEarly THEN 1 ELSE 0)
        /\ nPDone' = nPDone - (IF pc[x] \in PDone THEN 1 ELSE 0)
    BY <2>1, CountsNat DEF Moved, PEarly, PDone
  <2>4. adj[x]["space"] >= 0 /\ adj[x]["full"] <= 0
    BY <1>3 DEF OneWay
  <2>5. QED
    BY <1>2, <2>1, <2>2, <2>3, <2>4, CountsNat DEF SurplusInv, EmptyBalance, FilledBalance
<1>4. CASE x \in Consumers
  <2>1. /\ Moved(nCEarly, nCEarly', CEarly, pc[x], "dead")
        /\ Moved(nCDone, nCDone', CDone, pc[x], "dead")
        /\ nPEarly' = nPEarly /\ nPDone' = nPDone
    BY <1>1, <1>4, ConsumerCounts
  <2>2. /\ surplus'["full"] = surplus["full"] + adj[x]["full"] - (IF pc[x] \in CEarly THEN 1 ELSE 0)
        /\ surplus'["space"] = surplus["space"]
    BY <1>4, ConstantsAssumption DEF Kill, HasToken, CEarly
  <2>3. /\ nCEarly' = nCEarly - (IF pc[x] \in CEarly THEN 1 ELSE 0)
        /\ nCDone' = nCDone - (IF pc[x] \in CDone THEN 1 ELSE 0)
    BY <2>1, CountsNat DEF Moved, CEarly, CDone
  <2>4. adj[x]["full"] >= 0 /\ adj[x]["space"] <= 0
    BY <1>4 DEF OneWay
  <2>5. QED
    BY <1>2, <2>1, <2>2, <2>3, <2>4, CountsNat DEF SurplusInv, EmptyBalance, FilledBalance
<1>5. QED
  BY <1>3, <1>4 DEF Procs

(* A wait that fails lets its process in without a token; a signal that    *)
(* fails gives none.                                                       *)
LEMMA FailureSurplus ==
    ASSUME MutexInv, Shaped, SurplusInv, NEW x \in Procs, SemopFails(x)
    PROVE  SurplusInv'
<1>1. Goto(x, pc[x], pc'[x])
  BY DEF SemopFails, Goto, MutexInv, Shape
<1>2. nSpace' = nSpace /\ nFull' = nFull /\ nE' = nE /\ nF' = nF
  BY DEF SemopFails, nSpace, nFull, nE, nF
<1>3. pc[x] \in {"wait_space", "signal_space", "wait_full", "signal_full"}
  BY MutexInRange DEF SemopFails, AtSemCall, SemCall
<1>4. /\ surplus'["space"] = surplus["space"] + (IF pc[x] = "wait_space" THEN 1 ELSE 0)
      /\ surplus'["full"] = surplus["full"] + (IF pc[x] = "wait_full" THEN 1 ELSE 0)
  BY <1>3 DEF SemopFails, SemCall, SurplusInv
<1>5. CASE x \in Producers
  <2>1. \/ pc[x] = "wait_space" /\ pc'[x] = "wait_prod"
        \/ pc[x] = "signal_full" /\ pc'[x] = "wait_space"
    BY <1>3, <1>5, ConstantsAssumption DEF MutexInv, Shape, SemopFails, AfterProduce, ProducerLabels
  <2>2. /\ Moved(nPEarly, nPEarly', PEarly, pc[x], pc'[x])
        /\ Moved(nPDone, nPDone', PDone, pc[x], pc'[x])
        /\ nCEarly' = nCEarly /\ nCDone' = nCDone
    BY <1>1, <1>5, ProducerCounts
  <2>3. /\ nPEarly' = nPEarly + (IF pc[x] = "wait_space" THEN 1 ELSE 0)
        /\ nPDone' = nPDone - (IF pc[x] = "signal_full" THEN 1 ELSE 0)
    BY <2>1, <2>2, CountsNat DEF Moved, PEarly, PDone
  <2>4. pc[x] # "wait_full"
    BY <2>1
  <2>5. QED
    BY <1>2, <1>4, <2>2, <2>3, <2>4, CountsNat DEF SurplusInv, EmptyBalance, FilledBalance
<1>6. CASE x \in Consumers
  <2>1. \/ pc[x] = "wait_full" /\ pc'[x] = "wait_cons"
        \/ pc[x] = "signal_space" /\ pc'[x] = "wait_full"
    BY <1>3, <1>6, ConstantsAssumption DEF MutexInv, Shape, SemopFails, AfterConsume, ConsumerLabels
  <2>2. /\ Moved(nCEarly, nCEarly', CEarly, pc[x], pc'[x])
        /\ Moved(nCDone, nCDone', CDone, pc[x], pc'[x])
        /\ nPEarly' = nPEarly /\ nPDone' = nPDone
    BY <1>1, <1>6, ConsumerCounts
  <2>3. /\ nCEarly' = nCEarly + (IF pc[x] = "wait_full" THEN 1 ELSE 0)
        /\ nCDone' = nCDone - (IF pc[x] = "signal_space" THEN 1 ELSE 0)
    BY <2>1, <2>2, CountsNat DEF Moved, CEarly, CDone
  <2>4. pc[x] # "wait_space"
    BY <2>1
  <2>5. QED
    BY <1>2, <1>4, <2>2, <2>3, <2>4, CountsNat DEF SurplusInv, EmptyBalance, FilledBalance
<1>7. QED
  BY <1>5, <1>6 DEF Procs

LEMMA SurplusStep ==
    ASSUME MutexInv, SlotInv, OneWay, SurplusInv, [UndoNext]_undoVars
    PROVE  SurplusInv'
<1>1. Shaped
  BY DEF SlotInv
<1>2. ASSUME Balanced, surplus' = surplus PROVE SurplusInv'
  BY <1>2 DEF Balanced, SurplusInv
<1>3. ASSUME NEW x \in Procs, Step(x) PROVE SurplusInv'
  <2>1. [Next]_vars /\ surplus' = surplus
    BY <1>3 DEF Step, Next
  <2>2. QED
    BY <1>1, <1>2, <2>1, BalanceStep
<1>4. ASSUME NEW x \in Procs, Restart(x) PROVE SurplusInv'
  <2>1. Goto(x, "dead", pc'[x]) /\ pc'[x] \in {"wait_space", "wait_full"}
    BY <1>4 DEF Restart, Goto, MutexInv, Shape
  <2>2. nSpace' = nSpace /\ nFull' = nFull /\ nE' = nE /\ nF' = nF /\ surplus' = surplus
    BY <1>4 DEF Restart, nSpace, nFull, nE, nF
  <2>3. nPEarly' = nPEarly /\ nPDone' = nPDone /\ nCEarly' = nCEarly /\ nCDone' = nCDone
    BY <1>1, <2>1, ProducerCounts, ConsumerCounts DEF Procs, Moved, PEarly, PDone, CEarly, CDone
  <2>4. QED
    BY <2>2, <2>3 DEF SurplusInv, EmptyBalance, FilledBalance
<1>5. CASE UNCHANGED undoVars
  BY <1>1, <1>2, <1>5, BalanceStep DEF undoVars
<1>6. QED
  BY <1>1, <1>3, <1>4, <1>5, KillSurplus, FailureSurplus DEF UndoNext

(* A process that waits in pop stands in a count.                          *)
LEMMA SurplusPays ==
    ASSUME MutexInv, SlotInv, SurplusInv
    PROVE  TokensAccountedFor
<1>1. Shaped
  BY DEF SlotInv
<1>2. /\ nSpace + nPEarly + nCDone < nE + surplus["space"]
      /\ nFull + nCEarly + nPDone <= nF + surplus["full"]
  BY <1>1, CountsNat DEF SurplusInv, EmptyBalance, FilledBalance
<1>3. ASSUME NEW S \in {Producers, Consumers}, NEW L, NEW x \in S, pc[x] \in L
      PROVE  N(S, L) # 0
  <2>1. IsFiniteSet(At(S, L)) /\ x \in At(S, L)
    BY <1>3, ConstantsAssumption, FS_Subset DEF At
  <2>2. QED
    BY <2>1, FS_EmptySet DEF N
<1>4. ASSUME NEW x \in Procs, pc[x] = "pop_E", qE = << >> PROVE surplus["space"] >= 2
  <2>1. x \in Producers
    BY <1>4 DEF MutexInv, Shape, ConsumerLabels, Procs
  <2>2. nPEarly # 0
    BY <1>3, <1>4, <2>1 DEF nPEarly, PEarly
  <2>3. nE = 0
    BY <1>4 DEF nE
  <2>4. QED
    BY <1>1, <1>2, <2>2, <2>3, CountsNat DEF SurplusInv
<1>5. ASSUME NEW x \in Procs, pc[x] = "pop_F", qF = << >> PROVE surplus["full"] >= 1
  <2>1. x \in Consumers
    BY <1>5 DEF MutexInv, Shape, ProducerLabels, Procs
  <2>2. nCEarly # 0
    BY <1>3, <1>5, <2>1 DEF nCEarly, CEarly
  <2>3. nF = 0
    BY <1>5 DEF nF
  <2>4. nFull \in Nat /\ nCEarly \in Nat /\ nPDone \in Nat /\ surplus["full"] \in Int
    BY <1>1, CountsNat DEF SurplusInv
  <2>5. nFull + nCEarly + nPDone <= surplus["full"]
    BY <1>2, <2>3, <2>4
  <2>6. QED
    BY <2>2, <2>4, <2>5
<1>6. /\ sem["space"] = nSpace /\ sem["full"] = nFull /\ Len(qE) = nE /\ Len(qF) = nF
      /\ Cardinality(At(Producers, {"wait_prod", "pop_E"})) = nPEarly
      /\ Cardinality(At(Consumers, {"signal_prod", "signal_space"})) = nCDone
      /\ Cardinality(At(Consumers, {"wait_cons", "pop_F"})) = nCEarly
      /\ Cardinality(At(Producers, {"signal_cons", "signal_full"})) = nPDone
  BY DEF nSpace, nFull, nE, nF, nPEarly, nCDone, nCEarly, nPDone, N, PEarly, CDone, CEarly, PDone
<1>7. QED
  BY <1>2, <1>4, <1>5, <1>6 DEF TokensAccountedFor

(* Whoever is killed, and whatever semop refuses: the tokens in excess are *)
(* those that came back after they were used (libmipc.c:118, prod.c:41).   *)
THEOREM TokensAddUp == UndoSpec => []TokensAccountedFor
<1>1. UndoInit => OneWay /\ SurplusInv
  <2> SUFFICES ASSUME UndoInit PROVE OneWay /\ SurplusInv
    OBVIOUS
  <2>1. OneWay
    BY DEF UndoInit, OneWay, NoUndo, Sems, Procs
  <2>2. CountInv /\ Shaped
    BY CountInit, SlotInit DEF UndoInit, SlotInv
  <2>3. QED
    BY <2>1, <2>2, CountsNat
       DEF UndoInit, SurplusInv, EmptyBalance, FilledBalance, CountInv, EmptyCount, FilledCount
<1>2. MutexInv /\ OneWay /\ [UndoNext]_undoVars => OneWay'
  BY OneWayStep
<1>3. MutexInv /\ SlotInv /\ OneWay /\ SurplusInv /\ [UndoNext]_undoVars => SurplusInv'
  BY SurplusStep
<1>4. MutexInv /\ SlotInv /\ SurplusInv => TokensAccountedFor
  BY SurplusPays
<1>5. QED
  BY <1>1, <1>2, <1>3, <1>4, MutexAlways, SlotAlways, PTL DEF UndoSpec

-----------------------------------------------------------------------------
(* Start-up.                                                               *)

PStartLabels == {"mshm", "mque_F", "mquenew_E", "get_space", "set_space", "get_prod", "set_prod",
                 "get_cons", "set_cons", "get_full", "set_full", "fill_E"}
CStartLabels == {"mquenew_F", "mquenew_E", "mshm", "get_space", "get_prod", "get_cons", "get_full"}

\* Where each process can be, and that semaphores and numbers are numbers.
StartShape ==
    /\ pc \in [Procs -> ProducerLabels \cup ConsumerLabels \cup PStartLabels \cup CStartLabels
                          \cup ExitLabels]
    /\ \A p \in Producers : pc[p] \in ProducerLabels \cup PStartLabels \cup ExitLabels
    /\ \A c \in Consumers : pc[c] \in ConsumerLabels \cup CStartLabels \cup ExitLabels
    /\ sem \in [Sems -> Nat]
    /\ newq \in [Producers -> BOOLEAN]
    /\ toPush \in [Producers -> Nat]

\* The producers past the wait for a semaphore, which have one of its tokens.
PastSpace == ProducerLabels \ {"wait_space"}
PastProd  == ProducerLabels \ {"wait_space", "wait_prod"}
PastCons  == {"push_F", "signal_cons", "signal_full"}

\* The semaphore s is not there yet, or somebody at L is to give it its value.
Unset(s, L) == s \notin made \/ \E p \in Producers : pc[p] = L

\* Nobody has had a token of s, so no consumer one of full.
Unused(s, past) == /\ sem[s] = 0 /\ sem["full"] = 0
                   /\ \A p \in Producers : pc[p] \notin past
                   /\ \A c \in Consumers : pc[c] \in ConsumerLabels => pc[c] = "wait_full"

\* One process creates s, and as long as it has not set it nobody gets past it.
SetOnce(s, L, past) ==
    /\ \A p \in Producers : pc[p] = L => s \in made /\ \A q \in Producers : pc[q] = L => q = p
    /\ Unset(s, L) => Unused(s, past)

SetvalInv == /\ SetOnce("space", "set_space", PastSpace)
             /\ SetOnce("prod", "set_prod", PastProd)
             /\ SetOnce("cons", "set_cons", PastCons)

\* One of the three semaphores that start-up protects.
Protected(s, L, past) == \/ s = "space" /\ L = "set_space" /\ past = PastSpace
                         \/ s = "prod" /\ L = "set_prod" /\ past = PastProd
                         \/ s = "cons" /\ L = "set_cons" /\ past = PastCons

-----------------------------------------------------------------------------
(* The calls of msem and msemget, one semaphore at a time.                 *)
LEMMA Labels ==
    /\ GetLabel[1] = "get_space" /\ GetLabel[2] = "get_prod"
    /\ GetLabel[3] = "get_cons" /\ GetLabel[4] = "get_full"
    /\ SetLabel[1] = "set_space" /\ SetLabel[2] = "set_prod"
    /\ SetLabel[3] = "set_cons" /\ SetLabel[4] = "set_full"
    /\ SemOrder[1] = "space" /\ SemOrder[2] = "prod"
    /\ SemOrder[3] = "cons" /\ SemOrder[4] = "full"
  BY DEF GetLabel, SetLabel, SemOrder

LEMMA NextLabels ==
    ASSUME NEW x \in Procs
    PROVE  /\ AfterSem(x, 1) = "get_prod" /\ AfterSem(x, 2) = "get_cons"
           /\ AfterSem(x, 3) = "get_full"
           /\ x \in Producers => AfterSem(x, 4) = "fill_E"
           /\ x \in Consumers => AfterSem(x, 4) = "wait_full"
  BY Labels, ConstantsAssumption DEF AfterSem

LEMMA StartLabelsAre == StartLabels = PStartLabels \cup CStartLabels
<1>1. \A k \in 1 .. 4 : k = 1 \/ k = 2 \/ k = 3 \/ k = 4
  OBVIOUS
<1>2. {GetLabel[k] : k \in 1 .. 4} = {"get_space", "get_prod", "get_cons", "get_full"}
  BY <1>1, Labels
<1>3. {SetLabel[k] : k \in 1 .. 4} = {"set_space", "set_prod", "set_cons", "set_full"}
  BY <1>1, Labels
<1>4. QED
  BY <1>2, <1>3 DEF StartLabels, PStartLabels, CStartLabels

(* semget, and SETVAL, of a producer, and the semaphore found by a         *)
(* consumer, as they are for each semaphore.                               *)
Creates(p, s, get, set, after) ==
    /\ Goto(p, get, IF s \in made THEN after ELSE set)
    /\ Create(s)
    /\ UNCHANGED <<sem, queues, locals, newq, toPush, startKills, orderly>>

Sets(p, s, set, after) ==
    /\ Goto(p, set, after)
    /\ sem' = [sem EXCEPT ![s] = InitialValue[s]]
    /\ UNCHANGED <<queues, locals, start>>

Finds(c, s, get, after) ==
    /\ Goto(c, get, IF s \in made THEN after ELSE "no_semaphore")
    /\ UNCHANGED <<sem, queues, locals, start>>

LEMMA SemgetCases ==
    ASSUME NEW p \in Producers, NEW k \in 1 .. 4, PSemget(p, k)
    PROVE  \/ Creates(p, "space", "get_space", "set_space", "get_prod")
           \/ Creates(p, "prod", "get_prod", "set_prod", "get_cons")
           \/ Creates(p, "cons", "get_cons", "set_cons", "get_full")
           \/ Creates(p, "full", "get_full", "set_full", "fill_E")
<1>1. p \in Procs
  BY DEF Procs
<1>2. CASE k = 1
  BY <1>1, <1>2, Labels, NextLabels DEF PSemget, Creates
<1>3. CASE k = 2
  BY <1>1, <1>3, Labels, NextLabels DEF PSemget, Creates
<1>4. CASE k = 3
  BY <1>1, <1>4, Labels, NextLabels DEF PSemget, Creates
<1>5. CASE k = 4
  BY <1>1, <1>5, Labels, NextLabels DEF PSemget, Creates
<1>6. QED
  BY <1>2, <1>3, <1>4, <1>5

LEMMA SetvalCases ==
    ASSUME NEW p \in Producers, NEW k \in 1 .. 4, PSetval(p, k)
    PROVE  \/ Sets(p, "space", "set_space", "get_prod")
           \/ Sets(p, "prod", "set_prod", "get_cons")
           \/ Sets(p, "cons", "set_cons", "get_full")
           \/ Sets(p, "full", "set_full", "fill_E")
<1>1. p \in Procs
  BY DEF Procs
<1>2. CASE k = 1
  BY <1>1, <1>2, Labels, NextLabels DEF PSetval, Sets
<1>3. CASE k = 2
  BY <1>1, <1>3, Labels, NextLabels DEF PSetval, Sets
<1>4. CASE k = 3
  BY <1>1, <1>4, Labels, NextLabels DEF PSetval, Sets
<1>5. CASE k = 4
  BY <1>1, <1>5, Labels, NextLabels DEF PSetval, Sets
<1>6. QED
  BY <1>2, <1>3, <1>4, <1>5

LEMMA FindCases ==
    ASSUME NEW c \in Consumers, NEW k \in 1 .. 4, CSemget(c, k)
    PROVE  \/ Finds(c, "space", "get_space", "get_prod")
           \/ Finds(c, "prod", "get_prod", "get_cons")
           \/ Finds(c, "cons", "get_cons", "get_full")
           \/ Finds(c, "full", "get_full", "wait_full")
<1>1. c \in Procs
  BY DEF Procs
<1>2. CASE k = 1
  BY <1>1, <1>2, Labels, NextLabels DEF CSemget, Finds
<1>3. CASE k = 2
  BY <1>1, <1>3, Labels, NextLabels DEF CSemget, Finds
<1>4. CASE k = 3
  BY <1>1, <1>4, Labels, NextLabels DEF CSemget, Finds
<1>5. CASE k = 4
  BY <1>1, <1>5, Labels, NextLabels DEF CSemget, Finds
<1>6. QED
  BY <1>2, <1>3, <1>4, <1>5

-----------------------------------------------------------------------------
(* The steps of start-up but SETVAL: one process goes to a place before    *)
(* its loop's first wait or out, and creates the semaphore it is to set.   *)
Walks(x) == /\ pc' = [pc EXCEPT ![x] = pc'[x]]
            /\ pc'[x] \in PStartLabels \cup CStartLabels \cup ExitLabels
                            \cup {"wait_space", "wait_full"}
            /\ x \in Producers => pc'[x] \in PStartLabels \cup ExitLabels \cup {"wait_space"}
            /\ x \in Consumers => pc'[x] \in CStartLabels \cup ExitLabels \cup {"wait_full"}
            /\ sem' = sem
            /\ made \subseteq made'
            /\ x \in Producers =>
                 /\ pc'[x] = "set_space" => "space" \notin made /\ "space" \in made'
                 /\ pc'[x] = "set_prod" => "prod" \notin made /\ "prod" \in made'
                 /\ pc'[x] = "set_cons" => "cons" \notin made /\ "cons" \in made'
            /\ newq' \in [Producers -> BOOLEAN]
            /\ toPush' \in [Producers -> Nat]

LEMMA CreateWalks ==
    ASSUME StartShape, NEW p \in Producers, NEW k \in 1 .. 4, PSemget(p, k)
    PROVE  Walks(p)
<1> USE ConstantsAssumption DEF StartShape, Procs, Creates, Goto, Create, Walks, PStartLabels
<1>1. CASE Creates(p, "space", "get_space", "set_space", "get_prod")
  BY <1>1
<1>2. CASE Creates(p, "prod", "get_prod", "set_prod", "get_cons")
  BY <1>2
<1>3. CASE Creates(p, "cons", "get_cons", "set_cons", "get_full")
  BY <1>3
<1>4. CASE Creates(p, "full", "get_full", "set_full", "fill_E")
  BY <1>4
<1>5. QED
  BY <1>1, <1>2, <1>3, <1>4, SemgetCases

LEMMA FindWalks ==
    ASSUME StartShape, NEW c \in Consumers, NEW k \in 1 .. 4, CSemget(c, k)
    PROVE  Walks(c)
<1> USE ConstantsAssumption DEF StartShape, Procs, Finds, Goto, start, Walks, CStartLabels, ExitLabels
<1>1. CASE Finds(c, "space", "get_space", "get_prod")
  BY <1>1
<1>2. CASE Finds(c, "prod", "get_prod", "get_cons")
  BY <1>2
<1>3. CASE Finds(c, "cons", "get_cons", "get_full")
  BY <1>3
<1>4. CASE Finds(c, "full", "get_full", "wait_full")
  BY <1>4
<1>5. QED
  BY <1>1, <1>2, <1>3, <1>4, FindCases

LEMMA ProducerWalks ==
    ASSUME StartShape, NEW p \in Producers, PStart(p), \A k \in 1 .. 4 : ~PSetval(p, k)
    PROVE  Walks(p)
<1> USE ConstantsAssumption DEF StartShape, Procs, Walks, PStartLabels, Goto, Create
<1>1. CASE PShm(p)
  BY <1>1 DEF PShm
<1>2. CASE PMqueF(p)
  BY <1>2 DEF PMqueF
<1>3. CASE PMquenewE(p)
  BY <1>3 DEF PMquenewE
<1>4. CASE PFillE(p)
  <2>1. pc' = [pc EXCEPT ![p] = pc'[p]] /\ pc'[p] \in {"fill_E", "wait_space"}
    BY <1>4 DEF PFillE
  <2>2. toPush' \in [Producers -> Nat]
    BY <1>4 DEF PFillE
  <2>3. QED
    BY <1>4, <2>1, <2>2 DEF PFillE
<1>5. CASE \E k \in 1 .. 4 : PSemget(p, k)
  BY <1>5, CreateWalks
<1>6. QED
  BY <1>1, <1>2, <1>3, <1>4, <1>5 DEF PStart

LEMMA ConsumerWalks ==
    ASSUME StartShape, NEW c \in Consumers, CStart(c)
    PROVE  Walks(c)
<1> USE ConstantsAssumption DEF StartShape, Procs, Walks, CStartLabels, ExitLabels, Goto, Create
<1>1. CASE CMquenewF(c)
  BY <1>1 DEF CMquenewF
<1>2. CASE CMquenewE(c)
  BY <1>2 DEF CMquenewE
<1>3. CASE CShm(c)
  BY <1>3 DEF CShm
<1>4. CASE \E k \in 1 .. 4 : CSemget(c, k)
  BY <1>4, FindWalks
<1>5. QED
  BY <1>1, <1>2, <1>3, <1>4 DEF CStart

LEMMA LaunchWalks ==
    ASSUME StartShape, NEW x \in Procs, Launch(x)
    PROVE  Walks(x)
  BY ConstantsAssumption DEF StartShape, Procs, Walks, PStartLabels, CStartLabels, Launch

LEMMA KillWalks ==
    ASSUME StartShape, NEW x \in Procs, KillStarting(x)
    PROVE  Walks(x)
  BY DEF StartShape, Procs, Walks, PStartLabels, CStartLabels, ExitLabels, KillStarting

(* Whoever walks gets past no wait, and to a SETVAL only by creating.      *)
LEMMA WalkKeepsOnce ==
    ASSUME StartShape, NEW x \in Procs, Walks(x),
           NEW s, NEW L, NEW past, Protected(s, L, past), SetOnce(s, L, past)
    PROVE  SetOnce(s, L, past)'
<1> USE ConstantsAssumption DEF StartShape, Procs, Walks
<1>1. x \in Producers /\ pc'[x] = L => s \notin made /\ s \in made'
  BY DEF Protected
<1>2. \A y \in Procs : y # x => pc'[y] = pc[y]
  OBVIOUS
<1>3. made \subseteq made' /\ sem' = sem
  OBVIOUS
<1>4. x \in Producers => pc'[x] \notin past
  BY DEF Protected, PastSpace, PastProd, PastCons, ProducerLabels, PStartLabels, ExitLabels
<1>5. x \in Consumers => (pc'[x] \in ConsumerLabels => pc'[x] = "wait_full")
  BY DEF ConsumerLabels, CStartLabels, ExitLabels
<1> HIDE DEF StartShape, Walks
<1>6. ASSUME NEW p \in Producers, pc'[p] = L
      PROVE  s \in made' /\ \A q \in Producers : pc'[q] = L => q = p
  BY <1>1, <1>2, <1>3, <1>6 DEF SetOnce
<1>7. Unset(s, L)' => Unset(s, L)
  BY <1>1, <1>2, <1>3 DEF Unset
<1>8. Unused(s, past) => Unused(s, past)'
  BY <1>2, <1>3, <1>4, <1>5 DEF Unused
<1>9. QED
  BY <1>6, <1>7, <1>8 DEF SetOnce

LEMMA WalkKeepsShape ==
    ASSUME StartShape, NEW x \in Procs, Walks(x)
    PROVE  StartShape'
<1> USE ConstantsAssumption DEF StartShape, Procs, Walks
<1>1. pc' \in [Procs -> ProducerLabels \cup ConsumerLabels \cup PStartLabels \cup CStartLabels
                          \cup ExitLabels]
  BY DEF ProducerLabels, ConsumerLabels
<1>2. \A p \in Producers : pc'[p] \in ProducerLabels \cup PStartLabels \cup ExitLabels
  BY DEF ProducerLabels
<1>3. \A c \in Consumers : pc'[c] \in ConsumerLabels \cup CStartLabels \cup ExitLabels
  BY DEF ConsumerLabels
<1>4. QED
  BY <1>1, <1>2, <1>3

(* SETVAL of s ends the time in which nobody may get past s, and leaves    *)
(* the other semaphores alone, but for full, which it sets to 0.           *)
LEMMA SetKeepsOnce ==
    ASSUME StartShape, NEW p \in Producers, NEW k \in 1 .. 4, PSetval(p, k),
           NEW s, NEW L, NEW past, Protected(s, L, past), SetOnce(s, L, past)
    PROVE  SetOnce(s, L, past)'
<1>1. PICK t, from, to : /\ Sets(p, t, from, to)
                         /\ t \in Sems /\ to \in PStartLabels \ {L}
                         /\ t = s <=> from = L
                         /\ t = "full" => InitialValue[t] = 0
  BY SetvalCases DEF Protected, Sems, PStartLabels, InitialValue
<1>2. made' = made /\ pc[p] = from /\ pc'[p] = to
  BY <1>1 DEF Sets, start, Goto, StartShape, Procs
<1>3. \A y \in Procs : y # p => pc'[y] = pc[y]
  BY <1>1 DEF Sets, Goto, StartShape
<1>4. Producers \subseteq Procs /\ Consumers \subseteq Procs /\ p \notin Consumers
  BY ConstantsAssumption DEF Procs
<1>5. s # "full" /\ s \in Sems /\ "full" \in Sems
  BY DEF Protected, Sems
<1>6. to \notin past /\ to # L
  BY <1>1 DEF Protected, PastSpace, PastProd, PastCons, ProducerLabels, PStartLabels
<1>7. ASSUME NEW q \in Producers, pc'[q] = L
      PROVE  s \in made' /\ \A r \in Producers : pc'[r] = L => r = q
  BY <1>2, <1>3, <1>4, <1>6, <1>7 DEF SetOnce
<1>8. CASE from = L
  <2>1. ~Unset(s, L)'
    BY <1>2, <1>3, <1>4, <1>6, <1>8 DEF Unset, SetOnce
  <2>2. QED
    BY <1>7, <2>1 DEF SetOnce
<1>9. CASE from # L
  <2>1. sem' = [sem EXCEPT ![t] = InitialValue[t]] /\ t # s
    BY <1>1, <1>9 DEF Sets
  <2>2. sem'[s] = sem[s] /\ (sem["full"] = 0 => sem'["full"] = 0)
    BY <1>1, <1>5, <2>1 DEF StartShape
  <2>3. Unset(s, L)' => Unset(s, L)
    BY <1>2, <1>3, <1>4, <1>6 DEF Unset
  <2>4. Unused(s, past) => Unused(s, past)'
    BY <1>2, <1>3, <1>4, <1>6, <2>2 DEF Unused
  <2>5. QED
    BY <1>7, <2>3, <2>4 DEF SetOnce
<1>10. QED
  BY <1>8, <1>9

LEMMA SetKeepsShape ==
    ASSUME StartShape, NEW p \in Producers, NEW k \in 1 .. 4, PSetval(p, k)
    PROVE  StartShape'
<1>1. PICK t, from, to : Sets(p, t, from, to) /\ t \in Sems /\ to \in PStartLabels
  BY SetvalCases DEF Sems, PStartLabels
<1>2. InitialValue[t] \in Nat
  BY <1>1, ConstantsAssumption DEF Sems, InitialValue
<1>3. sem' \in [Sems -> Nat]
  BY <1>1, <1>2 DEF StartShape, Sets
<1>4. QED
  BY <1>1, <1>3, ConstantsAssumption DEF StartShape, Sets, Goto, start, Procs

(* As long as a semaphore has no value nobody gets past it, and with 0 of  *)
(* full no consumer gets anywhere.                                         *)
LEMMA ProduceKeepsOnce ==
    ASSUME StartShape, NEW p \in Producers, Produce(p), made' = made,
           NEW s, NEW L, NEW past, Protected(s, L, past), SetOnce(s, L, past)
    PROVE  SetOnce(s, L, past)'
<1>1. /\ pc'[p] \in ProducerLabels
      /\ \A y \in Procs : y # p => pc'[y] = pc[y]
      /\ pc[p] \in ProducerLabels
  BY DEF StartShape, Procs, ProducerLabels, Goto, Produce, PWaitSpace, PWaitProd, PPopE,
         PSignalProd, PFill, PWaitCons, PPushF, PSignalCons, PSignalFull
<1>2. Producers \subseteq Procs /\ Consumers \subseteq Procs /\ p \notin Consumers
  BY ConstantsAssumption DEF Procs
<1>3. L \notin ProducerLabels
  BY DEF Protected, ProducerLabels
<1>4. Unset(s, L)' => Unset(s, L)
  BY <1>1, <1>2, <1>3 DEF Unset
<1>5. ASSUME Unused(s, past) PROVE pc'[p] \notin past /\ sem'[s] = 0 /\ sem'["full"] = 0
  <2> USE <1>5, ConstantsAssumption DEF StartShape, Procs, Sems, Unused, ProducerLabels,
          Goto, mwait, msignal
  <2>1. CASE s = "space" /\ past = PastSpace
    BY <2>1 DEF PastSpace, Produce, PWaitSpace, PWaitProd, PPopE, PSignalProd, PFill,
                PWaitCons, PPushF, PSignalCons, PSignalFull
  <2>2. CASE s = "prod" /\ past = PastProd
    BY <2>2 DEF PastProd, Produce, PWaitSpace, PWaitProd, PPopE, PSignalProd, PFill,
                PWaitCons, PPushF, PSignalCons, PSignalFull
  <2>3. CASE s = "cons" /\ past = PastCons
    BY <2>3 DEF PastCons, Produce, PWaitSpace, PWaitProd, PPopE, PSignalProd, PFill,
                PWaitCons, PPushF, PSignalCons, PSignalFull
  <2>4. QED
    BY <2>1, <2>2, <2>3 DEF Protected
<1>6. Unused(s, past) => Unused(s, past)'
  BY <1>1, <1>2, <1>5 DEF Unused
<1>7. QED
  BY <1>1, <1>2, <1>3, <1>4, <1>6 DEF SetOnce

LEMMA ConsumeKeepsOnce ==
    ASSUME StartShape, NEW c \in Consumers, Consume(c), made' = made,
           NEW s, NEW L, NEW past, Protected(s, L, past), SetOnce(s, L, past)
    PROVE  SetOnce(s, L, past)'
<1>1. \A p \in Producers : pc'[p] = pc[p]
  BY ConstantsAssumption
     DEF StartShape, Procs, Goto, Consume, CWaitFull, CWaitCons, CPopF, CSignalCons, CRead,
         CWaitProd, CPushE, CSignalProd, CSignalSpace
<1>2. ~Unused(s, past)
  BY DEF StartShape, Unused, mwait, ConsumerLabels, Goto, Consume, CWaitFull, CWaitCons, CPopF,
         CSignalCons, CRead, CWaitProd, CPushE, CSignalProd, CSignalSpace
<1>3. Unset(s, L)' => Unset(s, L)
  BY <1>1 DEF Unset
<1>4. QED
  BY <1>1, <1>2, <1>3 DEF SetOnce

LEMMA LoopKeepsShape ==
    ASSUME StartShape, newq' = newq, toPush' = toPush,
           \/ \E p \in Producers : Produce(p)
           \/ \E c \in Consumers : Consume(c)
    PROVE  StartShape'
<1>1. ASSUME NEW p \in Producers, Produce(p) PROVE StartShape'
  <2>1. sem' = sem \/ \E t \in Sems : mwait(t) \/ msignal(t)
    BY <1>1 DEF Sems, Produce, PWaitSpace, PWaitProd, PPopE,
                PSignalProd, PFill, PWaitCons, PPushF, PSignalCons, PSignalFull
  <2>2. pc' = [pc EXCEPT ![p] = pc'[p]] /\ pc'[p] \in ProducerLabels
    BY <1>1 DEF StartShape, Procs, ProducerLabels, Goto, Produce, PWaitSpace, PWaitProd, PPopE,
                PSignalProd, PFill, PWaitCons, PPushF, PSignalCons, PSignalFull
  <2>3. sem' \in [Sems -> Nat]
    BY <2>1 DEF StartShape, mwait, msignal
  <2>4. QED
    BY <2>2, <2>3, ConstantsAssumption DEF StartShape, Procs
<1>2. ASSUME NEW c \in Consumers, Consume(c) PROVE StartShape'
  <2>1. sem' = sem \/ \E t \in Sems : mwait(t) \/ msignal(t)
    BY <1>2 DEF Sems, Consume, CWaitFull, CWaitCons, CPopF,
                CSignalCons, CRead, CWaitProd, CPushE, CSignalProd, CSignalSpace
  <2>2. pc' = [pc EXCEPT ![c] = pc'[c]] /\ pc'[c] \in ConsumerLabels
    BY <1>2 DEF StartShape, Procs, ConsumerLabels, Goto, Consume, CWaitFull, CWaitCons, CPopF,
                CSignalCons, CRead, CWaitProd, CPushE, CSignalProd, CSignalSpace
  <2>3. sem' \in [Sems -> Nat]
    BY <2>1 DEF StartShape, mwait, msignal
  <2>4. QED
    BY <2>2, <2>3, ConstantsAssumption DEF StartShape, Procs
<1>3. QED
  BY <1>1, <1>2

-----------------------------------------------------------------------------
\* What a step of StartNext is.
LEMMA StartSteps ==
    ASSUME StartShape, StartNext
    PROVE  \/ \E x \in Procs : Walks(x)
           \/ \E p \in Producers, k \in 1 .. 4 : PSetval(p, k)
           \/ \E p \in Producers : Produce(p) /\ UNCHANGED start
           \/ \E c \in Consumers : Consume(c) /\ UNCHANGED start
<1>1. PICK x \in Procs : Launch(x) \/ Run(x) \/ KillStarting(x)
  BY DEF StartNext
<1>2. CASE Launch(x) \/ KillStarting(x)
  BY <1>2, LaunchWalks, KillWalks
<1>3. CASE Run(x)
  BY <1>3, ProducerWalks, ConsumerWalks DEF Run
<1>4. QED
  BY <1>1, <1>2, <1>3

LEMMA StartKeepsShape ==
    ASSUME StartShape, [StartNext]_startVars
    PROVE  StartShape'
<1>1. CASE UNCHANGED startVars
  BY <1>1 DEF startVars, vars, start, StartShape
<1>2. CASE StartNext
  BY <1>2, StartSteps, WalkKeepsShape, SetKeepsShape, LoopKeepsShape DEF start
<1>3. QED
  BY <1>1, <1>2

LEMMA StartKeepsOnce ==
    ASSUME StartShape, [StartNext]_startVars,
           NEW s, NEW L, NEW past, Protected(s, L, past), SetOnce(s, L, past)
    PROVE  SetOnce(s, L, past)'
<1>1. CASE UNCHANGED startVars
  BY <1>1 DEF startVars, vars, start, SetOnce, Unset, Unused
<1>2. CASE StartNext
  BY <1>2, StartSteps, WalkKeepsOnce, SetKeepsOnce, ProduceKeepsOnce, ConsumeKeepsOnce DEF start
<1>3. QED
  BY <1>1, <1>2

LEMMA StartInitShape ==
    ASSUME StartInit
    PROVE  StartShape /\ SetvalInv
<1>1. StartShape
  BY DEF StartInit, StartShape, Procs, Sems, ExitLabels
<1>2. SetvalInv
  BY DEF StartInit, SetvalInv, SetOnce, Unset, Unused, Procs, Sems, ConsumerLabels,
         PastSpace, PastProd, PastCons, ProducerLabels
<1>3. QED
  BY <1>1, <1>2

LEMMA SetvalInvStep ==
    ASSUME StartShape, SetvalInv, [StartNext]_startVars
    PROVE  StartShape' /\ SetvalInv'
<1>1. StartShape'
  BY StartKeepsShape
<1>2. SetOnce("space", "set_space", PastSpace)'
  BY StartKeepsOnce DEF SetvalInv, Protected
<1>3. SetOnce("prod", "set_prod", PastProd)'
  BY StartKeepsOnce DEF SetvalInv, Protected
<1>4. SetOnce("cons", "set_cons", PastCons)'
  BY StartKeepsOnce DEF SetvalInv, Protected
<1>5. QED
  BY <1>1, <1>2, <1>3, <1>4 DEF SetvalInv

(* A SETVAL that comes late takes no token of space, prod or cons from     *)
(* anyone: whoever found the semaphore before waits (libmipc.c:102-103).   *)
THEOREM LateSetvalIsHarmless == StartSpec => LateSetvalHarmsOnlyFull
<1>1. StartInit => StartShape /\ SetvalInv
  BY StartInitShape
<1>2. StartShape /\ SetvalInv /\ [StartNext]_startVars => StartShape' /\ SetvalInv'
  BY SetvalInvStep
<1>3. SetvalInv /\ [StartNext]_startVars
      => [\A p \in Producers, k \in 1 .. 4 :
             pc[p] = SetLabel[k] /\ pc'[p] = AfterSem(p, k)
                => SemOrder[k] = "full" \/ sem[SemOrder[k]] = 0]_startVars
  <2> SUFFICES ASSUME SetvalInv, NEW p \in Producers, NEW k \in 1 .. 4, pc[p] = SetLabel[k]
               PROVE  SemOrder[k] = "full" \/ sem[SemOrder[k]] = 0
    OBVIOUS
  <2>1. k = 1 \/ k = 2 \/ k = 3 \/ k = 4
    OBVIOUS
  <2>2. QED
    BY <2>1, Labels DEF SetvalInv, SetOnce, Unset, Unused
<1>4. QED
  BY <1>1, <1>2, <1>3, PTL DEF StartSpec, LateSetvalHarmsOnlyFull

-----------------------------------------------------------------------------
(* Start-up in good order.  What exists while the first producer starts    *)
(* follows from its place; from its first wait on everything exists, and a *)
(* process that comes later changes nothing that ProdCons knows of.        *)

Loops == ProducerLabels \cup ConsumerLabels
AllMade == {"qF", "qE", "space", "prod", "cons", "full"}

\* A producer's places before it has asked for each semaphore, and before its value is set.
BeforeQE == {"mshm", "mque_F", "mquenew_E"}
BeforeSpace == BeforeQE \cup {"get_space"}
BeforeProd  == BeforeSpace \cup {"set_space", "get_prod"}
BeforeCons  == BeforeProd \cup {"set_prod", "get_cons"}
BeforeFull  == BeforeCons \cup {"set_cons", "get_full"}

MadeBy(place) ==
    /\ place \notin {"mshm", "mque_F"} => "qF" \in made
    /\ place \in BeforeQE <=> "qE" \notin made
    /\ place \in BeforeSpace <=> "space" \notin made
    /\ place \in BeforeProd <=> "prod" \notin made
    /\ place \in BeforeCons <=> "cons" \notin made
    /\ place \in BeforeFull <=> "full" \notin made

ValuesBy(place) ==
    /\ place \notin BeforeSpace \cup {"set_space"} => sem["space"] = BUFS - 1
    /\ place \notin BeforeProd \cup {"set_prod"} => sem["prod"] = 1
    /\ place \notin BeforeCons \cup {"set_cons"} => sem["cons"] = 1
    /\ place \notin BeforeFull \cup {"set_full"} => sem["full"] = 0

PushedBy(p) == /\ pc[p] \notin BeforeQE => newq[p]
               /\ IF pc[p] = "fill_E" THEN toPush[p] =< BUFS ELSE toPush[p] = 0
               /\ qE = [n \in 1 .. toPush[p] |-> n - 1]

\* p is the first, and alone.
First(p) == /\ \A y \in Procs : y # p => pc[y] = "idle"
            /\ pc[p] \in PStartLabels
            /\ MadeBy(pc[p])
            /\ ValuesBy(pc[p])
            /\ PushedBy(p)

Nobody == /\ \A y \in Procs : pc[y] = "idle"
          /\ made = {}
          /\ qE = << >>

\* Whoever comes when the first producer is in its loop finds everything.
Found == /\ AllMade \subseteq made
         /\ \A p \in Producers :
              /\ pc[p] \in ProducerLabels \cup {"idle"}
                             \cup (PStartLabels \ {"set_space", "set_prod", "set_cons", "set_full"})
              /\ pc[p] \in PStartLabels \ BeforeQE => ~newq[p]
         /\ \A c \in Consumers : pc[c] \in ConsumerLabels \cup CStartLabels \cup {"idle"}

\* Who is not in its loop has locals as they are at first.
Fresh == /\ product = [p \in Producers |-> product[p]]
         /\ slot = [x \in Procs |-> slot[x]]
         /\ consumed = [c \in Consumers |-> consumed[c]]
         /\ \A p \in Producers : pc[p] \notin ProducerLabels => product[p] = 0
         /\ \A x \in Procs : pc[x] \notin Loops => slot[x] = 0
         /\ \A c \in Consumers : pc[c] \notin ConsumerLabels => consumed[c] = 0

OrderInv == orderly => /\ Fresh
                       /\ Running => Found
                       /\ ~Running => Nobody \/ \E p \in Producers : First(p)

\* The variables of ProdCons as IpcStart's property has them.
SteadyPc == [x \in Procs |-> IF pc[x] \in ProducerLabels \cup ConsumerLabels THEN pc[x]
                             ELSE IF x \in Producers THEN "wait_space" ELSE "wait_full"]
SteadySem == IF Running THEN sem ELSE InitialValue
SteadyQE == IF Running THEN qE ELSE [n \in 1 .. BUFS |-> n - 1]

\* A step that ProdCons does not see.
Unseen == UNCHANGED <<SteadyPc, SteadySem, SteadyQE, qF, buff, product, slot, consumed>>

-----------------------------------------------------------------------------
LEMMA NotRunning ==
    ASSUME ~Running, NEW p \in Producers
    PROVE  pc[p] \notin ProducerLabels
  BY DEF Running

\* A walk to a loop's first wait is none for ProdCons.
LEMMA WalkUnseen ==
    ASSUME StartShape, NEW x \in Procs, Walks(x), pc[x] \notin Loops
    PROVE  SteadyPc' = SteadyPc
<1>1. \A y \in Procs : y # x => pc'[y] = pc[y]
  BY DEF Walks, StartShape
<1>2. CASE x \in Producers
  <2>1. pc'[x] \notin Loops \/ pc'[x] = "wait_space"
    BY <1>2 DEF Walks, PStartLabels, ExitLabels, Loops, ProducerLabels, ConsumerLabels
  <2>2. QED
    BY <1>1, <1>2, <2>1 DEF SteadyPc, Loops
<1>3. CASE x \notin Producers
  <2>1. x \in Consumers
    BY <1>3 DEF Procs
  <2>2. pc'[x] \notin Loops \/ pc'[x] = "wait_full"
    BY <2>1 DEF Walks, CStartLabels, ExitLabels, Loops, ProducerLabels, ConsumerLabels
  <2>3. QED
    BY <1>1, <1>3, <2>2 DEF SteadyPc, Loops
<1>4. QED
  BY <1>2, <1>3

\* As long as somebody is in its loop, whoever walks leaves it there.
LEMMA WalkLeavesRunning ==
    ASSUME StartShape, Running, NEW x \in Procs, Walks(x), pc[x] \notin Loops
    PROVE  Running'
<1>1. PICK p \in Producers : pc[p] \in ProducerLabels
  BY DEF Running
<1>2. pc'[p] = pc[p]
  BY <1>1 DEF Walks, StartShape, Procs, Loops
<1>3. QED
  BY <1>1, <1>2 DEF Running

(* When all is there, who starts finds it, and leaves it as it is.         *)
Finder(x) == /\ Walks(x) /\ pc[x] \notin Loops
             /\ UNCHANGED <<qE, qF, buff, product, slot, consumed>>
             /\ \A p \in Producers : p # x => newq'[p] = newq[p]
             /\ x \in Producers =>
                  /\ pc'[x] \notin {"set_space", "set_prod", "set_cons", "set_full"} \cup ExitLabels
                  /\ pc'[x] \in PStartLabels \ BeforeQE => ~newq'[x]
             /\ x \in Consumers => pc'[x] \notin ExitLabels

LEMMA LaunchFinds ==
    ASSUME StartShape, Fresh, NEW x \in Procs, Launch(x)
    PROVE  Finder(x)
<1>1. Walks(x)
  BY LaunchWalks
<1>2. pc[x] \notin Loops
  BY DEF Launch, ExitLabels, Loops, ProducerLabels, ConsumerLabels
<1>3. slot' = slot /\ product' = product /\ consumed' = consumed
  BY <1>2 DEF Launch, Fresh, Loops
<1>4. x \in Producers => pc'[x] = "mshm"
  BY DEF Launch, StartShape
<1>5. x \in Consumers => pc'[x] = "mquenew_F"
  BY ConstantsAssumption DEF Launch, StartShape
<1>6. QED
  BY <1>1, <1>2, <1>3, <1>4, <1>5 DEF Finder, Launch, queues, ExitLabels, BeforeQE, PStartLabels

LEMMA ProducerFinds ==
    ASSUME StartShape, Found, NEW p \in Producers, PStart(p)
    PROVE  Finder(p)
<1>1. \A k \in 1 .. 4 : ~PSetval(p, k)
  BY SetvalCases DEF Sets, Goto, Found, PStartLabels, ProducerLabels
<1>2. Walks(p)
  BY <1>1, ProducerWalks
<1>3. p \in Procs /\ p \notin Consumers
  BY ConstantsAssumption DEF Procs
<1> USE <1>3 DEF Goto, Create, StartShape, queues, locals, Loops, ProducerLabels, ConsumerLabels,
        BeforeQE, ExitLabels, PStartLabels
<1>4. CASE PShm(p)
  BY <1>2, <1>4 DEF PShm, Finder
<1>5. CASE PMqueF(p)
  BY <1>2, <1>5 DEF PMqueF, Finder
<1>6. CASE PMquenewE(p)
  BY <1>2, <1>6 DEF PMquenewE, Finder, Found, AllMade
<1>7. CASE PFillE(p)
  BY <1>2, <1>7 DEF PFillE, Finder, Found
<1>8. CASE \E k \in 1 .. 4 : PSemget(p, k)
  <2>1. PICK s, get, set, after :
          /\ Creates(p, s, get, set, after)
          /\ s \in AllMade
          /\ get \in PStartLabels \ BeforeQE
          /\ after \in {"get_prod", "get_cons", "get_full", "fill_E"}
    BY <1>8, SemgetCases DEF AllMade
  <2>2. pc'[p] = after /\ pc[p] = get /\ ~newq[p] /\ newq' = newq
    BY <2>1 DEF Creates, Found
  <2>3. QED
    BY <1>2, <2>1, <2>2 DEF Creates, Finder
<1>9. QED
  BY <1>1, <1>4, <1>5, <1>6, <1>7, <1>8 DEF PStart

LEMMA ConsumerFinds ==
    ASSUME StartShape, Found, NEW c \in Consumers, CStart(c)
    PROVE  Finder(c)
<1>1. Walks(c)
  BY ConsumerWalks
<1>2. c \in Procs /\ c \notin Producers
  BY ConstantsAssumption DEF Procs
<1> USE <1>1, <1>2 DEF Goto, Create, StartShape, queues, locals, Loops, ProducerLabels,
        ConsumerLabels, ExitLabels, Finder
<1>3. CASE CMquenewF(c)
  BY <1>3 DEF CMquenewF, Found, AllMade
<1>4. CASE CMquenewE(c)
  BY <1>4 DEF CMquenewE, Found, AllMade
<1>5. CASE CShm(c)
  BY <1>5 DEF CShm
<1>6. CASE \E k \in 1 .. 4 : CSemget(c, k)
  <2>1. PICK s, get, after :
          /\ Finds(c, s, get, after)
          /\ s \in AllMade
          /\ get \in {"get_space", "get_prod", "get_cons", "get_full"}
          /\ after \in {"get_prod", "get_cons", "get_full", "wait_full"}
    BY <1>6, FindCases DEF AllMade
  <2>2. pc'[c] = after /\ pc[c] = get
    BY <2>1 DEF Finds, Found
  <2>3. QED
    BY <2>1, <2>2 DEF Finds, start
<1>7. QED
  BY <1>3, <1>4, <1>5, <1>6 DEF CStart

LEMMA FinderUnseen ==
    ASSUME StartShape, Running, Found, Fresh, NEW x \in Procs, Finder(x)
    PROVE  Unseen /\ Running' /\ Found' /\ Fresh'
<1>1. Walks(x) /\ pc[x] \notin Loops
  BY DEF Finder
<1>2. Running'
  BY <1>1, WalkLeavesRunning
<1>3. Unseen
  BY <1>1, <1>2, WalkUnseen DEF Unseen, Finder, Walks, SteadySem, SteadyQE
<1>4. \A y \in Procs : y # x => pc'[y] = pc[y]
  BY <1>1 DEF Walks, StartShape
<1>5. Producers \subseteq Procs /\ Consumers \subseteq Procs
  BY DEF Procs
<1>6. Fresh'
  BY <1>1, <1>4, <1>5 DEF Fresh, Finder, Loops
<1>7. AllMade \subseteq made'
  BY <1>1 DEF Found, Walks
<1>8. x \in Producers => pc'[x] \in ProducerLabels
                           \cup (PStartLabels \ {"set_space", "set_prod", "set_cons", "set_full"})
  BY <1>1 DEF Finder, Walks, ProducerLabels
<1>9. x \in Consumers => pc'[x] \in ConsumerLabels \cup CStartLabels
  BY <1>1 DEF Finder, Walks, ConsumerLabels
<1>10. Found'
  BY <1>4, <1>5, <1>7, <1>8, <1>9 DEF Found, Finder
<1>11. QED
  BY <1>2, <1>3, <1>6, <1>10

-----------------------------------------------------------------------------
(* The steps of the loops are those of ProdCons.                           *)
LEMMA SteadyGoto ==
    ASSUME StartShape, NEW x \in Procs, NEW from \in Loops, NEW to \in Loops, Goto(x, from, to)
    PROVE  SteadyPc[x] = from /\ SteadyPc' = [SteadyPc EXCEPT ![x] = to]
  BY DEF StartShape, Goto, SteadyPc, Loops

LEMMA ProduceIsSteady ==
    ASSUME StartShape, Running, Running', NEW p \in Producers, Produce(p)
    PROVE  Steady!Produce(p)
<1>1. p \in Procs
  BY DEF Procs
<1>2. SteadySem = sem /\ SteadySem' = sem' /\ SteadyQE = qE /\ SteadyQE' = qE'
  BY DEF SteadySem, SteadyQE
<1> DEFINE bar == SteadyPc
<1>3. \A from, to \in ProducerLabels :
         Goto(p, from, to) => bar[p] = from /\ bar' = [bar EXCEPT ![p] = to]
  BY <1>1, SteadyGoto DEF Loops
<1>4. bar = SteadyPc /\ bar' = SteadyPc'
  OBVIOUS
<1> HIDE DEF bar
<1> USE <1>2, <1>3, <1>4 DEF ProducerLabels, SteadyPc, SteadySem, SteadyQE, Steady!Produce, Steady!Goto
<1>5. CASE PWaitSpace(p)
  BY <1>5 DEF PWaitSpace, Steady!PWaitSpace, mwait, Steady!mwait
<1>6. CASE PWaitProd(p)
  BY <1>6 DEF PWaitProd, Steady!PWaitProd, mwait, Steady!mwait
<1>7. CASE PPopE(p)
  BY <1>7 DEF PPopE, Steady!PPopE, popE, Steady!popE
<1>8. CASE PSignalProd(p)
  BY <1>8 DEF PSignalProd, Steady!PSignalProd, msignal, Steady!msignal
<1>9. CASE PFill(p)
  BY <1>9 DEF PFill, Steady!PFill
<1>10. CASE PWaitCons(p)
  BY <1>10 DEF PWaitCons, Steady!PWaitCons, mwait, Steady!mwait
<1>11. CASE PPushF(p)
  BY <1>11 DEF PPushF, Steady!PPushF
<1>12. CASE PSignalCons(p)
  BY <1>12 DEF PSignalCons, Steady!PSignalCons, msignal, Steady!msignal
<1>13. CASE PSignalFull(p)
  BY <1>13 DEF PSignalFull, Steady!PSignalFull, msignal, Steady!msignal
<1>14. QED
  BY <1>5, <1>6, <1>7, <1>8, <1>9, <1>10, <1>11, <1>12, <1>13 DEF Produce

LEMMA ConsumeIsSteady ==
    ASSUME StartShape, Running, Running', NEW c \in Consumers, Consume(c)
    PROVE  Steady!Consume(c)
<1>1. c \in Procs
  BY DEF Procs
<1>2. SteadySem = sem /\ SteadySem' = sem' /\ SteadyQE = qE /\ SteadyQE' = qE'
  BY DEF SteadySem, SteadyQE
<1> DEFINE bar == SteadyPc
<1>3. \A from, to \in ConsumerLabels :
         Goto(c, from, to) => bar[c] = from /\ bar' = [bar EXCEPT ![c] = to]
  BY <1>1, SteadyGoto DEF Loops
<1>4. bar = SteadyPc /\ bar' = SteadyPc'
  OBVIOUS
<1> HIDE DEF bar
<1> USE <1>2, <1>3, <1>4 DEF ConsumerLabels, SteadyPc, SteadySem, SteadyQE, Steady!Consume, Steady!Goto
<1>5. CASE CWaitFull(c)
  BY <1>5 DEF CWaitFull, Steady!CWaitFull, mwait, Steady!mwait
<1>6. CASE CWaitCons(c)
  BY <1>6 DEF CWaitCons, Steady!CWaitCons, mwait, Steady!mwait
<1>7. CASE CPopF(c)
  BY <1>7 DEF CPopF, Steady!CPopF, popF, Steady!popF
<1>8. CASE CSignalCons(c)
  BY <1>8 DEF CSignalCons, Steady!CSignalCons, msignal, Steady!msignal
<1>9. CASE CRead(c)
  BY <1>9 DEF CRead, Steady!CRead
<1>10. CASE CWaitProd(c)
  BY <1>10 DEF CWaitProd, Steady!CWaitProd, mwait, Steady!mwait
<1>11. CASE CPushE(c)
  BY <1>11 DEF CPushE, Steady!CPushE
<1>12. CASE CSignalProd(c)
  BY <1>12 DEF CSignalProd, Steady!CSignalProd, msignal, Steady!msignal
<1>13. CASE CSignalSpace(c)
  BY <1>13 DEF CSignalSpace, Steady!CSignalSpace, msignal, Steady!msignal
<1>14. QED
  BY <1>5, <1>6, <1>7, <1>8, <1>9, <1>10, <1>11, <1>12, <1>13 DEF Consume

(* ... and leave processes that are starting as they are.                  *)
LEMMA ProduceMoves ==
    ASSUME StartShape, Fresh, NEW p \in Producers, Produce(p)
    PROVE  /\ pc[p] \in ProducerLabels /\ pc' = [pc EXCEPT ![p] = pc'[p]]
           /\ pc'[p] \in ProducerLabels
           /\ consumed' = consumed
           /\ product' = [product EXCEPT ![p] = product'[p]]
           /\ slot' = [slot EXCEPT ![p] = slot'[p]]
<1>1. /\ product = [q \in Producers |-> product[q]]
      /\ slot = [x \in Procs |-> slot[x]]
      /\ pc = [x \in Procs |-> pc[x]]
      /\ p \in Procs
  BY DEF Fresh, StartShape, Procs
<1>2. /\ pc[p] \in ProducerLabels /\ pc' = [pc EXCEPT ![p] = pc'[p]]
      /\ pc'[p] \in ProducerLabels
  BY <1>1 DEF ProducerLabels, Goto, Produce, PWaitSpace, PWaitProd, PPopE, PSignalProd, PFill,
              PWaitCons, PPushF, PSignalCons, PSignalFull
<1>3. consumed' = consumed
  BY DEF Produce, PWaitSpace, PWaitProd, PPopE, PSignalProd, PFill, PWaitCons, PPushF,
         PSignalCons, PSignalFull
<1>4. product' = [product EXCEPT ![p] = product'[p]]
  BY <1>1 DEF Produce, PWaitSpace, PWaitProd, PPopE, PSignalProd, PFill, PWaitCons, PPushF,
              PSignalCons, PSignalFull
<1>5. slot' = [slot EXCEPT ![p] = slot'[p]]
  BY <1>1 DEF popE, Produce, PWaitSpace, PWaitProd, PPopE, PSignalProd, PFill, PWaitCons, PPushF,
              PSignalCons, PSignalFull
<1>6. QED
  BY <1>2, <1>3, <1>4, <1>5

LEMMA ConsumeMoves ==
    ASSUME StartShape, Fresh, NEW c \in Consumers, Consume(c)
    PROVE  /\ pc[c] \in ConsumerLabels /\ pc' = [pc EXCEPT ![c] = pc'[c]]
           /\ pc'[c] \in ConsumerLabels
           /\ product' = product
           /\ consumed' = [consumed EXCEPT ![c] = consumed'[c]]
           /\ slot' = [slot EXCEPT ![c] = slot'[c]]
<1>1. /\ consumed = [d \in Consumers |-> consumed[d]]
      /\ slot = [x \in Procs |-> slot[x]]
      /\ pc = [x \in Procs |-> pc[x]]
      /\ c \in Procs
  BY DEF Fresh, StartShape, Procs
<1>2. /\ pc[c] \in ConsumerLabels /\ pc' = [pc EXCEPT ![c] = pc'[c]]
      /\ pc'[c] \in ConsumerLabels
  BY <1>1 DEF ConsumerLabels, Goto, Consume, CWaitFull, CWaitCons, CPopF, CSignalCons, CRead,
              CWaitProd, CPushE, CSignalProd, CSignalSpace
<1>3. product' = product
  BY DEF Consume, CWaitFull, CWaitCons, CPopF, CSignalCons, CRead, CWaitProd, CPushE,
         CSignalProd, CSignalSpace
<1>4. consumed' = [consumed EXCEPT ![c] = consumed'[c]]
  BY <1>1 DEF Consume, CWaitFull, CWaitCons, CPopF, CSignalCons, CRead, CWaitProd, CPushE,
              CSignalProd, CSignalSpace
<1>5. slot' = [slot EXCEPT ![c] = slot'[c]]
  BY <1>1 DEF popF, Consume, CWaitFull, CWaitCons, CPopF, CSignalCons, CRead, CWaitProd, CPushE,
              CSignalProd, CSignalSpace
<1>6. QED
  BY <1>2, <1>3, <1>4, <1>5

LEMMA LoopIsSteady ==
    ASSUME StartShape, Running, Found, Fresh, UNCHANGED start,
           \/ \E p \in Producers : Produce(p)
           \/ \E c \in Consumers : Consume(c)
    PROVE  Steady!Next /\ Running' /\ Found' /\ Fresh'
<1>1. PICK q \in Producers : pc[q] \in ProducerLabels
  BY DEF Running
<1>2. made' = made /\ newq' = newq
  BY DEF start
<1>3. Producers \subseteq Procs /\ Consumers \subseteq Procs
  BY DEF Procs
<1>4. ASSUME NEW p \in Producers, Produce(p) PROVE Steady!Next /\ Running' /\ Found' /\ Fresh'
  <2>1. /\ pc[p] \in ProducerLabels /\ pc' = [pc EXCEPT ![p] = pc'[p]]
        /\ pc'[p] \in ProducerLabels
        /\ consumed' = consumed
        /\ product' = [product EXCEPT ![p] = product'[p]]
        /\ slot' = [slot EXCEPT ![p] = slot'[p]]
    BY <1>4, ProduceMoves
  <2>2. p \in Procs /\ p \notin Consumers /\ pc'[p] \in Loops /\ pc'[p] \notin PStartLabels
    BY <2>1, ConstantsAssumption DEF Procs, Loops, ProducerLabels, PStartLabels
  <2>3. \A y \in Procs : y # p => pc'[y] = pc[y]
    BY <2>1 DEF StartShape
  <2>4. Running'
    BY <2>1 DEF Running
  <2>5. Found'
    BY <1>2, <1>3, <2>1, <2>2, <2>3 DEF Found
  <2>6. Fresh'
    BY <1>3, <2>1, <2>2, <2>3 DEF Fresh
  <2>7. Steady!Next
    BY <1>4, <2>4, ProduceIsSteady DEF Steady!Next
  <2>8. QED
    BY <2>4, <2>5, <2>6, <2>7
<1>5. ASSUME NEW c \in Consumers, Consume(c) PROVE Steady!Next /\ Running' /\ Found' /\ Fresh'
  <2>1. /\ pc[c] \in ConsumerLabels /\ pc' = [pc EXCEPT ![c] = pc'[c]]
        /\ pc'[c] \in ConsumerLabels
        /\ product' = product
        /\ consumed' = [consumed EXCEPT ![c] = consumed'[c]]
        /\ slot' = [slot EXCEPT ![c] = slot'[c]]
    BY <1>5, ConsumeMoves
  <2>2. c \in Procs /\ c \notin Producers /\ pc'[c] \in Loops
    BY <2>1, ConstantsAssumption DEF Procs, Loops
  <2>3. \A y \in Procs : y # c => pc'[y] = pc[y]
    BY <2>1 DEF StartShape
  <2>4. Running'
    BY <1>1, <1>3, <2>2, <2>3 DEF Running
  <2>5. Found'
    BY <1>2, <1>3, <2>1, <2>2, <2>3 DEF Found
  <2>6. Fresh'
    BY <1>3, <2>1, <2>2, <2>3 DEF Fresh
  <2>7. Steady!Next
    BY <1>5, <2>4, ConsumeIsSteady DEF Steady!Next
  <2>8. QED
    BY <2>4, <2>5, <2>6, <2>7
<1>6. QED
  BY <1>4, <1>5

-----------------------------------------------------------------------------
(* The first producer.  Each of its steps leads from its place to the      *)
(* next, and the last of them into its loop, with everything as ProdCons   *)
(* has it at first.                                                        *)

\* The first producer goes on, still starting.
Proceeds(p) == /\ pc' = [pc EXCEPT ![p] = pc'[p]]
               /\ pc'[p] \in PStartLabels
               /\ UNCHANGED <<qF, buff, product, slot, consumed>>

LEMMA FirstAlone ==
    ASSUME NEW p \in Producers, First(p)
    PROVE  ~Running
  BY DEF First, Running, Procs, PStartLabels, ProducerLabels

LEMMA FirstProceeds ==
    ASSUME StartShape, Fresh, NEW p \in Producers, First(p), Proceeds(p), First(p)'
    PROVE  Unseen /\ ~Running' /\ Fresh'
<1>1. ~Running /\ ~Running'
  <2>1. First(p)' => ~Running'
    BY DEF First, Running, Procs, PStartLabels, ProducerLabels
  <2>2. QED
    BY <2>1, FirstAlone
<1>2. \A y \in Procs : y # p => pc'[y] = pc[y]
  BY DEF Proceeds, StartShape
<1>3. /\ pc[p] \notin Loops /\ pc'[p] \notin Loops
      /\ pc[p] \notin ProducerLabels /\ pc'[p] \notin ProducerLabels
  BY DEF Proceeds, First, PStartLabels, Loops, ProducerLabels, ConsumerLabels
<1>4. SteadyPc' = SteadyPc
  BY <1>2, <1>3 DEF SteadyPc, Loops
<1>5. p \in Procs /\ Producers \subseteq Procs /\ Consumers \subseteq Procs /\ p \notin Consumers
  BY ConstantsAssumption DEF Procs
<1>6. Fresh'
  BY <1>2, <1>3, <1>5 DEF Fresh, Proceeds
<1>7. Unseen
  BY <1>1, <1>4 DEF Unseen, SteadySem, SteadyQE, Proceeds
<1>8. QED
  BY <1>1, <1>6, <1>7

\* It creates each semaphore, as nobody was there before, and so sets it.
LEMMA FirstCreates ==
    ASSUME StartShape, NEW p \in Producers, First(p), NEW k \in 1 .. 4, PSemget(p, k)
    PROVE  Proceeds(p) /\ First(p)'
<1> DEFINE Here(s, get, set, after) ==
             /\ Creates(p, s, get, set, after) /\ s \notin made
             /\ made' = made \cup {s}
<1>1. \/ Here("space", "get_space", "set_space", "get_prod")
      \/ Here("prod", "get_prod", "set_prod", "get_cons")
      \/ Here("cons", "get_cons", "set_cons", "get_full")
      \/ Here("full", "get_full", "set_full", "fill_E")
  BY SemgetCases DEF Creates, Create, Goto, First, MadeBy, BeforeSpace, BeforeProd, BeforeCons,
                     BeforeFull, BeforeQE
<1>2. PICK s, get, set, after :
        /\ Here(s, get, set, after)
        /\ \/ s = "space" /\ get = "get_space" /\ set = "set_space"
           \/ s = "prod" /\ get = "get_prod" /\ set = "set_prod"
           \/ s = "cons" /\ get = "get_cons" /\ set = "set_cons"
           \/ s = "full" /\ get = "get_full" /\ set = "set_full"
  BY <1>1
<1>3. /\ pc[p] = get /\ pc' = [pc EXCEPT ![p] = set] /\ pc'[p] = set
      /\ UNCHANGED <<sem, qE, qF, buff, product, slot, consumed, newq, toPush>>
  BY <1>2 DEF Creates, Goto, queues, locals, StartShape, Procs
<1>4. \A y \in Procs : y # p => pc'[y] = pc[y]
  BY <1>3 DEF StartShape
<1>5. set \in PStartLabels
  BY <1>2 DEF PStartLabels
<1>6. MadeBy(pc[p])' /\ ValuesBy(pc[p])'
  BY <1>2, <1>3 DEF First, MadeBy, ValuesBy, BeforeSpace, BeforeProd, BeforeCons, BeforeFull,
                    BeforeQE
<1>7. PushedBy(p)'
  BY <1>2, <1>3 DEF First, PushedBy, BeforeQE
<1>8. QED
  BY <1>3, <1>4, <1>5, <1>6, <1>7 DEF First, Proceeds

\* It gives each semaphore its value.
LEMMA FirstSets ==
    ASSUME StartShape, NEW p \in Producers, First(p), NEW k \in 1 .. 4, PSetval(p, k)
    PROVE  Proceeds(p) /\ First(p)'
<1>1. PICK s, set, after :
        /\ Sets(p, s, set, after)
        /\ \/ s = "space" /\ set = "set_space" /\ after = "get_prod"
           \/ s = "prod" /\ set = "set_prod" /\ after = "get_cons"
           \/ s = "cons" /\ set = "set_cons" /\ after = "get_full"
           \/ s = "full" /\ set = "set_full" /\ after = "fill_E"
  BY SetvalCases
<1>2. /\ pc[p] = set /\ pc' = [pc EXCEPT ![p] = after] /\ pc'[p] = after
      /\ UNCHANGED <<qE, qF, buff, product, slot, consumed, newq, toPush, made>>
  BY <1>1 DEF Sets, Goto, queues, locals, start, StartShape, Procs
<1>3. \A y \in Procs : y # p => pc'[y] = pc[y]
  BY <1>2 DEF StartShape
<1>4. after \in PStartLabels
  BY <1>1 DEF PStartLabels
<1>5. MadeBy(pc[p])'
  BY <1>1, <1>2 DEF First, MadeBy, BeforeSpace, BeforeProd, BeforeCons, BeforeFull, BeforeQE
<1>6. s \in Sems /\ sem'[s] = InitialValue[s] /\ \A t \in Sems : t # s => sem'[t] = sem[t]
  BY <1>1 DEF Sets, StartShape, Sems
<1>7. ValuesBy(pc[p])'
  BY <1>1, <1>2, <1>6 DEF First, ValuesBy, BeforeSpace, BeforeProd, BeforeCons, BeforeFull,
                          BeforeQE, InitialValue, Sems
<1>8. PushedBy(p)'
  BY <1>1, <1>2, ConstantsAssumption DEF First, PushedBy, BeforeQE
<1>9. QED
  BY <1>2, <1>3, <1>4, <1>5, <1>7, <1>8 DEF First, Proceeds

LEMMA FirstMakes ==
    ASSUME StartShape, NEW p \in Producers, First(p), PShm(p) \/ PMqueF(p) \/ PMquenewE(p)
    PROVE  Proceeds(p) /\ First(p)'
<1>1. \/ pc[p] = "mshm" /\ pc'[p] = "mque_F" /\ made' = made \cup {"shm"} /\ newq' = newq
      \/ pc[p] = "mque_F" /\ pc'[p] = "mquenew_E" /\ made' = made \cup {"qF"} /\ newq' = newq
      \/ /\ pc[p] = "mquenew_E" /\ pc'[p] = "get_space" /\ made' = made \cup {"qE"}
         /\ newq'[p] = ("qE" \notin made)
  BY DEF PShm, PMqueF, PMquenewE, Create, Goto, StartShape, Procs
<1>2. /\ pc' = [pc EXCEPT ![p] = pc'[p]]
      /\ UNCHANGED <<sem, qE, qF, buff, product, slot, consumed, toPush>>
  BY DEF PShm, PMqueF, PMquenewE, Goto, StartShape, Procs, queues, locals
<1>3. \A y \in Procs : y # p => pc'[y] = pc[y]
  BY <1>2 DEF StartShape
<1>4. pc'[p] \in PStartLabels
  BY <1>1 DEF PStartLabels
<1>5. MadeBy(pc[p])' /\ ValuesBy(pc[p])'
  BY <1>1, <1>2 DEF First, MadeBy, ValuesBy, BeforeSpace, BeforeProd, BeforeCons, BeforeFull,
                    BeforeQE
<1>6. PushedBy(p)'
  BY <1>1, <1>2 DEF First, PushedBy, MadeBy, BeforeQE
<1>7. QED
  BY <1>2, <1>3, <1>4, <1>5, <1>6 DEF First, Proceeds

\* It pushes the numbers in order ...
LEMMA FirstPushes ==
    ASSUME StartShape, NEW p \in Producers, First(p), PFillE(p), toPush[p] < BUFS
    PROVE  Proceeds(p) /\ First(p)'
<1>1. pc[p] = "fill_E" /\ newq[p] /\ toPush[p] \in Nat
  BY DEF PFillE, First, PushedBy, BeforeQE, StartShape
<1>2. /\ qE' = Append(qE, toPush[p]) /\ toPush' = [toPush EXCEPT ![p] = @ + 1] /\ pc' = pc
      /\ UNCHANGED <<sem, qF, buff, product, slot, consumed, newq, made>>
  BY <1>1 DEF PFillE, locals
<1>3. PICK n \in Nat : n = toPush[p]
  BY <1>1
<1>4. qE = [m \in 1 .. n |-> m - 1]
  BY <1>3 DEF First, PushedBy
<1>5. Append(qE, n) = [m \in 1 .. n + 1 |-> m - 1]
  <2>1. qE \in Seq(Int) /\ Len(qE) = n
    BY <1>4
  <2>2. /\ Append(qE, n) \in Seq(Int) /\ Len(Append(qE, n)) = n + 1
        /\ Append(qE, n)[n + 1] = n /\ \A m \in 1 .. n : Append(qE, n)[m] = qE[m]
    BY <2>1, AppendProperties
  <2> DEFINE all == [m \in 1 .. n + 1 |-> m - 1]
  <2>3. all \in Seq(Int) /\ Len(all) = n + 1
    OBVIOUS
  <2>4. \A m \in 1 .. n + 1 : Append(qE, n)[m] = all[m]
    BY <1>4, <2>2
  <2> HIDE DEF all
  <2>5. Append(qE, n) = all
    BY <2>2, <2>3, <2>4, SeqEqual
  <2>6. QED
    BY <2>5 DEF all
<1>6. toPush'[p] = n + 1 /\ n + 1 =< BUFS
  BY <1>2, <1>3, ConstantsAssumption DEF StartShape
<1>7. PushedBy(p)'
  BY <1>1, <1>2, <1>3, <1>5, <1>6 DEF PushedBy
<1>8. First(p)'
  BY <1>2, <1>7 DEF First, MadeBy, ValuesBy
<1>9. QED
  BY <1>2, <1>8 DEF Proceeds, First, StartShape

\* ... and is in its loop with the queue and the semaphores as at first in ProdCons.
LEMMA FirstArrives ==
    ASSUME StartShape, Fresh, NEW p \in Producers, First(p), PFillE(p), toPush[p] >= BUFS
    PROVE  Unseen /\ Running' /\ Found' /\ Fresh'
<1>1. /\ pc[p] = "fill_E" /\ newq[p] /\ toPush[p] = BUFS
  BY ConstantsAssumption DEF PFillE, First, PushedBy, BeforeQE, StartShape
<1>2. /\ pc' = [pc EXCEPT ![p] = "wait_space"] /\ pc'[p] = "wait_space"
      /\ UNCHANGED <<sem, qE, qF, buff, product, slot, consumed, newq, made>>
  BY <1>1, ConstantsAssumption DEF PFillE, locals, StartShape, Procs
<1>3. \A y \in Procs : y # p => pc'[y] = pc[y]
  BY <1>2 DEF StartShape
<1>4. Producers \subseteq Procs /\ Consumers \subseteq Procs /\ p \notin Consumers
  BY ConstantsAssumption DEF Procs
<1>5. Running' /\ ~Running
  BY <1>2, FirstAlone DEF Running, ProducerLabels
<1>6. sem = InitialValue
  <2>1. /\ sem["space"] = BUFS - 1 /\ sem["prod"] = 1 /\ sem["cons"] = 1 /\ sem["full"] = 0
    BY <1>1 DEF First, ValuesBy, BeforeSpace, BeforeProd, BeforeCons, BeforeFull, BeforeQE
  <2>2. sem = [s \in Sems |-> sem[s]]
    BY DEF StartShape
  <2>3. QED
    BY <2>1, <2>2 DEF InitialValue, Sems
<1>7. qE = [n \in 1 .. BUFS |-> n - 1]
  BY <1>1 DEF First, PushedBy
<1>8. SteadyPc' = SteadyPc
  BY <1>1, <1>2, <1>3 DEF SteadyPc, ProducerLabels, ConsumerLabels
<1>9. Unseen
  BY <1>2, <1>5, <1>6, <1>7, <1>8 DEF Unseen, SteadySem, SteadyQE
<1>10. Found'
  BY <1>1, <1>2, <1>3, <1>4
     DEF Found, AllMade, First, MadeBy, BeforeSpace, BeforeProd, BeforeCons, BeforeFull, BeforeQE,
         ProducerLabels, PStartLabels
<1>11. Fresh'
  BY <1>1, <1>2, <1>3, <1>4 DEF Fresh, Loops, ProducerLabels, ConsumerLabels
<1>12. QED
  BY <1>5, <1>9, <1>10, <1>11

-----------------------------------------------------------------------------
(* All steps of start-up in good order.                                    *)
LEMMA UnseenStutters ==
    ASSUME Unseen
    PROVE  UNCHANGED Steady!vars
  BY DEF Unseen, SteadyPc, SteadySem, SteadyQE, Steady!vars

LEMMA StaysOrderly ==
    ASSUME StartNext, orderly'
    PROVE  /\ orderly
           /\ \E x \in Procs : \/ Launch(x) /\ (Running \/ Alone(x))
                               \/ x \in Producers /\ PStart(x)
                               \/ x \in Consumers /\ CStart(x)
                               \/ x \in Producers /\ Produce(x) /\ UNCHANGED start
                               \/ x \in Consumers /\ Consume(x) /\ UNCHANGED start
<1>1. PICK x \in Procs : Launch(x) \/ Run(x) \/ KillStarting(x)
  BY DEF StartNext
<1>2. ~KillStarting(x)
  BY DEF KillStarting
<1>3. CASE Launch(x)
  BY <1>3 DEF Launch
<1>4. CASE x \in Producers /\ PStart(x)
  BY <1>4 DEF PStart, PShm, PMqueF, PMquenewE, PFillE, PSemget, PSetval, start
<1>5. CASE x \in Consumers /\ CStart(x)
  BY <1>5 DEF CStart, CMquenewF, CMquenewE, CShm, CSemget, start
<1>6. CASE \/ x \in Producers /\ Produce(x) /\ UNCHANGED start
           \/ x \in Consumers /\ Consume(x) /\ UNCHANGED start
  BY <1>6 DEF start
<1>7. QED
  BY <1>1, <1>2, <1>3, <1>4, <1>5, <1>6 DEF Run

\* Once the first producer is in its loop.
LEMMA LaterSteps ==
    ASSUME StartShape, Running, Found, Fresh, StartNext, orderly'
    PROVE  /\ Unseen \/ Steady!Next
           /\ Running' /\ Found' /\ Fresh'
<1>1. PICK x \in Procs : \/ Launch(x)
                         \/ x \in Producers /\ PStart(x)
                         \/ x \in Consumers /\ CStart(x)
                         \/ x \in Producers /\ Produce(x) /\ UNCHANGED start
                         \/ x \in Consumers /\ Consume(x) /\ UNCHANGED start
  BY StaysOrderly
<1>2. CASE \/ Launch(x)
           \/ x \in Producers /\ PStart(x)
           \/ x \in Consumers /\ CStart(x)
  <2>1. Finder(x)
    BY <1>2, LaunchFinds, ProducerFinds, ConsumerFinds
  <2>2. QED
    BY <2>1, FinderUnseen
<1>3. CASE \/ x \in Producers /\ Produce(x) /\ UNCHANGED start
           \/ x \in Consumers /\ Consume(x) /\ UNCHANGED start
  BY <1>3, LoopIsSteady
<1>4. QED
  BY <1>1, <1>2, <1>3

\* While nobody has started, one producer is.
LEMMA FirstStep ==
    ASSUME StartShape, Fresh, Nobody, ~Running, StartNext, orderly'
    PROVE  Unseen /\ ~Running' /\ Fresh' /\ \E p \in Producers : First(p)'
<1>1. PICK x \in Procs : \/ Launch(x) /\ Alone(x)
                         \/ x \in Producers /\ PStart(x)
                         \/ x \in Consumers /\ CStart(x)
                         \/ x \in Producers /\ Produce(x)
                         \/ x \in Consumers /\ Consume(x)
  BY StaysOrderly
<1>2. pc[x] = "idle"
  BY DEF Nobody
<1>3. ~(x \in Producers /\ PStart(x))
  <2> SUFFICES ASSUME x \in Producers, PStart(x) PROVE FALSE
    OBVIOUS
  <2>1. \A k \in 1 .. 4 : ~PSemget(x, k) /\ ~PSetval(x, k)
    BY <1>2, SemgetCases, SetvalCases DEF Creates, Sets, Goto
  <2>2. QED
    BY <1>2, <2>1 DEF PStart, PShm, PMqueF, PMquenewE, PFillE, Goto
<1>4. ~(x \in Consumers /\ CStart(x))
  <2> SUFFICES ASSUME x \in Consumers, CStart(x) PROVE FALSE
    OBVIOUS
  <2>1. \A k \in 1 .. 4 : ~CSemget(x, k)
    BY <1>2, FindCases DEF Finds, Goto
  <2>2. QED
    BY <1>2, <2>1 DEF CStart, CMquenewF, CMquenewE, CShm, Goto
<1>5. ~(x \in Producers /\ Produce(x)) /\ ~(x \in Consumers /\ Consume(x))
  BY <1>2, ProduceMoves, ConsumeMoves DEF ProducerLabels, ConsumerLabels
<1>6. Launch(x) /\ x \in Producers
  BY <1>1, <1>3, <1>4, <1>5 DEF Alone
<1>7. Finder(x)
  BY <1>6, LaunchFinds
<1>8. /\ pc' = [pc EXCEPT ![x] = "mshm"] /\ pc'[x] = "mshm"
      /\ toPush'[x] = 0 /\ UNCHANGED <<made, qE>>
  BY <1>6 DEF Launch, queues, StartShape
<1>9. \A y \in Procs : y # x => pc'[y] = "idle"
  BY <1>8 DEF StartShape, Nobody
<1>10. First(x)'
  <2>1. MadeBy(pc[x])' /\ ValuesBy(pc[x])'
    BY <1>8 DEF Nobody, MadeBy, ValuesBy, BeforeSpace, BeforeProd, BeforeCons, BeforeFull, BeforeQE
  <2>2. PushedBy(x)'
    <3>1. qE' = << >> /\ << >> = [n \in 1 .. 0 |-> n - 1]
      BY <1>8 DEF Nobody
    <3>2. QED
      BY <1>8, <3>1 DEF PushedBy, BeforeQE
  <2>3. QED
    BY <1>8, <1>9, <2>1, <2>2 DEF First, PStartLabels
<1>11. ~Running'
  BY <1>6, <1>10, FirstAlone DEF Running, First, Procs, PStartLabels, ProducerLabels
<1>12. SteadyPc' = SteadyPc
  BY <1>7, WalkUnseen DEF Finder
<1>13. Unseen
  BY <1>7, <1>11, <1>12 DEF Finder, Unseen, SteadySem, SteadyQE
<1>14. Fresh'
  <2>1. /\ \A y \in Procs : y # x => pc'[y] = pc[y]
        /\ Producers \subseteq Procs /\ Consumers \subseteq Procs
    BY <1>8 DEF StartShape, Procs
  <2>2. pc[x] \notin ProducerLabels /\ pc[x] \notin Loops /\ x \notin Consumers
    BY <1>2, <1>6, ConstantsAssumption DEF ProducerLabels, Loops, ConsumerLabels
  <2>3. QED
    BY <1>7, <2>1, <2>2 DEF Fresh, Finder
<1>15. QED
  BY <1>6, <1>10, <1>11, <1>13, <1>14

\* While the first producer starts, it is the only one to do anything.
LEMMA NextSteps ==
    ASSUME StartShape, Fresh, NEW p \in Producers, First(p), StartNext, orderly'
    PROVE  /\ Unseen /\ Fresh'
           /\ Running' => Found'
           /\ ~Running' => \E q \in Producers : First(q)'
<1>1. PICK x \in Procs : \/ Launch(x) /\ (Running \/ Alone(x))
                         \/ x \in Producers /\ PStart(x)
                         \/ x \in Consumers /\ CStart(x)
                         \/ x \in Producers /\ Produce(x)
                         \/ x \in Consumers /\ Consume(x)
  BY StaysOrderly
<1>2. ~Running /\ pc[p] # "idle" /\ p \in Procs /\ p \notin Consumers
  BY FirstAlone, ConstantsAssumption DEF First, PStartLabels, Procs
<1>3. ~(Launch(x) /\ (Running \/ Alone(x)))
  BY <1>2 DEF Alone
<1>4. ~(x \in Consumers /\ CStart(x))
  <2> SUFFICES ASSUME x \in Consumers, CStart(x) PROVE FALSE
    OBVIOUS
  <2>1. pc[x] = "idle"
    BY <1>2 DEF First
  <2>2. \A k \in 1 .. 4 : ~CSemget(x, k)
    BY <2>1, FindCases DEF Finds, Goto
  <2>3. QED
    BY <2>1, <2>2 DEF CStart, CMquenewF, CMquenewE, CShm, Goto
<1>5. ~(x \in Producers /\ Produce(x)) /\ ~(x \in Consumers /\ Consume(x))
  <2>1. pc[x] \in PStartLabels \cup {"idle"}
    BY DEF First
  <2>2. pc[x] \notin ProducerLabels /\ pc[x] \notin ConsumerLabels
    BY <2>1 DEF PStartLabels, ProducerLabels, ConsumerLabels
  <2>3. QED
    BY <2>2, ProduceMoves, ConsumeMoves
<1>6. x \in Producers /\ PStart(x)
  BY <1>1, <1>3, <1>4, <1>5
<1>7. x = p
  <2> SUFFICES ASSUME pc[x] = "idle" PROVE FALSE
    BY DEF First
  <2>1. \A k \in 1 .. 4 : ~PSemget(x, k) /\ ~PSetval(x, k)
    BY <1>6, SemgetCases, SetvalCases DEF Creates, Sets, Goto
  <2>2. QED
    BY <1>6, <2>1 DEF PStart, PShm, PMqueF, PMquenewE, PFillE, Goto
<1>8. CASE PFillE(p) /\ toPush[p] >= BUFS
  BY <1>8, FirstArrives
<1>9. CASE ~(PFillE(p) /\ toPush[p] >= BUFS)
  <2>1. toPush[p] \in Int /\ BUFS \in Int
    BY ConstantsAssumption DEF StartShape
  <2>2. PFillE(p) => toPush[p] < BUFS
    BY <1>9, <2>1
  <2>3. Proceeds(p) /\ First(p)'
    BY <1>6, <1>7, <2>2, FirstCreates, FirstSets, FirstMakes, FirstPushes DEF PStart
  <2>4. QED
    BY <2>3, FirstProceeds
<1>10. QED
  BY <1>8, <1>9

LEMMA OrderStep ==
    ASSUME StartShape, OrderInv, [StartNext]_startVars
    PROVE  OrderInv' /\ (orderly' => [Steady!Next]_(Steady!vars))
<1>1. CASE UNCHANGED startVars
  <2>1. UNCHANGED <<pc, sem, qE, qF, buff, product, slot, consumed, made, newq, toPush, orderly>>
    BY <1>1 DEF startVars, vars, start
  <2>2. Running' <=> Running
    BY <2>1 DEF Running
  <2>3. Unseen
    BY <2>1, <2>2 DEF Unseen, SteadyPc, SteadySem, SteadyQE
  <2>4. /\ Fresh => Fresh'
        /\ Found => Found'
        /\ Nobody => Nobody'
        /\ \A p \in Producers : First(p) => First(p)'
    BY <2>1 DEF Fresh, Found, Nobody, First, MadeBy, ValuesBy, PushedBy
  <2>5. QED
    BY <2>1, <2>2, <2>3, <2>4, UnseenStutters DEF OrderInv
<1>2. CASE StartNext /\ ~orderly'
  BY <1>2 DEF OrderInv
<1>3. CASE StartNext /\ orderly'
  <2>1. orderly
    BY <1>3, StaysOrderly
  <2>2. CASE Running
    <3>1. Found /\ Fresh
      BY <2>1, <2>2 DEF OrderInv
    <3>2. (Unseen \/ Steady!Next) /\ Running' /\ Found' /\ Fresh'
      BY <1>3, <2>2, <3>1, LaterSteps
    <3>3. QED
      BY <3>2, UnseenStutters DEF OrderInv
  <2>3. CASE ~Running /\ Nobody
    <3>1. Unseen /\ ~Running' /\ Fresh' /\ \E p \in Producers : First(p)'
      BY <1>3, <2>1, <2>3, FirstStep DEF OrderInv
    <3>2. QED
      BY <3>1, UnseenStutters DEF OrderInv
  <2>4. CASE ~Running /\ \E p \in Producers : First(p)
    <3>1. /\ Unseen /\ Fresh'
          /\ Running' => Found'
          /\ ~Running' => \E q \in Producers : First(q)'
      BY <1>3, <2>1, <2>4, NextSteps DEF OrderInv
    <3>2. QED
      BY <3>1, UnseenStutters DEF OrderInv
  <2>5. QED
    BY <2>1, <2>2, <2>3, <2>4 DEF OrderInv
<1>4. QED
  BY <1>1, <1>2, <1>3

LEMMA StartInitOrder ==
    ASSUME StartInit
    PROVE  OrderInv /\ Steady!Init
<1>1. ~Running
  BY DEF StartInit, Running, Procs, ProducerLabels
<1>2. Nobody /\ Fresh
  BY DEF StartInit, Nobody, Fresh, Procs
<1>3. SteadyPc = [x \in Procs |-> IF x \in Producers THEN "wait_space" ELSE "wait_full"]
  BY DEF StartInit, SteadyPc, Procs, ProducerLabels, ConsumerLabels
<1>4. SteadySem = [space |-> BUFS - 1, prod |-> 1, cons |-> 1, full |-> 0]
      /\ SteadyQE = [n \in 1 .. BUFS |-> n - 1]
  BY <1>1 DEF SteadySem, SteadyQE, InitialValue
<1>5. Steady!Init
  BY <1>3, <1>4 DEF StartInit, Steady!Init, SteadyPc, SteadySem, SteadyQE, Steady!Procs, Procs,
                    Steady!Slots, Slots
<1>6. QED
  BY <1>1, <1>2, <1>5 DEF OrderInv

(* Started in good order, whatever the numbers of processes and slots, the *)
(* programs behave as ProdCons says from its initial state on: go_produce  *)
(* of the first creates and fills it, and later ones leave it alone        *)
(* (prod.c:20-30, cons.c:19-28).                                           *)
THEOREM StartLeadsToLoops == StartSpec => StartsSteady
<1>1. StartInit => StartShape /\ OrderInv /\ Steady!Init
  BY StartInitShape, StartInitOrder
<1>2. StartShape /\ OrderInv /\ [StartNext]_startVars => StartShape' /\ OrderInv'
  BY StartKeepsShape, OrderStep
<1>3. StartShape /\ OrderInv /\ [StartNext]_startVars
      => [orderly' => [Steady!Next]_(Steady!vars)]_startVars
  BY OrderStep
<1>4. QED
  BY <1>1, <1>2, <1>3, PTL DEF StartSpec, StartsSteady

=============================================================================
