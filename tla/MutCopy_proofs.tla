--------------------------- MODULE MutCopy_proofs ---------------------------
(***************************************************************************)
(* Proofs about MutCopy for every number of clients, every size of the     *)
(* buffer and every size of the file.                                      *)
(* That the server removes nothing that is in use is a matter of counting  *)
(* messages and tokens of semf; undone semaphores do not spoil it, as they *)
(* only ever take tokens from semf.  That the copy is right needs more:    *)
(* as long as nobody ended early there is one token in all, so one chunk   *)
(* is under way at a time.                                                 *)
(***************************************************************************)
EXTENDS MutCopy, FiniteSetTheorems, SequenceTheorems, TLAPS

CLabels == {"unborn", "wait_sems", "wait_semc", "write", "signal_semc", "signal_semf",
            "sleep", "gone"}
SLabels == {"fork", "wait_semf", "wait_semc", "read", "signal_semc", "signal_sems",
            "drop", "sleep", "gone"}

EndMsg == <<-1, -1>>
Messages == {EndMsg} \cup (Nat \X Nat)

Shape == /\ size \in Nat
         /\ pc \in [Clients -> CLabels]
         /\ spc \in SLabels
         /\ sems \in Nat /\ semc \in Nat /\ semf \in Nat
         /\ que \in Seq(Messages)
         /\ buff = [j \in 0 .. BUFS - 1 |-> buff[j]]
         /\ out = [k \in 0 .. OutLast |-> out[k]]
         /\ part \in [Clients -> Nat]
         /\ done \in [Clients -> BOOLEAN]
         /\ i \in Nat
         /\ clients \in Int
         /\ early \in BOOLEAN

\* The server still reads; it has not read from the queue yet.
Serving == spc \notin {"drop", "sleep", "gone"}
First == spc = "fork" \/ (i = 0 /\ spc \in {"wait_semf", "wait_semc", "read"})

\* A client that has sent a message and not yet signalled semf; the server with
\* a token of semf for which it has not read yet.
Signalling(a) == pc[a] \in {"signal_semc", "signal_semf"}
Reading == spc \in {"wait_semc", "read"}

\* Positions in the queue of messages that say that a client is done.
Ends(q) == {k \in 1 .. Len(q) : q[k] = EndMsg}

DoneOnes == {a \in Clients : done[a]}
Signallers == {a \in Clients : Signalling(a)}
nDone == Cardinality(DoneOnes)
nSignalling == Cardinality(Signallers)
nEnds == Cardinality(Ends(que))

(* Where clients are while the server forks, and when they are done.       *)
LifeInv == /\ spc = "fork" => /\ i <= N
                              /\ \A a \in Clients : a >= i => pc[a] = "unborn"
           /\ Serving => clients > 0
           /\ \A a \in Clients : /\ done[a] => Signalling(a) \/ pc[a] \in {"sleep", "gone"}
                                 /\ pc[a] \in {"sleep", "gone"} => done[a]

(* Whoever is done has sent one message that says so, and the server has   *)
(* counted it or it is in the queue.                                       *)
EndCount == nDone + clients = N + nEnds

(* Each token of semf, each one on its way and the one the server holds    *)
(* stands for a message in the queue; the first one stands for none.       *)
TokenBound == semf + nSignalling + (IF Reading THEN 1 ELSE 0)
                 <= Len(que) + (IF First THEN 1 ELSE 0)

(* The last message of all says that a client is done.                     *)
LastEnds == (\A a \in Clients : done[a]) /\ que # << >> => que[Len(que)] = EndMsg

DropInv == Shape /\ LifeInv /\ EndCount /\ TokenBound /\ LastEnds /\ DropDisturbsNobody

-----------------------------------------------------------------------------
(* Where the one token is, as long as nobody ended early: sems, semf, the  *)
(* server or a client has it; the queue is as long as that says.           *)
Busy(a) == pc[a] \in {"wait_semc", "write", "signal_semc", "signal_semf"}
NoneBusy == \A a \in Clients : ~ Busy(a)
Serves == spc \in {"wait_semc", "read", "signal_semc", "signal_sems"}

TokenInSems == /\ sems = 1 /\ semf = 0 /\ NoneBusy /\ ~ Serves /\ ~ First
               /\ que = << >>
TokenInSemf == /\ sems = 0 /\ semf = 1 /\ NoneBusy /\ ~ Serves
               /\ Len(que) = IF First THEN 0 ELSE 1
TokenAtServer == /\ sems = 0 /\ semf = 0 /\ NoneBusy /\ Serves
                 /\ Len(que) = IF Reading /\ ~ First THEN 1 ELSE 0
TokenAtClient == /\ sems = 0 /\ semf = 0 /\ ~ Serves /\ ~ First
                 /\ \E a \in Clients : /\ Busy(a)
                                       /\ \A b \in Clients : Busy(b) => b = a
                                       /\ Len(que) = IF Signalling(a) THEN 1 ELSE 0

OneToken == Serving => TokenInSems \/ TokenInSemf \/ TokenAtServer \/ TokenAtClient

(* A chunk under way is in the buffer, and part of the file.               *)
InQueue(k) == que # << >> /\ que[1] # EndMsg /\ que[1][1] <= k /\ k < que[1][2]

ChunkInv == que # << >> /\ que[1] # EndMsg
              => /\ que[1][2] <= size
                 /\ \A k \in Nat : InQueue(k) => buff[k - que[1][1]] = Input(k)

\* A client's part of the file, and what of it has been sent.
Start(a) == (size * a) \div N
End(a) == (size * (a + 1)) \div N
Sent(a, k) == /\ Start(a) <= k /\ k < End(a)
              /\ \/ done[a]
                 \/ k < Offset(a)
                 \/ Signalling(a) /\ k < Offset(a) + BUFS

(* What a client has sent is in the copy or under way.                     *)
SentArrives == \A a \in Clients : \A k \in Nat :
                  Sent(a, k) => out[k] = Input(k) \/ InQueue(k)

EmptyStays == size = 0 => out[0] = 0

CopyInv == ~ early => OneToken /\ ChunkInv /\ SentArrives /\ EmptyStays

-----------------------------------------------------------------------------
(* Numbers. *)
LEMMA Quotient ==
    ASSUME NEW m \in Nat, NEW n \in Nat, n > 0
    PROVE  /\ m \div n \in Nat
           /\ (m \div n) * n <= m
           /\ m < (m \div n) * n + n
OBVIOUS

LEMMA ProductNat ==
    ASSUME NEW m \in Nat, NEW n \in Nat
    PROVE  m * n \in Nat
OBVIOUS

LEMMA SmallerFactor ==
    ASSUME NEW m \in Int, NEW n \in Int, NEW k \in Nat, m * k < n * k
    PROVE  m < n
<1>1. (n - m) * k > 0
  OBVIOUS
<1>2. ASSUME n - m <= 0 PROVE FALSE
  <2>1. (m - n) * k >= 0
    <3>1. m - n \in Nat
      BY <1>2
    <3>2. QED
      BY <3>1, ProductNat
  <2>2. QED
    BY <1>1, <2>1
<1>3. QED
  BY <1>2

(* Parts begin and end inside of the file, and chunks where they should.   *)
LEMMA PartsNat ==
    ASSUME size \in Nat, part \in [Clients -> Nat], NEW a \in Clients
    PROVE  /\ Start(a) \in Nat /\ End(a) \in Nat /\ End(a) <= size
           /\ BUFS * part[a] \in Nat
           /\ Offset(a) = Start(a) + BUFS * part[a]
           /\ Offset(a) \in Nat /\ To(a) \in Nat
           /\ To(a) = IF Offset(a) + BUFS > End(a) THEN End(a) ELSE Offset(a) + BUFS
<1>0. N \in Nat /\ N > 0 /\ BUFS \in Nat /\ a \in Nat /\ a + 1 \in Nat /\ a + 1 <= N
  BY CopyAssumption DEF Clients
<1>1. size * a \in Nat /\ size * (a + 1) \in Nat
  BY <1>0, ProductNat
<1>2. Start(a) \in Nat /\ End(a) \in Nat
  BY <1>0, <1>1, Quotient DEF Start, End
<1>3. End(a) <= size
  <2>1. End(a) * N <= size * (a + 1)
    BY <1>0, <1>1, Quotient DEF End
  <2>2. size * (N - (a + 1)) \in Nat
    BY <1>0, ProductNat
  <2>3. size * (N - (a + 1)) = size * N - size * (a + 1)
    BY <1>0
  <2>4. size * N \in Nat /\ End(a) * N \in Nat
    BY <1>0, <1>2, ProductNat
  <2>5. End(a) * N <= size * N
    BY <1>1, <2>1, <2>2, <2>3, <2>4
  <2>6. ASSUME End(a) > size PROVE FALSE
    <3>1. (End(a) - size - 1) * N \in Nat
      BY <1>0, <1>2, <2>6, ProductNat
    <3>2. (End(a) - size - 1) * N = End(a) * N - size * N - N
      BY <1>0, <1>2
    <3>3. QED
      BY <1>0, <2>4, <2>5, <3>1, <3>2
  <2>7. QED
    BY <1>2, <2>6
<1>4. BUFS * part[a] \in Nat
  BY <1>0, ProductNat
<1>5. Offset(a) = Start(a) + BUFS * part[a] /\ Offset(a) \in Nat
  BY <1>2, <1>4 DEF Offset, Start
<1>6. To(a) = IF Offset(a) + BUFS > End(a) THEN End(a) ELSE Offset(a) + BUFS
  BY DEF To, End
<1>7. QED
  BY <1>0, <1>2, <1>3, <1>4, <1>5, <1>6

(* Every byte of the file is in the part of some client.                   *)
LEMMA PartsCover ==
    ASSUME size \in Nat, NEW k \in Nat, k < size
    PROVE  \E a \in Clients : Start(a) <= k /\ k < End(a)
<1> DEFINE top == N * (k + 1) - 1
           a == top \div size
<1>0. N \in Nat /\ N > 0 /\ size > 0
  BY CopyAssumption
<1>1. N * k \in Nat /\ N * (k + 1) = N * k + N /\ top \in Nat
  BY <1>0, ProductNat
<1>2. a \in Nat /\ a * size <= top /\ top < a * size + size
  BY <1>0, <1>1, Quotient
<1>3. a * size \in Nat
  BY <1>2, ProductNat
<1>4. a < N
  <2>1. N * (size - (k + 1)) \in Nat
    BY <1>0, ProductNat
  <2>2. N * (size - (k + 1)) = N * size - N * (k + 1)
    BY <1>0
  <2>3. a * size < N * size
    BY <1>0, <1>1, <1>2, <1>3, <2>1, <2>2
  <2>4. QED
    BY <1>0, <1>2, <2>3, SmallerFactor
<1>5. a \in Clients
  BY <1>0, <1>2, <1>4 DEF Clients
<1>6. size * a = a * size /\ size * (a + 1) = a * size + size
  BY <1>2
<1> HIDE DEF top, a
<1>7. Start(a) <= k
  <2>1. Start(a) \in Nat /\ Start(a) * N <= a * size
    BY <1>0, <1>3, <1>6, Quotient DEF Start
  <2>2. Start(a) * N \in Nat
    BY <1>0, <2>1, ProductNat
  <2>3. Start(a) * N < (k + 1) * N
    BY <1>0, <1>1, <1>2, <1>3, <2>1, <2>2 DEF top
  <2>4. Start(a) < k + 1
    BY <1>0, <2>1, <2>3, SmallerFactor
  <2>5. QED
    BY <2>1, <2>4
<1>8. k < End(a)
  <2>1. /\ End(a) \in Nat
        /\ a * size + size < End(a) * N + N
    BY <1>0, <1>3, <1>6, Quotient DEF End
  <2>2. End(a) * N \in Nat /\ End(a) * N + N = (End(a) + 1) * N
    BY <1>0, <2>1, ProductNat
  <2>3. (k + 1) * N < (End(a) + 1) * N
    BY <1>0, <1>1, <1>2, <1>3, <2>1, <2>2 DEF top
  <2>4. k + 1 < End(a) + 1
    BY <1>0, <2>1, <2>3, SmallerFactor
  <2>5. QED
    BY <2>1, <2>4
<1>9. QED
  BY <1>5, <1>7, <1>8

(* Sending a message and receiving one, as the end messages count.         *)
LEMMA EndsAppend ==
    ASSUME NEW q \in Seq(Messages), NEW m \in Messages
    PROVE  /\ IsFiniteSet(Ends(q)) /\ Cardinality(Ends(q)) \in Nat
           /\ Cardinality(Ends(Append(q, m)))
                = Cardinality(Ends(q)) + (IF m = EndMsg THEN 1 ELSE 0)
<1>1. PICK l \in Nat : l = Len(q)
  BY LenProperties
<1>2. /\ Len(Append(q, m)) = l + 1
      /\ Append(q, m)[l + 1] = m
      /\ \A k \in 1 .. l : Append(q, m)[k] = q[k]
  BY <1>1, AppendProperties
<1>3. IsFiniteSet(Ends(q)) /\ Cardinality(Ends(q)) \in Nat
  <2>1. IsFiniteSet(1 .. l)
    BY FS_Interval
  <2>2. Ends(q) \in SUBSET (1 .. l)
    BY <1>1 DEF Ends
  <2>3. IsFiniteSet(Ends(q))
    BY <2>1, <2>2, FS_Subset
  <2>4. QED
    BY <2>3, FS_CardinalityType
<1>4. Ends(Append(q, m)) = {k \in 1 .. l + 1 : Append(q, m)[k] = EndMsg}
  BY <1>2 DEF Ends
<1>5. Ends(q) = {k \in 1 .. l : q[k] = EndMsg}
  BY <1>1 DEF Ends
<1>6. CASE m = EndMsg
  <2>1. Ends(Append(q, m)) = Ends(q) \cup {l + 1} /\ l + 1 \notin Ends(q)
    BY <1>2, <1>4, <1>5, <1>6
  <2>2. QED
    BY <1>3, <1>6, <2>1, FS_AddElement
<1>7. CASE m # EndMsg
  <2>1. Ends(Append(q, m)) = Ends(q)
    BY <1>2, <1>4, <1>5, <1>7
  <2>2. QED
    BY <1>3, <1>7, <2>1
<1>8. QED
  BY <1>6, <1>7

LEMMA EndsTail ==
    ASSUME NEW q \in Seq(Messages), q # << >>
    PROVE  /\ Tail(q) \in Seq(Messages) /\ Len(Tail(q)) = Len(q) - 1
           /\ Len(q) \in Nat /\ Len(q) > 0
           /\ Tail(q) # << >> => Tail(q)[Len(Tail(q))] = q[Len(q)]
           /\ Head(q) = q[1] /\ Head(q) \in Messages
           /\ Cardinality(Ends(Tail(q))) \in Nat
           /\ Cardinality(Ends(q))
                = Cardinality(Ends(Tail(q))) + (IF Head(q) = EndMsg THEN 1 ELSE 0)
<1>1. PICK l \in Nat : l = Len(q)
  BY LenProperties
<1>2. l > 0 /\ Head(q) = q[1] /\ Head(q) \in Messages
  BY <1>1, EmptySeq, HeadTailProperties, ElementOfSeq
<1>3. /\ Tail(q) \in Seq(Messages) /\ Len(Tail(q)) = l - 1
      /\ \A k \in 1 .. l - 1 : Tail(q)[k] = q[k + 1]
  BY <1>1, HeadTailProperties
<1>4. Tail(q) # << >> => Tail(q)[l - 1] = q[l]
  <2>1. Tail(q) # << >> => l - 1 \in 1 .. l - 1
    BY <1>2, <1>3, EmptySeq
  <2>2. QED
    BY <1>3, <2>1
<1> DEFINE A == Ends(Tail(q))
           B == Ends(q) \ {1}
<1>5. IsFiniteSet(A) /\ IsFiniteSet(Ends(q)) /\ Cardinality(A) \in Nat
  BY <1>2, <1>3, EndsAppend
<1>6. A = {k \in 1 .. l - 1 : q[k + 1] = EndMsg}
  BY <1>3 DEF Ends
<1>7. B = {k \in 2 .. l : q[k] = EndMsg}
  BY <1>1 DEF Ends
<1>8. Cardinality(B) = Cardinality(A)
  <2> DEFINE f == [k \in A |-> k + 1]
  <2>1. f \in [A -> B]
    BY <1>6, <1>7
  <2>2. \A j, k \in A : f[j] = f[k] => j = k
    BY <1>6
  <2>3. \A b \in B : \E k \in A : f[k] = b
    <3> TAKE b \in B
    <3>1. b - 1 \in A /\ f[b - 1] = b
      BY <1>6, <1>7
    <3>2. QED
      BY <3>1
  <2> HIDE DEF f, A, B
  <2>4. f \in Bijection(A, B)
    BY <2>1, <2>2, <2>3 DEF Bijection, Injection, Surjection, IsInjective
  <2>5. ExistsBijection(A, B)
    BY <2>4 DEF ExistsBijection
  <2>6. QED
    BY <1>5, <2>5, FS_Bijection
<1>9. Cardinality(B) = IF 1 \in Ends(q) THEN Cardinality(Ends(q)) - 1 ELSE Cardinality(Ends(q))
  BY <1>5, FS_RemoveElement
<1>10. 1 \in Ends(q) <=> Head(q) = EndMsg
  BY <1>1, <1>2 DEF Ends
<1>11. Cardinality(Ends(q)) \in Nat
  BY <1>5, FS_CardinalityType
<1>12. QED
  BY <1>1, <1>2, <1>3, <1>4, <1>5, <1>8, <1>9, <1>10, <1>11

-----------------------------------------------------------------------------
(* Types. *)
LEMMA SendsMessage ==
    ASSUME Shape, NEW a \in Clients
    PROVE  /\ EndMsg \in Messages
           /\ <<Offset(a), To(a)>> \in Messages
           /\ <<Offset(a), To(a)>> # EndMsg
<1>1. Offset(a) \in Nat /\ To(a) \in Nat
  BY PartsNat DEF Shape
<1>2. QED
  BY <1>1 DEF Messages, EndMsg

LEMMA ClientShape ==
    ASSUME Shape, NEW a \in Clients, Client(a) \/ CExit(a)
    PROVE  Shape'
<1> USE DEF Shape, CGoto, CLabels, files, semaphores, OutLast
<1>1. CASE CWaitSems(a)
  BY <1>1 DEF CWaitSems
<1>2. CASE CWaitSemc(a)
  BY <1>2 DEF CWaitSemc
<1>3. CASE CWrite(a)
  <2>1. que' \in Seq(Messages)
    <3>1. PICK m \in Messages : que' = Append(que, m)
      <4> HIDE DEF Shape
      <4>1. que' = Append(que, EndMsg) \/ que' = Append(que, <<Offset(a), To(a)>>)
        BY <1>3 DEF CWrite, EndMsg
      <4>2. QED
        BY <4>1, SendsMessage
    <3>2. QED
      BY <3>1, AppendProperties
  <2>2. buff' = [j \in 0 .. BUFS - 1 |-> buff'[j]]
    BY <1>3 DEF CWrite
  <2>3. QED
    BY <1>3, <2>1, <2>2 DEF CWrite
<1>4. CASE CSignalSemc(a)
  BY <1>4 DEF CSignalSemc
<1>5. CASE CSignalSemf(a)
  BY <1>5 DEF CSignalSemf
<1>6. CASE CExit(a)
  <2>1. sems' \in Nat /\ semf' \in Nat /\ early' \in BOOLEAN
    <3>1. CASE spc \in {"sleep", "gone"}
      BY <1>6, <3>1 DEF CExit
    <3>2. CASE spc \notin {"sleep", "gone"}
      <4>1. part[a] \in Nat
        OBVIOUS
      <4>2. sems' = sems + part[a] /\ early' = (early \/ spc # "drop")
        BY <1>6, <3>2 DEF CExit
      <4>3. semf' = IF semf < part[a] THEN 0 ELSE semf - part[a]
        BY <1>6, <3>2 DEF CExit
      <4>4. semf' \in Nat
        BY <4>1, <4>3
      <4>5. early' \in BOOLEAN
        BY <4>2
      <4>6. QED
        BY <4>1, <4>2, <4>4, <4>5
    <3>3. QED
      BY <3>1, <3>2
  <2>2. QED
    BY <1>6, <2>1 DEF CExit
<1>7. QED
  BY <1>1, <1>2, <1>3, <1>4, <1>5, <1>6 DEF Client

LEMMA ServerShape ==
    ASSUME Shape, Server
    PROVE  Shape'
<1> USE DEF Shape, SGoto, SLabels, files, semaphores, OutLast
<1>1. CASE SFork
  <2>1. pc' \in [Clients -> CLabels] /\ early' \in BOOLEAN
    <3>1. CASE pc' = [pc EXCEPT ![i] = "wait_sems"] /\ UNCHANGED early
      <4>1. "wait_sems" \in CLabels
        BY DEF CLabels
      <4>2. QED
        BY <3>1, <4>1
    <3>2. CASE UNCHANGED pc /\ early' = TRUE
      BY <3>2
    <3>3. QED
      BY <1>1, <3>1, <3>2 DEF SFork
  <2>2. QED
    BY <1>1, <2>1 DEF SFork
<1>2. CASE SForked
  BY <1>2 DEF SForked
<1>3. CASE SWaitSemf
  BY <1>3 DEF SWaitSemf
<1>4. CASE SWaitSemc
  BY <1>4 DEF SWaitSemc
<1>5. CASE SRead
  <2>1. que' \in Seq(Messages)
    BY <1>5, EndsTail DEF SRead
  <2>2. out' = [k \in 0 .. OutLast |-> out'[k]]
    BY <1>5 DEF SRead
  <2>3. clients' \in Int
    BY <1>5 DEF SRead
  <2>4. QED
    BY <1>5, <2>1, <2>2, <2>3 DEF SRead
<1>6. CASE SSignalSemc
  BY <1>6 DEF SSignalSemc
<1>7. CASE SSignalSems
  BY <1>7 DEF SSignalSems
<1>8. CASE SDrop
  BY <1>8 DEF SDrop
<1>9. CASE SExit
  BY <1>9 DEF SExit
<1>10. QED
  BY <1>1, <1>2, <1>3, <1>4, <1>5, <1>6, <1>7, <1>8, <1>9 DEF Server

-----------------------------------------------------------------------------
(* Sets of clients that differ in one client at most.                      *)
LEMMA OneDiffers ==
    ASSUME NEW A \in SUBSET Clients, NEW B \in SUBSET Clients, NEW a \in Clients,
           \A b \in Clients : b # a => (b \in A <=> b \in B)
    PROVE  /\ Cardinality(A) \in Nat
           /\ Cardinality(B) = Cardinality(A) + (IF a \in B THEN 1 ELSE 0)
                                              - (IF a \in A THEN 1 ELSE 0)
<1>1. IsFiniteSet(Clients)
  BY CopyAssumption, FS_Interval DEF Clients
<1>2. IsFiniteSet(A) /\ IsFiniteSet(B)
  BY <1>1, FS_Subset
<1>3. Cardinality(A) \in Nat /\ Cardinality(B) \in Nat
  BY <1>2, FS_CardinalityType
<1>4. CASE a \in A /\ a \notin B
  <2>1. A = B \cup {a}
    BY <1>4
  <2>2. QED
    BY <1>2, <1>3, <1>4, <2>1, FS_AddElement
<1>5. CASE a \notin A /\ a \in B
  <2>1. B = A \cup {a}
    BY <1>5
  <2>2. QED
    BY <1>2, <1>3, <1>5, <2>1, FS_AddElement
<1>6. CASE a \in A <=> a \in B
  <2>1. A = B
    BY <1>6
  <2>2. QED
    BY <1>3, <1>6, <2>1
<1>7. QED
  BY <1>4, <1>5, <1>6

(* How a client's step changes the number of those that signal.            *)
LEMMA SignallersStep ==
    ASSUME Shape, NEW a \in Clients, NEW from, NEW to, CGoto(a, from, to)
    PROVE  /\ nSignalling \in Nat
           /\ nSignalling' = nSignalling
                + (IF to \in {"signal_semc", "signal_semf"} THEN 1 ELSE 0)
                - (IF from \in {"signal_semc", "signal_semf"} THEN 1 ELSE 0)
<1> DEFINE A == {b \in Clients : pc[b] \in {"signal_semc", "signal_semf"}}
           B == {b \in Clients : pc'[b] \in {"signal_semc", "signal_semf"}}
<1>1. nSignalling = Cardinality(A) /\ nSignalling' = Cardinality(B)
  BY DEF nSignalling, Signallers, Signalling
<1>2. pc[a] = from /\ pc'[a] = to /\ \A b \in Clients : b # a => pc'[b] = pc[b]
  BY DEF CGoto, Shape
<1>3. /\ \A b \in Clients : b # a => (b \in A <=> b \in B)
      /\ a \in B <=> to \in {"signal_semc", "signal_semf"}
      /\ a \in A <=> from \in {"signal_semc", "signal_semf"}
  BY <1>2
<1>4. A \in SUBSET Clients /\ B \in SUBSET Clients
  OBVIOUS
<1> HIDE DEF A, B
<1>5. QED
  BY <1>1, <1>3, <1>4, OneDiffers

LEMMA CountsNat ==
    ASSUME Shape
    PROVE  /\ nDone \in Nat /\ nSignalling \in Nat /\ nEnds \in Nat
           /\ Len(que) \in Nat /\ (que = << >> <=> Len(que) = 0)
           /\ N \in Nat /\ N > 0 /\ BUFS \in Nat /\ BUFS > 0
           /\ nDone <= N /\ (nDone = N => \A a \in Clients : done[a])
<1>1. N \in Nat /\ N > 0 /\ BUFS \in Nat /\ BUFS > 0
  BY CopyAssumption
<1>2. IsFiniteSet(Clients) /\ Cardinality(Clients) = N
  BY <1>1, FS_Interval DEF Clients
<1>3. /\ DoneOnes \in SUBSET Clients
      /\ Signallers \in SUBSET Clients
  BY DEF DoneOnes, Signallers
<1>4. nDone \in Nat /\ nSignalling \in Nat
  BY <1>2, <1>3, FS_Subset, FS_CardinalityType DEF nDone, nSignalling
<1>5. nDone <= N /\ (nDone = N => DoneOnes = Clients)
  BY <1>2, <1>3, FS_Subset DEF nDone
<1>6. nEnds \in Nat
  <2>1. EndMsg \in Messages
    BY DEF Messages
  <2>2. QED
    BY <2>1, EndsAppend DEF nEnds, Shape
<1>7. Len(que) \in Nat /\ (que = << >> <=> Len(que) = 0)
  BY LenProperties, EmptySeq DEF Shape
<1>8. QED
  BY <1>1, <1>4, <1>5, <1>6, <1>7 DEF DoneOnes

-----------------------------------------------------------------------------
(* The server removes nothing that is in use: steps of clients.            *)
LEMMA NoMessage ==
    ASSUME EndCount, LastEnds, que' = que, done' = done, clients' = clients
    PROVE  EndCount' /\ LastEnds'
BY DEF EndCount, LastEnds, nDone, nEnds, DoneOnes, Ends

LEMMA ClientDrops ==
    ASSUME DropInv, NEW a \in Clients, Client(a) \/ CExit(a)
    PROVE  /\ LifeInv' /\ EndCount' /\ TokenBound' /\ LastEnds'
           /\ DropDisturbsNobody'
<1> USE DEF files, semaphores
<1>0. Shape /\ LifeInv /\ EndCount /\ TokenBound /\ LastEnds /\ DropDisturbsNobody
  BY DEF DropInv
<1>n. /\ nDone \in Nat /\ nSignalling \in Nat /\ nEnds \in Nat /\ Len(que) \in Nat
      /\ semf \in Nat /\ part[a] \in Nat
  BY <1>0, CountsNat DEF Shape
<1>s. UNCHANGED <<spc, i>>
  BY DEF Client, CWaitSems, CWaitSemc, CWrite, CSignalSemc, CSignalSemf, CExit
<1>k. First' = First /\ Reading' = Reading
  BY <1>s DEF First, Reading
<1>1. CASE CWaitSems(a)
  <2>1. LifeInv'
    BY <1>0, <1>1 DEF CGoto, CWaitSems, LifeInv, Serving, Signalling, Shape
  <2>2. EndCount' /\ LastEnds'
    BY <1>0, <1>1, NoMessage DEF CWaitSems
  <2>3. nSignalling' = nSignalling
    BY <1>0, <1>n, <1>1, SignallersStep DEF CWaitSems
  <2>4. TokenBound'
    BY <1>0, <1>k, <1>1, <2>3 DEF CWaitSems, TokenBound
  <2>5. DropDisturbsNobody'
    BY <1>0, <1>s, <1>1 DEF CGoto, CWaitSems, DropDisturbsNobody, Shape
  <2>6. QED
    BY <2>1, <2>2, <2>4, <2>5
<1>2. CASE CWaitSemc(a)
  <2>1. LifeInv'
    BY <1>0, <1>2 DEF CGoto, CWaitSemc, LifeInv, Serving, Signalling, Shape
  <2>2. EndCount' /\ LastEnds'
    BY <1>0, <1>2, NoMessage DEF CWaitSemc
  <2>3. nSignalling' = nSignalling
    BY <1>0, <1>n, <1>2, SignallersStep DEF CWaitSemc
  <2>4. TokenBound'
    BY <1>0, <1>k, <1>2, <2>3 DEF CWaitSemc, TokenBound
  <2>5. DropDisturbsNobody'
    BY <1>0, <1>s, <1>2 DEF CGoto, CWaitSemc, DropDisturbsNobody, Shape
  <2>6. QED
    BY <2>1, <2>2, <2>4, <2>5
<1>3. CASE CWrite(a)
  <2>0. /\ pc[a] = "write" /\ pc' = [pc EXCEPT ![a] = "signal_semc"]
        /\ semf' = semf /\ clients' = clients
        /\ ~ done[a] /\ Serving
    BY <1>0, <1>3 DEF CGoto, CWrite, LifeInv, DropDisturbsNobody, Serving, Signalling
  <2>d. /\ Offset(a) \in Nat /\ To(a) \in Nat /\ <<Offset(a), To(a)>> # EndMsg
        /\ EndMsg \in Messages /\ <<Offset(a), To(a)>> \in Messages
    BY <1>0, PartsNat, SendsMessage DEF Shape
  <2>e. PICK m \in Messages :
          /\ que' = Append(que, m)
          /\ \/ m = EndMsg /\ done' = [done EXCEPT ![a] = TRUE]
             \/ m # EndMsg /\ done' = done
    <3>1. CASE Offset(a) > To(a)
      BY <1>3, <2>d, <3>1 DEF CWrite, EndMsg
    <3>2. CASE ~ (Offset(a) > To(a))
      BY <1>3, <2>d, <3>2 DEF CWrite
    <3>3. QED
      BY <3>1, <3>2
  <2>f. /\ Len(que') = Len(que) + 1 /\ que'[Len(que')] = m /\ que' # << >>
        /\ nEnds' = nEnds + (IF m = EndMsg THEN 1 ELSE 0)
    <3>1. que \in Seq(Messages)
      BY <1>0 DEF Shape
    <3>2. nEnds' = nEnds + (IF m = EndMsg THEN 1 ELSE 0)
      BY <2>e, <3>1, EndsAppend DEF nEnds, Ends
    <3>3. Len(que') = Len(que) + 1 /\ que'[Len(que) + 1] = m
      BY <2>e, <3>1, AppendProperties
    <3>4. que' # << >>
      BY <1>n, <3>3, EmptySeq
    <3>5. QED
      BY <3>2, <3>3, <3>4
  <2>1. LifeInv'
    BY <1>0, <1>s, <2>0, <2>e DEF LifeInv, Serving, Signalling, Shape
  <2>2. EndCount'
    <3> DEFINE A == {b \in Clients : done[b]}
               B == {b \in Clients : done'[b]}
    <3>1. A \in SUBSET Clients /\ B \in SUBSET Clients
      OBVIOUS
    <3>2. /\ \A b \in Clients : b # a => (b \in A <=> b \in B)
          /\ a \notin A
          /\ a \in B <=> m = EndMsg
      BY <1>0, <2>0, <2>e DEF Shape
    <3>3. nDone = Cardinality(A) /\ nDone' = Cardinality(B)
      BY DEF nDone, DoneOnes
    <3> HIDE DEF A, B
    <3>4. nDone' = nDone + (IF m = EndMsg THEN 1 ELSE 0)
      BY <1>n, <3>1, <3>2, <3>3, OneDiffers
    <3>5. N \in Nat /\ clients \in Int
      BY <1>0, CopyAssumption DEF Shape
    <3>6. QED
      BY <1>0, <1>n, <2>0, <2>f, <3>4, <3>5 DEF EndCount
  <2>3. nSignalling' = nSignalling + 1
    BY <1>0, <1>n, <1>3, SignallersStep DEF CWrite
  <2>4. TokenBound'
    BY <1>0, <1>n, <1>k, <2>0, <2>f, <2>3 DEF TokenBound
  <2>5. LastEnds'
    <3>1. CASE m = EndMsg
      BY <2>f, <3>1 DEF LastEnds
    <3>2. CASE m # EndMsg
      BY <2>0, <2>e, <3>2 DEF LastEnds
    <3>3. QED
      BY <3>1, <3>2
  <2>6. DropDisturbsNobody'
    BY <1>s, <2>0 DEF DropDisturbsNobody, Serving
  <2>7. QED
    BY <2>1, <2>2, <2>4, <2>5, <2>6
<1>4. CASE CSignalSemc(a)
  <2>1. LifeInv'
    BY <1>0, <1>4 DEF CGoto, CSignalSemc, LifeInv, Serving, Signalling, Shape
  <2>2. EndCount' /\ LastEnds'
    BY <1>0, <1>4, NoMessage DEF CSignalSemc
  <2>3. nSignalling' = nSignalling
    BY <1>0, <1>n, <1>4, SignallersStep DEF CSignalSemc
  <2>4. TokenBound'
    BY <1>0, <1>k, <1>4, <2>3 DEF CSignalSemc, TokenBound
  <2>5. DropDisturbsNobody'
    BY <1>0, <1>s, <1>4 DEF CGoto, CSignalSemc, DropDisturbsNobody, Shape
  <2>6. QED
    BY <2>1, <2>2, <2>4, <2>5
<1>5. CASE CSignalSemf(a)
  <2>1. LifeInv'
    BY <1>0, <1>5 DEF CGoto, CSignalSemf, LifeInv, Serving, Signalling, Shape
  <2>2. EndCount' /\ LastEnds'
    BY <1>0, <1>5, NoMessage DEF CSignalSemf
  <2>3. nSignalling' = nSignalling - 1
    <3>1. PICK to \in {"sleep", "wait_sems"} : CGoto(a, "signal_semf", to)
      BY <1>5 DEF CSignalSemf
    <3>2. QED
      BY <1>0, <1>n, <3>1, SignallersStep
  <2>4. TokenBound'
    BY <1>0, <1>n, <1>k, <1>5, <2>3 DEF CSignalSemf, TokenBound
  <2>5. DropDisturbsNobody'
    BY <1>0, <1>s, <1>5 DEF CGoto, CSignalSemf, DropDisturbsNobody, Shape
  <2>6. QED
    BY <2>1, <2>2, <2>4, <2>5
<1>6. CASE CExit(a)
  <2>1. LifeInv'
    BY <1>0, <1>6 DEF CGoto, CExit, LifeInv, Serving, Signalling, Shape
  <2>2. EndCount' /\ LastEnds'
    BY <1>0, <1>6, NoMessage DEF CExit
  <2>3. nSignalling' = nSignalling
    BY <1>0, <1>n, <1>6, SignallersStep DEF CExit
  <2>4. semf' \in Nat /\ semf' <= semf
    BY <1>n, <1>6 DEF CExit
  <2>5. que' = que
    BY <1>6 DEF CExit
  <2>6. TokenBound'
    BY <1>0, <1>n, <1>k, <2>3, <2>4, <2>5 DEF TokenBound
  <2>7. DropDisturbsNobody'
    BY <1>0, <1>s, <1>6 DEF CGoto, CExit, DropDisturbsNobody, Shape
  <2>8. QED
    BY <2>1, <2>2, <2>6, <2>7
<1>7. QED
  BY <1>1, <1>2, <1>3, <1>4, <1>5, <1>6 DEF Client

(* The server's steps.  The last end message is the last message.          *)
LEMMA ServerDrops ==
    ASSUME DropInv, Server
    PROVE  /\ LifeInv' /\ EndCount' /\ TokenBound' /\ LastEnds'
           /\ DropDisturbsNobody'
<1> USE DEF SGoto, files, semaphores
<1>0. Shape /\ LifeInv /\ EndCount /\ TokenBound /\ LastEnds /\ DropDisturbsNobody
  BY DEF DropInv
<1>n. /\ nDone \in Nat /\ nSignalling \in Nat /\ nEnds \in Nat /\ Len(que) \in Nat
      /\ semf \in Nat /\ i \in Nat /\ clients \in Int /\ N \in Nat /\ N > 0
      /\ nDone <= N /\ (nDone = N => \A a \in Clients : done[a])
  BY <1>0, CountsNat DEF Shape
<1>c. N \in Nat /\ \A a \in Clients : a \in Nat /\ a < N
  BY CopyAssumption DEF Clients
<1>1. CASE SFork
  <2>a. /\ spc' = "fork" /\ spc = "fork" /\ i < N /\ i' = i + 1
        /\ pc' = [pc EXCEPT ![i] = "wait_sems"] \/ pc' = pc
        /\ UNCHANGED <<clients, done>>
    BY <1>1 DEF SFork
  <2>b. pc \in [Clients -> CLabels]
    BY <1>0 DEF Shape
  <2>c. \A a \in Clients : a # i => pc'[a] = pc[a]
    BY <2>a, <2>b
  <2>d. ASSUME i \in Clients PROVE pc[i] = "unborn" /\ ~ done[i]
    <3>1. pc[i] = "unborn"
      BY <1>0, <1>n, <2>a, <2>d DEF LifeInv
    <3>2. QED
      BY <1>0, <2>d, <3>1 DEF LifeInv, Signalling
  <2>e. ASSUME i \in Clients PROVE pc'[i] \in {"wait_sems", "unborn"}
    BY <2>a, <2>b, <2>d, <2>e
  <2>1. LifeInv'
    <3>5. \A a \in Clients : a >= i + 1 => pc'[a] = "unborn"
      BY <1>0, <1>n, <1>c, <2>a, <2>c DEF LifeInv
    <3>6. ASSUME NEW a \in Clients
          PROVE  /\ done[a] => pc'[a] \in {"signal_semc", "signal_semf", "sleep", "gone"}
                 /\ pc'[a] \in {"sleep", "gone"} => done[a]
      <4>1. CASE a = i
        BY <2>d, <2>e, <4>1
      <4>2. CASE a # i
        <5>1. pc'[a] = pc[a]
          BY <2>c, <4>2
        <5>2. QED
          BY <1>0, <5>1 DEF LifeInv, Signalling
      <4>3. QED
        BY <4>1, <4>2
    <3>7. i' <= N /\ clients' > 0
      <4>1. clients > 0
        BY <1>0, <2>a DEF LifeInv, Serving
      <4>2. QED
        BY <1>n, <2>a, <4>1
    <3>8. QED
      BY <2>a, <3>5, <3>6, <3>7 DEF LifeInv, Signalling
  <2>2. EndCount' /\ LastEnds'
    BY <1>0, <1>1, NoMessage DEF SFork
  <2>3. nSignalling' = nSignalling
    <3>1. ASSUME NEW a \in Clients PROVE Signalling(a) <=> Signalling(a)'
      <4>1. CASE a = i
        BY <2>d, <2>e, <4>1 DEF Signalling
      <4>2. CASE a # i
        BY <2>c, <4>2 DEF Signalling
      <4>3. QED
        BY <4>1, <4>2
    <3>2. Signallers = Signallers'
      BY <3>1 DEF Signallers
    <3>3. QED
      BY <3>2 DEF nSignalling
  <2>4. TokenBound'
    BY <1>0, <1>n, <1>1, <2>3 DEF SFork, TokenBound, First, Reading
  <2>5. DropDisturbsNobody'
    BY <1>0, <1>1 DEF SFork, DropDisturbsNobody
  <2>6. QED
    BY <2>1, <2>2, <2>4, <2>5
<1>2. CASE SForked
  <2>1. LifeInv'
    BY <1>0, <1>c, <1>2 DEF SForked, LifeInv, Serving, Signalling, Shape
  <2>2. EndCount' /\ LastEnds'
    BY <1>0, <1>2, NoMessage DEF SForked
  <2>3. nSignalling' = nSignalling
    BY <1>2 DEF SForked, nSignalling, Signallers, Signalling
  <2>4. TokenBound'
    BY <1>0, <1>n, <1>2, <2>3 DEF SForked, TokenBound, First, Reading
  <2>5. DropDisturbsNobody'
    BY <1>0, <1>2 DEF SForked, DropDisturbsNobody
  <2>6. QED
    BY <2>1, <2>2, <2>4, <2>5
<1>3. CASE SWaitSemf
  <2>1. LifeInv'
    BY <1>0, <1>c, <1>3 DEF SWaitSemf, LifeInv, Serving, Signalling, Shape
  <2>2. EndCount' /\ LastEnds'
    BY <1>0, <1>3, NoMessage DEF SWaitSemf
  <2>3. nSignalling' = nSignalling
    BY <1>3 DEF SWaitSemf, nSignalling, Signallers, Signalling
  <2>4. TokenBound'
    BY <1>0, <1>n, <1>3, <2>3 DEF SWaitSemf, TokenBound, First, Reading
  <2>5. DropDisturbsNobody'
    BY <1>0, <1>3 DEF SWaitSemf, DropDisturbsNobody
  <2>6. QED
    BY <2>1, <2>2, <2>4, <2>5
<1>4. CASE SWaitSemc
  <2>1. LifeInv'
    BY <1>0, <1>c, <1>4 DEF SWaitSemc, LifeInv, Serving, Signalling, Shape
  <2>2. EndCount' /\ LastEnds'
    BY <1>0, <1>4, NoMessage DEF SWaitSemc
  <2>3. nSignalling' = nSignalling
    BY <1>4 DEF SWaitSemc, nSignalling, Signallers, Signalling
  <2>4. TokenBound'
    BY <1>0, <1>n, <1>4, <2>3 DEF SWaitSemc, TokenBound, First, Reading
  <2>5. DropDisturbsNobody'
    BY <1>0, <1>4 DEF SWaitSemc, DropDisturbsNobody
  <2>6. QED
    BY <2>1, <2>2, <2>4, <2>5
<1>5. CASE SRead
  <2>0. /\ spc = "read" /\ Serving /\ Reading /\ clients > 0
        /\ spc' = IF clients' = 0 THEN "drop" ELSE "signal_semc"
        /\ UNCHANGED <<size, pc, done, semf, i>>
    BY <1>0, <1>5 DEF SRead, Serving, Reading, LifeInv
  <2>1. nSignalling' = nSignalling /\ nDone' = nDone
    BY <2>0 DEF nSignalling, Signallers, Signalling, nDone, DoneOnes
  <2>2. ~ Reading' /\ ~ First'
    BY <2>0 DEF Reading, First
  <2>3. CASE i = 0
    <3>1. que' = que /\ clients' = clients /\ spc' = "signal_semc"
      BY <1>5, <2>0, <2>3 DEF SRead
    <3>2. LifeInv'
      BY <1>0, <2>0, <3>1 DEF LifeInv, Serving, Signalling
    <3>3. EndCount' /\ LastEnds'
      BY <1>0, <2>0, <3>1, NoMessage
    <3>4. TokenBound'
      BY <1>0, <1>n, <2>0, <2>1, <2>2, <2>3, <3>1 DEF TokenBound, First
    <3>5. DropDisturbsNobody'
      BY <3>1 DEF DropDisturbsNobody
    <3>6. QED
      BY <3>2, <3>3, <3>4, <3>5
  <2>4. CASE i # 0
    <3>0. que # << >> /\ que' = Tail(que) /\ que \in Seq(Messages)
      BY <1>0, <1>5, <2>4 DEF SRead, Shape
    <3>1. clients' = IF Head(que) = EndMsg THEN clients - 1 ELSE clients
      <4>1. Head(que)[1] = -1 <=> Head(que) = EndMsg
        <5>1. Head(que) \in Messages
          BY <3>0, EndsTail
        <5>2. QED
          BY <5>1 DEF Messages, EndMsg
      <4>2. QED
        BY <1>5, <2>4, <4>1 DEF SRead
    <3>2. /\ Len(que') = Len(que) - 1
          /\ nEnds' = nEnds - (IF Head(que) = EndMsg THEN 1 ELSE 0)
          /\ nEnds' \in Nat
      <4>1. nEnds = Cardinality(Ends(que)) /\ nEnds' = Cardinality(Ends(Tail(que)))
        BY <3>0 DEF nEnds, Ends
      <4>2. QED
        BY <1>n, <3>0, <4>1, EndsTail
    <3>3. EndCount'
      BY <1>0, <1>n, <2>1, <3>1, <3>2 DEF EndCount
    <3>4. TokenBound'
      BY <1>0, <1>n, <2>0, <2>1, <2>2, <2>4, <3>2 DEF TokenBound, First
    <3>5. que' # << >> => que'[Len(que')] = que[Len(que)]
      BY <3>0, EndsTail
    <3>6. LastEnds'
      BY <1>0, <2>0, <3>0, <3>5 DEF LastEnds
    <3>7. LifeInv'
      <4>1. spc' # "fork"
        BY <2>0
      <4>2. Serving' => clients' > 0
        BY <1>n, <2>0, <3>1 DEF Serving
      <4>3. QED
        BY <1>0, <2>0, <4>1, <4>2 DEF LifeInv, Signalling
    <3>8. DropDisturbsNobody'
      <4> SUFFICES ASSUME clients' = 0
                   PROVE  que' = << >> /\ \A a \in Clients : pc'[a] \in {"sleep", "gone"}
        BY <2>0 DEF DropDisturbsNobody
      <4>1. nDone = N /\ nEnds' = 0
        BY <1>n, <2>1, <3>2, <3>3 DEF EndCount
      <4>2. \A a \in Clients : done[a]
        BY <1>n, <4>1
      <4>3. que' \in Seq(Messages) /\ Len(que') \in Nat /\ (que' # << >> => Len(que') > 0)
        BY <3>0, EndsTail, LenProperties, EmptySeq
      <4>4. que' = << >>
        <5>1. ASSUME que' # << >> PROVE FALSE
          <6>1. que'[Len(que')] = EndMsg
            BY <2>0, <3>6, <4>2, <5>1 DEF LastEnds
          <6>2. Len(que') \in Ends(que')
            BY <4>3, <5>1, <6>1 DEF Ends
          <6>3. IsFiniteSet(Ends(que'))
            <7>1. EndMsg \in Messages
              BY DEF Messages
            <7>2. QED
              BY <4>3, <7>1, EndsAppend
          <6>4. Cardinality(Ends(que')) = 0
            BY <4>1 DEF nEnds, Ends
          <6>5. QED
            BY <6>2, <6>3, <6>4, FS_EmptySet
        <5>2. QED
          BY <5>1
      <4>5. Len(que') = 0
        BY <4>4, EmptySeq
      <4>6. nSignalling = 0
        BY <1>0, <1>n, <2>0, <2>1, <2>2, <3>4, <4>5 DEF TokenBound
      <4>7. Signallers = {}
        <5>1. Signallers \in SUBSET Clients /\ IsFiniteSet(Clients)
          BY CopyAssumption, FS_Interval DEF Signallers, Clients
        <5>2. IsFiniteSet(Signallers)
          BY <5>1, FS_Subset
        <5>3. QED
          BY <4>6, <5>2, FS_EmptySet DEF nSignalling
      <4>8. \A a \in Clients : pc[a] \in {"sleep", "gone"}
        BY <1>0, <4>2, <4>7 DEF LifeInv, Signallers
      <4>9. QED
        BY <2>0, <4>4, <4>8
    <3>9. QED
      BY <3>3, <3>4, <3>6, <3>7, <3>8
  <2>5. QED
    BY <2>3, <2>4
<1>6. CASE SSignalSemc
  <2>1. LifeInv'
    BY <1>0, <1>c, <1>6 DEF SSignalSemc, LifeInv, Serving, Signalling, Shape
  <2>2. EndCount' /\ LastEnds'
    BY <1>0, <1>6, NoMessage DEF SSignalSemc
  <2>3. nSignalling' = nSignalling
    BY <1>6 DEF SSignalSemc, nSignalling, Signallers, Signalling
  <2>4. TokenBound'
    BY <1>0, <1>n, <1>6, <2>3 DEF SSignalSemc, TokenBound, First, Reading
  <2>5. DropDisturbsNobody'
    BY <1>0, <1>6 DEF SSignalSemc, DropDisturbsNobody
  <2>6. QED
    BY <2>1, <2>2, <2>4, <2>5
<1>7. CASE SSignalSems
  <2>1. LifeInv'
    BY <1>0, <1>c, <1>7 DEF SSignalSems, LifeInv, Serving, Signalling, Shape
  <2>2. EndCount' /\ LastEnds'
    BY <1>0, <1>7, NoMessage DEF SSignalSems
  <2>3. nSignalling' = nSignalling
    BY <1>7 DEF SSignalSems, nSignalling, Signallers, Signalling
  <2>4. TokenBound'
    BY <1>0, <1>n, <1>7, <2>3 DEF SSignalSems, TokenBound, First, Reading
  <2>5. DropDisturbsNobody'
    BY <1>0, <1>7 DEF SSignalSems, DropDisturbsNobody
  <2>6. QED
    BY <2>1, <2>2, <2>4, <2>5
<1>8. CASE SDrop
  <2>1. LifeInv'
    BY <1>0, <1>c, <1>8 DEF SDrop, LifeInv, Serving, Signalling, Shape
  <2>2. EndCount' /\ LastEnds'
    BY <1>0, <1>8, NoMessage DEF SDrop
  <2>3. nSignalling' = nSignalling
    BY <1>8 DEF SDrop, nSignalling, Signallers, Signalling
  <2>4. TokenBound'
    BY <1>0, <1>n, <1>8, <2>3 DEF SDrop, TokenBound, First, Reading
  <2>5. DropDisturbsNobody'
    BY <1>0, <1>8 DEF SDrop, DropDisturbsNobody
  <2>6. QED
    BY <2>1, <2>2, <2>4, <2>5
<1>9. CASE SExit
  <2>1. LifeInv'
    BY <1>0, <1>c, <1>9 DEF SExit, LifeInv, Serving, Signalling, Shape
  <2>2. EndCount' /\ LastEnds'
    BY <1>0, <1>9, NoMessage DEF SExit
  <2>3. nSignalling' = nSignalling
    BY <1>9 DEF SExit, nSignalling, Signallers, Signalling
  <2>4. TokenBound'
    BY <1>0, <1>n, <1>9, <2>3 DEF SExit, TokenBound, First, Reading
  <2>5. DropDisturbsNobody'
    BY <1>0, <1>9 DEF SExit, DropDisturbsNobody
  <2>6. QED
    BY <2>1, <2>2, <2>4, <2>5
<1>10. QED
  BY <1>1, <1>2, <1>3, <1>4, <1>5, <1>6, <1>7, <1>8, <1>9 DEF Server

LEMMA DropStep ==
    ASSUME DropInv, [Next]_vars
    PROVE  DropInv'
<1>1. CASE Server
  BY <1>1, ServerShape, ServerDrops DEF DropInv
<1>2. ASSUME NEW a \in Clients, Client(a) \/ CExit(a) PROVE DropInv'
  BY <1>2, ClientShape, ClientDrops DEF DropInv
<1>3. CASE UNCHANGED vars
  BY <1>3 DEF vars, DropInv, Shape, LifeInv, EndCount, TokenBound, LastEnds,
       DropDisturbsNobody, Serving, First, Signalling, Reading, nDone, nSignalling,
       nEnds, DoneOnes, Signallers, OutLast
<1>4. QED
  BY <1>1, <1>2, <1>3 DEF Next

LEMMA DropStart == Init => DropInv
<1> SUFFICES ASSUME Init PROVE DropInv
  OBVIOUS
<1>c. /\ N \in Nat /\ N > 0 /\ BUFS \in Nat /\ Sizes \subseteq Nat
      /\ \A a \in Clients : a \in Nat /\ a < N
  BY CopyAssumption DEF Clients
<1>e. que \in Seq(Messages) /\ Len(que) = 0 /\ que = << >>
  BY EmptySeq DEF Init
<1>1. Shape
  <2>1. size \in Nat /\ spc \in SLabels /\ i \in Nat /\ clients \in Int
    BY <1>c DEF Init, SLabels
  <2>2. sems \in Nat /\ semc \in Nat /\ semf \in Nat /\ early \in BOOLEAN
    BY DEF Init
  <2>3. pc \in [Clients -> CLabels]
    BY DEF Init, CLabels
  <2>4. part \in [Clients -> Nat] /\ done \in [Clients -> BOOLEAN]
    BY DEF Init
  <2>5. buff = [j \in 0 .. BUFS - 1 |-> buff[j]]
    BY DEF Init
  <2>6. out = [k \in 0 .. OutLast |-> out[k]]
    BY DEF Init
  <2>7. QED
    BY <1>e, <2>1, <2>2, <2>3, <2>4, <2>5, <2>6 DEF Shape
<1>2. LifeInv
  BY <1>c DEF Init, LifeInv, Serving, Signalling
<1>3. DoneOnes = {} /\ Signallers = {} /\ Ends(que) = {}
  BY <1>e DEF Init, DoneOnes, Signallers, Signalling, Ends
<1>4. nDone = 0 /\ nSignalling = 0 /\ nEnds = 0
  BY <1>3, FS_EmptySet DEF nDone, nSignalling, nEnds
<1>5. EndCount
  BY <1>c, <1>4 DEF Init, EndCount
<1>6. TokenBound
  BY <1>e, <1>4 DEF Init, TokenBound, Reading, First
<1>7. LastEnds /\ DropDisturbsNobody
  BY DEF Init, LastEnds, DropDisturbsNobody
<1>8. QED
  BY <1>1, <1>2, <1>5, <1>6, <1>7 DEF DropInv

(* The server removes semaphores and queue only when nothing is left in    *)
(* the queue and every client is past its last use of them, whoever exits  *)
(* when, and whatever is undone then (mutcopy.c:103-110).                  *)
THEOREM RemovalIsLast == Spec => []DropDisturbsNobody
<1>1. DropInv => DropDisturbsNobody
  BY DEF DropInv
<1>2. QED
  BY DropStart, DropStep, <1>1, PTL DEF Spec

-----------------------------------------------------------------------------
(* The copy is right: there is one token, as long as nobody ends early.    *)
LEMMA ClientToken ==
    ASSUME DropInv, OneToken, NEW a \in Clients, Client(a) \/ CExit(a), ~ early'
    PROVE  OneToken'
<1> USE DEF files, semaphores
<1>0. /\ Shape /\ Len(que) \in Nat /\ (que = << >> <=> Len(que) = 0)
      /\ \A b \in Clients : pc[b] \in {"sleep", "gone"} \/ Serving
  BY CountsNat DEF DropInv, DropDisturbsNobody, Serving
<1>s. UNCHANGED <<spc, i>>
  BY DEF Client, CWaitSems, CWaitSemc, CWrite, CSignalSemc, CSignalSemf, CExit
<1>k. First' = First /\ Serves' = Serves /\ Serving' = Serving
  BY <1>s DEF First, Serves, Serving
<1>w. ASSUME NEW from, NEW to, CGoto(a, from, to)
      PROVE  /\ pc[a] = from /\ pc'[a] = to
             /\ \A b \in Clients : b # a => (Busy(b)' <=> Busy(b))
  BY <1>0, <1>w DEF CGoto, Shape, Busy
<1>h. ASSUME Busy(a)
      PROVE  /\ sems = 0 /\ semf = 0 /\ ~ Serves /\ ~ First
             /\ \A b \in Clients : Busy(b) => b = a
             /\ Len(que) = IF Signalling(a) THEN 1 ELSE 0
  <2>1. TokenAtClient
    BY <1>0, <1>h DEF OneToken, TokenInSems, TokenInSemf, TokenAtServer, NoneBusy, Busy
  <2>2. PICK c \in Clients : /\ Busy(c)
                             /\ \A b \in Clients : Busy(b) => b = c
                             /\ Len(que) = IF Signalling(c) THEN 1 ELSE 0
    BY <2>1 DEF TokenAtClient
  <2>3. c = a
    BY <1>h, <2>2
  <2>4. QED
    BY <2>1, <2>2, <2>3 DEF TokenAtClient
<1>1. CASE CWaitSems(a)
  <2>1. CGoto(a, "wait_sems", "wait_semc") /\ sems > 0 /\ sems' = sems - 1
        /\ UNCHANGED <<semf, que>>
    BY <1>1 DEF CWaitSems
  <2>2. pc[a] = "wait_sems" /\ Serving
    BY <1>0, <1>w, <2>1
  <2>3. TokenInSems
    BY <2>1, <2>2 DEF OneToken, TokenInSemf, TokenAtServer, TokenAtClient
  <2>4. Busy(a)' /\ ~ Signalling(a)' /\ \A b \in Clients : Busy(b)' => b = a
    BY <1>w, <2>1, <2>3 DEF TokenInSems, NoneBusy, Busy, Signalling
  <2>5. TokenAtClient'
    BY <1>0, <1>k, <2>1, <2>3, <2>4 DEF TokenInSems, TokenAtClient
  <2>6. QED
    BY <2>5 DEF OneToken
<1>2. CASE CWaitSemc(a)
  <2>1. CGoto(a, "wait_semc", "write") /\ UNCHANGED <<sems, semf, que>>
    BY <1>2 DEF CWaitSemc
  <2>2. Busy(a) /\ ~ Signalling(a) /\ Busy(a)' /\ ~ Signalling(a)'
    BY <1>w, <2>1 DEF Busy, Signalling
  <2>3. \A b \in Clients : Busy(b)' => b = a
    BY <1>w, <1>h, <2>1, <2>2
  <2>4. TokenAtClient'
    BY <1>k, <1>h, <2>1, <2>2, <2>3 DEF TokenAtClient
  <2>5. QED
    BY <2>4 DEF OneToken
<1>3. CASE CWrite(a)
  <2>1. CGoto(a, "write", "signal_semc") /\ UNCHANGED <<sems, semf>>
    BY <1>3 DEF CWrite
  <2>2. Busy(a) /\ ~ Signalling(a) /\ Busy(a)' /\ Signalling(a)'
    BY <1>w, <2>1 DEF Busy, Signalling
  <2>3. \A b \in Clients : Busy(b)' => b = a
    BY <1>w, <1>h, <2>1, <2>2
  <2>4. Len(que') = 1
    <3>1. Len(que) = 0
      BY <1>h, <2>2
    <3>2. PICK m \in Messages : que' = Append(que, m)
      <4>1. que' = Append(que, EndMsg) \/ que' = Append(que, <<Offset(a), To(a)>>)
        BY <1>3 DEF CWrite, EndMsg
      <4>2. QED
        BY <1>0, <4>1, SendsMessage
    <3>3. que \in Seq(Messages)
      BY <1>0 DEF Shape
    <3>4. QED
      BY <3>1, <3>2, <3>3, AppendProperties
  <2>5. TokenAtClient'
    BY <1>k, <1>h, <2>1, <2>2, <2>3, <2>4 DEF TokenAtClient
  <2>6. QED
    BY <2>5 DEF OneToken
<1>4. CASE CSignalSemc(a)
  <2>1. CGoto(a, "signal_semc", "signal_semf") /\ UNCHANGED <<sems, semf, que>>
    BY <1>4 DEF CSignalSemc
  <2>2. Busy(a) /\ Signalling(a) /\ Busy(a)' /\ Signalling(a)'
    BY <1>w, <2>1 DEF Busy, Signalling
  <2>3. \A b \in Clients : Busy(b)' => b = a
    BY <1>w, <1>h, <2>1, <2>2
  <2>4. TokenAtClient'
    BY <1>k, <1>h, <2>1, <2>2, <2>3 DEF TokenAtClient
  <2>5. QED
    BY <2>4 DEF OneToken
<1>5. CASE CSignalSemf(a)
  <2>1. PICK to \in {"sleep", "wait_sems"} : CGoto(a, "signal_semf", to)
    BY <1>5 DEF CSignalSemf
  <2>2. UNCHANGED <<sems, que>> /\ semf' = semf + 1
    BY <1>5 DEF CSignalSemf
  <2>3. Busy(a) /\ Signalling(a) /\ ~ Busy(a)'
    BY <1>w, <2>1 DEF Busy, Signalling
  <2>4. NoneBusy'
    BY <1>w, <1>h, <2>1, <2>3 DEF NoneBusy
  <2>5. TokenInSemf'
    BY <1>k, <1>h, <2>2, <2>3, <2>4 DEF TokenInSemf
  <2>6. QED
    BY <2>5 DEF OneToken
<1>6. CASE CExit(a)
  <2>1. ~ Serving
    BY <1>6 DEF CExit, Serving
  <2>2. QED
    BY <1>k, <2>1 DEF OneToken
<1>7. QED
  BY <1>1, <1>2, <1>3, <1>4, <1>5, <1>6 DEF Client

LEMMA ServerToken ==
    ASSUME DropInv, OneToken, Server
    PROVE  OneToken'
<1> USE DEF SGoto, files, semaphores
<1>0. Shape /\ LifeInv /\ Len(que) \in Nat /\ (que = << >> <=> Len(que) = 0)
  BY CountsNat DEF DropInv
<1>q. UNCHANGED pc => (NoneBusy' <=> NoneBusy)
  BY DEF NoneBusy, Busy
<1>1. CASE SFork
  <2>1. TokenInSemf /\ First /\ First'
    BY <1>1 DEF SFork, OneToken, Serving, First, TokenInSems, TokenAtServer,
         TokenAtClient, Serves
  <2>2. NoneBusy'
    BY <1>0, <1>1, <2>1 DEF SFork, TokenInSemf, NoneBusy, Busy, Shape
  <2>3. TokenInSemf'
    BY <1>1, <2>1, <2>2 DEF SFork, TokenInSemf, Serves
  <2>4. QED
    BY <2>3 DEF OneToken
<1>2. CASE SForked
  <2>1. TokenInSemf /\ First /\ First'
    BY <1>2 DEF SForked, OneToken, Serving, First, TokenInSems, TokenAtServer,
         TokenAtClient, Serves
  <2>2. TokenInSemf'
    BY <1>q, <1>2, <2>1 DEF SForked, TokenInSemf, Serves
  <2>3. QED
    BY <2>2 DEF OneToken
<1>3. CASE SWaitSemf
  <2>1. TokenInSemf /\ semf' = 0
    BY <1>3 DEF SWaitSemf, OneToken, Serving, TokenInSems, TokenInSemf, TokenAtServer,
         TokenAtClient
  <2>2. (First' <=> First) /\ Reading' /\ Serves'
    BY <1>3 DEF SWaitSemf, First, Reading, Serves
  <2>3. TokenAtServer'
    BY <1>q, <1>3, <2>1, <2>2 DEF SWaitSemf, TokenInSemf, TokenAtServer
  <2>4. QED
    BY <2>3 DEF OneToken
<1>4. CASE SWaitSemc
  <2>1. TokenAtServer
    BY <1>4 DEF SWaitSemc, OneToken, Serving, Serves, TokenInSems, TokenInSemf,
         TokenAtClient
  <2>2. (First' <=> First) /\ Reading /\ Reading' /\ Serves'
    BY <1>4 DEF SWaitSemc, First, Reading, Serves
  <2>3. TokenAtServer'
    BY <1>q, <1>4, <2>1, <2>2 DEF SWaitSemc, TokenAtServer
  <2>4. QED
    BY <2>3 DEF OneToken
<1>5. CASE SRead
  <2>0. spc = "read" /\ UNCHANGED <<pc, sems, semf, i>>
        /\ spc' = IF clients' = 0 THEN "drop" ELSE "signal_semc"
    BY <1>5 DEF SRead
  <2>1. TokenAtServer /\ Reading
    BY <2>0 DEF OneToken, Serving, Serves, Reading, TokenInSems, TokenInSemf,
         TokenAtClient
  <2>2. Len(que') = 0
    <3>1. CASE i = 0
      <4>1. First /\ que' = que
        BY <1>5, <2>0, <3>1 DEF SRead, First
      <4>2. QED
        BY <2>1, <4>1 DEF TokenAtServer
    <3>2. CASE i # 0
      <4>1. ~ First /\ que # << >> /\ que' = Tail(que) /\ que \in Seq(Messages)
        BY <1>0, <1>5, <2>0, <3>2 DEF SRead, First, Shape
      <4>2. Len(que) = 1
        BY <2>1, <4>1 DEF TokenAtServer
      <4>3. QED
        BY <4>1, <4>2, EndsTail
    <3>3. QED
      BY <3>1, <3>2
  <2>3. ASSUME Serving' PROVE TokenAtServer'
    <3>1. spc' = "signal_semc"
      BY <2>0, <2>3 DEF Serving
    <3>2. Serves' /\ ~ Reading'
      BY <3>1 DEF Serves, Reading
    <3>3. QED
      BY <1>q, <2>0, <2>1, <2>2, <3>2 DEF TokenAtServer
  <2>4. QED
    BY <2>3 DEF OneToken
<1>6. CASE SSignalSemc
  <2>1. TokenAtServer
    BY <1>6 DEF SSignalSemc, OneToken, Serving, Serves, TokenInSems, TokenInSemf,
         TokenAtClient
  <2>2. ~ Reading /\ ~ Reading' /\ Serves'
    BY <1>6 DEF SSignalSemc, Reading, Serves
  <2>3. TokenAtServer'
    BY <1>q, <1>6, <2>1, <2>2 DEF SSignalSemc, TokenAtServer
  <2>4. QED
    BY <2>3 DEF OneToken
<1>7. CASE SSignalSems
  <2>1. TokenAtServer
    BY <1>7 DEF SSignalSems, OneToken, Serving, Serves, TokenInSems, TokenInSemf,
         TokenAtClient
  <2>2. ~ Reading /\ ~ Serves' /\ ~ First'
    BY <1>7 DEF SSignalSems, Reading, Serves, First
  <2>3. sems' = 1 /\ semf' = 0 /\ que' = << >>
    BY <1>0, <1>7, <2>1, <2>2 DEF SSignalSems, TokenAtServer
  <2>4. TokenInSems'
    BY <1>q, <1>7, <2>1, <2>2, <2>3 DEF SSignalSems, TokenAtServer, TokenInSems
  <2>5. QED
    BY <2>4 DEF OneToken
<1>8. CASE SDrop
  BY <1>8 DEF SDrop, OneToken, Serving
<1>9. CASE SExit
  BY <1>9 DEF SExit, OneToken, Serving
<1>10. QED
  BY <1>1, <1>2, <1>3, <1>4, <1>5, <1>6, <1>7, <1>8, <1>9 DEF Server

-----------------------------------------------------------------------------
(* What is sent arrives: steps of clients.                                 *)
LEMMA ClientSends ==
    ASSUME DropInv, OneToken, ChunkInv, SentArrives, EmptyStays,
           NEW a \in Clients, Client(a) \/ CExit(a)
    PROVE  ChunkInv' /\ SentArrives' /\ EmptyStays'
<1> USE DEF files, semaphores
<1>0. /\ Shape /\ Len(que) \in Nat /\ (que = << >> <=> Len(que) = 0)
      /\ size \in Nat /\ BUFS \in Nat /\ BUFS > 0
      /\ \A b \in Clients : pc[b] \in {"sleep", "gone"} \/ Serving
  BY CountsNat DEF DropInv, DropDisturbsNobody, Serving, Shape
<1>s. UNCHANGED <<size, out>>
  BY DEF Client, CWaitSems, CWaitSemc, CWrite, CSignalSemc, CSignalSemf, CExit
<1>e. EmptyStays'
  BY <1>s DEF EmptyStays
<1>w. ASSUME NEW from, NEW to, CGoto(a, from, to)
      PROVE  /\ pc[a] = from /\ pc'[a] = to
             /\ \A b \in Clients : b # a => pc'[b] = pc[b]
  BY <1>0, <1>w DEF CGoto, Shape
\* Steps that neither send nor count a part.
<1>1. ASSUME UNCHANGED <<que, buff, part, done>>,
             Signalling(a)' => Signalling(a),
             \A b \in Clients : b # a => pc'[b] = pc[b]
      PROVE  ChunkInv' /\ SentArrives'
  <2>1. ChunkInv'
    BY <1>s, <1>1 DEF ChunkInv, InQueue
  <2>2. ASSUME NEW b \in Clients, NEW k \in Nat, Sent(b, k)'
        PROVE  out'[k] = Input(k) \/ InQueue(k)'
    <3>1. Signalling(b)' => Signalling(b)
      BY <1>1 DEF Signalling
    <3>2. Sent(b, k)
      BY <1>s, <1>1, <2>2, <3>1 DEF Sent, Start, End, Offset
    <3>3. out[k] = Input(k) \/ InQueue(k)
      BY <3>2 DEF SentArrives
    <3>4. QED
      BY <1>s, <1>1, <3>3 DEF InQueue
  <2>3. QED
    BY <2>1, <2>2 DEF SentArrives
<1>2. CASE CWaitSems(a)
  BY <1>e, <1>w, <1>1, <1>2 DEF CWaitSems, Signalling
<1>3. CASE CWaitSemc(a)
  BY <1>e, <1>w, <1>1, <1>3 DEF CWaitSemc, Signalling
<1>4. CASE CWrite(a)
  <2>w. pc[a] = "write" /\ pc'[a] = "signal_semc" /\ UNCHANGED part
    BY <1>w, <1>4 DEF CWrite
  <2>0. que = << >>
    <3>1. Busy(a) /\ ~ Signalling(a) /\ Serving
      BY <1>0, <2>w DEF Busy, Signalling
    <3>2. TokenAtClient
      BY <1>0, <3>1 DEF OneToken, TokenInSems, TokenInSemf, TokenAtServer, NoneBusy
    <3>3. Len(que) = 0
      BY <3>1, <3>2 DEF TokenAtClient
    <3>4. QED
      BY <1>0, <3>3
  <2>1. /\ Start(a) \in Nat /\ End(a) \in Nat /\ End(a) <= size
        /\ Offset(a) \in Nat /\ To(a) \in Nat
        /\ To(a) = IF Offset(a) + BUFS > End(a) THEN End(a) ELSE Offset(a) + BUFS
    BY <1>0, PartsNat DEF Shape
  <2>2. \A b \in Clients : b # a => pc'[b] = pc[b]
    BY <1>w, <1>4 DEF CWrite
  <2>3. ASSUME NEW b \in Clients, b # a, NEW k \in Nat, Sent(b, k)'
        PROVE  out'[k] = Input(k)
    <3>1. done'[b] = done[b]
      BY <1>0, <1>4, <2>3 DEF CWrite, Shape
    <3>2. Signalling(b)' <=> Signalling(b)
      BY <2>2, <2>3 DEF Signalling
    <3>3. Sent(b, k)
      BY <1>s, <2>w, <2>3, <3>1, <3>2 DEF Sent, Start, End, Offset
    <3>4. ~ InQueue(k)
      BY <2>0 DEF InQueue
    <3>5. QED
      BY <1>s, <3>3, <3>4 DEF SentArrives
  <2>4. ASSUME NEW k \in Nat, Sent(a, k)
        PROVE  out'[k] = Input(k)
    <3>1. ~ InQueue(k)
      BY <2>0 DEF InQueue
    <3>2. QED
      BY <1>s, <2>4, <3>1 DEF SentArrives
  <2>5. /\ Start(a)' = Start(a) /\ End(a)' = End(a)
        /\ \A k \in Nat : Sent(a, k)' <=> /\ Start(a) <= k /\ k < End(a)
                                          /\ done'[a] \/ k < Offset(a) + BUFS
    <3>1. Start(a)' = Start(a) /\ End(a)' = End(a) /\ Offset(a)' = Offset(a)
      BY <1>s, <2>w DEF Start, End, Offset
    <3>2. Signalling(a)'
      BY <2>w DEF Signalling
    <3>3. QED
      BY <1>0, <2>1, <3>1, <3>2 DEF Sent
  <2>6. que \in Seq(Messages)
    BY <1>0 DEF Shape
  <2>7. CASE Offset(a) > To(a)
    <3>1. que' = Append(que, EndMsg)
      BY <1>4, <2>1, <2>7 DEF CWrite, EndMsg
    <3>2. que'[1] = EndMsg
      BY <1>0, <2>0, <2>6, <3>1, SendsMessage, AppendProperties
    <3>3. ChunkInv'
      BY <3>2 DEF ChunkInv
    <3>4. ASSUME NEW k \in Nat, Sent(a, k)' PROVE out'[k] = Input(k)
      <4>1. k < Offset(a)
        BY <1>0, <2>1, <2>5, <2>7, <3>4
      <4>2. Sent(a, k)
        BY <2>5, <3>4, <4>1 DEF Sent
      <4>3. QED
        BY <2>4, <4>2
    <3>5. SentArrives'
      BY <2>3, <3>4 DEF SentArrives
    <3>6. QED
      BY <1>e, <3>3, <3>5
  <2>8. CASE ~ (Offset(a) > To(a))
    <3>1. /\ que' = Append(que, <<Offset(a), To(a)>>)
          /\ done' = done
          /\ buff' = [j \in DOMAIN buff |-> IF Offset(a) + j < To(a) THEN Input(Offset(a) + j)
                                                                     ELSE buff[j]]
      BY <1>4, <2>1, <2>8 DEF CWrite
    <3>2. que'[1] = <<Offset(a), To(a)>> /\ que' # << >>
      <4>1. Len(que') = 1 /\ que'[1] = <<Offset(a), To(a)>>
        BY <1>0, <2>0, <2>6, <3>1, SendsMessage, AppendProperties
      <4>2. QED
        BY <4>1, EmptySeq
    <3>3. \A k \in Nat : InQueue(k)' <=> Offset(a) <= k /\ k < To(a)
      <4>1. <<Offset(a), To(a)>> # EndMsg
        BY <1>0, SendsMessage
      <4>2. QED
        BY <3>2, <4>1 DEF InQueue
    <3>4. ChunkInv'
      <4>1. ASSUME NEW k \in Nat, InQueue(k)'
            PROVE  buff'[k - Offset(a)] = Input(k)
        <5>1. Offset(a) <= k /\ k < To(a) /\ k < Offset(a) + BUFS
          BY <1>0, <2>1, <3>3, <4>1
        <5>2. k - Offset(a) \in 0 .. BUFS - 1 /\ Offset(a) + (k - Offset(a)) = k
          BY <1>0, <2>1, <5>1
        <5>3. DOMAIN buff = 0 .. BUFS - 1
          BY <1>0 DEF Shape
        <5>4. QED
          BY <3>1, <5>1, <5>2, <5>3
      <4>2. To(a) <= size
        BY <1>0, <2>1
      <4>3. QED
        BY <1>s, <3>2, <4>1, <4>2 DEF ChunkInv
    <3>5. ASSUME NEW k \in Nat, Sent(a, k)' PROVE out'[k] = Input(k) \/ InQueue(k)'
      <4>1. CASE Sent(a, k)
        BY <2>4, <4>1
      <4>2. CASE ~ Sent(a, k)
        <5>1. ~ (k < Offset(a)) /\ k < Offset(a) + BUFS /\ k < End(a)
          BY <2>5, <3>1, <3>5, <4>2 DEF Sent
        <5>2. QED
          BY <1>0, <2>1, <3>3, <5>1
      <4>3. QED
        BY <4>1, <4>2
    <3>6. SentArrives'
      BY <2>3, <3>5 DEF SentArrives
    <3>7. QED
      BY <1>e, <3>4, <3>6
  <2>9. QED
    BY <2>7, <2>8
<1>5. CASE CSignalSemc(a)
  BY <1>e, <1>w, <1>1, <1>5 DEF CSignalSemc, Signalling
<1>6. CASE CSignalSemf(a)
  <2>0. PICK to \in {"sleep", "wait_sems"} : CGoto(a, "signal_semf", to)
    BY <1>6 DEF CSignalSemf
  <2>w. pc[a] = "signal_semf" /\ ~ Signalling(a)' /\ \A b \in Clients : b # a => pc'[b] = pc[b]
    BY <1>w, <2>0 DEF Signalling
  <2>1. UNCHANGED <<que, buff, done>> /\ part' = [part EXCEPT ![a] = @ + 1]
    BY <1>6 DEF CSignalSemf
  <2>2. ChunkInv'
    BY <1>s, <2>1 DEF ChunkInv, InQueue
  <2>3. Offset(a)' = Offset(a) + BUFS /\ Offset(a) \in Nat
    <3>1. part[a] \in Nat /\ part'[a] = part[a] + 1
      BY <1>0, <2>1 DEF Shape
    <3>2. Start(a) \in Nat /\ BUFS * part[a] \in Nat /\ Offset(a) = Start(a) + BUFS * part[a]
          /\ Offset(a) \in Nat
      BY <1>0, PartsNat DEF Shape
    <3>3. BUFS * (part[a] + 1) = BUFS * part[a] + BUFS
      BY <1>0, <3>1
    <3>4. Offset(a)' = Start(a) + BUFS * (part[a] + 1)
      BY <1>s, <3>1 DEF Offset, Start
    <3>5. QED
      BY <1>0, <3>2, <3>3, <3>4
  <2>4. ASSUME NEW b \in Clients, NEW k \in Nat, Sent(b, k)'
        PROVE  Sent(b, k)
    <3>1. CASE b = a
      <4>1. Signalling(a)
        BY <2>w DEF Signalling
      <4>2. QED
        BY <1>s, <2>w, <2>1, <2>3, <2>4, <3>1, <4>1 DEF Sent, Start, End
    <3>2. CASE b # a
      <4>1. part'[b] = part[b] /\ pc'[b] = pc[b]
        BY <1>0, <2>w, <2>1, <3>2 DEF Shape
      <4>2. QED
        BY <1>s, <2>1, <2>4, <4>1 DEF Sent, Start, End, Offset, Signalling
    <3>3. QED
      BY <3>1, <3>2
  <2>5. SentArrives'
    BY <1>s, <2>1, <2>4 DEF SentArrives, InQueue
  <2>6. QED
    BY <1>e, <2>2, <2>5
<1>7. CASE CExit(a)
  BY <1>e, <1>w, <1>1, <1>7 DEF CExit, Signalling
<1>8. QED
  BY <1>2, <1>3, <1>4, <1>5, <1>6, <1>7 DEF Client

(* What is sent arrives: steps of the server.                              *)
LEMMA ServerReads ==
    ASSUME DropInv, OneToken, ChunkInv, SentArrives, EmptyStays, Server
    PROVE  ChunkInv' /\ SentArrives' /\ EmptyStays'
<1> USE DEF SGoto, files, semaphores
<1>0. Shape /\ LifeInv /\ Len(que) \in Nat /\ (que = << >> <=> Len(que) = 0)
  BY CountsNat DEF DropInv
<1>s. UNCHANGED <<size, buff, part, done>>
  BY DEF Server, SFork, SForked, SWaitSemf, SWaitSemc, SRead, SSignalSemc,
         SSignalSems, SDrop, SExit
<1>p. ASSUME NEW b \in Clients PROVE Signalling(b)' => Signalling(b)
  <2>1. CASE SFork
    <3>1. pc'[b] = pc[b] \/ pc'[b] = "wait_sems"
      BY <1>0, <2>1 DEF SFork, Shape
    <3>2. QED
      BY <3>1 DEF Signalling
  <2>2. CASE ~ SFork
    <3>1. pc' = pc
      BY <2>2 DEF Server, SForked, SWaitSemf, SWaitSemc, SRead, SSignalSemc,
                  SSignalSems, SDrop, SExit
    <3>2. QED
      BY <3>1 DEF Signalling
  <2>3. QED
    BY <2>1, <2>2
<1>k. ASSUME NEW b \in Clients, NEW k \in Nat, Sent(b, k)'
      PROVE  out[k] = Input(k) \/ InQueue(k)
  <2>1. Sent(b, k)
    BY <1>s, <1>p, <1>k DEF Sent, Start, End, Offset
  <2>2. QED
    BY <2>1 DEF SentArrives
<1>1. CASE UNCHANGED <<que, out>>
  <2>1. ChunkInv' /\ EmptyStays'
    BY <1>s, <1>1 DEF ChunkInv, EmptyStays, InQueue
  <2>2. SentArrives'
    BY <1>k, <1>1 DEF SentArrives, InQueue
  <2>3. QED
    BY <2>1, <2>2
<1>2. CASE ~ (UNCHANGED <<que, out>>)
  <2>1. SRead
    BY <1>2 DEF Server, SFork, SForked, SWaitSemf, SWaitSemc, SSignalSemc,
                SSignalSems, SDrop, SExit
  <2>2. /\ spc = "read" /\ i # 0 /\ que # << >> /\ que' = Tail(que)
        /\ out' = IF Head(que)[1] = -1 THEN out
                  ELSE [k \in DOMAIN out |-> IF k \in Head(que)[1] .. Head(que)[2] - 1
                                             THEN buff[k - Head(que)[1]] ELSE out[k]]
    BY <1>2, <2>1 DEF SRead
  <2>3. que \in Seq(Messages) /\ Head(que) = que[1] /\ Head(que) \in Messages
    BY <1>0, <2>2, EndsTail DEF Shape
  <2>4. que' = << >>
    <3>1. TokenAtServer /\ Reading /\ ~ First
      BY <2>2 DEF OneToken, Serving, Serves, Reading, First, TokenInSems, TokenInSemf,
           TokenAtClient
    <3>2. Len(que) = 1
      BY <3>1 DEF TokenAtServer
    <3>3. Tail(que) \in Seq(Messages) /\ Len(Tail(que)) = 0
      BY <2>2, <2>3, <3>2, EndsTail
    <3>4. QED
      BY <2>2, <3>3, EmptySeq
  <2>5. ChunkInv'
    BY <2>4 DEF ChunkInv
  <2>6. CASE que[1] = EndMsg
    <3>1. out' = out
      BY <2>2, <2>3, <2>6 DEF EndMsg
    <3>2. \A k \in Nat : ~ InQueue(k)
      BY <2>6 DEF InQueue
    <3>3. SentArrives'
      BY <1>k, <3>1, <3>2 DEF SentArrives
    <3>4. EmptyStays'
      BY <1>s, <3>1 DEF EmptyStays
    <3>5. QED
      BY <2>5, <3>3, <3>4
  <2>7. CASE que[1] # EndMsg
    <3>0. PICK from \in Nat, to \in Nat : que[1] = <<from, to>>
      BY <2>3, <2>7 DEF Messages
    <3>1. out' = [k \in DOMAIN out |-> IF k \in from .. to - 1 THEN buff[k - from]
                                                              ELSE out[k]]
      <4>1. Head(que)[1] = from /\ Head(que)[2] = to /\ from # -1
        BY <2>3, <3>0
      <4>2. QED
        BY <2>2, <4>1
    <3>2. \A k \in Nat : InQueue(k) <=> from <= k /\ k < to
      BY <2>2, <2>7, <3>0 DEF InQueue
    <3>3. to <= size /\ \A k \in Nat : InQueue(k) => buff[k - from] = Input(k)
      BY <2>2, <2>7, <3>0 DEF ChunkInv
    <3>4. DOMAIN out = 0 .. OutLast /\ size \in Nat
      BY <1>0 DEF Shape
    <3>5. ASSUME NEW b \in Clients, NEW k \in Nat, Sent(b, k)'
          PROVE  out'[k] = Input(k)
      <4>1. End(b) <= size /\ End(b) \in Nat /\ k < End(b)
        <5>1. k < End(b)
          BY <1>s, <3>5 DEF Sent, End
        <5>2. QED
          BY <1>0, <5>1, PartsNat DEF Shape
      <4>2. k \in DOMAIN out
        BY <3>4, <4>1 DEF OutLast
      <4>3. CASE InQueue(k)
        <5>1. k \in from .. to - 1
          BY <3>2, <4>3
        <5>2. QED
          BY <3>1, <3>3, <4>2, <4>3, <5>1
      <4>4. CASE ~ InQueue(k)
        <5>1. k \notin from .. to - 1
          BY <3>2, <4>4
        <5>2. QED
          BY <1>k, <3>1, <3>5, <4>2, <4>4, <5>1
      <4>5. QED
        BY <4>3, <4>4
    <3>6. SentArrives'
      BY <3>5 DEF SentArrives
    <3>7. EmptyStays'
      <4>1. ASSUME size = 0 PROVE out'[0] = out[0]
        <5>1. 0 \in DOMAIN out /\ 0 \notin from .. to - 1
          BY <3>3, <3>4, <4>1 DEF OutLast
        <5>2. QED
          BY <3>1, <5>1
      <4>2. QED
        BY <1>s, <4>1 DEF EmptyStays
    <3>8. QED
      BY <2>5, <3>6, <3>7
  <2>8. QED
    BY <2>6, <2>7
<1>3. QED
  BY <1>1, <1>2

CopyIInv == DropInv /\ CopyInv

LEMMA CopyStep ==
    ASSUME CopyIInv, [Next]_vars
    PROVE  CopyIInv'
<1>0. DropInv /\ DropInv'
  BY DropStep DEF CopyIInv
<1>1. CASE UNCHANGED vars
  BY <1>0, <1>1 DEF CopyIInv, vars, CopyInv, OneToken, ChunkInv, SentArrives, EmptyStays,
       Serving, TokenInSems, TokenInSemf, TokenAtServer, TokenAtClient, NoneBusy, Busy,
       Signalling, Serves, Reading, First, InQueue, Sent, Start, End, Offset
<1>2. CASE ~ UNCHANGED vars
  <2> SUFFICES ASSUME ~ early' PROVE OneToken' /\ ChunkInv' /\ SentArrives' /\ EmptyStays'
    BY <1>0 DEF CopyIInv, CopyInv
  <2>1. Server \/ \E a \in Clients : Client(a) \/ CExit(a)
    BY <1>2 DEF Next
  <2>2. ~ early
    <3>1. early' = early \/ early' = TRUE \/ early' = (early \/ spc # "drop")
      BY <2>1 DEF Server, SFork, SForked, SWaitSemf, SWaitSemc, SRead, SSignalSemc,
           SSignalSems, SDrop, SExit, Client, CWaitSems, CWaitSemc, CWrite, CSignalSemc,
           CSignalSemf, CExit
    <3>2. QED
      BY <3>1
  <2>3. OneToken /\ ChunkInv /\ SentArrives /\ EmptyStays
    BY <2>2 DEF CopyIInv, CopyInv
  <2>4. CASE Server
    BY <1>0, <2>3, <2>4, ServerToken, ServerReads
  <2>5. ASSUME NEW a \in Clients, Client(a) \/ CExit(a)
        PROVE  OneToken' /\ ChunkInv' /\ SentArrives' /\ EmptyStays'
    BY <1>0, <2>3, <2>5, ClientToken, ClientSends
  <2>6. QED
    BY <2>1, <2>4, <2>5
<1>3. QED
  BY <1>1, <1>2

LEMMA CopyStart == Init => CopyIInv
<1> SUFFICES ASSUME Init PROVE CopyIInv
  OBVIOUS
<1>1. DropInv
  BY DropStart
<1>2. Shape /\ Len(que) = 0 /\ que = << >>
  BY <1>1, CountsNat DEF DropInv, Init
<1>3. TokenInSemf
  BY <1>2 DEF Init, TokenInSemf, NoneBusy, Busy, Serves, First
<1>4. ChunkInv
  BY <1>2 DEF ChunkInv
<1>5. ASSUME NEW a \in Clients, NEW k \in Nat PROVE ~ Sent(a, k)
  <2>1. part[a] = 0 /\ ~ done[a] /\ ~ Signalling(a)
    BY DEF Init, Signalling
  <2>2. BUFS * part[a] = 0 /\ Start(a) \in Nat
    BY <1>2, <2>1, CopyAssumption, PartsNat DEF Shape
  <2>3. Offset(a) = Start(a)
    BY <1>2, <2>2, PartsNat DEF Shape
  <2>4. QED
    BY <2>1, <2>2, <2>3 DEF Sent
<1>6. EmptyStays
  BY DEF Init, EmptyStays, OutLast
<1>7. QED
  BY <1>1, <1>3, <1>4, <1>5, <1>6 DEF CopyIInv, CopyInv, OneToken, SentArrives

(* When the server is done the copy is the input, if no client exited      *)
(* before that and every fork succeeded; for every number of clients and   *)
(* every size of file and buffer, and however the clients interleave       *)
(* (server_run, client_run).                                               *)
THEOREM CopyIsRight == Spec => []CopyCorrect
<1>1. ASSUME CopyIInv PROVE CopyCorrect
  <2> SUFFICES ASSUME spc \in {"drop", "sleep", "gone"}, ~ early
               PROVE  IF size = 0 THEN out = [k \in {0} |-> 0]
                      ELSE out = [k \in 0 .. size - 1 |-> Input(k)]
    BY DEF CopyCorrect
  <2>0. Shape /\ LifeInv /\ DropDisturbsNobody /\ SentArrives /\ EmptyStays
    BY <1>1 DEF CopyIInv, DropInv, CopyInv
  <2>1. /\ size \in Nat /\ out = [k \in 0 .. OutLast |-> out[k]]
    BY <2>0 DEF Shape
  <2>2. que = << >> /\ \A a \in Clients : done[a]
    BY <2>0 DEF DropDisturbsNobody, LifeInv
  <2>3. CASE size = 0
    <3>1. out[0] = 0 /\ 0 .. OutLast = {0}
      BY <2>0, <2>3 DEF EmptyStays, OutLast
    <3>2. QED
      BY <2>1, <2>3, <3>1
  <2>4. CASE size # 0
    <3>1. ASSUME NEW k \in 0 .. size - 1 PROVE out[k] = Input(k)
      <4>1. k \in Nat /\ k < size
        BY <2>1, <3>1
      <4>2. PICK a \in Clients : Start(a) <= k /\ k < End(a)
        BY <2>1, <4>1, PartsCover
      <4>3. Sent(a, k)
        BY <2>2, <4>2 DEF Sent
      <4>4. out[k] = Input(k) \/ InQueue(k)
        BY <2>0, <4>1, <4>3 DEF SentArrives
      <4>5. QED
        BY <2>2, <4>4 DEF InQueue
    <3>2. OutLast = size - 1
      BY <2>4 DEF OutLast
    <3>3. out = [k \in 0 .. size - 1 |-> Input(k)]
      BY <2>1, <3>1, <3>2
    <3>4. QED
      BY <2>4, <3>3
  <2>5. QED
    BY <2>3, <2>4
<1>2. QED
  BY CopyStart, CopyStep, <1>1, PTL DEF Spec
=============================================================================
