------------------------- MODULE IpcMessages_proofs --------------------------
(***************************************************************************)
(* Proofs about IpcMessages for any number of senders and receivers, any   *)
(* limits and any texts.  The numbers of a stream's messages that wait in  *)
(* the queue follow each other without a gap, from the one to be received  *)
(* next to the one to be sent next; nothing is counted, each message is    *)
(* compared with the one of its stream before it and after it.             *)
(***************************************************************************)
EXTENDS IpcMessages, SequenceTheorems, TLAPS

Messages == [from : Senders, n : Int, pri : Priorities, len : Nat]

Shape == /\ queue \in Seq(Messages)
         /\ number \in [Streams -> Int] /\ expected \in [Streams -> Int]

\* The stream of the k-th message.
From(k) == Stream(queue[k])

\* No message of k's stream is before k, or after k, or between k and l.
Oldest(k) == \A j \in 1 .. Len(queue) : j < k => From(j) # From(k)
Newest(k) == \A j \in 1 .. Len(queue) : k < j => From(j) # From(k)
Adjacent(k, l) == /\ k < l /\ From(k) = From(l)
                  /\ \A j \in 1 .. Len(queue) : k < j /\ j < l => From(j) # From(k)

NoneWait == \A s \in Streams : (\A k \in 1 .. Len(queue) : From(k) # s) => number[s] = expected[s]
OldestIsNext == \A k \in 1 .. Len(queue) : Oldest(k) => queue[k].n = expected[From(k)]
NoGap == \A k, l \in 1 .. Len(queue) : Adjacent(k, l) => queue[l].n = Next1(queue[k].n)
NewestIsLast == \A k \in 1 .. Len(queue) : Newest(k) => number[From(k)] = Next1(queue[k].n)

Numbered == ~ dropped => NoneWait /\ OldestIsNext /\ NoGap /\ NewestIsLast

(* A message that is sent goes to the end of the queue.  *)
LEMMA SendFacts ==
    ASSUME Shape, NEW s \in Senders, NEW len \in Lengths, NEW pri \in Priorities, Send(s, len, pri)
    PROVE  /\ Len(queue) \in Nat /\ Len(queue') = Len(queue) + 1 /\ queue' \in Seq(Messages)
           /\ Stream(queue'[Len(queue) + 1]) = <<s, pri>> /\ queue'[Len(queue) + 1].n = number[<<s, pri>>]
           /\ \A k \in 1 .. Len(queue) : queue'[k] = queue[k] /\ From(k) \in Streams
           /\ number' \in [Streams -> Int]
           /\ number'[<<s, pri>>] = Next1(number[<<s, pri>>]) /\ \A t \in Streams : t # <<s, pri>> => number'[t] = number[t]
           /\ UNCHANGED <<dropped, expected>> /\ ~ dropped
<1> DEFINE m == [from |-> s, n |-> number[<<s, pri>>], pri |-> pri, len |-> len]
<1>0. <<s, pri>> \in Streams /\ number[<<s, pri>>] \in Int
  BY DEF Streams, Shape
<1>1. m \in Messages
  BY <1>0, MessagesAssumption DEF Messages
<1>2. queue' = Append(queue, m) /\ number' = [number EXCEPT ![<<s, pri>>] = Next1(@)]
      /\ UNCHANGED <<dropped, expected>> /\ ~ dropped
  BY DEF Send
<1>3. Next1(number[<<s, pri>>]) \in Int
  BY <1>0, MessagesAssumption DEF Next1, Modulus
<1>4. \A k \in 1 .. Len(queue) : From(k) \in Streams
  <2>1. \A k \in 1 .. Len(queue) : queue[k] \in Messages
    BY ElementOfSeq DEF Shape
  <2> QED
    BY <2>1 DEF From, Stream, Streams, Messages
<1>5. Stream(m) = <<s, pri>> /\ m.n = number[<<s, pri>>]
  BY DEF Stream
<1> HIDE DEF m
<1>6. /\ Len(queue) \in Nat /\ Len(queue') = Len(queue) + 1 /\ queue' \in Seq(Messages)
      /\ queue'[Len(queue) + 1] = m /\ \A k \in 1 .. Len(queue) : queue'[k] = queue[k]
  BY <1>1, <1>2, AppendProperties, LenProperties DEF Shape
<1> QED
  BY <1>0, <1>2, <1>3, <1>4, <1>5, <1>6 DEF Shape

LEMMA SendStep ==
    ASSUME Shape, Numbered, NEW s \in Senders, NEW len \in Lengths, NEW pri \in Priorities,
           Send(s, len, pri)
    PROVE  Shape' /\ Numbered'
<1> DEFINE n == Len(queue)
<1>1. /\ n \in Nat /\ Len(queue') = n + 1 /\ queue' \in Seq(Messages)
      /\ Stream(queue'[n + 1]) = <<s, pri>> /\ queue'[n + 1].n = number[<<s, pri>>]
      /\ \A k \in 1 .. n : queue'[k] = queue[k] /\ From(k) \in Streams
      /\ number' \in [Streams -> Int]
      /\ number'[<<s, pri>>] = Next1(number[<<s, pri>>]) /\ \A t \in Streams : t # <<s, pri>> => number'[t] = number[t]
      /\ UNCHANGED <<dropped, expected>> /\ ~ dropped
  BY SendFacts
<1>2. NoneWait /\ OldestIsNext /\ NoGap /\ NewestIsLast
  BY <1>1 DEF Numbered
<1>3. /\ \A k \in 1 .. n : From(k)' = From(k)
      /\ \A k : k \in 1 .. n + 1 <=> k \in 1 .. n \/ k = n + 1
  BY <1>1 DEF From
<1>4. Stream(queue'[n + 1]) = <<s, pri>>
  BY <1>1
<1>5. NoneWait'
  <2> SUFFICES ASSUME NEW t \in Streams, \A k \in 1 .. n + 1 : Stream(queue'[k]) # t
               PROVE  number'[t] = expected'[t]
    BY <1>1 DEF NoneWait, From
  <2>1. t # <<s, pri>> /\ \A k \in 1 .. n : From(k) # t
    BY <1>1, <1>3 DEF From
  <2> QED
    BY <1>1, <1>2, <2>1 DEF NoneWait
<1>6. OldestIsNext'
  <2> SUFFICES ASSUME NEW k \in 1 .. n + 1, \A j \in 1 .. n + 1 : j < k => Stream(queue'[j]) # Stream(queue'[k])
               PROVE  queue'[k].n = expected'[Stream(queue'[k])]
    BY <1>1 DEF OldestIsNext, Oldest, From
  <2>1. CASE k \in 1 .. n
    <3>1. Oldest(k)
      BY <1>1, <1>3, <2>1 DEF Oldest, From
    <3> QED
      BY <1>1, <1>2, <2>1, <3>1 DEF OldestIsNext, From
  <2>2. CASE k = n + 1
    <3>1. \A j \in 1 .. n : From(j) # <<s, pri>>
      BY <1>1, <1>3, <2>2 DEF From, Stream
    <3>2. number[<<s, pri>>] = expected[<<s, pri>>]
      <4>1. <<s, pri>> \in Streams
        BY DEF Streams
      <4> QED
        BY <1>2, <3>1, <4>1 DEF NoneWait
    <3> QED
      BY <1>1, <2>2, <3>2
  <2> QED
    BY <1>3, <2>1, <2>2
<1>7. NoGap'
  <2> SUFFICES ASSUME NEW k \in 1 .. n + 1, NEW l \in 1 .. n + 1, k < l, Stream(queue'[k]) = Stream(queue'[l]),
                      \A j \in 1 .. n + 1 : k < j /\ j < l => Stream(queue'[j]) # Stream(queue'[k])
               PROVE  queue'[l].n = Next1(queue'[k].n)
    BY <1>1 DEF NoGap, Adjacent, From, Next1, Modulus
  <2>1. k \in 1 .. n
    BY <1>1
  <2>2. CASE l \in 1 .. n
    <3>1. Adjacent(k, l)
      BY <1>1, <1>3, <2>1, <2>2 DEF Adjacent, From
    <3> QED
      BY <1>1, <1>2, <2>1, <2>2, <3>1 DEF NoGap
  <2>3. CASE l = n + 1
    <3>1. Newest(k) /\ From(k) = <<s, pri>>
      BY <1>1, <1>3, <2>1, <2>3 DEF Newest, From, Stream
    <3> QED
      BY <1>1, <1>2, <2>1, <2>3, <3>1 DEF NewestIsLast
  <2> QED
    BY <1>3, <2>2, <2>3
<1>8. NewestIsLast'
  <2> SUFFICES ASSUME NEW k \in 1 .. n + 1, \A j \in 1 .. n + 1 : k < j => Stream(queue'[j]) # Stream(queue'[k])
               PROVE  number'[Stream(queue'[k])] = Next1(queue'[k].n)
    BY <1>1 DEF NewestIsLast, Newest, From, Next1, Modulus
  <2>1. CASE k \in 1 .. n
    <3>1. n + 1 \in 1 .. n + 1 /\ k < n + 1
      BY <1>1, <2>1
    <3>2. Newest(k) /\ From(k) # <<s, pri>> /\ queue'[k] = queue[k] /\ From(k) \in Streams
      BY <1>1, <1>3, <2>1, <3>1 DEF Newest, From, Stream
    <3> QED
      BY <1>1, <1>2, <2>1, <3>2 DEF NewestIsLast, From
  <2>2. CASE k = n + 1
    BY <1>1, <2>2
  <2> QED
    BY <1>3, <2>1, <2>2
<1> QED
  BY <1>1, <1>5, <1>6, <1>7, <1>8 DEF Shape, Numbered

(* A message that is received is the oldest in the queue, whatever was asked for.  *)
LEMMA ReceiveFacts ==
    ASSUME Shape, NEW r, NEW c, Receive(r, c)
    PROVE  /\ Len(queue) \in Nat \ {0} /\ Len(queue') = Len(queue) - 1 /\ queue' \in Seq(Messages)
           /\ \A k \in 1 .. Len(queue) - 1 : queue'[k] = queue[k + 1]
           /\ \A k \in 1 .. Len(queue) : From(k) \in Streams
           /\ queue[Taken(c)] = queue[1]
           /\ expected' = [expected EXCEPT ![From(1)] = Next1(queue[1].n)]
           /\ expected' \in [Streams -> Int]
           /\ UNCHANGED <<dropped, number>> /\ ~ dropped
<1> DEFINE n == Len(queue)
<1>1. /\ queue # << >> /\ UNCHANGED <<dropped, number>> /\ ~ dropped
      /\ queue' = [k \in 1 .. n - 1 |-> IF k < 1 THEN queue[k] ELSE queue[k + 1]]
      /\ queue[Taken(c)] = queue[1]
      /\ expected' = [expected EXCEPT ![From(1)] = Next1(queue[1].n)]
  BY DEF Receive, Taken, From
<1>2. n \in Nat \ {0} /\ \A k \in 1 .. n : queue[k] \in Messages
  BY <1>1, ElementOfSeq, LenProperties, EmptySeq DEF Shape
<1>3. \A k \in 1 .. n : From(k) \in Streams /\ queue[k].n \in Int
  BY <1>2 DEF From, Stream, Streams, Messages
<1>4. Next1(queue[1].n) \in Int
  BY <1>2, <1>3, MessagesAssumption DEF Next1, Modulus
<1>5. expected' \in [Streams -> Int]
  BY <1>1, <1>4 DEF Shape
<1> HIDE DEF n
<1>6. /\ queue' \in [1 .. n - 1 -> Messages] /\ n - 1 \in Nat
      /\ \A k \in 1 .. n - 1 : queue'[k] = queue[k + 1]
  BY <1>1, <1>2
<1>7. queue' \in Seq(Messages) /\ Len(queue') = n - 1
  <2>1. queue' \in Seq(Messages)
    BY <1>6, SeqDef
  <2>2. Len(queue') \in Nat /\ DOMAIN queue' = 1 .. Len(queue')
    BY <2>1, LenProperties
  <2> QED
    BY <1>6, <2>2
<1> QED
  BY <1>1, <1>2, <1>3, <1>5, <1>6, <1>7 DEF n

LEMMA ReceiveStep ==
    ASSUME Shape, Numbered, NEW r, NEW c, Receive(r, c)
    PROVE  Shape' /\ Numbered' /\ queue[Taken(c)].n = expected[Stream(queue[Taken(c)])]
<1> DEFINE n == Len(queue)
<1>1. /\ n \in Nat \ {0} /\ Len(queue') = n - 1 /\ queue' \in Seq(Messages)
      /\ \A k \in 1 .. n - 1 : queue'[k] = queue[k + 1]
      /\ \A k \in 1 .. n : From(k) \in Streams
      /\ queue[Taken(c)] = queue[1]
      /\ expected' = [expected EXCEPT ![From(1)] = Next1(queue[1].n)]
      /\ expected' \in [Streams -> Int]
      /\ UNCHANGED <<dropped, number>> /\ ~ dropped
  BY ReceiveFacts
<1>2. NoneWait /\ OldestIsNext /\ NoGap /\ NewestIsLast
  BY <1>1 DEF Numbered
<1>3. 1 \in 1 .. n
  BY <1>1
<1>4. /\ \A k \in 1 .. n - 1 : k + 1 \in 1 .. n
      /\ \A j \in 1 .. n : j # 1 => j - 1 \in 1 .. n - 1 /\ (j - 1) + 1 = j
  BY <1>1
<1>5. queue[Taken(c)].n = expected[Stream(queue[Taken(c)])]
  <2>1. Oldest(1)
    BY DEF Oldest
  <2> QED
    BY <1>1, <1>2, <1>3, <2>1 DEF OldestIsNext, From, Stream
<1>6. /\ expected'[From(1)] = Next1(queue[1].n)
      /\ \A t \in Streams : t # From(1) => expected'[t] = expected[t]
  BY <1>1, <1>3 DEF Shape
<1>7. NoneWait'
  <2> SUFFICES ASSUME NEW t \in Streams, \A k \in 1 .. n - 1 : Stream(queue'[k]) # t
               PROVE  number'[t] = expected'[t]
    BY <1>1 DEF NoneWait, From
  <2>1. \A j \in 1 .. n : j # 1 => From(j) # t
    <3> SUFFICES ASSUME NEW j \in 1 .. n, j # 1
                 PROVE  From(j) # t
      OBVIOUS
    <3>1. j - 1 \in 1 .. n - 1 /\ queue'[j - 1] = queue[j]
      BY <1>1, <1>4
    <3> QED
      BY <3>1 DEF From
  <2>2. CASE t = From(1)
    <3>1. Newest(1)
      BY <2>1, <2>2 DEF Newest
    <3> QED
      BY <1>1, <1>2, <1>3, <1>6, <2>2, <3>1 DEF NewestIsLast
  <2>3. CASE t # From(1)
    BY <1>1, <1>2, <1>6, <2>1, <2>3 DEF NoneWait
  <2> QED
    BY <2>2, <2>3
<1>8. OldestIsNext'
  <2> SUFFICES ASSUME NEW k \in 1 .. n - 1, \A j \in 1 .. n - 1 : j < k => Stream(queue'[j]) # Stream(queue'[k])
               PROVE  queue'[k].n = expected'[Stream(queue'[k])]
    BY <1>1 DEF OldestIsNext, Oldest, From
  <2>1. /\ k + 1 \in 1 .. n /\ queue'[k] = queue[k + 1]
        /\ \A j \in 1 .. n : j # 1 /\ j < k + 1 => From(j) # From(k + 1)
    <3> SUFFICES ASSUME NEW j \in 1 .. n, j # 1, j < k + 1
                 PROVE  From(j) # From(k + 1)
      BY <1>1, <1>4
    <3>1. j - 1 \in 1 .. n - 1 /\ j - 1 < k /\ queue'[j - 1] = queue[j]
      BY <1>1, <1>4
    <3> QED
      BY <1>1, <3>1 DEF From
  <2>2. CASE From(k + 1) = From(1)
    <3>1. Adjacent(1, k + 1)
      BY SMTT(30), <1>1, <2>1, <2>2 DEF Adjacent
    <3> QED
      BY <1>2, <1>3, <1>6, <2>1, <2>2, <3>1 DEF NoGap, From
  <2>3. CASE From(k + 1) # From(1)
    <3>1. Oldest(k + 1)
      BY <2>1, <2>3 DEF Oldest
    <3> QED
      BY <1>1, <1>2, <1>6, <2>1, <2>3, <3>1 DEF OldestIsNext, From
  <2> QED
    BY <2>2, <2>3
<1>9. NoGap'
  <2> SUFFICES ASSUME NEW k \in 1 .. n - 1, NEW l \in 1 .. n - 1, k < l, Stream(queue'[k]) = Stream(queue'[l]),
                      \A j \in 1 .. n - 1 : k < j /\ j < l => Stream(queue'[j]) # Stream(queue'[k])
               PROVE  queue'[l].n = Next1(queue'[k].n)
    BY <1>1 DEF NoGap, Adjacent, From, Next1, Modulus
  <2>1. \A j \in 1 .. n : k + 1 < j /\ j < l + 1 => From(j) # From(k + 1)
    <3> SUFFICES ASSUME NEW j \in 1 .. n, k + 1 < j, j < l + 1
                 PROVE  From(j) # From(k + 1)
      OBVIOUS
    <3>1. j - 1 \in 1 .. n - 1 /\ k < j - 1 /\ j - 1 < l /\ queue'[j - 1] = queue[j]
      BY <1>1, <1>4
    <3> QED
      BY <1>1, <3>1 DEF From
  <2>2. Adjacent(k + 1, l + 1)
    <3>1. From(k + 1) = From(l + 1)
      BY <1>1 DEF From
    <3>2. k + 1 < l + 1
      BY <1>1
    <3> QED
      BY <2>1, <3>1, <3>2 DEF Adjacent
  <2> QED
    BY <1>1, <1>2, <1>4, <2>2 DEF NoGap
<1>10. NewestIsLast'
  <2> SUFFICES ASSUME NEW k \in 1 .. n - 1, \A j \in 1 .. n - 1 : k < j => Stream(queue'[j]) # Stream(queue'[k])
               PROVE  number'[Stream(queue'[k])] = Next1(queue'[k].n)
    BY <1>1 DEF NewestIsLast, Newest, From, Next1, Modulus
  <2>1. Newest(k + 1)
    <3> SUFFICES ASSUME NEW j \in 1 .. n, k + 1 < j
                 PROVE  From(j) # From(k + 1)
      BY DEF Newest
    <3>1. j - 1 \in 1 .. n - 1 /\ k < j - 1 /\ queue'[j - 1] = queue[j]
      BY <1>1, <1>4
    <3> QED
      BY <1>1, <3>1 DEF From
  <2> QED
    BY <1>1, <1>2, <1>4, <2>1 DEF NewestIsLast, From
<1> QED
  BY <1>1, <1>5, <1>7, <1>8, <1>9, <1>10 DEF Shape, Numbered

LEMMA NumberedInit == Init => Shape /\ Numbered
<1> SUFFICES ASSUME Init
             PROVE  Shape /\ Numbered
  OBVIOUS
<1>1. queue \in Seq(Messages) /\ Len(queue) = 0
  BY EmptySeq DEF Init
<1>2. \A k : k \notin 1 .. Len(queue)
  BY <1>1
<1>3. \A s \in Streams : number[s] = 0 /\ expected[s] = 0
  BY DEF Init
<1>4. NoneWait /\ OldestIsNext /\ NoGap /\ NewestIsLast
  BY <1>2, <1>3 DEF NoneWait, OldestIsNext, NoGap, NewestIsLast
<1> QED
  BY <1>1, <1>4 DEF Init, Shape, Numbered

LEMMA NumberedStep ==
    ASSUME Shape, Numbered, [Next]_vars
    PROVE  Shape' /\ Numbered'
<1>a. ASSUME UNCHANGED <<queue, dropped, number, expected>>
      PROVE  Shape' /\ Numbered'
  <2>1. Shape' /\ (NoneWait' <=> NoneWait) /\ (OldestIsNext' <=> OldestIsNext)
    BY <1>a DEF Shape, NoneWait, OldestIsNext, Oldest, From
  <2>2. NoGap' <=> NoGap
    BY <1>a DEF NoGap, Adjacent, From, Next1, Modulus
  <2>3. NewestIsLast' <=> NewestIsLast
    BY <1>a DEF NewestIsLast, Newest, From, Next1, Modulus
  <2> QED
    BY <1>a, <2>1, <2>2, <2>3 DEF Numbered
<1>1. ASSUME NEW s \in Senders, NEW len \in Lengths, NEW pri \in Priorities,
             SendRefused(s, len, pri) \/ SendFails(s, len, pri) \/ Send(s, len, pri)
      PROVE  Shape' /\ Numbered'
  <2>1. CASE Send(s, len, pri)
    BY <2>1, SendStep, SendFacts
  <2>2. CASE SendRefused(s, len, pri) \/ SendFails(s, len, pri)
    BY <1>a, <2>2 DEF SendRefused, SendFails, vars
  <2> QED
    BY <1>1, <2>1, <2>2
<1>2. ASSUME NEW r \in Receivers, NEW c \in Calls, Receive(r, c) \/ ReceiveNothing(r, c) \/ ReceiveFails(r, c)
      PROVE  Shape' /\ Numbered'
  <2>1. CASE Receive(r, c)
    BY <2>1, ReceiveStep
  <2>2. CASE ReceiveNothing(r, c) \/ ReceiveFails(r, c)
    BY <1>a, <2>2 DEF ReceiveNothing, ReceiveFails
  <2> QED
    BY <1>2, <2>1, <2>2
<1>3. CASE Drop
  BY <1>3, EmptySeq DEF Drop, Shape, Numbered
<1>4. CASE UNCHANGED vars
  BY <1>a, <1>4 DEF vars
<1> QED
  BY <1>1, <1>2, <1>3, <1>4 DEF Next

(* Of the messages that one sender sends with one priority each that was    *)
(* accepted is received once and in the order sent, however many processes  *)
(* send and receive, with whatever priorities, and whatever type or         *)
(* priority a receive asks for (libmipc.c:222-329).                         *)
THEOREM ReceivedInOrder == Spec => InOrder
<1> DEFINE Oldest1 == \A r \in Receivers, c \in Calls :
                        Receive(r, c) => LET m == queue[Taken(c)] IN m.n = expected[Stream(m)]
<1>1. Shape /\ Numbered /\ [Next]_vars => Shape' /\ Numbered'
  BY NumberedStep
<1>2. Shape /\ Numbered => Oldest1
  BY ReceiveStep
<1> QED
  BY <1>1, <1>2, NumberedInit, PTL DEF Spec, InOrder
=============================================================================
