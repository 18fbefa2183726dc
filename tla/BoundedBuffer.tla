--------------------------- MODULE BoundedBuffer ----------------------------
(***************************************************************************)
(* What IPC64's prod and cons promise together: a first-in first-out       *)
(* buffer of bytes.  A producer puts a byte, a consumer takes the oldest   *)
(* byte into its hands, and gives the room back once it is done with it.   *)
(* Bytes in the queue and bytes in hands share Capacity places.            *)
(***************************************************************************)
EXTENDS Integers, Sequences, FiniteSets

CONSTANTS Consumers, Products, Capacity

VARIABLES queue,   \* the bytes put and not yet taken, oldest first
          hand     \* for each consumer, << >> or << the byte it took >>

Holding == {c \in Consumers : hand[c] # << >>}

Init == /\ queue = << >>
        /\ hand = [c \in Consumers |-> << >>]

Put(v) == /\ Len(queue) + Cardinality(Holding) < Capacity
          /\ queue' = Append(queue, v)
          /\ UNCHANGED hand

Take(c) == /\ hand[c] = << >>
           /\ queue # << >>
           /\ hand' = [hand EXCEPT ![c] = << Head(queue) >>]
           /\ queue' = Tail(queue)

GiveBack(c) == /\ hand[c] # << >>
               /\ hand' = [hand EXCEPT ![c] = << >>]
               /\ UNCHANGED queue

Next == \/ \E v \in Products : Put(v)
        \/ \E c \in Consumers : Take(c) \/ GiveBack(c)

Spec == Init /\ [][Next]_<<queue, hand>>

=============================================================================
