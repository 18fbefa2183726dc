-------------------------- MODULE GameServer_proofs ---------------------------
(***************************************************************************)
(* Proofs about GameServer for any number of clients, requests, hits,      *)
(* teleports and signals.  Besides the types, the inductive invariant IInv *)
(* says who is new to the server (FreshInv), who has the mutex             *)
(* (MutexCovers), who is spoken to (TalkInv), how far the count of clients *)
(* may be wrong (CountInv), that a teleport is counted (NoTeleport), who   *)
(* has an id (IdInv, ListedIds) and how the board relates to the list      *)
(* (BoardInv).  The last section is about GameBoard, the board itself.     *)
(***************************************************************************)
EXTENDS GameServer, GameBoard, FiniteSetTheorems, SequenceTheorems, TLAPS

\* The places of the threads.
Labels == {"accept", "refuse", "bane", "first_free", "place", "idcl", "idok", "boar", "book",
           "unplace", "create", "add", "count", "counted", "tell_wait", "tell",
           "none", "spin", "read", "progress", "hit", "bcast_all", "bcast", "tp_put", "tp_cant",
           "tbcast_all", "tbcast", "exit_wait", "dead_wait", "exit", "dead", "unsig", "last_wait",
           "last", "done", "sig_wait", "kill", "kill_last"}

\* GTypeOK without the bound of the count, and with the other variables.
Types ==
    /\ link \in [Clients -> {"off", "open", "closed"}]
    /\ wire \in [Clients -> DOMAIN Answers \cup {"none", "more", "half", "reply"}]
    /\ creader \in [Clients -> {"off", "listen", "half", "locking", "dying"}]
    /\ keys \in [Clients -> {"off", "idle", "asked", "pending", "answered"}]
    /\ backlog \in Seq(Clients) /\ clients \in Seq(Clients)
    /\ pc \in [Threads -> Labels]
    /\ at \in [Threads -> Clients \cup {NoOne}]
    /\ mutex \in Threads \cup {NoOne} /\ sig \in 0 .. 2
    /\ freed \subseteq Clients /\ cut \subseteq Clients /\ IsInjective(clients)
    /\ id \in [Clients -> Ids \cup {-1}]
    /\ cells \in [Ids -> Nat] /\ bmatrix \in [Ids -> Nat]
    /\ under \subseteq Ids \cup {-1} /\ strayed \in BOOLEAN
    /\ nclients \in Int /\ reg \in [Threads -> Int]
    /\ teleports \in Nat

Running == halt = ""

\* Where a reader thread may be before its client is on the list.
Unlisted == {"spin", "read", "exit_wait", "dead_wait", "sig_wait", "kill", "kill_last", "none"}

Queued(c) == \E k \in 1 .. Len(backlog) : backlog[k] = c
AtMain(c, L) == c = cur /\ pc["main"] \in L

(* A client that is off, in the backlog or with main is in one of these     *)
(* places only, has no reader thread, and no entry, listed or freed.        *)
New(c) == link[c] = "off" \/ Queued(c) \/ AtMain(c, NewLabels)
FreshInv == Running =>
   /\ \A c \in Clients : link[c] = "off" => ~Queued(c)
   /\ IsInjective(backlog)
   /\ pc["main"] \in NewLabels \cup {"add"} => cur \in Clients /\ link[cur] # "off" /\ ~Queued(cur)
   /\ \A c \in Clients : New(c) => pc[c] = "none"
   /\ \A c \in Clients : New(c) \/ AtMain(c, {"add"}) => c \notin Listed \cup freed
   /\ pc["main"] = "add" => pc[cur] \in Unlisted

-----------------------------------------------------------------------------
(* What a message leaves behind when the server goes on.  *)
Said(t, c, m, l, w) ==
    \/ /\ w[c] = "none" /\ wire' = [w EXCEPT ![c] = m]
       /\ at' = [at EXCEPT ![t] = c] /\ pc' = [pc EXCEPT ![t] = l]
    \/ wire' = w /\ at' = at /\ pc' = [pc EXCEPT ![t] = "sig_wait"]
    \/ wire' = w /\ at' = [at EXCEPT ![t] = c] /\ pc' = [pc EXCEPT ![t] = l]

(* The main thread is nobody's reader, and NoOne is no thread.  *)
LEMMA ThreadFacts ==
    /\ NoOne \notin Threads /\ "main" \in Threads
    /\ \A c \in Clients : c \in Threads /\ c # "main" /\ c # NoOne
BY GameAssumption DEF Threads

(* A message that does not end the server.  *)
LEMMA SayFacts ==
    ASSUME NEW t, NEW c, NEW m, NEW l, NEW w, Say(t, c, m, l, w), Running'
    PROVE  Said(t, c, m, l, w)
BY DEF Say, Said, Goto, Running

(* What a thread does that has come to an entry of the list or to its end.  *)
Begins(t, l, m, w) ==
    \/ /\ mutex' = (IF m = t THEN NoOne ELSE m) /\ wire' = w
       /\ at' = [at EXCEPT ![t] = NoOne] /\ pc' = [pc EXCEPT ![t] = AfterTelling[l]]
    \/ \E e : e # NoOne /\ e \notin freed /\ mutex' = m /\ Said(t, e, "BOAR", l, w)

(* A walk that does not end the server.  *)
LEMMA WalkFacts ==
    ASSUME NEW t, NEW e, NEW l, NEW w, NEW m, Walk(t, e, l, w, m), Running'
    PROVE  Begins(t, l, m, w)
BY SayFacts DEF Walk, Begins, Goto, Running

(* The places in a broadcast, and where the thread goes from there.  *)
LEMMA TellFacts ==
    /\ DOMAIN AfterTelling = {"tell", "bcast", "tbcast", "last"}
    /\ AfterTelling["tell"] = "accept" /\ AfterTelling["last"] = "done"
    /\ AfterTelling["bcast"] = "spin" /\ AfterTelling["tbcast"] = "spin"
BY DEF AfterTelling

(* A step of a broadcast in which the server goes on.  *)
LEMMA BroadcastFacts ==
    ASSUME freed \subseteq Clients, NEW t, BroadcastStep(t), Running'
    PROVE  /\ pc[t] \in DOMAIN AfterTelling /\ at[t] \notin freed
           /\ Begins(t, pc[t], mutex, Over(at[t]))
           /\ UNCHANGED <<link, creader, keys, backlog, clients, freed, nclients, reg, id,
                          board, teleports, cut>>
<1>1. UNCHANGED <<link, creader, keys, backlog, clients, freed, nclients, reg, id,
                  board, teleports, cut>>
  BY DEF BroadcastStep, list, board, counters
<1>2. pc[t] \in DOMAIN AfterTelling
  BY DEF BroadcastStep
<1>3. CASE at[t] \in freed
  <2>1. Walk(t, at[t], pc[t], wire, mutex)
    BY <1>3 DEF BroadcastStep
  <2> QED
    BY <1>3, <2>1, GameAssumption DEF Walk, Running
<1>4. CASE at[t] \notin freed
  <2>1. Walk(t, NextOf(at[t]), pc[t], Over(at[t]), mutex)
    BY <1>4 DEF BroadcastStep
  <2> QED
    BY <1>1, <1>2, <1>4, <2>1, WalkFacts
<1> QED
  BY <1>3, <1>4

(* The three ways a broadcast begins.  *)
LEMMA TellingFacts ==
    ASSUME Running'
    PROVE  /\ TellAll => pc["main"] = "tell_wait" /\ mutex = NoOne /\ Begins("main", "tell", "main", wire)
           /\ \A c : TellMove(c) => \/ pc[c] = "bcast_all" /\ Begins(c, "bcast", mutex, wire)
                                    \/ pc[c] = "tbcast_all" /\ Begins(c, "tbcast", mutex, wire)
           /\ \A c : TellLeft(c) => pc[c] = "last_wait" /\ mutex = NoOne /\ Begins(c, "last", c, wire)
           /\ \A c : TellAll \/ TellMove(c) \/ TellLeft(c) =>
                 UNCHANGED <<link, creader, keys, backlog, clients, freed, nclients, reg, id,
                             board, teleports, cut>>
<1>1. ASSUME NEW t, NEW l, NEW m, Walk(t, First, l, wire, m)
      PROVE  Begins(t, l, m, wire)
  BY <1>1, WalkFacts
<1> QED
  BY <1>1 DEF TellAll, TellMove, TellLeft, Main, list, board, counters

(* What a request that is taken up does.  *)
LEMMA RequestFacts ==
    ASSUME NEW c, ReadRequest(c), Running'
    PROVE  /\ pc[c] = "read" /\ mutex = NoOne /\ c \in Listed
           /\ mutex' = c /\ pc' = [pc EXCEPT ![c] = "progress"]
           /\ bmatrix' = cells
           /\ UNCHANGED <<link, wire, creader, backlog, at, sig, clients, freed, nclients, reg, id,
                          cells, under, strayed, teleports, cut>>
BY DEF ReadRequest, Halt, Goto, list, counters, Running

(* What taking an entry off the list does.  *)
LEMMA UnlistFacts ==
    ASSUME NEW c, Unlist(c), Running'
    PROVE  /\ pc[c] \in {"exit_wait", "dead_wait"} /\ mutex = NoOne /\ mutex' = c
           /\ ~Dangling /\ at[c] \notin freed /\ c \in From(at[c])
           /\ pc' = [pc EXCEPT ![c] = IF pc[c] = "exit_wait" THEN "exit" ELSE "dead"]
           /\ remove_id(id[c]) /\ under' = under \ {id[c]}
           /\ clients' = clients \/ clients' = RemoveAt(clients, Pos(c))
           /\ reg' = [reg EXCEPT ![c] = nclients]
           /\ UNCHANGED <<link, wire, creader, keys, backlog, at, freed, nclients, id, bmatrix, strayed, teleports, cut>>
BY DEF Unlist, Halt, Goto, wires, counters, Running

(* RemoveAt moves every later element down by one.  *)
LEMMA RemoveAtFacts ==
    ASSUME NEW S, NEW s \in Seq(S), NEW i \in 1 .. Len(s)
    PROVE  /\ RemoveAt(s, i) \in Seq(S) /\ Len(RemoveAt(s, i)) = Len(s) - 1
           /\ \A k \in 1 .. Len(s) - 1 : RemoveAt(s, i)[k] = IF k < i THEN s[k] ELSE s[k + 1]
<1>1. /\ SubSeq(s, 1, i - 1) \in Seq(S) /\ Len(SubSeq(s, 1, i - 1)) = i - 1
      /\ \A k \in 1 .. i - 1 : SubSeq(s, 1, i - 1)[k] = s[k]
  BY SubSeqProperties
<1>2. /\ SubSeq(s, i + 1, Len(s)) \in Seq(S) /\ Len(SubSeq(s, i + 1, Len(s))) = Len(s) - i
      /\ \A k \in 1 .. Len(s) - i : SubSeq(s, i + 1, Len(s))[k] = s[k + i]
  <2>1. /\ SubSeq(s, i + 1, Len(s)) \in Seq(S)
        /\ Len(SubSeq(s, i + 1, Len(s))) = IF i + 1 <= Len(s) THEN Len(s) - (i + 1) + 1 ELSE 0
        /\ \A k \in 1 .. Len(s) - (i + 1) + 1 : SubSeq(s, i + 1, Len(s))[k] = s[(i + 1) + k - 1]
    BY SubSeqProperties
  <2> QED
    BY <2>1
<1> DEFINE a == SubSeq(s, 1, i - 1)
           b == SubSeq(s, i + 1, Len(s))
<1>3. /\ a \o b \in Seq(S) /\ Len(a \o b) = Len(a) + Len(b)
      /\ \A k \in 1 .. Len(a) + Len(b) : (a \o b)[k] = IF k <= Len(a) THEN a[k] ELSE b[k - Len(a)]
  BY <1>1, <1>2, ConcatProperties
<1>4. RemoveAt(s, i) = a \o b
  BY DEF RemoveAt
<1>5. Len(s) \in Nat /\ i \in 1 .. Len(s)
  BY LenProperties
<1> HIDE DEF a, b
<1>6. Len(a) = i - 1 /\ Len(b) = Len(s) - i
  BY <1>1, <1>2 DEF a, b
<1>7. ASSUME NEW k \in 1 .. Len(s) - 1
      PROVE  (a \o b)[k] = IF k < i THEN s[k] ELSE s[k + 1]
  <2>1. (a \o b)[k] = IF k <= i - 1 THEN a[k] ELSE b[k - (i - 1)]
    BY <1>3, <1>5, <1>6
  <2>2. CASE k < i
    BY <1>1, <1>5, <2>1, <2>2 DEF a
  <2>3. CASE ~(k < i)
    <3>1. k - (i - 1) \in 1 .. Len(s) - i /\ (k - (i - 1)) + i = k + 1
      BY <1>5, <2>3
    <3>2. b[k - (i - 1)] = s[(k - (i - 1)) + i]
      BY <1>2, <3>1 DEF b
    <3>3. ~(k <= i - 1)
      BY <1>5, <2>3
    <3> QED
      BY <2>1, <2>3, <3>1, <3>2, <3>3
  <2> QED
    BY <2>2, <2>3
<1> QED
  BY <1>3, <1>4, <1>5, <1>6, <1>7

(* Whose entry is taken off the list stays there at most as a freed one; no other is lost.  *)
LEMMA UnlistedFacts ==
    ASSUME clients \in Seq(Clients), NEW c \in Listed,
           clients' = clients \/ clients' = RemoveAt(clients, Pos(c))
    PROVE  /\ clients' \in Seq(Clients)
           /\ Listed' \subseteq Listed /\ \A d \in Listed : d # c => d \in Listed'
           /\ IsInjective(clients) => IsInjective(clients')
<1>1. Pos(c) \in 1 .. Len(clients) /\ clients[Pos(c)] = c
  BY DEF Pos, Listed
<1>2. CASE clients' = clients
  BY <1>2 DEF Listed
<1>3. CASE clients' = RemoveAt(clients, Pos(c))
  <2>1. /\ clients' \in Seq(Clients) /\ Len(clients') = Len(clients) - 1
        /\ \A k \in 1 .. Len(clients) - 1 :
              clients'[k] = IF k < Pos(c) THEN clients[k] ELSE clients[k + 1]
    BY <1>1, <1>3, RemoveAtFacts
  <2>2. Listed' \subseteq Listed
    BY <1>1, <2>1 DEF Listed
  <2>3. ASSUME NEW d \in Listed, d # c
        PROVE  d \in Listed'
    <3>1. PICK k \in 1 .. Len(clients) : clients[k] = d
      BY DEF Listed
    <3>2. CASE k < Pos(c)
      BY <1>1, <2>1, <3>1, <3>2 DEF Listed
    <3>3. CASE k > Pos(c)
      <4>1. k - 1 \in 1 .. Len(clients) - 1 /\ clients'[k - 1] = d
        BY <1>1, <2>1, <3>1, <3>3
      <4> QED
        BY <2>1, <4>1 DEF Listed
    <3> QED
      BY <1>1, <2>3, <3>1, <3>2, <3>3
  <2>4. IsInjective(clients) => IsInjective(clients')
    <3> SUFFICES ASSUME IsInjective(clients), NEW k \in 1 .. Len(clients) - 1, NEW l \in 1 .. Len(clients) - 1,
                        clients'[k] = clients'[l]
                 PROVE  k = l
      BY <2>1, LenProperties DEF IsInjective
    <3>1. \A m \in 1 .. Len(clients), n \in 1 .. Len(clients) : clients[m] = clients[n] => m = n
      BY LenProperties DEF IsInjective
    <3> QED
      BY <1>1, <2>1, <3>1, LenProperties
  <2> QED
    BY <2>1, <2>2, <2>3, <2>4
<1> QED
  BY <1>2, <1>3

(* A walk comes to entries of the list only.  *)
LEMMA FromFacts ==
    ASSUME clients \in Seq(Clients), NEW c, NEW d \in From(c)
    PROVE  d \in Listed
<1>1. c \in Listed
  BY DEF From
<1>2. Pos(c) \in 1 .. Len(clients)
  BY <1>1 DEF Pos, Listed
<1>3. PICK k \in Pos(c) .. Len(clients) : d = clients[k]
  BY <1>1 DEF From
<1>4. k \in 1 .. Len(clients)
  BY <1>2, <1>3, LenProperties
<1> QED
  BY <1>3, <1>4 DEF Listed

(* What the handler does to the threads of the entry it has come to.  *)
LEMMA ShutFacts ==
    ASSUME pc = [t \in Threads |-> pc[t]], NEW t \in Threads, SigWait(t) \/ Shutdown(t), Running'
    PROVE  /\ pc[t] \in {"sig_wait", "kill", "kill_last"}
           /\ pc'[t] \in {"kill", "kill_last"} /\ DOMAIN pc' = Threads
           /\ \A u \in Threads \ {t} : pc'[u] = pc[u] \/ pc'[u] = "none"
           /\ \E e : at' = [at EXCEPT ![t] = e]
           /\ \/ pc[t] = "sig_wait" /\ mutex \in {NoOne, t} /\ mutex' = t
              \/ pc[t] # "sig_wait" /\ mutex' = mutex
           /\ UNCHANGED <<link, creader, keys, backlog, sig, clients, freed, nclients, reg, id,
                          board, teleports, cut>>
<1>1. UNCHANGED <<link, creader, keys, backlog, sig, clients, freed, nclients, reg, id,
                  board, teleports, cut>>
  BY DEF SigWait, Shutdown, list, board, counters
<1>2. ASSUME NEW e, NEW w, ShutFrom(t, e, w)
      PROVE  /\ \E k \in {"kill", "kill_last"} : pc' = [Cancelled(t, e) EXCEPT ![t] = k]
             /\ at' = [at EXCEPT ![t] = e]
  BY <1>2 DEF ShutFrom, Running
<1>3. ASSUME NEW e, NEW k \in {"kill", "kill_last"}, pc' = [Cancelled(t, e) EXCEPT ![t] = k]
      PROVE  /\ pc'[t] \in {"kill", "kill_last"} /\ DOMAIN pc' = Threads
             /\ \A u \in Threads \ {t} : pc'[u] = pc[u] \/ pc'[u] = "none"
  BY <1>3 DEF Cancelled
<1>4. CASE SigWait(t)
  <2>1. ShutFrom(t, First, wire)
    BY <1>4 DEF SigWait
  <2> QED
    BY <1>1, <1>2, <1>3, <1>4, <2>1 DEF SigWait
<1>5. CASE Shutdown(t)
  <2>1. ShutFrom(t, NextOf(at[t]), Heard(at[t])) /\ pc[t] = "kill"
    BY <1>5 DEF Shutdown, Running
  <2> QED
    BY <1>1, <1>2, <1>3, <1>5, <2>1 DEF Shutdown
<1> QED
  BY <1>4, <1>5

(* The second half of a dialogue in which the server goes on.  *)
LEMMA HalfFacts ==
    ASSUME NEW t, SecondHalf(t), Running'
    PROVE  /\ pc[t] \in Sending /\ at[t] \in Clients \ (cut \cup freed) /\ wire[at[t]] \in {"more", "half"}
           /\ \/ wire' = [wire EXCEPT ![at[t]] = "half"] /\ pc' = pc /\ at' = at
              \/ \E m \in {"id", "board"} : Said(t, at[t], m, pc[t], Heard(at[t]))
           /\ UNCHANGED <<link, creader, keys, backlog, mutex, clients, freed, nclients, reg, id,
                          board, teleports, cut>>
<1>1. pc[t] \in Sending /\ at[t] \in Clients \ (cut \cup freed) /\ wire[at[t]] \in {"more", "half"}
  BY DEF SecondHalf
<1>2. \/ wire' = [wire EXCEPT ![at[t]] = "half"] /\ pc' = pc /\ at' = at
      \/ Say(t, at[t], IF pc[t] = "idok" THEN "id" ELSE "board", pc[t], Heard(at[t]))
  BY DEF SecondHalf
<1>3. UNCHANGED <<link, creader, keys, backlog, mutex, clients, freed, nclients, reg, id,
                  board, teleports, cut>>
  BY DEF SecondHalf, list, counters
<1> QED
  BY <1>1, <1>2, <1>3, SayFacts

(* What a signal may do to the thread it comes to.  *)
LEMMA InterruptFacts ==
    ASSUME NEW t, Interrupt(t)
    PROVE  /\ pc[t] \notin Idle
           /\ \/ pc' = [pc EXCEPT ![t] = "sig_wait"] /\ at' = at /\ cut' = cut
              \/ pc' = pc /\ at' = at /\ cut' = cut
              \/ pc[t] \in Sending /\ at[t] # NoOne /\ pc' = pc /\ at' = at /\ cut' = cut \cup {at[t]}
              \/ /\ pc[t] = "read" /\ pc' = [pc EXCEPT ![t] = "exit_wait"]
                 /\ at' = [at EXCEPT ![t] = First] /\ cut' = cut
              \/ pc[t] = "exit" /\ pc' = [pc EXCEPT ![t] = "dead"] /\ at' = at /\ cut' = cut
           /\ sig' = sig \/ sig' \in {1, 2}
           /\ UNCHANGED <<wires, backlog, mutex, clients, freed, nclients, reg, id, board, teleports>>
<1>1. UNCHANGED <<wires, backlog, mutex, clients, freed, nclients, reg, id, board, teleports>>
  BY DEF Interrupt, list
<1>2. pc[t] \notin Idle
  BY DEF Interrupt
<1> QED
  BY <1>1, <1>2 DEF Interrupt, Interrupted, Waits, Goto

(* Every step that does not end the server keeps MutexCovers.  *)
LEMMA MutexStep ==
    ASSUME Types, FreshInv, MutexCovers, Next, Running, Running'
    PROVE  MutexCovers'
<1>a. /\ pc = [t \in Threads |-> pc[t]]
      /\ NoOne \notin Threads /\ "main" \in Threads /\ \A c \in Clients : c \in Threads /\ c # "main"
  BY GameAssumption DEF Types, Threads
<1>b. /\ \A t \in Threads : /\ pc[t] \in Critical => mutex = t
                            /\ mutex = t => pc[t] \in Critical \cup {"sig_wait"}
  BY DEF MutexCovers, Running
<1>c. ASSUME \A t \in Threads : /\ pc'[t] \in Critical => mutex' = t
                                /\ mutex' = t => pc'[t] \in Critical \cup {"sig_wait"}
      PROVE  MutexCovers'
  BY <1>c DEF MutexCovers, Critical, Threads, Running
<1>d. freed \subseteq Clients
  BY DEF Types
<1> USE DEF Critical, Goto, Main, Running
<1>e. ASSUME NEW t \in Threads, NEW l, pc' = [pc EXCEPT ![t] = l],
             \/ /\ mutex' = mutex
                /\ l \in Critical => pc[t] \in Critical
                /\ pc[t] \in Critical => l \in Critical \cup {"sig_wait"}
                /\ pc[t] # "sig_wait"
             \/ mutex = NoOne /\ mutex' = t /\ l \in Critical \cup {"sig_wait"}
             \/ mutex' = (IF mutex = t THEN NoOne ELSE mutex) /\ l \notin Critical
      PROVE  MutexCovers'
  BY <1>a, <1>b, <1>c, <1>e
<1>f. ASSUME NEW t \in Threads, NEW l, NEW m, NEW w, Begins(t, l, m, w), l \in DOMAIN AfterTelling,
             \/ m = t /\ mutex = NoOne /\ l # "tbcast"
             \/ m = mutex /\ pc[t] # "sig_wait" /\ (pc[t] \in Critical <=> l \in Critical)
      PROVE  MutexCovers'
  <2>1. AfterTelling[l] \notin Critical /\ (l # "tbcast" => l \in Critical)
    BY <1>f, TellFacts
  <2>2. CASE mutex' = (IF m = t THEN NoOne ELSE m) /\ pc' = [pc EXCEPT ![t] = AfterTelling[l]]
    BY <1>f, <2>1, <2>2, <1>e
  <2>3. CASE mutex' = m /\ pc' = [pc EXCEPT ![t] = l]
    BY <1>f, <2>1, <2>3, <1>e
  <2>4. CASE mutex' = m /\ pc' = [pc EXCEPT ![t] = "sig_wait"]
    BY <1>f, <2>1, <2>4, <1>e
  <2> QED
    BY <1>f, <2>2, <2>3, <2>4 DEF Begins, Said
<1>1. CASE MainStep
  <2>1. CASE Accept
    BY <2>1, <1>a, <1>b, <1>c DEF Accept
  <2>2. CASE inform_refuse
    BY <2>2, <1>a, <1>b, <1>c DEF inform_refuse, Say
  <2>3. CASE Refused
    BY ZenonT(60), <2>3, <1>a, <1>b, <1>c DEF Refused, Halt, Answered, Broken, Heard
  <2>4. CASE FirstFree
    BY <2>4, <1>a, <1>b, <1>c DEF FirstFree, Halt
  <2>5. CASE place_client_onboard
    BY <2>5, <1>a, <1>b, <1>c DEF place_client_onboard
  <2>6. CASE send_client_id
    BY <2>6, <1>a, <1>b, <1>c DEF send_client_id, Say, Halt
  <2>7. CASE IdSent
    BY <2>7, <1>a, <1>b, <1>c DEF IdSent, Free
  <2>8. CASE send_board
    BY <2>8, <1>a, <1>b, <1>c DEF send_board, Say
  <2>9. CASE BoardSent
    BY <2>9, <1>a, <1>b, <1>c DEF BoardSent, Free
  <2>10. CASE Unplace
    BY <2>10, <1>a, <1>b, <1>c DEF Unplace, Halt
  <2>11. CASE CreateReader
    BY <2>11, <1>a, <1>b, <1>c DEF CreateReader, FreshInv, New, AtMain, NewLabels
  <2>12. CASE add_client
    BY <2>12, <1>a, <1>b, <1>c DEF add_client
  <2>13. CASE Count
    BY <2>13, <1>a, <1>b, <1>c DEF Count
  <2>14. CASE TellAll
    BY <2>14, <1>a, <1>f, TellingFacts, TellFacts
  <2> QED
    BY <1>1, <2>1, <2>2, <2>3, <2>4, <2>5, <2>6, <2>7, <2>8, <2>9, <2>10, <2>11, <2>12, <2>13, <2>14 DEF MainStep
<1>2. ASSUME NEW c \in Clients, ReaderStep(c)
      PROVE  MutexCovers'
  <2>1. CASE Spin(c)
    BY <2>1, <1>a, <1>b, <1>c DEF Spin
  <2>2. CASE ReadBusy(c)
    BY <2>2, <1>a, <1>b, <1>c DEF ReadBusy, AnswerTo
  <2>3. CASE ReadRequest(c)
    BY ZenonT(60), <2>3, <1>a, <1>b, <1>c, RequestFacts
  <2>4. CASE player_hit(c)
    BY <2>4, <1>a, <1>b, <1>c DEF player_hit, Say, Halt
  <2>5. CASE HitTaken(c)
    BY <2>5, <1>a, <1>b, <1>c DEF HitTaken, Halt
  <2>6. CASE Cant(c)
    BY ZenonT(60), <2>6, <1>a, <1>b, <1>c DEF Cant, AnswerTo, Free
  <2>7. CASE Can(c)
    BY <2>7, <1>a, <1>b, <1>c DEF Can, AnswerTo
  <2>8. CASE teleport(c)
    BY ZenonT(60), <2>8, <1>a, <1>b, <1>c DEF teleport
  <2>9. CASE TeleportPut(c)
    BY <2>9, <1>a, <1>b, <1>c DEF TeleportPut, AnswerTo, Halt
  <2>10. CASE TeleportCant(c)
    BY <2>10, <1>a, <1>b, <1>c DEF TeleportCant, AnswerTo
  <2>11. CASE TellMove(c)
    BY <2>11, <1>a, <1>f, TellingFacts, TellFacts
  <2>12. CASE ReadEnd(c)
    BY <2>12, <1>a, <1>b, <1>c DEF ReadEnd
  <2>13. CASE Unlist(c)
    BY ZenonT(60), <2>13, <1>a, <1>b, <1>c, UnlistFacts
  <2>14. CASE Finish(c)
    BY ZenonT(60), <2>14, <1>a, <1>b, <1>c DEF Finish, Free
  <2>15. CASE Unsig(c)
    BY <2>15, <1>a, <1>b, <1>c DEF Unsig
  <2>16. CASE TellLeft(c)
    BY <2>16, <1>a, <1>f, TellingFacts, TellFacts
  <2> QED
    BY <1>2, <2>1, <2>2, <2>3, <2>4, <2>5, <2>6, <2>7, <2>8, <2>9, <2>10, <2>11, <2>12, <2>13, <2>14, <2>15, <2>16 DEF ReaderStep
<1>3. ASSUME NEW t \in Threads, SecondHalf(t) \/ BroadcastStep(t) \/ SigWait(t) \/ Shutdown(t) \/ Interrupt(t)
      PROVE  MutexCovers'
  <2>1. CASE BroadcastStep(t)
    BY ZenonT(60), <2>1, <1>a, <1>d, <1>f, BroadcastFacts, TellFacts
  <2>2. CASE SigWait(t)
    BY ZenonT(60), <2>2, <1>a, <1>b, <1>c DEF SigWait, ShutFrom, Cancelled
  <2>3. CASE Shutdown(t)
    BY ZenonT(60), <2>3, <1>a, <1>b, <1>c DEF Shutdown, ShutFrom, Cancelled
  <2>4. CASE Interrupt(t)
    <3>1. mutex' = mutex /\ pc[t] # "sig_wait"
      BY <2>4, InterruptFacts DEF Idle
    <3>2. CASE pc' = pc
      BY <1>b, <1>c, <3>1, <3>2
    <3>3. CASE pc' = [pc EXCEPT ![t] = "sig_wait"]
      BY <1>e, <3>1, <3>3
    <3>4. CASE \/ pc[t] = "read" /\ pc' = [pc EXCEPT ![t] = "exit_wait"]
               \/ pc[t] = "exit" /\ pc' = [pc EXCEPT ![t] = "dead"]
      BY <1>e, <3>1, <3>4
    <3> QED
      BY <2>4, <3>2, <3>3, <3>4, InterruptFacts
  <2>5. CASE SecondHalf(t)
    <3>1. mutex' = mutex /\ pc[t] # "sig_wait"
      BY <2>5, HalfFacts DEF Sending, AfterTelling
    <3>2. pc' = pc \/ pc' = [pc EXCEPT ![t] = pc[t]] \/ pc' = [pc EXCEPT ![t] = "sig_wait"]
      BY <2>5, HalfFacts DEF Said
    <3> QED
      BY <1>b, <1>c, <1>e, <3>1, <3>2
  <2> QED
    BY <1>3, <2>1, <2>2, <2>3, <2>4, <2>5
<1>4. ASSUME NEW c \in Clients, Reply(c) \/ Refresh(c) \/ KeyDone(c) \/ Dismissed(c) \/ SeesEnd(c) \/ Connect(c) \/ Key(c) \/ Leave(c)
      PROVE  MutexCovers'
  BY <1>4, <1>a, <1>b, <1>c DEF Reply, Refresh, KeyDone, Dismissed, SeesEnd, Connect, Key, Leave, Gone, serverSide
<1> QED
  BY <1>1, <1>2, <1>3, <1>4 DEF Next, ServerStep, ClientStep, Users

(* What is enough for a step to keep FreshInv.  *)
LEMMA FreshKept ==
    ASSUME FreshInv, Running, backlog' = backlog,
           \A c \in Clients : link'[c] = "off" <=> link[c] = "off",
           Listed' \subseteq Listed,
           \A c \in freed' : c \in freed \/ pc[c] \in {"exit", "dead"},
           pc'["main"] \in NewLabels => pc["main"] \in NewLabels /\ cur' = cur,
           pc'["main"] = "add" => pc["main"] = "add" /\ cur' = cur /\ pc'[cur] \in Unlisted,
           \A c \in Clients : pc[c] = "none" => pc'[c] = "none"
    PROVE  FreshInv'
<1> USE DEF FreshInv, cur
<1>1. \A c : Queued(c)' <=> Queued(c)
  BY DEF Queued
<1>2. \A c \in Clients : New(c)' => New(c)
  BY <1>1 DEF New, AtMain
<1>3. IsInjective(backlog)' <=> IsInjective(backlog)
  OBVIOUS
<1>4. \A c \in Clients : link'[c] = "off" => ~Queued(c)'
  BY <1>1
<1>5. pc'["main"] \in NewLabels \cup {"add"} => cur' \in Clients /\ link'[cur'] # "off" /\ ~Queued(cur)'
  BY <1>1
<1>6. \A c \in Clients : New(c)' => pc'[c] = "none"
  BY <1>2
<1>7. \A c \in Clients : New(c)' \/ AtMain(c, {"add"})' => c \notin Listed' \cup freed'
  BY <1>2 DEF AtMain, Unlisted
<1> QED
  BY <1>1, <1>3, <1>4, <1>5, <1>6, <1>7 DEF Unlisted, NewLabels

(* An entry put in front of the list.  *)
LEMMA AddedFacts ==
    ASSUME clients \in Seq(Clients), NEW c \in Clients, clients' = <<c>> \o clients
    PROVE  /\ clients' \in Seq(Clients) /\ Listed' = Listed \cup {c}
           /\ c \notin Listed /\ IsInjective(clients) => IsInjective(clients')
<1>1. /\ <<c>> \in Seq(Clients) /\ Len(<<c>>) = 1 /\ <<c>>[1] = c
  OBVIOUS
<1>2. /\ clients' \in Seq(Clients) /\ Len(clients') = 1 + Len(clients) /\ Len(clients) \in Nat
      /\ \A k \in 1 .. 1 + Len(clients) : clients'[k] = IF k <= 1 THEN c ELSE clients[k - 1]
  BY <1>1, ConcatProperties
<1>3. /\ clients'[1] = c /\ \A k \in 1 .. Len(clients) : clients'[k + 1] = clients[k]
      /\ \A k \in 2 .. Len(clients') : k - 1 \in 1 .. Len(clients) /\ clients'[k] = clients[k - 1]
  BY <1>2
<1>4. Listed' \subseteq Listed \cup {c}
  <2> SUFFICES ASSUME NEW k \in 1 .. Len(clients')
               PROVE  clients'[k] \in Listed \cup {c}
    BY DEF Listed
  <2> QED
    BY <1>2, <1>3 DEF Listed
<1>5. Listed \cup {c} \subseteq Listed'
  <2>1. ASSUME NEW k \in 1 .. Len(clients)
        PROVE  clients[k] \in Listed'
    BY <1>2, <1>3, k + 1 \in 1 .. Len(clients') DEF Listed
  <2>2. c \in Listed'
    BY <1>2, <1>3 DEF Listed
  <2> QED
    BY <2>1, <2>2 DEF Listed
<1>6. c \notin Listed /\ IsInjective(clients) => IsInjective(clients')
  BY <1>2, <1>3 DEF IsInjective, Listed
<1> QED
  BY <1>2, <1>4, <1>5, <1>6

(* The id of a client that is not on the list is nobody's, or there is none left.  *)
LEMMA FirstFreeFacts ==
    /\ get_first_free \in Ids \cup {-1} /\ -1 \notin Ids
    /\ (\A d \in Listed : id[d] \in Ids) => \A d \in Listed : id[d] # get_first_free
<1>0. Ids \subseteq Nat /\ -1 \notin Ids
  BY GameAssumption DEF Ids
<1>1. CASE FreeIds = {}
  BY <1>0, <1>1 DEF get_first_free
<1>2. CASE FreeIds # {}
  <2> DEFINE Less == {p \in Nat \X Nat : p[1] < p[2]}
  <2>1. IsWellFoundedOn(Less, Nat)
    BY Zenon, NatLessThanWellFounded DEF OpToRel
  <2>2. FreeIds \subseteq Nat
    BY <1>0 DEF FreeIds
  <2>3. PICK i \in FreeIds : \A j \in FreeIds : ~(<<j, i>> \in Less)
    <3> HIDE DEF Less
    <3> QED
      BY <1>2, <2>1, <2>2, WFMin
  <2>4. ASSUME NEW j \in FreeIds
        PROVE  i <= j
    <3>1. i \in Nat /\ j \in Nat
      BY <2>2
    <3>2. ~(<<j, i>> \in Less)
      BY <2>3
    <3>3. ~(j < i)
      BY <3>1, <3>2
    <3> QED
      BY <3>1, <3>3
  <2>5. get_first_free \in FreeIds
    BY <1>2, <2>3, <2>4 DEF get_first_free
  <2> QED
    BY <1>0, <2>5 DEF FreeIds
<1> QED
  BY <1>1, <1>2

(* The boards that an overrun of free_idx may lead to are boards.  *)
LEMMA StraysTypes ==
    ASSUME NEW n \in [Ids -> Nat], NEW i
    PROVE  /\ Take(n, i) \in [Ids -> Nat] /\ Put(n, i) \in [Ids -> Nat]
           /\ Strays(n, i) \subseteq [Ids -> Nat]
<1>1. \A m \in [Ids -> Nat] : \A j : Take(m, j) \in [Ids -> Nat] /\ Put(m, j) \in [Ids -> Nat]
  BY DEF Take, Put
<1> QED
  BY <1>1 DEF Strays

WireTypes == DOMAIN Answers \cup {"none", "more", "half", "reply"}
Entry == Clients \cup {NoOne}
TalkTypes == /\ wire \in [Clients -> WireTypes] /\ pc \in [Threads -> Labels]
             /\ at \in [Threads -> Entry] /\ sig \in 0 .. 2

(* The list holds clients, and a walk meets clients or the end.  *)
LEMMA EntryFacts ==
    ASSUME clients \in Seq(Clients)
    PROVE  /\ Listed \subseteq Clients /\ First \in Entry
           /\ \A c : NextOf(c) \in Entry
<1>1. \A k \in 1 .. Len(clients) : clients[k] \in Clients
  BY ElementOfSeq
<1>2. First \in Entry
  BY HeadTailProperties DEF First, Entry
<1>3. ASSUME NEW c
      PROVE  NextOf(c) \in Entry
  <2>1. CASE c \notin Listed \/ Pos(c) = Len(clients)
    BY <2>1 DEF NextOf, Entry
  <2>2. CASE c \in Listed /\ Pos(c) # Len(clients)
    <3>1. Pos(c) \in 1 .. Len(clients)
      BY <2>2 DEF Pos, Listed
    <3>2. Pos(c) + 1 \in 1 .. Len(clients)
      BY <2>2, <3>1, LenProperties
    <3> QED
      BY <1>1, <2>2, <3>2 DEF NextOf, Entry
  <2> QED
    BY <2>1, <2>2
<1> QED
  BY <1>1, <1>2, <1>3 DEF Listed

(* A message keeps the types,  *)
LEMMA SayTypes ==
    ASSUME TalkTypes, NEW t \in Threads, NEW c \in Entry, NEW m \in DOMAIN Answers, NEW l \in Labels,
           NEW w \in [Clients -> WireTypes], Say(t, c, m, l, w)
    PROVE  TalkTypes'
<1>1. /\ "sig_wait" \in Labels /\ m \in WireTypes /\ c \in Entry
  BY DEF Labels, WireTypes, Entry
<1>2. \A x \in Labels : [pc EXCEPT ![t] = x] \in [Threads -> Labels]
  BY DEF TalkTypes
<1>3. [at EXCEPT ![t] = c] \in [Threads -> Entry]
  BY <1>1 DEF TalkTypes
<1>4. [w EXCEPT ![c] = m] \in [Clients -> WireTypes]
  BY <1>1
<1>5. wire' \in [Clients -> WireTypes]
  BY <1>4 DEF Say, TalkTypes
<1>6. pc' \in [Threads -> Labels] /\ at' \in [Threads -> Entry]
  BY <1>1, <1>2, <1>3 DEF Say, TalkTypes, Goto
<1>7. sig' \in 0 .. 2
  BY DEF Say, TalkTypes
<1> QED
  BY <1>5, <1>6, <1>7 DEF TalkTypes, WireTypes, Labels, Entry, Threads

(* so does a walk along the list,  *)
LEMMA WalkTypes ==
    ASSUME TalkTypes, freed \subseteq Clients, mutex \in Threads \cup {NoOne}, NEW t \in Threads, NEW e \in Entry,
           NEW l \in DOMAIN AfterTelling, NEW w \in [Clients -> WireTypes], NEW m \in Threads \cup {NoOne},
           Walk(t, e, l, w, m)
    PROVE  TalkTypes' /\ mutex' \in Threads \cup {NoOne}
<1>1. l \in Labels /\ AfterTelling[l] \in Labels
  BY TellFacts DEF Labels
<1>2. CASE e = NoOne
  <2>1. /\ mutex' \in {m, NoOne} /\ wire' = w /\ pc' = [pc EXCEPT ![t] = AfterTelling[l]]
        /\ at' = [at EXCEPT ![t] = NoOne] /\ sig' = sig
    <3>1. Walk(t, e, l, w, m) <=>
            /\ mutex' = (IF m = t THEN NoOne ELSE m) /\ wire' = w /\ Goto(t, AfterTelling[l])
            /\ at' = [at EXCEPT ![t] = NoOne] /\ UNCHANGED <<sig, halt>>
      <4>1. e \notin freed
        BY <1>2, ThreadFacts
      <4> QED
        BY <1>2, <4>1 DEF Walk
    <3> QED
      BY <3>1 DEF Goto
  <2> QED
    BY <1>1, <2>1 DEF TalkTypes, Entry, Threads, WireTypes, Labels
<1>3. CASE e # NoOne /\ e \in freed
  BY <1>3 DEF Walk, TalkTypes, Entry, Threads, WireTypes, Labels
<1>4. CASE e # NoOne /\ e \notin freed
  <2>1. mutex' = m /\ Say(t, e, "BOAR", l, w)
    BY <1>4 DEF Walk
  <2>2. e \in Clients /\ "BOAR" \in DOMAIN Answers
    BY <1>4 DEF Entry, Answers
  <2> QED
    BY <1>1, <2>1, <2>2, SayTypes DEF Threads
<1> QED
  BY <1>2, <1>3, <1>4

(* and the handler's walk.  *)
LEMMA ShutTypes ==
    ASSUME TalkTypes, clients \in Seq(Clients), NEW t \in Threads, SigWait(t) \/ Shutdown(t)
    PROVE  TalkTypes'
<1>1. ASSUME NEW e \in Entry, NEW w \in [Clients -> WireTypes], ShutFrom(t, e, w), sig' = sig
      PROVE  TalkTypes'
  <2>1. CASE UNCHANGED <<wire, at, pc>>
    BY <1>1, <2>1 DEF TalkTypes, WireTypes, Labels, Entry, Threads
  <2>2. CASE ~UNCHANGED <<wire, at, pc>>
    <3>1. /\ e \in Clients /\ at' = [at EXCEPT ![t] = e]
          /\ wire' = w \/ wire' = [w EXCEPT ![e] = "KILL"]
          /\ \E k \in {"kill", "kill_last"} : pc' = [Cancelled(t, e) EXCEPT ![t] = k]
      BY <1>1, <2>2 DEF ShutFrom, Entry
    <3>2. Cancelled(t, e) \in [Threads -> Labels]
      BY DEF Cancelled, TalkTypes, Labels
    <3>3. pc' \in [Threads -> Labels]
      BY <3>1, <3>2 DEF Labels
    <3>4. at' \in [Threads -> Entry]
      BY <3>1 DEF TalkTypes, Entry
    <3>5. wire' \in [Clients -> WireTypes]
      BY <1>1, <3>1 DEF WireTypes, Answers
    <3> QED
      BY <1>1, <3>3, <3>4, <3>5 DEF TalkTypes, WireTypes, Labels, Entry, Threads
  <2> QED
    BY <2>1, <2>2
<1>2. First \in Entry /\ NextOf(at[t]) \in Entry /\ wire \in [Clients -> WireTypes]
  BY EntryFacts DEF TalkTypes
<1>3. Heard(at[t]) \in [Clients -> WireTypes]
  BY <1>2 DEF Heard, WireTypes
<1>4. CASE SigWait(t)
  BY <1>1, <1>2, <1>4 DEF SigWait
<1>5. CASE Shutdown(t)
  BY <1>1, <1>2, <1>3, <1>5 DEF Shutdown, TalkTypes, WireTypes, Labels, Entry, Threads
<1> QED
  BY <1>4, <1>5

(* Every step keeps the types, the one that ends the server too.  *)
LEMMA TypesStep ==
    ASSUME Types, FreshInv, Next
    PROVE  Types'
<1>a. Running
  BY DEF Next, ServerStep, ClientStep, Users, Running
<1>b. /\ TalkTypes /\ mutex \in Threads \cup {NoOne} /\ clients \in Seq(Clients)
      /\ wire \in [Clients -> WireTypes] /\ freed \subseteq Clients /\ cut \subseteq Clients
  BY DEF Types, TalkTypes, WireTypes, Entry
<1>c. /\ First \in Entry
      /\ \A c : /\ NextOf(c) \in Entry
                /\ Heard(c) \in [Clients -> WireTypes] /\ Over(c) \in [Clients -> WireTypes]
  BY <1>b, EntryFacts DEF Heard, Over, WireTypes
<1>d. \A t, l : Goto(t, l) /\ l \in Labels => pc' \in [Threads -> Labels]
  BY <1>b DEF Goto, TalkTypes
<1>e. ASSUME TalkTypes', mutex' \in Threads \cup {NoOne},
             UNCHANGED <<link, creader, keys, backlog, clients, freed, id, board, nclients, reg>>,
             teleports' = teleports, cut' \subseteq Clients
      PROVE  Types'
  BY <1>e DEF Types, TalkTypes, WireTypes, Entry, Threads, Labels, board
\* A step that leaves the list and the sockets alone.
<1>h. ASSUME UNCHANGED <<link, wire, creader, backlog, at, clients, freed, id, nclients, reg>>,
             pc' \in [Threads -> Labels], sig' \in 0 .. 2, mutex' \in Threads \cup {NoOne},
             keys' \in [Clients -> {"off", "idle", "asked", "pending", "answered"}],
             cells' \in [Ids -> Nat], bmatrix' \in [Ids -> Nat], under' \subseteq Ids \cup {-1},
             strayed' \in BOOLEAN, teleports' \in Nat, cut' = cut
      PROVE  Types'
  BY <1>h DEF Types, Threads, Labels
<1>i. ASSUME NEW c \in Clients, NEW l \in Labels, AnswerTo(c, l)
      PROVE  /\ pc' \in [Threads -> Labels] /\ sig' \in 0 .. 2
             /\ keys' \in [Clients -> {"off", "idle", "asked", "pending", "answered"}]
  <2>1. /\ pc \in [Threads -> Labels] /\ sig \in 0 .. 2 /\ "sig_wait" \in Labels
        /\ keys \in [Clients -> {"off", "idle", "asked", "pending", "answered"}]
    BY DEF Types, Labels
  <2>2. pc' \in [Threads -> Labels]
    BY <1>d, <1>i, <2>1 DEF AnswerTo
  <2>3. sig' \in 0 .. 2
    BY <1>i, <2>1 DEF AnswerTo
  <2>4. keys' \in [Clients -> {"off", "idle", "asked", "pending", "answered"}]
    BY <1>i, <2>1 DEF AnswerTo
  <2> QED
    BY <2>2, <2>3, <2>4
<1>j. /\ sig \in 0 .. 2 /\ keys \in [Clients -> {"off", "idle", "asked", "pending", "answered"}]
      /\ cells \in [Ids -> Nat] /\ bmatrix \in [Ids -> Nat] /\ under \subseteq Ids \cup {-1}
      /\ strayed \in BOOLEAN /\ teleports \in Nat
      /\ NoCells \in [Ids -> Nat] /\ id \in [Clients -> Ids \cup {-1}] /\ pc \in [Threads -> Labels]
      /\ at \in [Threads -> Entry] /\ IsInjective(clients)
  BY DEF Types, NoCells, Entry
<1>l. ASSUME NEW why, Halt(why)
      PROVE  Types'
  <2>1. UNCHANGED <<link, wire, creader, keys, backlog, pc, at, mutex, sig, clients, freed, nclients, reg, id,
                    board, teleports, cut>>
    BY <1>l DEF Halt, wires, list, board, counters
  <2> QED
    BY <1>b, <1>h, <1>j, <2>1 DEF board
<1>m. {"place", "idcl", "refuse", "accept", "spin", "progress", "bcast_all", "tbcast_all", "hit",
       "exit", "dead", "dead_wait", "exit_wait", "sig_wait"} \subseteq Labels
  BY DEF Labels
<1>f. pc["main"] \in NewLabels \cup {"add"} => cur \in Clients /\ cur \notin Listed
  BY <1>a DEF FreshInv, New, AtMain, NewLabels
<1>g. Listed \subseteq Clients
  BY <1>b, EntryFacts
<1> USE DEF Main, list, board, counters, wires
<1>1. CASE MainStep
  <2>1. CASE Accept
    BY <2>1, <1>d, HeadTailProperties, ThreadFacts DEF Accept, Types, Labels
  <2>2. CASE inform_refuse
    BY <2>2, <1>b, <1>e, <1>f, SayTypes, ThreadFacts DEF inform_refuse, NewLabels, Answers, Labels, Entry
  <2>3. CASE Refused
    BY ZenonT(60), <2>3, <1>d, ThreadFacts DEF Refused, Halt, Heard, Types, Labels
  <2>4. CASE FirstFree
    <3>1. CASE \E why : Halt(why)
      BY <1>l, <3>1
    <3>2. CASE ~\E why : Halt(why)
      <4>1. /\ id' = [id EXCEPT ![cur] = get_first_free] /\ Goto("main", "place") /\ cur \in Clients
            /\ UNCHANGED <<wires, backlog, at, mutex, sig, list, board, teleports, cut>>
        BY <2>4, <3>2, <1>f DEF FirstFree, NewLabels
      <4>2. id' \in [Clients -> Ids \cup {-1}]
        BY <4>1, <1>j, FirstFreeFacts
      <4>3. pc' \in [Threads -> Labels]
        BY <4>1, <1>d, <1>m
      <4> QED
        BY <4>1, <4>2, <4>3 DEF Types, Threads, Labels
    <3> QED
      BY <3>1, <3>2
  <2>5. CASE place_client_onboard
    <3>1. id[cur] \in Ids \cup {-1}
      BY <2>5, <1>f, <1>j DEF place_client_onboard, NewLabels
    <3>2. cells' \in [Ids -> Nat] /\ under' \subseteq Ids \cup {-1} /\ strayed' \in BOOLEAN
      <4>1. \/ cells' = Put(cells, id[cur]) /\ Lands(id[cur]) /\ strayed' = strayed
            \/ cells' = cells /\ under' = under /\ strayed' \in {TRUE, strayed}
            \/ cells' \in Strays(cells, id[cur]) /\ under' = under /\ strayed' = TRUE
        BY <2>5 DEF place_client_onboard
      <4> QED
        BY <3>1, <4>1, <1>j, StraysTypes DEF Lands
    <3>3. pc' \in [Threads -> Labels]
      BY <2>5, <1>d, <1>j, <1>m DEF place_client_onboard
    <3>4. UNCHANGED <<wires, backlog, at, mutex, sig, list, id, bmatrix, teleports, cut>>
      BY <2>5 DEF place_client_onboard
    <3> QED
      BY <3>2, <3>3, <3>4, <1>b, <1>h, <1>j
  <2>6. CASE send_client_id
    <3>1. CASE \E why : Halt(why)
      BY <1>l, <3>1
    <3>2. CASE ~\E why : Halt(why)
      <4>1. /\ pc["main"] = "idcl" /\ mutex' = "main" /\ Say("main", cur, "IDCL", "idok", wire)
            /\ UNCHANGED <<link, creader, keys, backlog, list, id, board, counters>>
        BY <2>6, <3>2 DEF send_client_id
      <4>2. cur \in Clients /\ "IDCL" \in DOMAIN Answers /\ "idok" \in Labels
        BY <4>1, <1>f DEF NewLabels, Answers, Labels
      <4>3. TalkTypes'
        BY <1>b, <4>1, <4>2, SayTypes, ThreadFacts DEF Entry
      <4> QED
        BY <1>b, <1>e, <4>1, <4>3, ThreadFacts
    <3> QED
      BY <3>1, <3>2
  <2>7. CASE IdSent
    BY <2>7, <1>c, <1>d, ThreadFacts DEF IdSent, Free, Types, WireTypes, Labels
  <2>8. CASE send_board
    BY <2>8, <1>b, <1>e, <1>f, SayTypes, ThreadFacts DEF send_board, NewLabels, Answers, Labels, Entry
  <2>9. CASE BoardSent
    BY <2>9, <1>c, <1>d, ThreadFacts DEF BoardSent, Free, Types, WireTypes, Labels
  <2>10. CASE Unplace
    <3>1. CASE \E why : Halt(why)
      BY <1>l, <3>1
    <3>2. CASE ~\E why : Halt(why)
      <4>1. /\ remove_id(id[cur]) /\ under' = under \ {id[cur]} /\ Goto("main", "accept")
            /\ UNCHANGED <<wires, backlog, at, mutex, sig, list, id, bmatrix, strayed, teleports, cut>>
        BY <2>10, <3>2 DEF Unplace
      <4>2. cells' \in [Ids -> Nat] /\ under' \subseteq Ids \cup {-1}
        BY <4>1, <1>j DEF remove_id
      <4>3. pc' \in [Threads -> Labels]
        BY <4>1, <1>d, <1>m
      <4> QED
        BY <4>1, <4>2, <4>3, <1>b, <1>h, <1>j
    <3> QED
      BY <3>1, <3>2
  <2>11. CASE CreateReader
    BY <2>11, ThreadFacts DEF CreateReader, Types, Labels
  <2>12. CASE add_client
    BY <2>12, <1>b, <1>d, <1>f, AddedFacts, ThreadFacts DEF add_client, Types, Labels
  <2>13. CASE Count
    BY <2>13, <1>d, ThreadFacts DEF Count, Types, Labels
  <2>14. CASE TellAll
    BY <2>14, <1>b, <1>c, <1>e, WalkTypes, TellFacts, ThreadFacts DEF TellAll
  <2> QED
    BY <1>1, <2>1, <2>2, <2>3, <2>4, <2>5, <2>6, <2>7, <2>8, <2>9, <2>10, <2>11, <2>12, <2>13, <2>14 DEF MainStep
<1>2. ASSUME NEW c \in Clients, ReaderStep(c)
      PROVE  Types'
  <2>1. CASE Spin(c)
    BY <2>1, <1>d DEF Spin, Types, Labels
  <2>2. CASE ReadBusy(c)
    BY <2>2, <1>b, <1>h, <1>i, <1>j, <1>m DEF ReadBusy
  <2>3. CASE ReadRequest(c)
    <3>1. CASE \E why : Halt(why)
      BY <1>l, <3>1
    <3>2. CASE ~\E why : Halt(why)
      <4>1. /\ keys' = [keys EXCEPT ![c] = IF Broken(c) THEN "off" ELSE "pending"]
            /\ mutex' = c /\ bmatrix' = cells /\ Goto(c, "progress")
            /\ UNCHANGED <<link, wire, creader, backlog, at, sig, list, id, cells, under, strayed, teleports, cut>>
        BY <2>3, <3>2 DEF ReadRequest
      <4>2. keys' \in [Clients -> {"off", "idle", "asked", "pending", "answered"}]
        BY <4>1, <1>j
      <4>3. pc' \in [Threads -> Labels] /\ mutex' \in Threads
        BY <4>1, <1>d, <1>m, ThreadFacts
      <4> QED
        BY <4>1, <4>2, <4>3, <1>h, <1>j
    <3> QED
      BY <3>1, <3>2
  <2>4. CASE player_hit(c)
    <3>1. CASE \E why : Halt(why)
      BY <1>l, <3>1
    <3>2. CASE ~\E why : Halt(why)
      <4>1. PICK k \in 1 .. Len(clients) : Say(c, clients[k], "DEAD", "hit", wire)
        BY <2>4, <3>2 DEF player_hit
      <4>2. UNCHANGED <<link, creader, keys, backlog, mutex, list, id, board, teleports, cut>>
        BY <2>4, <3>2 DEF player_hit
      <4>3. clients[k] \in Clients /\ "DEAD" \in DOMAIN Answers
        BY <1>b, ElementOfSeq DEF Answers
      <4>4. TalkTypes'
        BY <4>1, <4>3, <1>b, <1>m, SayTypes, ThreadFacts DEF Entry
      <4> QED
        BY <4>2, <4>4, <1>b, <1>e DEF Threads
    <3> QED
      BY <3>1, <3>2
  <2>5. CASE HitTaken(c)
    <3>1. CASE \E why : Halt(why)
      BY <1>l, <3>1
    <3>2. CASE ~\E why : Halt(why)
      <4>1. /\ wire' = Heard(at[c]) /\ Goto(c, "progress")
            /\ bmatrix' = [bmatrix EXCEPT ![id[at[c]]] = cells[id[at[c]]]]
            /\ UNCHANGED <<link, creader, keys, backlog, at, mutex, sig, list, id, cells, under, strayed, teleports, cut>>
        BY <2>5, <3>2 DEF HitTaken
      <4>2. bmatrix' \in [Ids -> Nat]
        BY <4>1, <1>j
      <4>3. pc' \in [Threads -> Labels] /\ wire' \in [Clients -> WireTypes]
        BY <4>1, <1>c, <1>d, <1>m
      <4> QED
        BY <4>1, <4>2, <4>3 DEF Types, WireTypes, Threads, Labels
    <3> QED
      BY <3>1, <3>2
  <2>6. CASE Cant(c)
    BY <2>6, <1>b, <1>h, <1>i, <1>j, <1>m DEF Cant, Free
  <2>7. CASE Can(c)
    BY <2>7, <1>b, <1>h, <1>i, <1>j, <1>m DEF Can, Lands
  <2>8. CASE teleport(c)
    BY <2>8, <1>d DEF teleport, NoCells, Types, Labels
  <2>9. CASE TeleportPut(c)
    <3>0. CASE \E why : Halt(why)
      BY <1>l, <3>0
    <3>1. CASE ~\E why : Halt(why)
      <4>0. TeleportPut(c) /\ ~Halt("wild")
        BY <2>9, <3>1
      <4>1. /\ \/ /\ strayed' = strayed
                  /\ \E S : /\ cells' = [i \in Ids |-> IF i \in S /\ cells[i] > 0 THEN cells[i] - 1 ELSE cells[i]]
                            /\ under' \subseteq under \cup {id[c]}
               \/ strayed' = TRUE /\ under' = under /\ cells' \in Strays(Take(cells, id[c]), id[c])
            /\ \E n \in (0 .. 2) \cup {bmatrix[id[c]]} : bmatrix' = [bmatrix EXCEPT ![id[c]] = n]
            /\ AnswerTo(c, "tbcast_all")
            /\ UNCHANGED <<link, wire, creader, backlog, at, mutex, list, id, counters>>
        BY <4>0 DEF TeleportPut
      <4>2. cells' \in [Ids -> Nat] /\ under' \subseteq Ids \cup {-1} /\ strayed' \in BOOLEAN
        <5>1. id[c] \in Ids \cup {-1}
          BY <1>j
        <5>2. \A S : [i \in Ids |-> IF i \in S /\ cells[i] > 0 THEN cells[i] - 1 ELSE cells[i]] \in [Ids -> Nat]
          BY <1>j
        <5>3. Strays(Take(cells, id[c]), id[c]) \subseteq [Ids -> Nat]
          BY <1>j, StraysTypes
        <5>4. cells' \in [Ids -> Nat]
          BY <4>1, <5>2, <5>3
        <5>5. strayed' \in BOOLEAN
          BY Zenon, <4>1, <1>j
        <5>6. under' = under \/ under' \subseteq under \cup {id[c]}
          BY Zenon, <4>1
        <5>7. under' \subseteq Ids \cup {-1}
          BY <5>1, <5>6, <1>j
        <5> QED
          BY <5>4, <5>5, <5>7
      <4>3. bmatrix' \in [Ids -> Nat]
        <5>1. PICK n \in (0 .. 2) \cup {bmatrix[id[c]]} : bmatrix' = [bmatrix EXCEPT ![id[c]] = n]
          BY <4>1
        <5>2. id[c] \in Ids => n \in Nat
          BY <1>j
        <5> QED
          BY <5>1, <5>2, <1>j
      <4>4. pc' \in [Threads -> Labels] /\ sig' \in 0 .. 2
            /\ keys' \in [Clients -> {"off", "idle", "asked", "pending", "answered"}]
        BY <4>1, <1>i, <1>m
      <4> QED
        BY <4>1, <4>2, <4>3, <4>4, <1>b, <1>h, <1>j
    <3> QED
      BY <3>0, <3>1
  <2>10. CASE TeleportCant(c)
    BY <2>10, <1>b, <1>h, <1>i, <1>j, <1>m DEF TeleportCant
  <2>11. CASE TellMove(c)
    BY <2>11, <1>b, <1>c, <1>e, WalkTypes, TellFacts, ThreadFacts DEF TellMove
  <2>12. CASE ReadEnd(c)
    <3>1. pc' \in [Threads -> Labels]
      BY <2>12, <1>d, <1>m DEF ReadEnd
    <3>2. keys' \in [Clients -> {"off", "idle", "asked", "pending", "answered"}] /\ at' \in [Threads -> Entry]
      BY <2>12, <1>c, <1>j DEF ReadEnd
    <3>3. sig' = 1 /\ UNCHANGED <<link, wire, creader, backlog, mutex, list, id, board, teleports, cut>>
      BY <2>12 DEF ReadEnd
    <3> QED
      BY <3>1, <3>2, <3>3 DEF Types, Entry, Threads, Labels
  <2>13. CASE Unlist(c)
    <3>1. CASE \E why : Halt(why)
      BY <1>l, <3>1
    <3>2. CASE ~\E why : Halt(why)
      <4>1. /\ c \in From(at[c]) /\ mutex' = c /\ sig' = 1
            /\ remove_id(id[c]) /\ under' = under \ {id[c]}
            /\ clients' = clients \/ clients' = RemoveAt(clients, Pos(c))
            /\ reg' = [reg EXCEPT ![c] = nclients]
            /\ Goto(c, IF pc[c] = "exit_wait" THEN "exit" ELSE "dead")
            /\ UNCHANGED <<wires, backlog, at, freed, nclients, id, bmatrix, strayed, teleports, cut>>
        BY <2>13, <3>2 DEF Unlist
      <4>2. clients' \in Seq(Clients) /\ IsInjective(clients')
        BY <4>1, <1>b, <1>j, FromFacts, UnlistedFacts
      <4>3. cells' \in [Ids -> Nat] /\ under' \subseteq Ids \cup {-1}
        BY <4>1, <1>j DEF remove_id
      <4>4. pc' \in [Threads -> Labels] /\ mutex' \in Threads
        BY <4>1, <1>d, <1>m, ThreadFacts
      <4>5. reg' \in [Threads -> Int]
        BY <4>1 DEF Types
      <4> QED
        BY <4>1, <4>2, <4>3, <4>4, <4>5 DEF Types, Threads, Labels
    <3> QED
      BY <3>1, <3>2
  <2>14. CASE Finish(c)
    BY SMTT(30), <2>14, <1>d, ThreadFacts DEF Finish, Free, Types, Labels
  <2>15. CASE Unsig(c)
    BY <2>15, <1>d DEF Unsig, Types, Labels
  <2>16. CASE TellLeft(c)
    BY <2>16, <1>b, <1>c, <1>e, WalkTypes, TellFacts, ThreadFacts DEF TellLeft
  <2> QED
    BY <1>2, <2>1, <2>2, <2>3, <2>4, <2>5, <2>6, <2>7, <2>8, <2>9, <2>10, <2>11, <2>12, <2>13, <2>14, <2>15, <2>16 DEF ReaderStep
<1>3. ASSUME NEW t \in Threads, SecondHalf(t) \/ BroadcastStep(t) \/ SigWait(t) \/ Shutdown(t) \/ Interrupt(t)
      PROVE  Types'
  <2>1. CASE BroadcastStep(t)
    <3>1. TalkTypes' /\ mutex' \in Threads \cup {NoOne}
      <4>1. CASE at[t] \in freed
        BY <1>b, <2>1, <4>1, WalkTypes DEF BroadcastStep, Entry
      <4>2. CASE at[t] \notin freed
        BY <1>b, <1>c, <2>1, <4>2, WalkTypes DEF BroadcastStep
      <4> QED
        BY <4>1, <4>2
    <3> QED
      BY <2>1, <3>1, <1>b, <1>e DEF BroadcastStep
  <2>2. CASE SigWait(t)
    BY <2>2, <1>b, <1>e, ShutTypes DEF SigWait
  <2>3. CASE Shutdown(t)
    BY <2>3, <1>b, <1>e, ShutTypes DEF Shutdown, Threads
  <2>4. CASE Interrupt(t)
    <3>1. pc' \in [Threads -> Labels]
      BY <2>4, <1>j, <1>m, InterruptFacts
    <3>2. at' \in [Threads -> Entry]
      BY <2>4, <1>c, <1>j, InterruptFacts
    <3>3. cut' \subseteq Clients
      <4>1. cut' = cut \/ (at[t] # NoOne /\ cut' = cut \cup {at[t]})
        BY <2>4, InterruptFacts
      <4>2. at[t] \in Clients \cup {NoOne}
        BY <1>j DEF Entry
      <4> QED
        BY <1>b, <4>1, <4>2
    <3>4. sig' \in 0 .. 2
      BY <2>4, <1>j, InterruptFacts
    <3>5. UNCHANGED <<wires, backlog, mutex, clients, freed, nclients, reg, id, board, teleports>>
      BY <2>4, InterruptFacts
    <3>6. TalkTypes'
      BY <1>b, <3>1, <3>2, <3>4, <3>5 DEF TalkTypes
    <3> QED
      BY <1>b, <1>e, <3>3, <3>5, <3>6
  <2>5. CASE SecondHalf(t)
    <3>1. /\ at[t] \in Entry /\ pc[t] \in Labels /\ "id" \in DOMAIN Answers /\ "board" \in DOMAIN Answers
          /\ "half" \in WireTypes
      BY <1>j DEF Answers, WireTypes
    <3>2. CASE UNCHANGED <<pc, at, sig>> /\ wire' = [wire EXCEPT ![at[t]] = "half"]
      <4>1. wire' \in [Clients -> WireTypes]
        BY <1>b, <3>1, <3>2
      <4>2. TalkTypes'
        BY <1>b, <3>2, <4>1 DEF TalkTypes
      <4> QED
        BY <2>5, <4>2, <1>b, <1>e DEF SecondHalf
    <3>3. CASE \E m \in DOMAIN Answers : Say(t, at[t], m, pc[t], Heard(at[t]))
      <4>1. TalkTypes'
        BY <1>b, <1>c, <3>1, <3>3, SayTypes
      <4> QED
        BY <2>5, <4>1, <1>b, <1>e DEF SecondHalf
    <3> QED
      BY <2>5, <3>1, <3>2, <3>3 DEF SecondHalf
  <2> QED
    BY <1>3, <2>1, <2>2, <2>3, <2>4, <2>5
<1>4. ASSUME NEW c \in Clients, Reply(c) \/ Refresh(c) \/ KeyDone(c) \/ Dismissed(c) \/ SeesEnd(c) \/ Connect(c) \/ Key(c) \/ Leave(c)
      PROVE  Types'
  <2>1. ASSUME UNCHANGED <<serverSide, teleports, cut>>,
               link' \in [Clients -> {"off", "open", "closed"}], wire' \in [Clients -> WireTypes],
               creader' \in [Clients -> {"off", "listen", "half", "locking", "dying"}],
               keys' \in [Clients -> {"off", "idle", "asked", "pending", "answered"}],
               backlog' \in Seq(Clients)
        PROVE  Types'
    BY <2>1 DEF Types, serverSide, WireTypes, Threads, Labels
  <2>2. /\ link \in [Clients -> {"off", "open", "closed"}] /\ backlog \in Seq(Clients)
        /\ creader \in [Clients -> {"off", "listen", "half", "locking", "dying"}]
        /\ \A m \in DOMAIN Answers : Answers[m] \in WireTypes /\ After[m] \in {"listen", "half", "locking", "dying"}
    BY DEF Types, Answers, After, WireTypes
  <2>3. UNCHANGED <<serverSide, teleports, cut>>
    BY <1>4 DEF Reply, Refresh, KeyDone, Dismissed, SeesEnd, Connect, Key, Leave, Gone
  <2>4. CASE Reply(c)
    BY <2>1, <2>2, <2>3, <2>4, <1>b, <1>j DEF Reply, WireTypes
  <2>5. CASE Refresh(c) \/ KeyDone(c) \/ Key(c)
    BY <2>1, <2>2, <2>3, <2>5, <1>b, <1>j DEF Refresh, KeyDone, Key
  <2>6. CASE Gone(c)
    BY <2>1, <2>2, <2>3, <2>6, <1>b, <1>j DEF Gone
  <2>7. CASE Connect(c)
    BY <2>1, <2>2, <2>3, <2>7, <1>b, <1>j, AppendProperties DEF Connect
  <2> QED
    BY <1>4, <2>4, <2>5, <2>6, <2>7 DEF Leave, Dismissed, SeesEnd
<1> QED
  BY <1>1, <1>2, <1>3, <1>4 DEF Next, ServerStep, ClientStep, Users

(* A client's reader thread starts when the client connects.  *)
\* Dismissed and Leave are for clients that have connected.
Offline == \A c \in Clients : link[c] = "off" => creader[c] = "off"

(* Every step keeps Offline.  *)
LEMMA OfflineStep ==
    ASSUME Types, Offline, Next
    PROVE  Offline'
<1>1. /\ link = [c \in Clients |-> link[c]] /\ creader = [c \in Clients |-> creader[c]]
      /\ \A c \in Clients : creader[c] # "off" => link[c] # "off"
  BY DEF Types, Offline
<1>2. ASSUME NEW t \in Threads, ServerStep(t) \/ Interrupt(t)
      PROVE  link' = link /\ creader' = creader
  <2>1. MainStep => link' = link /\ creader' = creader
    BY DEF MainStep, Accept, inform_refuse, Refused, FirstFree, place_client_onboard, send_client_id, IdSent,
           send_board, BoardSent, Unplace, CreateReader, add_client, Count, TellAll, Halt, wires
  <2>2. \A c : ReaderStep(c) => link' = link /\ creader' = creader
    BY ZenonT(60) DEF ReaderStep, Spin, ReadBusy, ReadRequest, player_hit, HitTaken, Cant, Can, teleport, TeleportPut,
           TeleportCant, TellMove, ReadEnd, Unlist, Finish, Unsig, TellLeft, Halt, wires
  <2> QED
    BY <1>2, <2>1, <2>2 DEF ServerStep, Interrupt, SecondHalf, BroadcastStep, SigWait, Shutdown, wires
<1>3. ASSUME NEW c \in Clients, Connect(c) \/ Key(c) \/ Leave(c) \/ ClientStep(c)
      PROVE  \/ link' = link /\ creader' = creader
             \/ link' = link /\ creader[c] # "off" /\ \E l : creader' = [creader EXCEPT ![c] = l]
             \/ \E l \in {"open", "closed"} : \E m : link' = [link EXCEPT ![c] = l] /\ creader' = [creader EXCEPT ![c] = m]
  BY <1>3 DEF ClientStep, Connect, Key, Leave, Reply, Refresh, KeyDone, Dismissed, SeesEnd, Gone
<1>4. CASE link' = link /\ creader' = creader
  BY <1>4 DEF Offline
<1>5. ASSUME NEW c \in Clients, Connect(c) \/ Key(c) \/ Leave(c) \/ ClientStep(c)
      PROVE  Offline'
  <2>1. ASSUME NEW l \in {"open", "closed"}, NEW m, link' = [link EXCEPT ![c] = l], creader' = [creader EXCEPT ![c] = m]
        PROVE  Offline'
    BY <1>1, <2>1 DEF Offline
  <2>2. ASSUME NEW m, link' = link, creader[c] # "off", creader' = [creader EXCEPT ![c] = m]
        PROVE  Offline'
    BY <1>1, <2>2 DEF Offline
  <2> QED
    BY <1>3, <1>4, <1>5, <2>1, <2>2
<1> QED
  BY <1>2, <1>4, <1>5 DEF Next, Users

(* The queue of clients that wait for accept.  *)
LEMMA AcceptFacts ==
    ASSUME FreshInv, Running, backlog \in Seq(Clients), Accept
    PROVE  /\ Head(backlog) \in Clients /\ Queued(Head(backlog)) /\ IsInjective(backlog)'
           /\ \A c : Queued(c)' <=> Queued(c) /\ c # Head(backlog)
<1> DEFINE h == Head(backlog)
<1>1. backlog # << >> /\ backlog' = Tail(backlog)
  BY DEF Accept
<1>2. /\ h = backlog[1] /\ h \in Clients /\ Len(backlog') = Len(backlog) - 1
      /\ \A k \in 1 .. Len(backlog') : backlog'[k] = backlog[k + 1]
      /\ Len(backlog) \in Nat \ {0}
  <2>1. h = backlog[1]
    BY <1>1
  <2> HIDE DEF h
  <2>2. /\ Head(backlog) \in Clients /\ Len(backlog') = Len(backlog) - 1
        /\ \A k \in 1 .. Len(backlog') : backlog'[k] = backlog[k + 1]
    BY <1>1, HeadTailProperties
  <2>3. Len(backlog) \in Nat \ {0}
    BY <1>1, EmptySeq
  <2> QED
    BY <2>1, <2>2, <2>3 DEF h
<1>3. /\ DOMAIN backlog = 1 .. Len(backlog) /\ DOMAIN backlog' = 1 .. Len(backlog')
      /\ \A k, l \in 1 .. Len(backlog) : backlog[k] = backlog[l] => k = l
  BY <1>1, HeadTailProperties, LenProperties DEF FreshInv, IsInjective
<1> HIDE DEF h
<1>4. /\ \A k \in 1 .. Len(backlog') : k + 1 \in 1 .. Len(backlog) /\ k + 1 # 1 /\ backlog'[k] = backlog[k + 1]
      /\ \A k \in 1 .. Len(backlog) : k # 1 => k - 1 \in 1 .. Len(backlog') /\ backlog'[k - 1] = backlog[k]
      /\ 1 \in 1 .. Len(backlog)
  BY <1>2
<1>5. \A k, l \in 1 .. Len(backlog') : backlog'[k] = backlog'[l] => k = l
  BY <1>2, <1>3, <1>4
<1>6. IsInjective(backlog)'
  BY <1>3, <1>5 DEF IsInjective
<1>7. ASSUME NEW c
      PROVE  Queued(c)' <=> Queued(c) /\ c # h
  <2>1. Queued(c)' => Queued(c) /\ c # h
    BY <1>2, <1>3, <1>4 DEF Queued
  <2>2. Queued(c) /\ c # h => Queued(c)'
    BY <1>2, <1>4 DEF Queued
  <2> QED
    BY <2>1, <2>2
<1>8. Queued(h)
  BY <1>2, <1>4 DEF Queued
<1> QED
  BY <1>2, <1>6, <1>7, <1>8 DEF h

(* A client that connects is added to the backlog.  *)
LEMMA ConnectFacts ==
    ASSUME backlog \in Seq(Clients), NEW c \in Clients, backlog' = Append(backlog, c)
    PROVE  /\ \A d : Queued(d)' <=> Queued(d) \/ d = c
           /\ ~Queued(c) /\ IsInjective(backlog) => IsInjective(backlog')
<1>1. /\ Len(backlog') = Len(backlog) + 1 /\ Len(backlog) \in Nat
      /\ \A k \in 1 .. Len(backlog) : backlog'[k] = backlog[k]
      /\ backlog'[Len(backlog) + 1] = c
      /\ DOMAIN backlog = 1 .. Len(backlog) /\ DOMAIN backlog' = 1 .. Len(backlog')
  BY AppendProperties, LenProperties
<1>2. /\ \A k \in 1 .. Len(backlog') : k \in 1 .. Len(backlog) \/ k = Len(backlog) + 1
      /\ 1 .. Len(backlog) \subseteq 1 .. Len(backlog') /\ Len(backlog) + 1 \in 1 .. Len(backlog')
  BY <1>1
<1>3. \A d : Queued(d)' <=> Queued(d) \/ d = c
  BY <1>1, <1>2 DEF Queued
<1>4. ASSUME ~Queued(c), IsInjective(backlog)
      PROVE  IsInjective(backlog')
  <2>1. \A k \in 1 .. Len(backlog) : backlog[k] # c
    BY <1>4 DEF Queued
  <2>2. \A k, l \in 1 .. Len(backlog) : backlog[k] = backlog[l] => k = l
    BY <1>1, <1>4 DEF IsInjective
  <2> QED
    BY <1>1, <1>2, <2>1, <2>2 DEF IsInjective
<1> QED
  BY <1>3, <1>4

(* Every step that does not end the server keeps FreshInv.  *)
LEMMA FreshStep ==
    ASSUME Types, Offline, FreshInv, Next, Running, Running'
    PROVE  FreshInv'
<1>a. /\ pc = [t \in Threads |-> pc[t]] /\ at = [t \in Threads |-> at[t]]
      /\ freed \subseteq Clients
      /\ link = [c \in Clients |-> link[c]]
  BY DEF Types
<1>b. pc["main"] = "add" => cur \notin Listed /\ pc[cur] \in Unlisted
  BY DEF FreshInv, AtMain
<1>c. ASSUME clients' = clients
      PROVE  Listed' = Listed
  BY <1>c DEF Listed
\* A step of a client's reader thread that takes it to l.
<1>d. ASSUME NEW t \in Clients, NEW l, pc' = [pc EXCEPT ![t] = l], at'["main"] = at["main"],
             backlog' = backlog, link' = link, Listed' \subseteq Listed,
             \A c \in freed' : c \in freed \/ pc[c] \in {"exit", "dead"},
             pc[t] # "none",
             pc[t] \in Unlisted /\ t \notin Listed => l \in Unlisted
      PROVE  FreshInv'
  <2>1. /\ pc'["main"] = pc["main"] /\ cur' = cur
        /\ \A c \in Clients : pc'[c] = IF c = t THEN l ELSE pc[c]
    BY <1>a, <1>d, ThreadFacts DEF cur
  <2>2. pc["main"] = "add" => pc'[cur] \in Unlisted
    BY <1>a, <1>b, <1>d, ThreadFacts
  <2>3. \A c \in Clients : pc[c] = "none" => pc'[c] = "none"
    BY <1>d, <2>1
  <2>4. Listed' \subseteq Listed /\ backlog' = backlog /\ link' = link
    BY <1>d
  <2>5. \A c \in freed' : c \in freed \/ pc[c] \in {"exit", "dead"}
    BY <1>d
  <2> QED
    BY <2>1, <2>2, <2>3, <2>4, <2>5, FreshKept
\* A step of the main thread that takes it to l.
<1>e. ASSUME NEW l, pc' = [pc EXCEPT !["main"] = l], backlog' = backlog, link' = link, clients' = clients,
             freed' = freed,
             l \in NewLabels => pc["main"] \in NewLabels /\ cur' = cur,
             l # "add"
      PROVE  FreshInv'
  BY <1>a, <1>b, <1>c, <1>e, FreshKept, ThreadFacts DEF Unlisted, cur
<1>f. ASSUME NEW t \in Threads, NEW l, NEW m, NEW w, Begins(t, l, m, w), l \in DOMAIN AfterTelling,
             backlog' = backlog, link' = link, clients' = clients, freed' = freed,
             pc[t] \notin Unlisted
      PROVE  FreshInv'
  <2>1. PICK k : pc' = [pc EXCEPT ![t] = k] /\ k \in {l, AfterTelling[l], "sig_wait"}
    BY <1>f DEF Begins, Said
  <2>2. k \notin NewLabels /\ k # "add"
    BY <1>f, <2>1, TellFacts DEF NewLabels
  <2>3. CASE t \in Clients
    <3>1. at'["main"] = at["main"]
      BY <1>a, <1>f, <2>3, ThreadFacts DEF Begins, Said
    <3> QED
      BY <1>c, <1>d, <1>f, <2>1, <2>3, <3>1 DEF Unlisted
  <2>4. CASE t = "main"
    BY <1>e, <1>f, <2>1, <2>2, <2>4
  <2> QED
    BY <2>3, <2>4 DEF Threads
<1>h. CASE Accept
  <2> DEFINE h == Head(backlog)
  <2>1. /\ backlog \in Seq(Clients) /\ cur' = h /\ pc'["main"] \in {"refuse", "first_free"}
        /\ \A c \in Clients : pc'[c] = pc[c]
        /\ Listed' = Listed /\ freed' = freed /\ link' = link
    <3>1. backlog \in Seq(Clients)
      BY DEF Types
    <3>2. /\ at' = [at EXCEPT !["main"] = h]
          /\ \E l \in {"refuse", "first_free"} : pc' = [pc EXCEPT !["main"] = l]
          /\ clients' = clients /\ freed' = freed /\ link' = link
      BY <1>h DEF Accept, Goto, wires, list
    <3> QED
      BY <1>a, <1>c, <3>1, <3>2, ThreadFacts DEF cur
  <2>2. h \in Clients /\ Queued(h) /\ IsInjective(backlog)' /\ \A c : Queued(c)' => Queued(c) /\ c # h
    BY <1>h, <2>1, AcceptFacts
  <2> HIDE DEF h
  <2>6. \A c \in Clients : New(c)' => New(c)
    BY <2>1, <2>2 DEF New, AtMain
  <2> QED
    BY <2>1, <2>2, <2>6 DEF FreshInv, AtMain
<1>i. CASE CreateReader
  <2>1. /\ pc["main"] = "create" /\ pc'["main"] = "add" /\ cur' = cur /\ Listed' = Listed
        /\ backlog' = backlog /\ link' = link /\ freed' = freed
        /\ \A c \in Clients : pc'[c] = IF c = cur THEN "spin" ELSE pc[c]
    <3>1. /\ pc["main"] = "create" /\ pc' = [pc EXCEPT !["main"] = "add", ![cur] = "spin"]
          /\ cur' = cur /\ clients' = clients /\ backlog' = backlog /\ link' = link /\ freed' = freed
      BY <1>i DEF CreateReader, Main, wires, list, cur
    <3>2. cur \in Clients
      BY <3>1 DEF FreshInv, NewLabels
    <3> QED
      BY <1>a, <1>c, <3>1, <3>2, ThreadFacts
  <2>2. New(cur) /\ cur \in Clients
    BY <2>1 DEF New, AtMain, NewLabels, FreshInv
  <2>3. \A c : Queued(c)' <=> Queued(c)
    BY <2>1 DEF Queued
  <2>4. \A c \in Clients : New(c)' => New(c) /\ c # cur
    BY <2>1, <2>3 DEF New, AtMain, NewLabels, FreshInv
  <2>5. pc["main"] \in NewLabels
    BY <2>1 DEF NewLabels
  <2> QED
    BY <2>1, <2>2, <2>3, <2>4, <2>5 DEF FreshInv, AtMain, Unlisted, NewLabels
<1>j. CASE add_client
  <2>1. /\ pc["main"] = "add" /\ pc'["main"] = "count" /\ cur' = cur
        /\ backlog' = backlog /\ link' = link /\ freed' = freed
        /\ \A c \in Clients : pc'[c] = pc[c]
        /\ clients \in Seq(Clients) /\ clients' = <<cur>> \o clients
    BY <1>a, <1>j, ThreadFacts DEF add_client, Goto, Main, Types, wires, cur
  <2>2. cur \in Clients /\ link[cur] # "off" /\ ~Queued(cur)
    BY <2>1 DEF FreshInv
  <2>3. \A c : Queued(c)' <=> Queued(c)
    BY <2>1 DEF Queued
  <2>4. \A c \in Clients : New(c)' => New(c) /\ c # cur
    BY <2>1, <2>2, <2>3 DEF New, AtMain, NewLabels
  <2>5. Listed' = Listed \cup {cur}
    BY <2>1, <2>2, AddedFacts
  <2> QED
    BY <2>1, <2>2, <2>3, <2>4, <2>5 DEF FreshInv, AtMain, NewLabels
<1>k. ASSUME NEW c \in Clients, Connect(c)
      PROVE  FreshInv'
  <2>1. /\ link[c] = "off" /\ link' = [link EXCEPT ![c] = "open"]
        /\ backlog \in Seq(Clients) /\ backlog' = Append(backlog, c)
        /\ pc' = pc /\ cur' = cur /\ Listed' = Listed /\ freed' = freed
    BY <1>c, <1>k DEF Connect, Types, serverSide, list, cur
  <2>2. ~Queued(c)
    BY <2>1 DEF FreshInv
  <2>4. \A d : Queued(d)' <=> Queued(d) \/ d = c
    BY <2>1, ConnectFacts
  <2>5. IsInjective(backlog')
    BY <2>1, <2>2, ConnectFacts DEF FreshInv
  <2>6. \A d \in Clients : New(d)' => New(d)
    BY <1>a, <2>1, <2>4 DEF New, AtMain
  <2> QED
    BY <1>a, <2>1, <2>2, <2>4, <2>5, <2>6 DEF FreshInv, AtMain
<1>g. ASSUME NEW t \in Threads, SigWait(t) \/ Shutdown(t)
      PROVE  FreshInv'
  <2>1. Listed' = Listed
    BY <1>a, <1>c, <1>g, ShutFacts
  <2> QED
    <3>1. /\ pc'[t] \in {"kill", "kill_last"} /\ pc[t] \in {"sig_wait", "kill", "kill_last"}
          /\ \A u \in Threads \ {t} : pc'[u] = pc[u] \/ pc'[u] = "none"
          /\ backlog' = backlog /\ link' = link /\ freed' = freed
          /\ \E e : at' = [at EXCEPT ![t] = e]
      BY <1>a, <1>g, ShutFacts
    <3>2. pc'["main"] \in NewLabels \cup {"add"} => t # "main" /\ pc'["main"] = pc["main"] /\ cur' = cur
      BY <1>a, <3>1, ThreadFacts DEF NewLabels, cur
    <3>3. pc'["main"] = "add" => pc'[cur] \in Unlisted
      <4> SUFFICES ASSUME pc'["main"] = "add"
                   PROVE  pc'[cur] \in Unlisted
        OBVIOUS
      <4>1. pc["main"] = "add" /\ cur \in Threads
        BY <3>2, ThreadFacts DEF FreshInv
      <4> QED
        BY <1>b, <3>1, <4>1 DEF Unlisted
    <3>4. \A c \in Clients : pc[c] = "none" => pc'[c] = "none"
      BY <3>1, ThreadFacts
    <3> QED
      BY <2>1, <3>1, <3>2, <3>3, <3>4, FreshKept
<1>l. ASSUME NEW c \in Clients, Unlist(c)
      PROVE  c \in Listed /\ Listed' \subseteq Listed
  <2>1. c \in Listed /\ clients \in Seq(Clients)
    BY <1>l, UnlistFacts, FromFacts DEF Types
  <2> QED
    BY <1>l, <2>1, UnlistFacts, UnlistedFacts
<1> USE DEF Goto, Main, list, Running
<1>1. CASE MainStep
  <2>1. CASE Accept
    BY <2>1, <1>h
  <2>2. CASE inform_refuse
    BY <2>2, <1>a, <1>e DEF inform_refuse, Say, NewLabels, wires, cur
  <2>3. CASE Refused
    BY <2>3, <1>a, <1>e DEF Refused, Halt, Answered, Broken, Heard, NewLabels, wires, cur
  <2>4. CASE FirstFree
    BY <2>4, <1>a, <1>e DEF FirstFree, Halt, NewLabels, wires, cur
  <2>5. CASE place_client_onboard
    BY <2>5, <1>a, <1>e DEF place_client_onboard, NewLabels, wires, cur
  <2>6. CASE send_client_id
    BY <2>6, <1>a, <1>e DEF send_client_id, Say, Halt, NewLabels, wires, cur
  <2>7. CASE IdSent
    BY <2>7, <1>a, <1>e DEF IdSent, Free, NewLabels, wires, cur
  <2>8. CASE send_board
    BY <2>8, <1>a, <1>e DEF send_board, Say, NewLabels, wires, cur
  <2>9. CASE BoardSent
    BY <2>9, <1>a, <1>e DEF BoardSent, Free, NewLabels, wires, cur
  <2>10. CASE Unplace
    BY <2>10, <1>a, <1>e DEF Unplace, Halt, NewLabels, wires, cur
  <2>11. CASE CreateReader
    BY <2>11, <1>i
  <2>12. CASE add_client
    BY <2>12, <1>j
  <2>13. CASE Count
    BY <2>13, <1>a, <1>e DEF Count, NewLabels, wires, cur
  <2>14. CASE TellAll
    BY <2>14, <1>f, TellingFacts, TellFacts, ThreadFacts DEF Unlisted
  <2> QED
    BY <1>1, <2>1, <2>2, <2>3, <2>4, <2>5, <2>6, <2>7, <2>8, <2>9, <2>10, <2>11, <2>12, <2>13, <2>14 DEF MainStep
<1>2. ASSUME NEW c \in Clients, ReaderStep(c)
      PROVE  FreshInv'
  <2>1. CASE Spin(c)
    BY <2>1, <1>a, <1>c, <1>d, ThreadFacts DEF Spin, Unlisted, wires
  <2>2. CASE ReadBusy(c)
    BY <2>2, <1>a, <1>c, <1>d, ThreadFacts DEF ReadBusy, AnswerTo, Unlisted, wires
  <2>3. CASE ReadRequest(c)
    BY <2>3, <1>a, <1>c, <1>d, ThreadFacts, RequestFacts DEF Unlisted
  <2>4. CASE player_hit(c)
    BY ZenonT(60), <2>4, <1>a, <1>c, <1>d, ThreadFacts DEF player_hit, Say, Halt, Unlisted, wires
  <2>5. CASE HitTaken(c)
    BY <2>5, <1>a, <1>c, <1>d, ThreadFacts DEF HitTaken, Halt, Unlisted, wires
  <2>6. CASE Cant(c)
    BY <2>6, <1>a, <1>c, <1>d, ThreadFacts DEF Cant, AnswerTo, Free, Unlisted, wires
  <2>7. CASE Can(c)
    BY <2>7, <1>a, <1>c, <1>d, ThreadFacts DEF Can, AnswerTo, Unlisted, wires
  <2>8. CASE teleport(c)
    BY <2>8, <1>a, <1>c, <1>d, ThreadFacts DEF teleport, Unlisted, wires
  <2>9. CASE TeleportPut(c)
    BY <2>9, <1>a, <1>c, <1>d, ThreadFacts DEF TeleportPut, AnswerTo, Halt, Unlisted, wires
  <2>10. CASE TeleportCant(c)
    BY <2>10, <1>a, <1>c, <1>d, ThreadFacts DEF TeleportCant, AnswerTo, Unlisted, wires
  <2>11. CASE TellMove(c)
    BY <2>11, <1>f, TellingFacts, TellFacts, ThreadFacts DEF Unlisted
  <2>12. CASE ReadEnd(c)
    BY <2>12, <1>a, <1>c, <1>d, ThreadFacts DEF ReadEnd, Unlisted, wires
  <2>13. CASE Unlist(c)
    BY <2>13, <1>a, <1>d, <1>l, UnlistFacts, ThreadFacts DEF Unlisted
  <2>14. CASE Finish(c)
    BY <2>14, <1>a, <1>c, <1>d, ThreadFacts DEF Finish, Free, Unlisted, wires
  <2>15. CASE Unsig(c)
    BY <2>15, <1>a, <1>c, <1>d, ThreadFacts DEF Unsig, Unlisted, wires
  <2>16. CASE TellLeft(c)
    BY <2>16, <1>f, TellingFacts, TellFacts, ThreadFacts DEF Unlisted
  <2> QED
    BY <1>2, <2>1, <2>2, <2>3, <2>4, <2>5, <2>6, <2>7, <2>8, <2>9, <2>10, <2>11, <2>12, <2>13, <2>14, <2>15, <2>16 DEF ReaderStep
<1>3. ASSUME NEW t \in Threads, SecondHalf(t) \/ BroadcastStep(t) \/ SigWait(t) \/ Shutdown(t) \/ Interrupt(t)
      PROVE  FreshInv'
  <2>1. CASE BroadcastStep(t)
    BY ZenonT(60), <2>1, <1>a, <1>f, BroadcastFacts, TellFacts DEF Unlisted
  <2>2. CASE SigWait(t)
    BY <2>2, <1>g
  <2>3. CASE Shutdown(t)
    BY <2>3, <1>g
  <2>4. CASE Interrupt(t)
    <3>1. /\ pc[t] # "none" /\ backlog' = backlog /\ link' = link
          /\ clients' = clients /\ freed' = freed
      BY <2>4, InterruptFacts DEF Idle, wires
    <3>2. CASE pc' = pc /\ at' = at
      BY <1>a, <1>b, <1>c, <3>1, <3>2, FreshKept DEF cur
    <3>3. ASSUME NEW l \in {"sig_wait", "exit_wait", "dead"}, pc' = [pc EXCEPT ![t] = l],
                 at' = at \/ at' = [at EXCEPT ![t] = First], l = "dead" => pc[t] = "exit"
          PROVE  FreshInv'
      <4>1. CASE t \in Clients
        <5>1. at'["main"] = at["main"]
          BY <1>a, <3>3, <4>1, ThreadFacts
        <5> QED
          BY <1>c, <1>d, <3>1, <3>3, <4>1, <5>1 DEF Unlisted
      <4>2. CASE t = "main"
        BY <1>e, <3>1, <3>3, <4>2 DEF NewLabels
      <4> QED
        BY <4>1, <4>2 DEF Threads
    <3> QED
      BY <2>4, <3>2, <3>3, InterruptFacts
  <2>5. CASE SecondHalf(t)
    <3>1. /\ pc[t] \notin Unlisted /\ backlog' = backlog /\ link' = link
          /\ clients' = clients /\ freed' = freed
      BY <2>5, HalfFacts DEF Sending, AfterTelling, Unlisted
    <3>2. /\ pc' = pc \/ pc' = [pc EXCEPT ![t] = pc[t]] \/ pc' = [pc EXCEPT ![t] = "sig_wait"]
          /\ at' = at \/ at' = [at EXCEPT ![t] = at[t]]
      BY <2>5, HalfFacts DEF Said
    <3>3. at' = at /\ (pc' = pc \/ pc' = [pc EXCEPT ![t] = "sig_wait"])
      BY <1>a, <3>2
    <3>4. CASE pc' = pc
      BY <1>a, <1>b, <1>c, <3>1, <3>3, <3>4, FreshKept DEF cur
    <3>5. CASE t \in Clients /\ pc' = [pc EXCEPT ![t] = "sig_wait"]
      BY <1>c, <1>d, <3>1, <3>3, <3>5 DEF Unlisted
    <3>6. CASE t = "main" /\ pc' = [pc EXCEPT ![t] = "sig_wait"]
      BY <1>e, <3>1, <3>6 DEF NewLabels
    <3> QED
      BY <3>3, <3>4, <3>5, <3>6 DEF Threads
  <2> QED
    BY <1>3, <2>1, <2>2, <2>3, <2>4, <2>5
<1>4. ASSUME NEW c \in Clients, Reply(c) \/ Refresh(c) \/ KeyDone(c) \/ Dismissed(c) \/ SeesEnd(c) \/ Connect(c) \/ Key(c) \/ Leave(c)
      PROVE  FreshInv'
  <2>1. CASE Connect(c)
    BY <1>k, <2>1
  <2>2. CASE ~Connect(c)
    <3>1. (link[c] # "off" /\ link' = [link EXCEPT ![c] = "closed"]) \/ link' = link
      BY <1>4, <2>2 DEF Reply, Refresh, KeyDone, Dismissed, SeesEnd, Key, Leave, Gone, Offline
    <3>2. backlog' = backlog /\ UNCHANGED <<pc, at, clients, freed>>
      BY <1>4, <2>2 DEF Reply, Refresh, KeyDone, Dismissed, SeesEnd, Key, Leave, Gone, serverSide
    <3>3. \A d \in Clients : link'[d] = "off" <=> link[d] = "off"
      BY <1>a, <3>1
    <3> QED
      BY <1>b, <1>c, <3>2, <3>3, FreshKept DEF cur
  <2> QED
    BY <2>1, <2>2
<1> QED
  BY <1>1, <1>2, <1>3, <1>4 DEF Next, ServerStep, ClientStep, Users

-----------------------------------------------------------------------------
(* Conversations.  Who has been asked something, or has answered and not    *)
(* been heard, is spoken to by a thread, or was when a signal came: the     *)
(* signal has cut the dialogue short, or its handler has taken the thread   *)
(* over.                                                                    *)
Talking == {"bane", "idok", "book", "tell", "bcast", "tbcast", "hit", "last"}
Handling == {"sig_wait", "kill", "kill_last"}
Quiet(w) == \A c \in Clients : w[c] = "none"

SpokenTo(c) == \/ c \in cut
               \/ \E t \in Threads : pc[t] \in Talking /\ at[t] = c
               \/ \E t \in Threads : pc[t] \in Handling /\ (mutex = t \/ t \in Clients)
TalkInv == Running => /\ pc["main"] # "tbcast"
                      /\ \A c \in Clients : wire[c] # "none" => SpokenTo(c)

(* What is enough for a step of the thread t to keep TalkInv.  *)
LEMMA TalkKept ==
    ASSUME TalkInv, Running, NEW t \in Threads, pc'["main"] # "tbcast", cut \subseteq cut',
           \A u \in Threads \ {t} : pc'[u] = pc[u] /\ at'[u] = at[u] /\ (mutex = u => mutex' = u),
           \A c \in Clients : wire'[c] # "none" =>
              \/ c \in cut'
              \/ pc'[t] \in Talking /\ at'[t] = c
              \/ pc'[t] \in Handling /\ (mutex' = t \/ t \in Clients)
              \/ wire[c] # "none" /\ pc[t] \notin Handling /\ (pc[t] \in Talking => at[t] # c)
    PROVE  TalkInv'
<1> SUFFICES ASSUME NEW c \in Clients, wire'[c] # "none"
             PROVE  SpokenTo(c)'
  BY DEF TalkInv
<1> HIDE DEF Talking, Handling
<1>1. CASE c \in cut' \/ (pc'[t] \in Talking /\ at'[t] = c) \/ (pc'[t] \in Handling /\ (mutex' = t \/ t \in Clients))
  BY <1>1 DEF SpokenTo, Talking, Handling, Threads
<1>2. CASE wire[c] # "none" /\ pc[t] \notin Handling /\ (pc[t] \in Talking => at[t] # c)
  <2>1. SpokenTo(c)
    BY <1>2 DEF TalkInv
  <2>2. CASE c \in cut
    BY <2>2 DEF SpokenTo
  <2>3. ASSUME NEW u \in Threads, pc[u] \in Talking, at[u] = c
        PROVE  SpokenTo(c)'
    <3>1. u # t
      BY <1>2, <2>3
    <3>2. pc'[u] \in Talking /\ at'[u] = c
      BY <2>3, <3>1
    <3> QED
      BY <3>2 DEF SpokenTo, Talking, Threads
  <2>4. ASSUME NEW u \in Threads, pc[u] \in Handling, mutex = u \/ u \in Clients
        PROVE  SpokenTo(c)'
    <3>1. u # t
      BY <1>2, <2>4
    <3>2. pc'[u] \in Handling /\ (mutex' = u \/ u \in Clients)
      BY <2>4, <3>1
    <3> QED
      BY <3>2 DEF SpokenTo, Handling, Threads
  <2> QED
    BY <2>1, <2>2, <2>3, <2>4 DEF SpokenTo
<1> QED
  BY <1>1, <1>2

(* When no signal has come in between and nobody sends boards without the   *)
(* mutex, the thread that has the mutex is the one that speaks.             *)
LEMMA QuietFacts ==
    ASSUME Types, MutexCovers, TalkInv, Running, cut = {}, \A t \in Clients : ~Unlocked(t)
    PROVE  /\ mutex = NoOne => Quiet(wire)
           /\ \A t \in Threads : /\ pc[t] \in Critical \ (Talking \cup Handling) => mutex = t /\ Quiet(wire)
                                 /\ pc[t] \in Talking => mutex = t /\ Quiet(Heard(at[t]))
           /\ \A t \in Clients : pc[t] \notin {"tbcast_all", "tbcast"}
<1>0. \A t \in Threads : /\ pc[t] \in Critical => mutex = t
                         /\ mutex = t => pc[t] \in Critical \cup {"sig_wait"}
  BY Zenon DEF MutexCovers, Running
<1>1. \A t \in Clients : pc[t] \notin {"tbcast_all", "tbcast"} /\ (pc[t] = "sig_wait" => mutex = t)
  BY <1>0, ThreadFacts DEF Unlocked, Critical
<1>2. ASSUME NEW t \in Threads, pc[t] \in Talking
      PROVE  mutex = t
  <2>1. pc[t] # "tbcast"
    BY <1>1 DEF TalkInv, Threads
  <2> QED
    BY <1>0, <1>2, <2>1 DEF Talking, Critical
<1>3. ASSUME NEW t \in Clients, pc[t] \in Handling
      PROVE  mutex = t
  BY <1>0, <1>1, <1>3, ThreadFacts DEF Handling, Critical
<1>4. ASSUME NEW c \in Clients, wire[c] # "none"
      PROVE  \E t \in Threads : mutex = t /\ (pc[t] \in Handling \/ (pc[t] \in Talking /\ at[t] = c))
  <2>1. SpokenTo(c)
    BY <1>4 DEF TalkInv
  <2> QED
    BY <1>2, <1>3, <2>1 DEF SpokenTo
<1>5. mutex = NoOne => Quiet(wire)
  BY <1>4, ThreadFacts DEF Quiet
<1>6. ASSUME NEW t \in Threads, pc[t] \in Critical \ (Talking \cup Handling)
      PROVE  mutex = t /\ Quiet(wire)
  BY <1>0, <1>4, <1>6 DEF Quiet
<1>7. ASSUME NEW t \in Threads, pc[t] \in Talking
      PROVE  Quiet(Heard(at[t]))
  <2>1. pc[t] \notin Handling
    BY <1>7 DEF Talking, Handling
  <2>2. \A c \in Clients : wire[c] # "none" => at[t] = c
    BY <1>2, <1>4, <1>7, <2>1
  <2>3. wire = [c \in Clients |-> wire[c]]
    BY DEF Types
  <2> QED
    BY <2>2, <2>3 DEF Quiet, Heard
<1> QED
  BY <1>1, <1>2, <1>5, <1>6, <1>7

(* Every step that does not end the server keeps TalkInv.  *)
LEMMA TalkStep ==
    ASSUME Types, FreshInv, MutexCovers, TalkInv, Next, Running, Running'
    PROVE  TalkInv'
<1>a. /\ pc = [t \in Threads |-> pc[t]] /\ at = [t \in Threads |-> at[t]]
      /\ wire = [c \in Clients |-> wire[c]] /\ freed \subseteq Clients /\ pc["main"] # "tbcast"
  BY DEF Types, TalkInv
<1>b. \A t \in Threads : pc[t] \in Critical => mutex = t
  BY Zenon DEF MutexCovers, Running
\* A step of a thread that talks to nobody and says nothing.
<1>d. ASSUME NEW t \in Threads, NEW l, pc' = [pc EXCEPT ![t] = l], t = "main" => l # "tbcast",
             pc[t] \notin Talking \cup Handling, wire' = wire, cut' = cut,
             \A u \in Threads \ {t} : at'[u] = at[u] /\ (mutex = u => mutex' = u)
      PROVE  TalkInv'
  <2>1. pc'["main"] # "tbcast" /\ \A u \in Threads \ {t} : pc'[u] = pc[u]
    BY <1>a, <1>d, ThreadFacts
  <2> QED
    BY <1>d, <2>1, TalkKept
\* A step of a thread that has heard the answer it waited for, or will not hear it.
<1>e. ASSUME NEW t \in Threads, NEW l, pc' = [pc EXCEPT ![t] = l], t = "main" => l # "tbcast",
             pc[t] \in Talking, wire' \in {Heard(at[t]), Over(at[t])}, cut' = cut,
             \A u \in Threads \ {t} : at'[u] = at[u] /\ (mutex = u => mutex' = u)
      PROVE  TalkInv'
  <2>1. pc'["main"] # "tbcast" /\ \A u \in Threads \ {t} : pc'[u] = pc[u]
    BY <1>a, <1>e, ThreadFacts
  <2>2. pc[t] \notin Handling
    BY <1>e DEF Talking, Handling
  <2>3. \A c \in Clients : wire'[c] # "none" => c \in cut' \/ (wire[c] # "none" /\ at[t] # c)
    BY <1>a, <1>e DEF Heard, Over
  <2> QED
    BY <1>e, <2>1, <2>2, <2>3, TalkKept
\* A thread says something.
<1>f. ASSUME NEW t \in Threads, NEW c, NEW m, NEW l \in Talking, NEW w, Said(t, c, m, l, w), t = "main" => l # "tbcast",
             \/ w = wire /\ pc[t] \notin Talking
             \/ w \in {Heard(at[t]), Over(at[t])} /\ pc[t] \in Talking,
             pc[t] \notin Handling, cut' = cut, \A u \in Threads \ {t} : mutex = u => mutex' = u
      PROVE  TalkInv'
  <2>1. pc'["main"] # "tbcast" /\ \A u \in Threads \ {t} : pc'[u] = pc[u] /\ at'[u] = at[u]
    BY <1>a, <1>f, ThreadFacts DEF Said
  <2>2. \A d \in Clients : w[d] # "none" => d \in cut \/ (wire[d] # "none" /\ (pc[t] \in Talking => at[t] # d))
    BY <1>a, <1>f DEF Heard, Over
  <2>3. CASE wire' = w
    BY <1>f, <2>1, <2>2, <2>3, TalkKept
  <2>4. CASE wire' # w
    <3>1. wire' = [w EXCEPT ![c] = m] /\ pc'[t] = l /\ at'[t] = c
      BY <1>a, <1>f, <2>4 DEF Said
    <3>2. \A d \in Clients : d # c => wire'[d] = w[d]
      BY <1>a, <1>f, <3>1 DEF Heard, Over
    <3>3. \A d \in Clients : wire'[d] # "none" =>
             \/ d \in cut'
             \/ pc'[t] \in Talking /\ at'[t] = d
             \/ wire[d] # "none" /\ pc[t] \notin Handling /\ (pc[t] \in Talking => at[t] # d)
      BY <1>f, <2>2, <3>1, <3>2
    <3> QED
      BY <1>f, <2>1, <3>3, TalkKept
  <2> QED
    BY <2>3, <2>4
\* A thread comes to the next entry of the list, or to its end.
<1>g. ASSUME NEW t \in Threads, NEW l, NEW m, NEW w, Begins(t, l, m, w), l \in DOMAIN AfterTelling, t = "main" => l # "tbcast",
             \/ w = wire /\ pc[t] \notin Talking
             \/ w \in {Heard(at[t]), Over(at[t])} /\ pc[t] \in Talking,
             pc[t] \notin Handling, cut' = cut, m = mutex \/ (m = t /\ mutex = NoOne)
      PROVE  TalkInv'
  <2>1. l \in Talking /\ AfterTelling[l] # "tbcast"
    BY <1>g, TellFacts DEF Talking
  <2>2. CASE /\ mutex' = (IF m = t THEN NoOne ELSE m) /\ wire' = w
             /\ at' = [at EXCEPT ![t] = NoOne] /\ pc' = [pc EXCEPT ![t] = AfterTelling[l]]
    <3>1. \A u \in Threads \ {t} : at'[u] = at[u] /\ (mutex = u => mutex' = u)
      BY <1>a, <1>g, <2>2, ThreadFacts
    <3> QED
      BY <1>d, <1>e, <1>g, <2>1, <2>2, <3>1
  <2>3. CASE \E e : mutex' = m /\ Said(t, e, "BOAR", l, w)
    <3>1. \A u \in Threads \ {t} : mutex = u => mutex' = u
      BY <1>g, <2>3, ThreadFacts
    <3> QED
      BY <1>f, <1>g, <2>1, <2>3, <3>1
  <2> QED
    BY <1>g, <2>2, <2>3 DEF Begins
\* The handler has the mutex, and takes over whatever has been said.
<1>h. ASSUME NEW t \in Threads, SigWait(t) \/ Shutdown(t)
      PROVE  TalkInv'
  <2>1. pc'[t] \in Handling /\ \A u \in Threads \ {t} : pc'[u] = pc[u] \/ pc'[u] = "none"
    BY <1>a, <1>h, ShutFacts DEF Handling
  <2>2. mutex' = t
    BY <1>a, <1>b, <1>h, ShutFacts DEF Critical
  <2>3. pc'["main"] # "tbcast"
    BY <1>a, <2>1, ThreadFacts DEF Handling
  <2> QED
    BY <2>1, <2>2, <2>3 DEF TalkInv, SpokenTo, Handling, Talking, Threads
<1>i. ASSUME NEW c \in Clients, NEW l, AnswerTo(c, l), wire' = wire, at' = at, cut' = cut,
             pc[c] \notin Talking \cup Handling, mutex' = mutex \/ mutex = c
      PROVE  TalkInv'
  <2>1. \E k \in {l, "sig_wait"} : pc' = [pc EXCEPT ![c] = k]
    BY Zenon, <1>i DEF AnswerTo, Goto, Running
  <2> QED
    BY <1>d, <1>i, <2>1, ThreadFacts
<1>m. ASSUME NEW t \in Threads, NEW c, NEW m, NEW l \in Talking \ {"tbcast"}, Say(t, c, m, l, wire),
             pc[t] \notin Talking \cup Handling, cut' = cut,
             mutex' = mutex \/ (mutex' = t /\ mutex \in {NoOne, t})
      PROVE  TalkInv'
  <2>1. Said(t, c, m, l, wire)
    BY <1>m, SayFacts
  <2> QED
    BY <1>f, <1>m, <2>1, ThreadFacts
<1>n. ASSUME UNCHANGED <<pc, at, mutex>>, cut \subseteq cut', \A c \in Clients : wire'[c] # "none" => wire[c] # "none"
      PROVE  TalkInv'
  <2>1. \A c \in Clients : wire[c] # "none" => SpokenTo(c)
    BY DEF TalkInv
  <2>2. \A c \in Clients : SpokenTo(c) => SpokenTo(c)'
    BY <1>n DEF SpokenTo, Talking, Handling, Threads
  <2> QED
    BY <1>a, <1>n, <2>1, <2>2 DEF TalkInv
<1> USE DEF Goto, Main, cur, Running, Talking, Handling, wires, counters
<1>1. CASE MainStep
  <2>1. CASE Accept
    BY <2>1, <1>a, <1>d, ThreadFacts DEF Accept
  <2>2. CASE inform_refuse
    BY <2>2, <1>m, ThreadFacts DEF inform_refuse
  <2>3. CASE Refused
    BY <2>3, <1>b, <1>e, ThreadFacts DEF Refused, Halt, Critical
  <2>4. CASE FirstFree
    BY <2>4, <1>d, ThreadFacts DEF FirstFree, Halt
  <2>5. CASE place_client_onboard
    BY <2>5, <1>d, ThreadFacts DEF place_client_onboard
  <2>6. CASE send_client_id
    BY <2>6, <1>m, ThreadFacts DEF send_client_id, Halt
  <2>7. CASE IdSent
    BY <2>7, <1>e, ThreadFacts DEF IdSent, Free
  <2>8. CASE send_board
    BY <2>8, <1>m, ThreadFacts DEF send_board
  <2>9. CASE BoardSent
    BY <2>9, <1>e, ThreadFacts DEF BoardSent, Free
  <2>10. CASE Unplace
    BY <2>10, <1>d, ThreadFacts DEF Unplace, Halt
  <2>11. CASE CreateReader
    <3>1. /\ pc' = [pc EXCEPT !["main"] = "add", ![cur] = "spin"] /\ pc["main"] = "create"
          /\ UNCHANGED <<wire, at, mutex, cut>>
      BY <2>11 DEF CreateReader
    <3>2. cur \in Clients /\ pc[cur] = "none"
      BY <3>1 DEF FreshInv, New, AtMain, NewLabels
    <3>3. \A u \in Threads : u # "main" /\ u # cur => pc'[u] = pc[u]
      BY <1>a, <3>1
    <3>4. pc'["main"] = "add"
      BY <1>a, <3>1, <3>2, ThreadFacts
    <3>5. \A u \in Threads : pc[u] \in Talking \cup Handling => pc'[u] = pc[u]
      BY <3>1, <3>2, <3>3
    <3>6. \A c \in Clients : SpokenTo(c) => SpokenTo(c)'
      BY <3>1, <3>5 DEF SpokenTo, Threads
    <3> QED
      BY <3>1, <3>4, <3>6 DEF TalkInv
  <2>12. CASE add_client
    BY <2>12, <1>d, ThreadFacts DEF add_client
  <2>13. CASE Count
    BY <2>13, <1>d, ThreadFacts DEF Count
  <2>14. CASE TellAll
    BY <2>14, <1>g, TellingFacts, TellFacts, ThreadFacts
  <2> QED
    BY <1>1, <2>1, <2>2, <2>3, <2>4, <2>5, <2>6, <2>7, <2>8, <2>9, <2>10, <2>11, <2>12, <2>13, <2>14 DEF MainStep
<1>2. ASSUME NEW c \in Clients, ReaderStep(c)
      PROVE  TalkInv'
  <2>1. CASE Spin(c)
    BY <2>1, <1>d, ThreadFacts DEF Spin
  <2>2. CASE ReadBusy(c)
    BY <2>2, <1>i DEF ReadBusy
  <2>3. CASE ReadRequest(c)
    BY ZenonT(60), <2>3, <1>d, RequestFacts, ThreadFacts
  <2>4. CASE player_hit(c)
    <3>1. PICK e : Say(c, e, "DEAD", "hit", wire)
      BY <2>4 DEF player_hit, Halt
    <3>2. pc[c] = "progress" /\ mutex' = mutex /\ cut' = cut
      BY <2>4 DEF player_hit, Halt
    <3> QED
      BY <1>m, <3>1, <3>2, ThreadFacts
  <2>5. CASE HitTaken(c)
    <3>1. /\ pc[c] = "hit" /\ wire' = Heard(at[c]) /\ pc' = [pc EXCEPT ![c] = "progress"]
          /\ UNCHANGED <<at, mutex, cut>>
      BY <2>5 DEF HitTaken, Halt
    <3> QED
      BY <1>e, <3>1, ThreadFacts
  <2>6. CASE Cant(c)
    BY <2>6, <1>b, <1>i, ThreadFacts DEF Cant, Critical
  <2>7. CASE Can(c)
    BY <2>7, <1>i DEF Can
  <2>8. CASE teleport(c)
    BY <2>8, <1>b, <1>d, ThreadFacts DEF teleport, Critical
  <2>9. CASE TeleportPut(c)
    BY <2>9, <1>i DEF TeleportPut, Halt
  <2>10. CASE TeleportCant(c)
    BY <2>10, <1>i DEF TeleportCant
  <2>11. CASE TellMove(c)
    BY <2>11, <1>g, TellingFacts, TellFacts, ThreadFacts
  <2>12. CASE ReadEnd(c)
    BY <2>12, <1>a, <1>d, ThreadFacts DEF ReadEnd
  <2>13. CASE Unlist(c)
    <3>1. /\ pc[c] \notin Talking \cup Handling /\ UNCHANGED <<wire, at, cut>>
          /\ mutex = NoOne /\ \E l \in {"exit", "dead"} : pc' = [pc EXCEPT ![c] = l]
      BY <2>13, UnlistFacts
    <3> QED
      BY <1>d, <3>1, ThreadFacts
  <2>14. CASE Finish(c)
    BY <2>14, <1>d, ThreadFacts DEF Finish, Free
  <2>15. CASE Unsig(c)
    BY <2>15, <1>d, ThreadFacts DEF Unsig
  <2>16. CASE TellLeft(c)
    BY <2>16, <1>g, TellingFacts, TellFacts, ThreadFacts
  <2> QED
    BY <1>2, <2>1, <2>2, <2>3, <2>4, <2>5, <2>6, <2>7, <2>8, <2>9, <2>10, <2>11, <2>12, <2>13, <2>14, <2>15, <2>16 DEF ReaderStep
<1>3. ASSUME NEW t \in Threads, SecondHalf(t) \/ BroadcastStep(t) \/ SigWait(t) \/ Shutdown(t) \/ Interrupt(t)
      PROVE  TalkInv'
  <2>1. CASE BroadcastStep(t)
    <3>1. /\ pc[t] \in {"tell", "bcast", "tbcast", "last"} /\ Begins(t, pc[t], mutex, Over(at[t]))
          /\ cut' = cut
      BY <1>a, <2>1, BroadcastFacts, TellFacts
    <3> QED
      BY <1>a, <1>g, <3>1, TellFacts
  <2>2. CASE SigWait(t) \/ Shutdown(t)
    BY <1>h, <2>2
  <2>3. CASE Interrupt(t)
    <3>1. pc[t] \notin Handling /\ mutex' = mutex /\ wire' = wire
      BY <2>3, InterruptFacts DEF Idle
    <3>2. CASE pc' = pc /\ at' = at /\ cut \subseteq cut'
      BY <1>n, <3>1, <3>2
    <3>3. CASE pc' = [pc EXCEPT ![t] = "sig_wait"] /\ at' = at /\ cut' = cut
      <4>1. CASE pc[t] \notin Talking
        BY <1>d, <3>1, <3>3, <4>1
      <4>2. CASE pc[t] \in Talking
        <5>1. t \in Clients \/ mutex' = t
          BY <1>a, <1>b, <3>1, <4>2 DEF Threads, Critical
        <5>2. pc'[t] \in Handling /\ pc'["main"] # "tbcast" /\ \A u \in Threads \ {t} : pc'[u] = pc[u]
          BY <1>a, <3>3, ThreadFacts
        <5> QED
          BY <3>1, <3>3, <5>1, <5>2, TalkKept
      <4> QED
        BY <4>1, <4>2
    <3>4. CASE /\ pc[t] \notin Talking /\ cut' = cut
               /\ \E l \in {"exit_wait", "dead"} : pc' = [pc EXCEPT ![t] = l]
               /\ at' = at \/ at' = [at EXCEPT ![t] = First]
      BY <1>a, <1>d, <3>1, <3>4
    <3> QED
      BY <2>3, <3>2, <3>3, <3>4, InterruptFacts
  <2>4. CASE SecondHalf(t)
    <3>1. /\ pc[t] \in Talking /\ wire[at[t]] \in {"more", "half"} /\ mutex' = mutex /\ cut' = cut
          /\ \/ wire' = [wire EXCEPT ![at[t]] = "half"] /\ pc' = pc /\ at' = at
             \/ \E m \in {"id", "board"} : Said(t, at[t], m, pc[t], Heard(at[t]))
      BY <2>4, HalfFacts DEF Sending, AfterTelling
    <3>2. CASE wire' = [wire EXCEPT ![at[t]] = "half"] /\ pc' = pc /\ at' = at
      BY <1>a, <1>n, <3>1, <3>2
    <3>3. CASE \E m \in {"id", "board"} : Said(t, at[t], m, pc[t], Heard(at[t]))
      <4>1. PICK m : Said(t, at[t], m, pc[t], Heard(at[t]))
        BY <3>3
      <4>2. t = "main" => pc[t] # "tbcast"
        BY <1>a
      <4>3. \A u \in Threads \ {t} : mutex = u => mutex' = u
        BY <3>1
      <4>4. pc[t] \notin Handling
        BY <3>1 DEF Talking, Handling
      <4>5. Heard(at[t]) \in {Heard(at[t]), Over(at[t])}
        OBVIOUS
      <4> HIDE DEF Said, Talking, Handling
      <4> QED
        BY <1>f, <3>1, <4>1, <4>2, <4>3, <4>4, <4>5
    <3> QED
      BY <3>1, <3>2, <3>3
  <2> QED
    BY <1>3, <2>1, <2>2, <2>3, <2>4
<1>4. ASSUME NEW c \in Clients, Reply(c) \/ Refresh(c) \/ KeyDone(c) \/ Dismissed(c) \/ SeesEnd(c) \/ Connect(c) \/ Key(c) \/ Leave(c)
      PROVE  TalkInv'
  <2>1. UNCHANGED <<pc, at, mutex, cut>>
    BY <1>4 DEF Reply, Refresh, KeyDone, Dismissed, SeesEnd, Connect, Key, Leave, Gone, serverSide
  <2>2. \/ wire' = wire
        \/ wire[c] \in DOMAIN Answers /\ wire' = [wire EXCEPT ![c] = Answers[wire[c]]]
    BY <1>4 DEF Reply, Refresh, KeyDone, Dismissed, SeesEnd, Connect, Key, Leave, Gone
  <2>3. \A d \in Clients : wire'[d] # "none" => wire[d] # "none"
    BY <1>a, <2>2 DEF Answers
  <2> QED
    BY <1>n, <2>1, <2>3
<1> QED
  BY <1>1, <1>2, <1>3, <1>4 DEF Next, ServerStep, ClientStep, Users

(* Where a second thread would begin a conversation.  *)
LEMMA MixedStep ==
    ASSUME Types, FreshInv, MutexCovers, TalkInv, Next, halt' = "mixed"
    PROVE  cut' # {} \/ \E t \in Clients : Unlocked(t)'
<1> DEFINE Mannered == cut = {} /\ \A t \in Clients : ~Unlocked(t)
           Away(u) == pc[u] \notin {"tbcast_all", "tbcast", "sig_wait"}
           Stays == UNCHANGED <<pc, cut>> /\ (mutex' = mutex \/ \E u \in Threads : mutex' = u /\ Away(u))
<1>a. /\ Running /\ halt = "" /\ freed \subseteq Clients /\ clients \in Seq(Clients)
      /\ wire = [c \in Clients |-> wire[c]]
  BY DEF Types, Next, ServerStep, ClientStep, Users, Running
<1>b. ASSUME Mannered
      PROVE  /\ mutex = NoOne => Quiet(wire)
             /\ \A t \in Threads :
                   /\ pc[t] \in {"boar", "progress", "bcast_all"} => Quiet(wire)
                   /\ pc[t] \in {"idok", "book", "tell", "bcast", "last"} => Quiet(Heard(at[t])) /\ Quiet(Over(at[t]))
             /\ \A t \in Clients : pc[t] \notin {"tbcast", "tbcast_all"}
             /\ pc["main"] # "tbcast"
  <2>1. /\ mutex = NoOne => Quiet(wire)
        /\ \A t \in Threads : /\ pc[t] \in Critical \ (Talking \cup Handling) => mutex = t /\ Quiet(wire)
                              /\ pc[t] \in Talking => mutex = t /\ Quiet(Heard(at[t]))
        /\ \A t \in Clients : pc[t] \notin {"tbcast", "tbcast_all"}
    BY <1>a, <1>b, QuietFacts
  <2>2. \A c : Over(c) = Heard(c)
    BY <1>b DEF Over
  <2>3. pc["main"] # "tbcast"
    BY <1>a DEF TalkInv
  <2> QED
    BY <2>1, <2>2, <2>3 DEF Critical, Talking, Handling
<1>c. First \in Entry /\ \A c : NextOf(c) \in Entry
  BY <1>a, EntryFacts
<1>d. \A t, c, m, l, w : Say(t, c, m, l, w) => w[c] # "none" /\ pc' = pc
  BY ZenonT(60), <1>a DEF Say
<1>e. \A t, l, m, w : \A e \in Entry : Walk(t, e, l, w, m) => e \in Clients /\ w[e] # "none" /\ pc' = pc /\ mutex' = m
  <2> SUFFICES ASSUME NEW t, NEW l, NEW m, NEW w, NEW e \in Entry, Walk(t, e, l, w, m)
               PROVE  e \in Clients /\ w[e] # "none" /\ pc' = pc /\ mutex' = m
    OBVIOUS
  <2>1. CASE e = NoOne
    BY <1>a, <2>1, ThreadFacts DEF Walk
  <2>2. CASE e # NoOne
    BY <1>a, <1>d, <2>2 DEF Walk, Entry
  <2> QED
    BY <2>1, <2>2
<1>f. \A e \in Clients : \A w : Quiet(w) => w[e] = "none"
  BY DEF Quiet
<1>g. \A c, l : ~AnswerTo(c, l)
  BY <1>a DEF AnswerTo
<1>h. \A why : Halt(why) => why = "mixed"
  BY DEF Halt
<1>i. pc["main"] \in NewLabels \cup {"add"} => cur \in Clients
  BY <1>a DEF FreshInv
<1>o. ASSUME ~Mannered, Stays
      PROVE  cut' # {} \/ \E t \in Clients : Unlocked(t)'
  <2>1. CASE cut # {}
    BY <1>o, <2>1
  <2>2. ASSUME NEW t \in Clients, Unlocked(t)
        PROVE  Unlocked(t)'
    BY <1>o, <2>2, ThreadFacts DEF Unlocked
  <2> QED
    BY <1>o, <2>1, <2>2
<1> USE DEF Main, counters
<1> HIDE DEF Mannered
<1>1. ASSUME MainStep
      PROVE  ~Mannered /\ Stays
  <2>1. ~(Accept \/ Refused \/ FirstFree \/ place_client_onboard \/ IdSent \/ BoardSent \/ Unplace
          \/ CreateReader \/ add_client \/ Count)
    BY <1>a, <1>h DEF Accept, Refused, FirstFree, place_client_onboard, IdSent, BoardSent, Unplace,
                      CreateReader, add_client, Count
  <2>2. CASE inform_refuse
    BY <2>2, <1>b, <1>d, <1>f, <1>i, ThreadFacts DEF inform_refuse, NewLabels
  <2>3. CASE send_client_id
    BY <2>3, <1>b, <1>d, <1>f, <1>h, <1>i, ThreadFacts DEF send_client_id, NewLabels
  <2>4. CASE send_board
    BY <2>4, <1>b, <1>d, <1>f, <1>i, ThreadFacts DEF send_board, NewLabels
  <2>5. CASE TellAll
    BY <2>5, <1>b, <1>c, <1>e, <1>f, ThreadFacts DEF TellAll
  <2> QED
    BY <1>1, <2>1, <2>2, <2>3, <2>4, <2>5 DEF MainStep
<1>2. ASSUME NEW c \in Clients, ReaderStep(c)
      PROVE  ~Mannered /\ Stays
  <2>1. ~(Spin(c) \/ ReadRequest(c) \/ HitTaken(c) \/ teleport(c) \/ ReadEnd(c) \/ Unlist(c) \/ Finish(c) \/ Unsig(c))
    BY <1>a, <1>h DEF Spin, ReadRequest, HitTaken, teleport, ReadEnd, Unlist, Finish, Unsig
  <2>2. ~(ReadBusy(c) \/ Cant(c) \/ Can(c) \/ TeleportPut(c) \/ TeleportCant(c))
    BY <1>g, <1>h DEF ReadBusy, Cant, Can, TeleportPut, TeleportCant
  <2>3. CASE player_hit(c)
    <3>1. PICK k \in 1 .. Len(clients) : Say(c, clients[k], "DEAD", "hit", wire)
      BY <2>3, <1>h DEF player_hit
    <3>2. pc[c] = "progress" /\ mutex' = mutex /\ cut' = cut
      BY <2>3, <1>h DEF player_hit
    <3>3. clients[k] \in Clients
      BY <1>a, ElementOfSeq
    <3> QED
      BY <3>1, <3>2, <3>3, <1>b, <1>d, <1>f, ThreadFacts
  <2>4. CASE TellMove(c)
    BY <2>4, <1>b, <1>c, <1>e, <1>f, ThreadFacts DEF TellMove
  <2>5. CASE TellLeft(c)
    BY <2>5, <1>b, <1>c, <1>e, <1>f, ThreadFacts DEF TellLeft
  <2> QED
    BY <1>2, <2>1, <2>2, <2>3, <2>4, <2>5 DEF ReaderStep
<1>3. ASSUME NEW t \in Threads, BroadcastStep(t) \/ SecondHalf(t)
      PROVE  ~Mannered /\ Stays
  <2>1. CASE BroadcastStep(t)
    <3>1. at[t] \notin freed
      BY <1>a, <2>1, ThreadFacts DEF BroadcastStep, Walk
    <3>2. /\ Walk(t, NextOf(at[t]), pc[t], Over(at[t]), mutex) /\ pc[t] \in {"tell", "bcast", "tbcast", "last"}
          /\ cut' = cut
      BY <2>1, <3>1, TellFacts DEF BroadcastStep
    <3>3. NextOf(at[t]) \in Clients /\ Over(at[t])[NextOf(at[t])] # "none" /\ pc' = pc /\ mutex' = mutex
      BY <1>c, <1>e, <3>2
    <3>4. Mannered => Quiet(Over(at[t]))
      BY <1>b, <3>2 DEF Threads
    <3> QED
      BY <1>f, <3>2, <3>3, <3>4
  <2>2. CASE SecondHalf(t)
    <3>1. \E m : Say(t, at[t], m, pc[t], Heard(at[t]))
      BY <1>a, <2>2 DEF SecondHalf
    <3>3. Heard(at[t])[at[t]] # "none" /\ at[t] \in Clients
      BY <1>d, <2>2, <3>1 DEF SecondHalf
    <3>4. Heard(at[t])[at[t]] = "none"
      BY <1>a, <3>3 DEF Heard
    <3> QED
      BY <3>3, <3>4
  <2> QED
    BY <1>3, <2>1, <2>2
<1>4. ASSUME NEW t \in Threads, SigWait(t) \/ Shutdown(t)
      PROVE  \E s \in Clients : Unlocked(s)'
  <2>1. \A e, w : ShutFrom(t, e, w) => pc' = pc /\ \E s \in Clients \ {t} : pc[s] = "tbcast"
    BY <1>a DEF ShutFrom
  <2>2. PICK s \in Clients \ {t} : pc[s] = "tbcast" /\ pc' = pc
    BY <1>4, <2>1 DEF SigWait, Shutdown
  <2>3. mutex' = t \/ mutex' = mutex
    BY <1>4 DEF SigWait, Shutdown
  <2>4. mutex # s
    BY <1>a, <2>2 DEF MutexCovers, Critical, Threads
  <2> QED
    BY <2>2, <2>3, <2>4 DEF Unlocked
<1>5. ASSUME NEW t \in Threads, Interrupt(t)
      PROVE  FALSE
  BY <1>a, <1>5 DEF Interrupt, Interrupted
<1>6. ASSUME NEW c \in Clients, Reply(c) \/ Refresh(c) \/ KeyDone(c) \/ Dismissed(c) \/ SeesEnd(c) \/ Connect(c) \/ Key(c) \/ Leave(c)
      PROVE  FALSE
  BY <1>a, <1>6 DEF Reply, Refresh, KeyDone, Dismissed, SeesEnd, Connect, Key, Leave, Gone, serverSide
<1> HIDE DEF Stays
<1> QED
  BY <1>1, <1>2, <1>3, <1>4, <1>5, <1>6, <1>o DEF Next, ServerStep, ClientStep, Users

(* A teleport is counted and never forgotten.  *)
LEMMA TeleportsKept ==
    ASSUME Types, Next
    PROVE  /\ teleports' = 0 => teleports = 0
           /\ teleports' = teleports \/ \E c : teleport(c)
<1>1. teleports' = teleports \/ \E c : teleport(c)
  <2>1. MainStep => teleports' = teleports
    BY DEF MainStep, Accept, inform_refuse, Refused, FirstFree, place_client_onboard, send_client_id, IdSent,
           send_board, BoardSent, Unplace, CreateReader, add_client, Count, TellAll, Halt, counters
  <2>2. \A c : ReaderStep(c) => teleports' = teleports \/ teleport(c)
    BY ZenonT(60) DEF ReaderStep, Spin, ReadBusy, ReadRequest, player_hit, HitTaken, Cant, Can, TeleportPut,
           TeleportCant, TellMove, ReadEnd, Unlist, Finish, Unsig, TellLeft, Halt, counters
  <2>3. \A t : SecondHalf(t) \/ BroadcastStep(t) \/ SigWait(t) \/ Shutdown(t) \/ Interrupt(t) => teleports' = teleports
    BY DEF SecondHalf, Interrupt, BroadcastStep, SigWait, Shutdown, counters
  <2>4. \A c : Connect(c) \/ Key(c) \/ Leave(c) \/ ClientStep(c) => teleports' = teleports
    BY DEF ClientStep, Connect, Key, Leave, Reply, Refresh, KeyDone, Dismissed, SeesEnd, Gone, counters
  <2> QED
    BY <2>1, <2>2, <2>3, <2>4 DEF Next, ServerStep, Users
<1>2. \A c : teleport(c) => teleports' = teleports + 1
  BY DEF teleport
<1> QED
  BY <1>1, <1>2 DEF Types

(* An index past the end of free_idx is not forgotten.  *)
LEMMA StrayedKept ==
    ASSUME Next
    PROVE  strayed' = strayed \/ strayed' = TRUE
<1>1. MainStep => strayed' = strayed \/ strayed' = TRUE
  BY DEF MainStep, Accept, inform_refuse, Refused, FirstFree, place_client_onboard, send_client_id, IdSent,
         send_board, BoardSent, Unplace, CreateReader, add_client, Count, TellAll, Halt, board
<1>2. \A c : ReaderStep(c) => strayed' = strayed \/ strayed' = TRUE
  <2>1. \A c : TeleportPut(c) => strayed' = strayed \/ strayed' = TRUE
    BY DEF TeleportPut, Halt, board
  <2> QED
    BY ZenonT(60), <2>1 DEF ReaderStep, Spin, ReadBusy, ReadRequest, player_hit, HitTaken, Cant, Can, teleport,
           TeleportCant, TellMove, ReadEnd, Unlist, Finish, Unsig, TellLeft, Halt, board
<1>3. \A t : SecondHalf(t) \/ BroadcastStep(t) \/ SigWait(t) \/ Shutdown(t) \/ Interrupt(t) => strayed' = strayed
  BY DEF SecondHalf, Interrupt, BroadcastStep, SigWait, Shutdown, board
<1>4. \A c : Connect(c) \/ Key(c) \/ Leave(c) \/ ClientStep(c) => strayed' = strayed
  BY DEF ClientStep, Connect, Key, Leave, Reply, Refresh, KeyDone, Dismissed, SeesEnd, Gone, serverSide, board
<1> QED
  BY <1>1, <1>2, <1>3, <1>4 DEF Next, ServerStep, Users

(* A client gets its id while main looks for one, and keeps it.  *)
LEMMA IdKept ==
    ASSUME Next
    PROVE  \/ id' = id
           \/ Main("first_free") /\ id' = [id EXCEPT ![cur] = get_first_free]
<1>1. MainStep => id' = id \/ (Main("first_free") /\ id' = [id EXCEPT ![cur] = get_first_free])
  BY DEF MainStep, Accept, inform_refuse, Refused, FirstFree, place_client_onboard, send_client_id, IdSent,
         send_board, BoardSent, Unplace, CreateReader, add_client, Count, TellAll, Halt
<1>2. \A c : ReaderStep(c) => id' = id
  BY ZenonT(60) DEF ReaderStep, Spin, ReadBusy, ReadRequest, player_hit, HitTaken, Cant, Can, teleport, TeleportPut,
         TeleportCant, TellMove, ReadEnd, Unlist, Finish, Unsig, TellLeft, Halt
<1>3. \A t : SecondHalf(t) \/ BroadcastStep(t) \/ SigWait(t) \/ Shutdown(t) \/ Interrupt(t) => id' = id
  BY DEF SecondHalf, Interrupt, BroadcastStep, SigWait, Shutdown
<1>4. \A c : Connect(c) \/ Key(c) \/ Leave(c) \/ ClientStep(c) => id' = id
  BY DEF ClientStep, Connect, Key, Leave, Reply, Refresh, KeyDone, Dismissed, SeesEnd, Gone, serverSide
<1> QED
  BY <1>1, <1>2, <1>3, <1>4 DEF Next, ServerStep, Users

-----------------------------------------------------------------------------
\* What a thread does about a teleport, a leaving client, a client with an id.
Teleporting == {"tp_put", "tp_cant", "tbcast_all", "tbcast"}
Leaving == {"exit", "dead"}
Seated == {"idok", "boar", "book", "unplace", "create"}

(* What a step does to the list and to the threads, whatever else it does.  *)
Quietly(t, l) ==
    /\ pc' = [pc EXCEPT ![t] = l] /\ pc[t] \notin {"none"} \cup Handling
    /\ UNCHANGED <<link, backlog, clients, freed, nclients, reg>>
    /\ l \notin {"count", "counted", "add", "none"}
    /\ l \in Leaving => pc[t] \in Leaving
    /\ l \in Teleporting => pc[t] \in Teleporting \/ teleports' # teleports
    /\ l \in Seated => pc[t] \in Seated \/ (id[cur] \in Ids /\ id' = id)
    /\ t # "main" => cur' = cur
    /\ l \in NewLabels => /\ t = "main" /\ cur' = cur /\ pc[t] \in NewLabels
                         /\ (pc[t] \in {"refuse", "bane"} => l \in {"refuse", "bane"})

(* All other steps than those named leave the list and the count alone.  *)
LEMMA StepShape ==
    ASSUME Types, Offline, FreshInv, Next, Running, Running'
    PROVE  \/ Accept \/ CreateReader \/ add_client \/ Count
           \/ \E c \in Clients : Unlist(c) \/ Finish(c) \/ Connect(c) \/ (Gone(c) /\ link[c] # "off")
           \/ \E t \in Threads : SigWait(t) \/ Shutdown(t)
           \/ \E t \in Threads : \E l : Quietly(t, l)
           \/ UNCHANGED <<pc, link, backlog, clients, freed, nclients, reg>> /\ cur' = cur
<1> DEFINE Shape == \/ \E t \in Threads : \E l : Quietly(t, l)
                    \/ UNCHANGED <<pc, link, backlog, clients, freed, nclients, reg>> /\ cur' = cur
<1>a. freed \subseteq Clients
  BY DEF Types
<1>o. ASSUME NEW t \in Threads, t # "main", NEW e, at' = at \/ at' = [at EXCEPT ![t] = e]
      PROVE  cur' = cur
  <2>1. at = [u \in Threads |-> at[u]]
    BY DEF Types
  <2> QED
    BY <1>o, <2>1, ThreadFacts DEF cur
<1>b. ASSUME NEW t \in Threads, NEW l, NEW m, NEW w, Begins(t, l, m, w), l \in DOMAIN AfterTelling,
             UNCHANGED <<link, backlog, clients, freed, nclients, reg>>, pc[t] \notin {"none"} \cup Handling,
             l = "tbcast" => pc[t] \in Teleporting
      PROVE  Shape
  <2>1. PICK k : pc' = [pc EXCEPT ![t] = k] /\ k \in {l, AfterTelling[l], "sig_wait"}
    BY <1>b DEF Begins, Said
  <2>2. /\ k \in {"tell", "bcast", "tbcast", "last", "accept", "spin", "done", "sig_wait"}
        /\ k = "tbcast" => pc[t] \in Teleporting
    BY <1>b, <2>1, TellFacts
  <2>3. t # "main" => cur' = cur
    <3>1. PICK e : at' = at \/ at' = [at EXCEPT ![t] = e]
      BY <1>b DEF Begins, Said
    <3> QED
      BY <1>o, <3>1
  <2>4. Quietly(t, k)
    BY <1>b, <2>1, <2>2, <2>3 DEF Quietly, NewLabels, Leaving, Teleporting, Seated
  <2> QED
    BY <2>4
<1>c. ASSUME NEW c \in Clients, NEW l, AnswerTo(c, l), UNCHANGED <<link, backlog, clients, freed, nclients, reg>>,
             pc[c] \notin {"none"} \cup Handling, l \in {"spin", "bcast_all", "tbcast_all"}, at' = at,
             l = "tbcast_all" => pc[c] = "tp_put"
      PROVE  Shape
  <2>1. PICK k : pc' = [pc EXCEPT ![c] = k] /\ k \in {l, "sig_wait"}
    BY <1>c DEF AnswerTo, Goto, Running
  <2>2. Quietly(c, k)
    BY <1>c, <2>1, ThreadFacts DEF Quietly, NewLabels, Leaving, Teleporting, Seated, cur
  <2> QED
    BY <2>2, ThreadFacts
<1>d. ASSUME NEW t \in Threads, NEW c, NEW m, NEW l, Say(t, c, m, l, wire),
             UNCHANGED <<link, backlog, clients, freed, nclients, reg>>, pc[t] \notin {"none"} \cup Handling,
             l \in {"bane", "idok", "book", "hit"},
             l # "hit" => t = "main" /\ c = cur /\ pc[t] \in NewLabels,
             pc[t] \in {"refuse", "bane"} => l = "bane",
             l = "idok" => id[cur] \in Ids /\ id' = id, l = "book" => pc[t] \in Seated
      PROVE  Shape
  <2>1. PICK k : pc' = [pc EXCEPT ![t] = k] /\ k \in {l, "sig_wait"} /\ (at' = at \/ at' = [at EXCEPT ![t] = c])
    BY <1>d, SayFacts DEF Said
  <2>2. l # "hit" => cur' = cur
    BY <1>d, <2>1 DEF cur, Types
  <2>3. t # "main" => cur' = cur
    BY <1>d, <1>o, <2>1
  <2>4. Quietly(t, k)
    BY <1>d, <2>1, <2>2, <2>3 DEF Quietly, NewLabels, Leaving, Teleporting, Seated
  <2> QED
    BY <2>4
<1>e. ASSUME NEW t \in Threads, NEW l, pc' = [pc EXCEPT ![t] = l], pc[t] \notin {"none"} \cup Handling,
             UNCHANGED <<link, backlog, clients, freed, nclients, reg>>,
             l \in {"spin", "read", "progress", "exit_wait", "dead_wait", "last_wait", "sig_wait"},
             NEW e, at' = at \/ at' = [at EXCEPT ![t] = e]
      PROVE  Shape
  <2>1. Quietly(t, l)
    BY <1>e, <1>o DEF Quietly, NewLabels, Leaving, Teleporting, Seated
  <2> QED
    BY <2>1
<1>f. \A t \in Threads : pc[t] \notin {"none", "sig_wait", "kill", "kill_last"} => pc[t] \notin {"none"} \cup Handling
  BY DEF Handling
<1>g. \A c \in Clients : ~(id[c] < 0) => id[c] \in Ids
  BY GameAssumption DEF Types, Ids
<1>h. ASSUME NEW c \in Clients, teleport(c)
      PROVE  Shape
  <2>1. PICK l \in {"tp_put", "tp_cant"} : pc' = [pc EXCEPT ![c] = l]
    BY <1>h DEF teleport, Goto
  <2>2. UNCHANGED <<link, backlog, clients, freed, nclients, reg, at>> /\ pc[c] = "progress"
    BY <1>h DEF teleport, wires, list
  <2>3. teleports' # teleports
    BY <1>h DEF teleport, Types
  <2>4. Quietly(c, l)
    BY <2>1, <2>2, <2>3 DEF Quietly, Handling, NewLabels, Leaving, Teleporting, Seated, cur
  <2> QED
    BY <2>4, ThreadFacts
<1>i. ASSUME NEW c \in Clients, TeleportPut(c)
      PROVE  Shape
  <2>1. /\ pc[c] = "tp_put" /\ AnswerTo(c, "tbcast_all")
        /\ UNCHANGED <<link, backlog, clients, freed, nclients, reg, at>>
    BY <1>i DEF TeleportPut, Halt, Running, list
  <2> QED
    BY <1>c, <2>1 DEF Handling
<1> USE DEF Goto, Main, Running, wires, list, Quietly, Handling, NewLabels, Leaving, Teleporting, Seated, cur
<1>1. ASSUME MainStep
      PROVE  Accept \/ CreateReader \/ add_client \/ Count \/ Shape
  <2>1. CASE inform_refuse
    BY <2>1, <1>d, ThreadFacts DEF inform_refuse
  <2>2. CASE Refused
    BY ZenonT(60), <2>2, ThreadFacts DEF Refused, Halt
  <2>3. CASE FirstFree
    BY <2>3, ThreadFacts DEF FirstFree, Halt
  <2>4. CASE place_client_onboard
    BY <2>4, ThreadFacts DEF place_client_onboard
  <2>5. CASE send_client_id
    <3>1. /\ pc["main"] = "idcl" /\ Say("main", cur, "IDCL", "idok", wire) /\ ~(id[cur] < 0)
          /\ UNCHANGED <<link, backlog, clients, freed, nclients, reg, id>>
      BY <2>5 DEF send_client_id, Halt
    <3>2. cur \in Clients
      BY <3>1 DEF FreshInv
    <3>3. id[cur] \in Ids
      BY <1>g, <3>1, <3>2
    <3> QED
      BY <1>d, <3>1, <3>3, ThreadFacts
  <2>6. CASE IdSent
    BY <2>6, ThreadFacts DEF IdSent
  <2>7. CASE send_board
    BY <2>7, <1>d, ThreadFacts DEF send_board
  <2>8. CASE BoardSent
    BY <2>8, ThreadFacts DEF BoardSent
  <2>9. CASE Unplace
    BY <2>9, ThreadFacts DEF Unplace, Halt
  <2>10. CASE TellAll
    BY <2>10, <1>b, TellingFacts, TellFacts, ThreadFacts
  <2> QED
    BY <1>1, <2>1, <2>2, <2>3, <2>4, <2>5, <2>6, <2>7, <2>8, <2>9, <2>10 DEF MainStep
<1>2. ASSUME NEW c \in Clients, ReaderStep(c)
      PROVE  Unlist(c) \/ Finish(c) \/ Shape
  <2>1. CASE Spin(c)
    BY <2>1, <1>e, ThreadFacts DEF Spin
  <2>2. CASE ReadBusy(c)
    BY <2>2, <1>c DEF ReadBusy
  <2>3. CASE ReadRequest(c)
    <3>1. /\ pc[c] = "read" /\ pc' = [pc EXCEPT ![c] = "progress"]
          /\ UNCHANGED <<link, backlog, clients, freed, nclients, reg, at>>
      BY <2>3, RequestFacts
    <3> QED
      BY <1>e, <3>1, ThreadFacts
  <2>4. CASE player_hit(c)
    <3>1. PICK e : Say(c, e, "DEAD", "hit", wire)
      BY <2>4 DEF player_hit, Halt
    <3>2. pc[c] = "progress" /\ UNCHANGED <<link, backlog, clients, freed, nclients, reg>>
      BY <2>4 DEF player_hit, Halt
    <3> QED
      BY <1>d, <3>1, <3>2, ThreadFacts
  <2>5. CASE HitTaken(c)
    BY <2>5, <1>e, ThreadFacts DEF HitTaken, Halt
  <2>6. CASE Cant(c)
    BY <2>6, <1>c DEF Cant
  <2>7. CASE Can(c)
    BY <2>7, <1>c DEF Can
  <2>8. CASE teleport(c)
    BY <2>8, <1>h
  <2>9. CASE TeleportPut(c)
    BY <2>9, <1>i
  <2>10. CASE TeleportCant(c)
    BY <2>10, <1>c DEF TeleportCant
  <2>11. CASE TellMove(c)
    BY <2>11, <1>b, TellingFacts, TellFacts, ThreadFacts
  <2>12. CASE ReadEnd(c)
    BY <2>12, <1>e, ThreadFacts DEF ReadEnd
  <2>13. CASE Unsig(c)
    BY <2>13, <1>e, ThreadFacts DEF Unsig
  <2>14. CASE TellLeft(c)
    BY <2>14, <1>b, TellingFacts, TellFacts, ThreadFacts
  <2> QED
    BY <1>2, <2>1, <2>2, <2>3, <2>4, <2>5, <2>6, <2>7, <2>8, <2>9, <2>10, <2>11, <2>12, <2>13, <2>14 DEF ReaderStep
<1>3. ASSUME NEW t \in Threads, SecondHalf(t) \/ BroadcastStep(t) \/ Interrupt(t)
      PROVE  Shape
  <2>1. CASE BroadcastStep(t)
    <3>1. /\ pc[t] \in DOMAIN AfterTelling /\ Begins(t, pc[t], mutex, Over(at[t]))
          /\ UNCHANGED <<link, backlog, clients, freed, nclients, reg>>
      BY <2>1, <1>a, BroadcastFacts
    <3>2. pc[t] \notin {"none"} \cup Handling
      BY <3>1, TellFacts
    <3> QED
      BY <1>b, <3>1, <3>2
  <2>2. CASE Interrupt(t)
    <3>1. UNCHANGED <<link, backlog, clients, freed, nclients, reg>> /\ pc[t] \notin {"none"} \cup Handling
      BY <2>2, InterruptFacts DEF Idle
    <3>2. \/ pc' = [pc EXCEPT ![t] = "sig_wait"] /\ at' = at
          \/ pc' = pc /\ at' = at
          \/ pc' = [pc EXCEPT ![t] = "exit_wait"] /\ at' = [at EXCEPT ![t] = First]
          \/ pc[t] = "exit" /\ pc' = [pc EXCEPT ![t] = "dead"] /\ at' = at
      BY <2>2, InterruptFacts
    <3>3. CASE pc[t] = "exit" /\ pc' = [pc EXCEPT ![t] = "dead"] /\ at' = at
      <4>1. Quietly(t, "dead")
        BY <3>1, <3>3
      <4> QED
        BY <4>1
    <3> QED
      BY <1>e, <3>1, <3>2, <3>3
  <2>3. CASE SecondHalf(t)
    <3>1. /\ UNCHANGED <<link, backlog, clients, freed, nclients, reg>> /\ pc[t] \in Sending
          /\ \/ pc' = pc /\ at' = at
             \/ \E m \in {"id", "board"} : Said(t, at[t], m, pc[t], Heard(at[t]))
      BY <2>3, HalfFacts
    <3>2. pc[t] \in {"idok", "book", "tell", "bcast", "tbcast", "last"}
      BY <3>1, TellFacts DEF Sending
    <3>3. CASE pc' = pc /\ at' = at
      BY <3>1, <3>3
    <3>4. CASE \E m \in {"id", "board"} : Said(t, at[t], m, pc[t], Heard(at[t]))
      <4>1. PICK k : pc' = [pc EXCEPT ![t] = k] /\ k \in {pc[t], "sig_wait"} /\ (at' = at \/ at' = [at EXCEPT ![t] = at[t]])
        BY <3>4 DEF Said
      <4>2. at' = at
        BY <4>1 DEF Types
      <4>4. CASE k = "sig_wait"
        BY <1>e, <3>1, <3>2, <4>1, <4>2, <4>4
      <4>5. CASE k = pc[t]
        <5>1. pc' = pc
          BY <4>1, <4>5 DEF Types
        <5> QED
          BY <3>1, <4>2, <5>1
      <4> QED
        BY <4>1, <4>4, <4>5
    <3> QED
      BY <3>1, <3>3, <3>4
  <2> QED
    BY <1>3, <2>1, <2>2, <2>3
<1>4. ASSUME NEW c \in Clients, Reply(c) \/ Refresh(c) \/ KeyDone(c) \/ Dismissed(c) \/ SeesEnd(c) \/ Connect(c) \/ Key(c) \/ Leave(c)
      PROVE  Connect(c) \/ (Gone(c) /\ link[c] # "off") \/ Shape
  BY <1>4 DEF Reply, Refresh, KeyDone, Dismissed, SeesEnd, Key, Leave, serverSide, Offline
<1> HIDE DEF Shape
<1>5. \/ Accept \/ CreateReader \/ add_client \/ Count \/ Shape
      \/ \E c \in Clients : Unlist(c) \/ Finish(c) \/ Connect(c) \/ (Gone(c) /\ link[c] # "off")
      \/ \E t \in Threads : SigWait(t) \/ Shutdown(t)
  BY <1>1, <1>2, <1>3, <1>4 DEF Next, ServerStep, ClientStep, Users
<1> QED
  BY <1>5 DEF Shape

-----------------------------------------------------------------------------
(* The count of clients.  It is read and written without the mutex, so it   *)
(* may go below zero, but not by more than the entries that have been freed *)
(* nor above the clients that have been accepted.                           *)
Out == {c \in Clients : link[c] # "off" /\ ~Queued(c)}

\* Main has accepted a client and not counted it; a reader has read the count.
Joining == NewLabels \cup {"add", "count", "counted"}
CountInv == Running =>
    /\ -Cardinality(freed) <= nclients /\ nclients <= Cardinality(Out)
    /\ \A c \in Clients : pc[c] \in Leaving =>
          c \notin freed /\ -Cardinality(freed) <= reg[c] /\ reg[c] <= Cardinality(Out)
    /\ pc["main"] \in Joining => nclients + 1 <= Cardinality(Out)
    /\ pc["main"] = "counted" => -Cardinality(freed) <= reg["main"] /\ reg["main"] + 1 <= Cardinality(Out)

(* Every step that does not end the server keeps CountInv.  *)
LEMMA CountStep ==
    ASSUME Types, Offline, FreshInv, CountInv, Next, Running, Running'
    PROVE  CountInv'
<1> DEFINE F == Cardinality(freed)
           O == Cardinality(Out)
<1>a. /\ pc = [t \in Threads |-> pc[t]] /\ reg \in [Threads -> Int] /\ nclients \in Int
      /\ at = [t \in Threads |-> at[t]] /\ link = [c \in Clients |-> link[c]]
      /\ backlog \in Seq(Clients) /\ clients \in Seq(Clients)
  BY DEF Types
<1>b. IsFiniteSet(freed) /\ F \in Nat /\ IsFiniteSet(Out) /\ O \in Nat
  BY GameAssumption, FS_Subset, FS_CardinalityType DEF Types, Out
<1>c. /\ -F <= nclients /\ nclients <= O
      /\ \A c \in Clients : pc[c] \in Leaving => c \notin freed /\ -F <= reg[c] /\ reg[c] <= O
      /\ pc["main"] \in Joining => nclients + 1 <= O
      /\ pc["main"] = "counted" => -F <= reg["main"] /\ reg["main"] + 1 <= O
  BY DEF CountInv
<1>d. UNCHANGED <<link, backlog>> => Out' = Out
  BY DEF Out, Queued
<1>e. ASSUME /\ -F' <= nclients' /\ nclients' <= O'
             /\ \A c \in Clients : pc'[c] \in Leaving => c \notin freed' /\ -F' <= reg'[c] /\ reg'[c] <= O'
             /\ pc'["main"] \in Joining => nclients' + 1 <= O'
             /\ pc'["main"] = "counted" => -F' <= reg'["main"] /\ reg'["main"] + 1 <= O'
      PROVE  CountInv'
  BY <1>e DEF CountInv, Joining, NewLabels, Leaving
<1>f. ASSUME UNCHANGED <<Out, freed, nclients, reg>>,
             \A c \in Clients : pc'[c] \in Leaving => pc[c] \in Leaving,
             pc'["main"] \in Joining => pc["main"] \in Joining,
             pc'["main"] = "counted" => pc["main"] = "counted"
      PROVE  CountInv'
  BY <1>c, <1>e, <1>f
<1>1. CASE Accept
  <2> DEFINE h == Head(backlog)
  <2>1. /\ backlog # << >> /\ backlog' = Tail(backlog) /\ UNCHANGED <<link, freed, nclients, reg>>
        /\ \A c \in Clients : pc'[c] = pc[c]
        /\ pc'["main"] \in {"refuse", "first_free"}
    BY <1>a, <1>1, ThreadFacts DEF Accept, Goto, wires, list
  <2>2. h \in Clients /\ Queued(h) /\ link[h] # "off"
    <3>1. h \in Clients /\ Len(backlog) \in Nat \ {0}
      BY <1>a, <2>1, HeadTailProperties, EmptySeq
    <3>2. h = backlog[1]
      BY <2>1
    <3>3. 1 \in 1 .. Len(backlog)
      BY <3>1
    <3> HIDE DEF h
    <3>4. Queued(h)
      BY <3>2, <3>3 DEF Queued
    <3> QED
      BY <3>1, <3>4 DEF FreshInv
  <2>3. \A c \in Clients : Queued(c)' <=> Queued(c) /\ c # h
    BY <1>a, <1>1, AcceptFacts
  <2>4. Out' = Out \cup {h} /\ h \notin Out
    BY <2>1, <2>2, <2>3 DEF Out
  <2> HIDE DEF h
  <2>5. O' = O + 1
    BY <1>b, <2>4, FS_AddElement
  <2>6. F' = F /\ nclients' = nclients /\ reg' = reg /\ freed' = freed
    BY <2>1
  <2> HIDE DEF O, F
  <2>7. \A c \in Clients : pc[c] \in Leaving => reg[c] \in Int
    BY <1>a, ThreadFacts
  <2>8. \A c \in Clients : pc'[c] \in Leaving => c \notin freed' /\ -F' <= reg'[c] /\ reg'[c] <= O'
    BY <1>b, <1>c, <2>1, <2>5, <2>6, <2>7
  <2>9. /\ -F' <= nclients' /\ nclients' <= O' /\ nclients' + 1 <= O'
    BY <1>a, <1>b, <1>c, <2>5, <2>6
  <2>10. pc'["main"] # "counted"
    BY <2>1
  <2> QED
    BY <1>e, <2>8, <2>9, <2>10
<1>2. CASE CreateReader \/ add_client
  <2>1. /\ UNCHANGED <<link, backlog, freed, nclients, reg>>
        /\ \A c \in Clients : pc'[c] \in Leaving => pc[c] \in Leaving
        /\ pc["main"] \in {"create", "add"} /\ pc'["main"] \in {"add", "count"}
    <3>1. CASE CreateReader
      <4>1. /\ UNCHANGED <<link, backlog, freed, nclients, reg>> /\ pc["main"] = "create"
            /\ pc' = [pc EXCEPT !["main"] = "add", ![cur] = "spin"]
        BY <3>1 DEF CreateReader, Main, wires, list
      <4>2. cur \in Clients
        BY <4>1 DEF FreshInv, NewLabels
      <4> QED
        BY <1>a, <4>1, <4>2, ThreadFacts DEF Leaving
    <3>2. CASE add_client
      BY <1>a, <3>2, ThreadFacts DEF add_client, Goto, Main, wires
    <3> QED
      BY <1>2, <3>1, <3>2
  <2> QED
    BY <1>d, <1>f, <2>1 DEF Joining, NewLabels
<1>3. CASE Count
  <2>1. /\ UNCHANGED <<link, backlog, freed>> /\ \A c \in Clients : pc'[c] = pc[c] /\ reg'[c] = reg[c]
        /\ \/ pc["main"] = "count" /\ pc'["main"] = "counted" /\ reg'["main"] = nclients /\ nclients' = nclients
           \/ pc["main"] = "counted" /\ pc'["main"] = "tell_wait" /\ nclients' = reg["main"] + 1
    BY <1>a, <1>3, ThreadFacts DEF Count, Goto, Main, wires
  <2>2. Out' = Out /\ F' = F /\ O' = O
    BY <1>d, <2>1
  <2>3. "count" \in Joining /\ "counted" \in Joining /\ "tell_wait" \notin Joining
    BY DEF Joining, NewLabels
  <2> HIDE DEF O, F
  <2>4. CASE pc["main"] = "count"
    <3>1. pc'["main"] = "counted" /\ reg'["main"] = nclients /\ nclients' = nclients
      BY <2>1, <2>4
    <3> QED
      BY <1>c, <1>e, <2>1, <2>2, <2>3, <2>4, <3>1
  <2>5. CASE pc["main"] = "counted"
    <3>1. pc'["main"] = "tell_wait" /\ nclients' = reg["main"] + 1 /\ reg["main"] \in Int
      BY <1>a, <2>1, <2>5, ThreadFacts
    <3>2. -F <= reg["main"] /\ reg["main"] + 1 <= O
      BY <1>c, <2>5
    <3>3. -F' <= nclients' /\ nclients' <= O'
      BY <1>b, <2>2, <3>1, <3>2
    <3> QED
      BY <1>c, <1>e, <2>1, <2>2, <2>3, <3>1, <3>3
  <2> QED
    BY <2>1, <2>4, <2>5
<1>4. ASSUME NEW c \in Clients, Unlist(c)
      PROVE  CountInv'
  <2>1. /\ UNCHANGED <<link, backlog, freed, nclients>> /\ reg' = [reg EXCEPT ![c] = nclients]
        /\ \E l \in Leaving : pc' = [pc EXCEPT ![c] = l]
        /\ ~Dangling /\ c \in From(at[c])
    BY <1>4, UnlistFacts DEF Leaving
  <2>2. c \notin freed
    BY <1>a, <2>1, FromFacts DEF Dangling
  <2>3. /\ Out' = Out /\ F' = F /\ O' = O
        /\ pc'["main"] = pc["main"] /\ reg'["main"] = reg["main"]
        /\ \A d \in Clients : d # c => pc'[d] = pc[d] /\ reg'[d] = reg[d]
        /\ reg'[c] = nclients
    BY <1>a, <1>d, <2>1, ThreadFacts
  <2> HIDE DEF O, F
  <2> QED
    BY <1>c, <1>e, <2>1, <2>2, <2>3
<1>5. ASSUME NEW c \in Clients, Finish(c)
      PROVE  CountInv'
  <2>1. /\ UNCHANGED <<link, backlog>> /\ pc[c] \in Leaving
        /\ \/ /\ freed' = freed \cup {c} /\ nclients' = reg[c] - 1 /\ reg' = [reg EXCEPT ![c] = 0]
              /\ pc' = [pc EXCEPT ![c] = "unsig"]
           \/ UNCHANGED <<freed, nclients, reg>> /\ pc' = [pc EXCEPT ![c] = "sig_wait"]
    BY <1>5 DEF Finish, Goto, wires, Leaving, Running
  <2>2. Out' = Out /\ O' = O
    BY <1>d, <2>1
  <2>3. CASE UNCHANGED <<freed, nclients, reg>> /\ pc' = [pc EXCEPT ![c] = "sig_wait"]
    BY <1>a, <1>f, <2>2, <2>3, ThreadFacts DEF Leaving
  <2>4. CASE /\ freed' = freed \cup {c} /\ nclients' = reg[c] - 1 /\ reg' = [reg EXCEPT ![c] = 0]
             /\ pc' = [pc EXCEPT ![c] = "unsig"]
    <3>1. c \notin freed /\ -F <= reg[c] /\ reg[c] <= O /\ reg[c] \in Int
      BY <1>a, <1>c, <2>1, ThreadFacts
    <3>2. F' = F + 1
      BY <1>b, <2>4, <3>1, FS_AddElement
    <3>3. /\ pc'["main"] = pc["main"] /\ reg'["main"] = reg["main"] /\ pc'[c] \notin Leaving
          /\ \A d \in Clients : d # c => pc'[d] = pc[d] /\ reg'[d] = reg[d]
      BY <1>a, <2>4, ThreadFacts DEF Leaving
    <3>4. reg["main"] \in Int /\ \A d \in Clients : reg[d] \in Int
      BY <1>a, ThreadFacts
    <3> HIDE DEF O, F
    <3>5. -F' <= nclients' /\ nclients' + 1 <= O' /\ nclients' <= O'
      BY <1>b, <2>2, <2>4, <3>1, <3>2
    <3>6. \A d \in Clients : pc'[d] \in Leaving => d \notin freed' /\ -F' <= reg'[d] /\ reg'[d] <= O'
      <4> SUFFICES ASSUME NEW d \in Clients, pc'[d] \in Leaving
                   PROVE  d \notin freed' /\ -F' <= reg'[d] /\ reg'[d] <= O'
        OBVIOUS
      <4>1. d # c /\ pc[d] \in Leaving /\ reg'[d] = reg[d] /\ reg[d] \in Int
        BY <3>3, <3>4
      <4>2. d \notin freed /\ -F <= reg[d] /\ reg[d] <= O
        BY <1>c, <4>1
      <4> QED
        BY <1>b, <2>2, <2>4, <3>2, <4>1, <4>2
    <3>7. pc'["main"] = "counted" => -F' <= reg'["main"] /\ reg'["main"] + 1 <= O'
      BY <1>b, <1>c, <2>2, <3>2, <3>3, <3>4
    <3> QED
      BY <1>e, <3>5, <3>6, <3>7
  <2> QED
    BY <2>1, <2>3, <2>4
<1>6. ASSUME NEW c \in Clients, Connect(c) \/ (Gone(c) /\ link[c] # "off")
      PROVE  CountInv'
  <2>1. UNCHANGED <<pc, freed, nclients, reg>>
    BY <1>6 DEF Connect, Gone, serverSide, list
  <2>2. CASE Gone(c) /\ link[c] # "off"
    <3>1. backlog' = backlog /\ link' = [link EXCEPT ![c] = "closed"]
      BY <2>2 DEF Gone
    <3>2. Out' = Out
      BY <1>a, <2>2, <3>1 DEF Out, Queued
    <3> QED
      BY <1>f, <2>1, <3>2
  <2>3. CASE Connect(c)
    <3>1. link[c] = "off" /\ link' = [link EXCEPT ![c] = "open"] /\ backlog' = Append(backlog, c)
      BY <2>3 DEF Connect
    <3>2. \A d : Queued(d)' <=> Queued(d) \/ d = c
      BY <1>a, <3>1, ConnectFacts
    <3>3. Out' = Out
      BY <1>a, <3>1, <3>2 DEF Out
    <3> QED
      BY <1>f, <2>1, <3>3
  <2> QED
    BY <1>6, <2>2, <2>3
<1>7. ASSUME NEW t \in Threads, SigWait(t) \/ Shutdown(t)
      PROVE  CountInv'
  <2>1. /\ UNCHANGED <<link, backlog, freed, nclients, reg>>
        /\ \A u \in Threads : pc'[u] = pc[u] \/ pc'[u] \in {"none", "kill", "kill_last"}
    BY <1>a, <1>7, ShutFacts
  <2> QED
    BY <1>d, <1>f, <2>1, ThreadFacts DEF Joining, NewLabels, Leaving
<1>8. ASSUME NEW t \in Threads, NEW l, Quietly(t, l)
      PROVE  CountInv'
  <2>1. /\ UNCHANGED <<link, backlog, freed, nclients, reg>>
        /\ \A u \in Threads : pc'[u] = IF u = t THEN l ELSE pc[u]
        /\ l \notin {"count", "counted", "add"} /\ (l \in Leaving => pc[t] \in Leaving)
        /\ l \in NewLabels => pc["main"] \in NewLabels
    BY <1>a, <1>8 DEF Quietly
  <2> QED
    BY <1>d, <1>f, <2>1, ThreadFacts DEF Joining, Leaving
<1>9. CASE UNCHANGED <<pc, link, backlog, clients, freed, nclients, reg>>
  BY <1>d, <1>f, <1>9
<1> HIDE DEF F, O
<1> QED
  BY <1>1, <1>2, <1>3, <1>4, <1>5, <1>6, <1>7, <1>8, <1>9, StepShape

(* A step that ends the server leaves the count, the list and the ids alone.  *)
LEMMA HaltedFacts ==
    ASSUME Next, ~Running'
    PROVE  UNCHANGED <<nclients, clients, id>>
<1>1. MainStep => UNCHANGED <<nclients, clients, id>> \/ halt' = halt
  BY DEF MainStep, Accept, inform_refuse, Refused, FirstFree, place_client_onboard, send_client_id, IdSent,
         send_board, BoardSent, Unplace, CreateReader, add_client, Count, TellAll, Halt, list
<1>2. \A c : ReaderStep(c) => UNCHANGED <<nclients, clients, id>> \/ halt' = halt
  BY ZenonT(60) DEF ReaderStep, Spin, ReadBusy, ReadRequest, player_hit, HitTaken, Cant, Can, teleport, TeleportPut,
         TeleportCant, TellMove, ReadEnd, Unlist, Finish, Unsig, TellLeft, Halt, list
<1>3. \A t : SecondHalf(t) \/ BroadcastStep(t) \/ SigWait(t) \/ Shutdown(t) \/ Interrupt(t) => UNCHANGED <<nclients, clients, id>>
  BY DEF SecondHalf, Interrupt, BroadcastStep, SigWait, Shutdown, list
<1>4. \A c : Connect(c) \/ Key(c) \/ Leave(c) \/ ClientStep(c) => UNCHANGED <<nclients, clients, id>>
  BY DEF ClientStep, Connect, Key, Leave, Reply, Refresh, KeyDone, Dismissed, SeesEnd, Gone, serverSide, list
<1>5. halt = ""
  BY DEF Next, ServerStep, ClientStep, Users
<1> QED
  BY <1>1, <1>2, <1>3, <1>4, <1>5 DEF Next, ServerStep, Users, Running

-----------------------------------------------------------------------------
(* No thread is about a teleport before there was one.                      *)
NoTeleport == Running /\ teleports = 0 => \A t \in Threads : pc[t] \notin Teleporting

(* Every step keeps it.  *)
LEMMA NoTeleportStep ==
    ASSUME Types, Offline, FreshInv, NoTeleport, Next, Running, Running', teleports' = 0, NEW u \in Threads
    PROVE  pc'[u] \notin Teleporting
<1>a. pc = [t \in Threads |-> pc[t]]
  BY DEF Types
<1>b. teleports = 0 /\ \A t \in Threads : pc[t] \notin Teleporting
  BY TeleportsKept DEF NoTeleport
<1>c. ASSUME \A t \in Threads : pc'[t] = pc[t] \/ pc'[t] \notin Teleporting
      PROVE  pc'[u] \notin Teleporting
  BY <1>b, <1>c
<1>1. CASE Accept \/ add_client \/ Count
  BY <1>a, <1>c, <1>1, ThreadFacts DEF Accept, add_client, Count, Goto, Teleporting
<1>2. CASE CreateReader
  <2>1. pc' = [pc EXCEPT !["main"] = "add", ![cur] = "spin"]
    BY <1>2 DEF CreateReader
  <2> QED
    BY <1>a, <1>c, <2>1 DEF Teleporting
<1>3. ASSUME NEW c \in Clients, Unlist(c) \/ Finish(c)
      PROVE  pc'[u] \notin Teleporting
  <2>1. \E l \in {"exit", "dead", "unsig", "sig_wait"} : pc' = [pc EXCEPT ![c] = l]
    <3>1. CASE Unlist(c)
      BY <3>1, UnlistFacts
    <3>2. CASE Finish(c)
      BY <3>2 DEF Finish, Goto, Running
    <3> QED
      BY <1>3, <3>1, <3>2
  <2> QED
    BY <1>a, <1>c, <2>1 DEF Teleporting
<1>4. ASSUME NEW c \in Clients, Connect(c) \/ (Gone(c) /\ link[c] # "off")
      PROVE  pc'[u] \notin Teleporting
  BY <1>b, <1>4 DEF Connect, Gone, serverSide
<1>5. ASSUME NEW t \in Threads, SigWait(t) \/ Shutdown(t)
      PROVE  pc'[u] \notin Teleporting
  BY <1>a, <1>c, <1>5, ShutFacts DEF Teleporting
<1>6. ASSUME NEW t \in Threads, NEW l, Quietly(t, l)
      PROVE  pc'[u] \notin Teleporting
  <2>1. \A v \in Threads : pc'[v] = IF v = t THEN l ELSE pc[v]
    BY <1>a, <1>6 DEF Quietly
  <2>2. l \notin Teleporting
    BY <1>b, <1>6 DEF Quietly
  <2> QED
    BY <1>c, <2>1, <2>2
<1>7. CASE pc' = pc
  BY <1>b, <1>7
<1> QED
  BY <1>1, <1>2, <1>3, <1>4, <1>5, <1>6, <1>7, StepShape

-----------------------------------------------------------------------------
(* The ids.  Who has one has come to main, who has one of the table goes on *)
(* to be registered, and so every client on the list has one of the table.  *)
IdInv == Running => /\ \A c \in Clients : id[c] # -1 => link[c] # "off" /\ ~Queued(c)
                    /\ pc["main"] \in Seated \cup {"add"} => id[cur] \in Ids
ListedIds == \A c \in Listed : id[c] \in Ids

(* Every step keeps both.  *)
LEMMA IdStep ==
    ASSUME Types, Offline, FreshInv, IdInv, ListedIds, Next, Running, Running'
    PROVE  IdInv' /\ ListedIds'
<1>a. /\ pc = [t \in Threads |-> pc[t]] /\ link = [c \in Clients |-> link[c]] /\ clients \in Seq(Clients)
      /\ at = [t \in Threads |-> at[t]] /\ backlog \in Seq(Clients) /\ id = [c \in Clients |-> id[c]]
      /\ Listed \subseteq Clients /\ freed \subseteq Clients
  BY DEF Types, Listed
<1>b. /\ \A c \in Clients : id[c] # -1 => link[c] # "off" /\ ~Queued(c)
      /\ pc["main"] \in Seated \cup {"add"} => id[cur] \in Ids
  BY DEF IdInv
<1>c. pc["main"] \in NewLabels \cup {"add"} => cur \in Clients /\ cur \notin Listed /\ link[cur] # "off" /\ ~Queued(cur)
  BY DEF FreshInv, AtMain, New
<1>d. UNCHANGED backlog => \A c : Queued(c)' <=> Queued(c)
  BY DEF Queued
<1>e. Seated \subseteq NewLabels /\ "first_free" \notin Seated \cup {"add"}
  BY DEF Seated, NewLabels
<1>f. \/ id' = id
      \/ /\ pc["main"] = "first_free" /\ cur \in Clients /\ cur \notin Listed /\ link[cur] # "off" /\ ~Queued(cur)
         /\ \A c \in Clients : c # cur => id'[c] = id[c]
  <2>1. CASE id' = id
    BY <2>1
  <2>2. CASE Main("first_free") /\ id' = [id EXCEPT ![cur] = get_first_free]
    <3>1. pc["main"] \in NewLabels
      BY <2>2 DEF Main, NewLabels
    <3> QED
      BY <1>a, <1>c, <2>2, <3>1 DEF Main
  <2> QED
    BY <2>1, <2>2, IdKept
<1>g. ASSUME \A c \in Clients : link[c] # "off" /\ ~Queued(c) => link'[c] # "off" /\ ~Queued(c)',
             Listed' \subseteq Listed,
             pc'["main"] \in Seated \cup {"add"} =>
                cur' = cur /\ (pc["main"] \in Seated \cup {"add"} \/ (id[cur] \in Ids /\ id' = id))
      PROVE  IdInv' /\ ListedIds'
  <2>1. ASSUME NEW c \in Clients, id'[c] # -1
        PROVE  link'[c] # "off" /\ ~Queued(c)'
    BY <1>b, <1>f, <1>g, <2>1
  <2>2. ASSUME NEW c \in Listed'
        PROVE  id'[c] \in Ids
    BY <1>a, <1>f, <1>g, <2>2 DEF ListedIds
  <2>3. ASSUME pc'["main"] \in Seated \cup {"add"}
        PROVE  id'[cur'] \in Ids
    BY <1>b, <1>e, <1>f, <1>g, <2>3
  <2> QED
    BY <2>1, <2>2, <2>3 DEF IdInv, ListedIds
<1>1. CASE Accept
  <2>1. /\ link' = link /\ clients' = clients /\ pc'["main"] \in {"refuse", "first_free"}
    BY <1>a, <1>1, ThreadFacts DEF Accept, Goto, wires, list
  <2>2. \A c : Queued(c)' => Queued(c)
    BY <1>a, <1>1, AcceptFacts
  <2>3. Listed' = Listed
    BY <2>1 DEF Listed
  <2> QED
    BY <1>g, <2>1, <2>2, <2>3 DEF Seated
<1>2. CASE CreateReader
  <2>1. /\ pc["main"] = "create" /\ pc' = [pc EXCEPT !["main"] = "add", ![cur] = "spin"]
        /\ UNCHANGED <<link, backlog, clients, at>>
    BY <1>2 DEF CreateReader, Main, wires, list
  <2>2. Listed' = Listed /\ cur' = cur
    BY <2>1 DEF Listed, cur
  <2> QED
    BY <1>d, <1>g, <2>1, <2>2 DEF Seated
<1>3. CASE add_client
  <2>1. /\ pc["main"] = "add" /\ pc' = [pc EXCEPT !["main"] = "count"] /\ clients' = <<cur>> \o clients
        /\ UNCHANGED <<link, backlog, id>>
    BY <1>3 DEF add_client, Main, Goto, wires
  <2>2. cur \in Clients /\ id[cur] \in Ids
    BY <1>b, <1>c, <2>1
  <2>3. Listed' = Listed \cup {cur}
    BY <1>a, <2>1, <2>2, AddedFacts
  <2>4. pc'["main"] = "count"
    BY <1>a, <2>1, ThreadFacts
  <2>5. IdInv'
    BY <1>b, <1>d, <2>1, <2>4 DEF IdInv, Seated
  <2>6. ListedIds'
    BY <2>1, <2>2, <2>3 DEF ListedIds
  <2> QED
    BY <2>5, <2>6
<1>4. CASE Count
  <2>1. /\ UNCHANGED <<link, backlog, clients>> /\ pc'["main"] \in {"counted", "tell_wait"}
    BY <1>a, <1>4, ThreadFacts DEF Count, Goto, wires
  <2>2. Listed' = Listed
    BY <2>1 DEF Listed
  <2> QED
    BY <1>d, <1>g, <2>1, <2>2 DEF Seated
<1>5. ASSUME NEW c \in Clients, Unlist(c) \/ Finish(c)
      PROVE  IdInv' /\ ListedIds'
  <2>1. UNCHANGED <<link, backlog, at>> /\ (\E l : pc' = [pc EXCEPT ![c] = l]) /\ Listed' \subseteq Listed
    <3>1. CASE Unlist(c)
      <4>1. /\ UNCHANGED <<link, backlog, at>> /\ (\E l : pc' = [pc EXCEPT ![c] = l])
            /\ c \in From(at[c]) /\ (clients' = clients \/ clients' = RemoveAt(clients, Pos(c)))
        BY <3>1, UnlistFacts
      <4>2. c \in Listed
        BY <1>a, <4>1, FromFacts
      <4> QED
        BY <1>a, <4>1, <4>2, UnlistedFacts
    <3>2. CASE Finish(c)
      <4>1. UNCHANGED <<link, backlog, at, clients>> /\ \E l : pc' = [pc EXCEPT ![c] = l]
        BY <3>2 DEF Finish, Goto, wires, Running
      <4> QED
        BY <4>1 DEF Listed
    <3> QED
      BY <1>5, <3>1, <3>2
  <2>2. cur' = cur /\ pc'["main"] = pc["main"]
    BY <1>a, <2>1, ThreadFacts DEF cur
  <2> QED
    BY <1>d, <1>g, <2>1, <2>2
<1>6. ASSUME NEW c \in Clients, Connect(c) \/ (Gone(c) /\ link[c] # "off")
      PROVE  IdInv' /\ ListedIds'
  <2>1. UNCHANGED <<pc, at, clients>>
    BY <1>6 DEF Connect, Gone, serverSide, list
  <2>2. \/ link' = [link EXCEPT ![c] = "closed"] /\ backlog' = backlog
        \/ link[c] = "off" /\ link' = [link EXCEPT ![c] = "open"] /\ backlog' = Append(backlog, c)
    BY <1>6 DEF Connect, Gone
  <2>3. \A d \in Clients : link[d] # "off" /\ ~Queued(d) => link'[d] # "off" /\ ~Queued(d)'
    BY <1>a, <1>d, <2>2, ConnectFacts
  <2>4. Listed' = Listed /\ cur' = cur
    BY <2>1 DEF Listed, cur
  <2> QED
    BY <1>g, <2>1, <2>3, <2>4
<1>7. ASSUME NEW t \in Threads, SigWait(t) \/ Shutdown(t)
      PROVE  IdInv' /\ ListedIds'
  <2>1. /\ UNCHANGED <<link, backlog, clients>> /\ pc'[t] \in {"kill", "kill_last"}
        /\ \A v \in Threads \ {t} : pc'[v] = pc[v] \/ pc'[v] = "none"
        /\ \E e : at' = [at EXCEPT ![t] = e]
    BY <1>a, <1>7, ShutFacts
  <2>2. Listed' = Listed
    BY <2>1 DEF Listed
  <2>3. pc'["main"] \in Seated \cup {"add"} => cur' = cur /\ pc'["main"] = pc["main"]
    BY <1>a, <2>1, ThreadFacts DEF Seated, cur
  <2> QED
    BY <1>d, <1>g, <2>1, <2>2, <2>3
<1>8. ASSUME NEW t \in Threads, NEW l, Quietly(t, l)
      PROVE  IdInv' /\ ListedIds'
  <2>1. /\ UNCHANGED <<link, backlog, clients>> /\ \A v \in Threads : pc'[v] = IF v = t THEN l ELSE pc[v]
        /\ l # "add" /\ (t # "main" => cur' = cur)
        /\ l \in Seated => /\ t = "main" /\ cur' = cur
                           /\ pc[t] \in Seated \/ (id[cur] \in Ids /\ id' = id)
    BY <1>a, <1>e, <1>8 DEF Quietly
  <2>2. Listed' = Listed
    BY <2>1 DEF Listed
  <2>3. pc'["main"] \in Seated \cup {"add"} =>
           cur' = cur /\ (pc["main"] \in Seated \cup {"add"} \/ (id[cur] \in Ids /\ id' = id))
    BY <2>1, ThreadFacts
  <2> QED
    BY <1>d, <1>g, <2>1, <2>2, <2>3
<1>9. CASE UNCHANGED <<pc, link, backlog, clients, freed, nclients, reg>> /\ cur' = cur
  <2>1. Listed' = Listed
    BY <1>9 DEF Listed
  <2> QED
    BY <1>d, <1>g, <1>9, <2>1
<1> QED
  BY <1>1, <1>2, <1>3, <1>4, <1>5, <1>6, <1>7, <1>8, <1>9, StepShape

-----------------------------------------------------------------------------
(* The board.  What is lost for it is not found again: a handler stays a    *)
(* handler, and a client that gave up while it was registered stays away.   *)
Regular == Running /\ teleports = 0 /\ ~strayed /\ ~Handled /\ \A c \in Clients : ~GaveUp(c)

(* What is regular after a step was so before.  *)
LEMMA RegularBack ==
    ASSUME Types, Offline, FreshInv, IdInv, Next, Regular'
    PROVE  Regular
<1>a. /\ pc = [t \in Threads |-> pc[t]] /\ link = [c \in Clients |-> link[c]]
      /\ at = [t \in Threads |-> at[t]] /\ backlog \in Seq(Clients) /\ id = [c \in Clients |-> id[c]]
  BY DEF Types
<1>b. Running /\ Running'
  BY DEF Regular, Next, ServerStep, ClientStep, Users, Running
<1>k. teleports = 0 /\ ~strayed
  <2>1. teleports = 0
    BY TeleportsKept DEF Regular
  <2>2. ~strayed'
    BY DEF Regular
  <2>3. strayed' = strayed \/ strayed' = TRUE
    BY StrayedKept
  <2>4. CASE strayed' = strayed
    BY Zenon, <2>1, <2>2, <2>4
  <2>5. CASE strayed' = TRUE
    BY Zenon, <2>2, <2>5
  <2> QED
    BY Zenon, <2>3, <2>4, <2>5
<1>c. Handled <=> \E t \in Threads : pc[t] \in Handling
  BY DEF Handled, Handling
<1>d. (\E t \in Threads : pc'[t] \in Handling) => Handled'
  BY DEF Handled, Handling, Threads
<1>e. \A c : GaveUp(c) <=> id[c] # -1 /\ pc[c] = "none" /\ ~AtMain(c, NewLabels)
  BY DEF GaveUp, AtMain
<1>f. \A c : GaveUp(c)' <=> id'[c] # -1 /\ pc'[c] = "none" /\ ~AtMain(c, NewLabels)'
  BY DEF GaveUp, AtMain
<1>i. \A c \in Clients : ~AtMain(c, NewLabels) => id'[c] = id[c]
  <2>1. "first_free" \in NewLabels
    BY DEF NewLabels
  <2> QED
    BY <1>a, <2>1, IdKept DEF AtMain, Main
<1>g. ASSUME \A t \in Threads : pc[t] \in Handling => pc'[t] \in Handling,
             \A c \in Clients : pc[c] = "none" /\ ~AtMain(c, NewLabels) /\ ~Queued(c) =>
                 pc'[c] = "none" /\ ~AtMain(c, NewLabels)'
      PROVE  Regular
  <2>1. ~Handled
    BY <1>c, <1>d, <1>g DEF Regular
  <2>2. \A c \in Clients : GaveUp(c) => ~Queued(c)
    BY <1>b, <1>e DEF IdInv
  <2>3. \A c \in Clients : GaveUp(c) => GaveUp(c)'
    BY <1>e, <1>f, <1>g, <1>i, <2>2
  <2>4. \A c \in Clients : ~GaveUp(c)
    BY <2>3 DEF Regular
  <2> QED
    BY <1>b, <1>k, <2>1, <2>4 DEF Regular
<1>1. CASE Accept
  <2>1. /\ pc["main"] = "accept" /\ \A c \in Clients : pc'[c] = pc[c]
        /\ cur' = Head(backlog)
    BY <1>a, <1>1, ThreadFacts DEF Accept, Goto, Main, cur
  <2>2. Queued(Head(backlog))
    BY <1>a, <1>b, <1>1, AcceptFacts
  <2>3. \A t \in Threads : pc[t] \in Handling => pc'[t] \in Handling
    BY <2>1 DEF Threads, Handling
  <2> QED
    BY <1>g, <2>1, <2>2, <2>3 DEF AtMain
<1>2. CASE CreateReader
  <2>1. /\ pc["main"] = "create" /\ pc' = [pc EXCEPT !["main"] = "add", ![cur] = "spin"]
    BY <1>2 DEF CreateReader, Main
  <2>2. "create" \in NewLabels /\ "add" \notin NewLabels
    BY DEF NewLabels
  <2>3. cur \in Clients /\ pc[cur] = "none" /\ AtMain(cur, NewLabels)
    BY <1>b, <2>1, <2>2 DEF FreshInv, New, AtMain
  <2>4. /\ \A t \in Threads : pc'[t] = IF t = "main" THEN "add" ELSE IF t = cur THEN "spin" ELSE pc[t]
    BY <1>a, <2>1, <2>3, ThreadFacts
  <2>5. \A t \in Threads : pc[t] \in Handling => pc'[t] \in Handling
    BY <2>1, <2>3, <2>4 DEF Handling
  <2>6. \A c : ~AtMain(c, NewLabels)'
    BY <2>2, <2>4, ThreadFacts DEF AtMain
  <2> QED
    BY <1>g, <2>3, <2>4, <2>5, <2>6, ThreadFacts
<1>3. CASE add_client \/ Count
  <2>1. /\ \A c \in Clients : pc'[c] = pc[c]
        /\ pc["main"] \in {"add", "count", "counted"} /\ pc'["main"] \in {"count", "counted", "tell_wait"}
    BY <1>a, <1>3, ThreadFacts DEF add_client, Count, Goto, Main
  <2>2. \A t \in Threads : pc[t] \in Handling => pc'[t] \in Handling
    BY <2>1 DEF Threads, Handling
  <2> QED
    BY <1>g, <2>1, <2>2 DEF AtMain, NewLabels
<1>4. ASSUME NEW c \in Clients, Unlist(c) \/ Finish(c)
      PROVE  Regular
  <2>1. /\ at' = at /\ pc[c] \notin {"none"} \cup Handling
        /\ \E l : pc' = [pc EXCEPT ![c] = l]
    <3>1. CASE Unlist(c)
      BY <1>b, <3>1, UnlistFacts DEF Handling
    <3>2. CASE Finish(c)
      BY <1>b, <3>2 DEF Finish, Goto, Handling, Running
    <3> QED
      BY <1>4, <3>1, <3>2
  <2>2. /\ cur' = cur /\ pc'["main"] = pc["main"]
        /\ \A t \in Threads : t # c => pc'[t] = pc[t]
    BY <1>a, <2>1, ThreadFacts DEF cur
  <2> QED
    BY <1>g, <2>1, <2>2, ThreadFacts DEF AtMain
<1>5. ASSUME NEW c \in Clients, Connect(c) \/ (Gone(c) /\ link[c] # "off")
      PROVE  Regular
  <2>1. UNCHANGED <<pc, at>>
    BY <1>5 DEF Connect, Gone, serverSide
  <2> QED
    BY <1>g, <2>1 DEF AtMain, cur
<1>6. ASSUME NEW t \in Threads, SigWait(t) \/ Shutdown(t)
      PROVE  Regular
  <2>1. pc'[t] \in {"kill", "kill_last"}
    BY <1>a, <1>b, <1>6, ShutFacts
  <2> QED
    BY <1>d, <2>1 DEF Regular, Handling
<1>7. ASSUME NEW t \in Threads, NEW l, Quietly(t, l)
      PROVE  Regular
  <2>1. /\ pc[t] \notin {"none"} \cup Handling
        /\ \A u \in Threads : pc'[u] = IF u = t THEN l ELSE pc[u]
    BY <1>a, <1>7 DEF Quietly
  <2>2. pc'["main"] \in NewLabels => pc["main"] \in NewLabels /\ cur' = cur
    <3>1. CASE t = "main"
      BY <1>7, <2>1, <3>1, ThreadFacts DEF Quietly
    <3>2. CASE t # "main"
      BY <1>7, <2>1, <3>2, ThreadFacts DEF Quietly
    <3> QED
      BY <3>1, <3>2
  <2> QED
    BY <1>g, <2>1, <2>2, ThreadFacts DEF AtMain
<1>8. CASE UNCHANGED <<pc, link, backlog, clients, freed, nclients, reg>> /\ cur' = cur
  BY <1>g, <1>8 DEF AtMain
<1> QED
  BY <1>b, <1>1, <1>2, <1>3, <1>4, <1>5, <1>6, <1>7, <1>8, StepShape

(* What a step that leaves the board and its clients alone does to the      *)
(* threads that are at work on them.                                        *)
Placed == {"idcl", "idok", "boar", "book", "unplace", "create", "add"}
Copying == {"progress", "hit"}
Boarding(t, l) ==
    /\ pc' = [pc EXCEPT ![t] = l]
    /\ UNCHANGED <<link, clients, freed, id, cells, bmatrix>>
    /\ t # "main" => /\ cur' = cur
                     /\ l \in Leaving <=> pc[t] \in Leaving
                     /\ l \in Copying => pc[t] \in Copying
    /\ t = "main" => /\ l # "place" /\ (l \in Placed <=> pc[t] \in Placed)
                     /\ l \in Placed => cur' = cur

(* All other steps than those named leave the board and its clients alone.  *)
LEMMA BoardShape ==
    ASSUME Types, Offline, FreshInv, TalkInv, NoTeleport, Next, Running, Running', teleports' = 0,
           ~strayed', ~Handled'
    PROVE  \/ Accept \/ FirstFree \/ place_client_onboard \/ Unplace \/ CreateReader \/ add_client
           \/ \E c \in Clients : \/ ReadRequest(c) \/ HitTaken(c) \/ Cant(c) \/ Can(c) \/ Unlist(c) \/ Finish(c)
                               \/ Connect(c) \/ (Gone(c) /\ link[c] # "off")
           \/ \E t \in Threads : \E l : Boarding(t, l)
           \/ UNCHANGED <<pc, link, clients, freed, id, cells, bmatrix>> /\ cur' = cur
<1> DEFINE Shape == \/ \E t \in Threads : \E l : Boarding(t, l)
                    \/ UNCHANGED <<pc, link, clients, freed, id, cells, bmatrix>> /\ cur' = cur
<1>a. freed \subseteq Clients /\ pc = [t \in Threads |-> pc[t]]
  BY DEF Types
<1>s. \A t \in Threads : pc'[t] \notin Handling
  BY DEF Handled, Handling, Threads
<1>t. teleports = 0 /\ \A t \in Threads : pc[t] \notin Teleporting
  BY TeleportsKept DEF NoTeleport
<1>o. ASSUME NEW t \in Threads, t # "main", NEW e, at' = at \/ at' = [at EXCEPT ![t] = e]
      PROVE  cur' = cur
  <2>1. at = [u \in Threads |-> at[u]]
    BY DEF Types
  <2> QED
    BY <1>o, <2>1, ThreadFacts DEF cur
<1>b. ASSUME NEW t \in Threads, NEW l, NEW m, NEW w, Begins(t, l, m, w), l \in DOMAIN AfterTelling,
             UNCHANGED <<link, clients, freed, id, cells, bmatrix>>,
             pc[t] \notin Leaving \cup Copying \cup Placed
      PROVE  Shape
  <2>1. PICK k : pc' = [pc EXCEPT ![t] = k] /\ k \in {l, AfterTelling[l], "sig_wait"}
    BY <1>b DEF Begins, Said
  <2>2. k \in {"tell", "bcast", "tbcast", "last", "accept", "spin", "done", "sig_wait"}
    BY <1>b, <2>1, TellFacts
  <2>3. t # "main" => cur' = cur
    <3>1. PICK e : at' = at \/ at' = [at EXCEPT ![t] = e]
      BY <1>b DEF Begins, Said
    <3> QED
      BY <1>o, <3>1
  <2>4. Boarding(t, k)
    BY <1>b, <2>1, <2>2, <2>3 DEF Boarding, Placed, Leaving, Copying
  <2> QED
    BY <2>4
<1>c. ASSUME NEW t \in Threads, NEW l, pc' = [pc EXCEPT ![t] = l],
             UNCHANGED <<link, clients, freed, id, cells, bmatrix>>, cur' = cur,
             t # "main", l \in Leaving <=> pc[t] \in Leaving, l \in Copying => pc[t] \in Copying
      PROVE  Shape
  <2>1. Boarding(t, l)
    BY <1>c DEF Boarding
  <2> QED
    BY <2>1
<1>d. ASSUME NEW l, pc' = [pc EXCEPT !["main"] = l],
             UNCHANGED <<link, clients, freed, id, cells, bmatrix>>, l \in Placed => cur' = cur,
             l # "place", l \in Placed <=> pc["main"] \in Placed
      PROVE  Shape
  <2>1. Boarding("main", l)
    BY <1>d DEF Boarding
  <2> QED
    BY <2>1, ThreadFacts
<1>e. ASSUME NEW t \in Threads, NEW c, NEW m, NEW l, Say(t, c, m, l, wire)
      PROVE  pc' = [pc EXCEPT ![t] = l] /\ \E e : at' = [at EXCEPT ![t] = e] /\ e = c
  <2>1. Said(t, c, m, l, wire)
    BY <1>e, SayFacts
  <2>2. pc' # [pc EXCEPT ![t] = "sig_wait"]
    BY <1>a, <1>s DEF Handling
  <2> QED
    BY <2>1, <2>2 DEF Said
<1>f. ASSUME NEW c \in Clients, NEW l, AnswerTo(c, l)
      PROVE  pc' = [pc EXCEPT ![c] = l]
  <2>1. pc' # [pc EXCEPT ![c] = "sig_wait"]
    BY <1>a, <1>s, ThreadFacts DEF Handling
  <2> QED
    BY <1>f, <2>1 DEF AnswerTo, Goto, Running
<1> USE DEF Goto, Main, wires, list, board
<1>1. ASSUME MainStep
      PROVE  \/ Accept \/ FirstFree \/ place_client_onboard \/ Unplace \/ CreateReader \/ add_client \/ Shape
  <2>a. ASSUME NEW m, NEW l, Say("main", cur, m, l, wire)
        PROVE  pc' = [pc EXCEPT !["main"] = l] /\ cur' = cur
    BY <2>a, <1>e, ThreadFacts DEF cur, Types
  <2>1. CASE inform_refuse
    BY <2>1, <2>a, <1>d DEF inform_refuse, Placed
  <2>2. CASE Refused
    BY <2>2, <1>d DEF Refused, Halt, Running, Placed
  <2>5. CASE send_client_id
    <3>1. ~Halt("no id")
      BY ZenonT(30) DEF Halt, Running
    <3>2. /\ pc["main"] = "idcl" /\ Say("main", cur, "IDCL", "idok", wire)
          /\ UNCHANGED <<link, clients, freed, id, cells, bmatrix>>
      BY <2>5, <3>1 DEF send_client_id
    <3>3. pc' = [pc EXCEPT !["main"] = "idok"] /\ cur' = cur
      BY <2>a, <3>2
    <3> QED
      BY <1>d, <3>2, <3>3 DEF Placed
  <2>6. CASE IdSent
    BY <2>6, <1>d DEF IdSent, Placed, cur
  <2>7. CASE send_board
    BY <2>7, <2>a, <1>d DEF send_board, Placed
  <2>8. CASE BoardSent
    BY <2>8, <1>d DEF BoardSent, Placed, cur
  <2>9. CASE Count
    BY <2>9, <1>d DEF Count, Placed
  <2>10. CASE TellAll
    BY <2>10, <1>b, TellingFacts, TellFacts, ThreadFacts DEF Placed, Leaving, Copying
  <2> QED
    BY <1>1, <2>1, <2>2, <2>5, <2>6, <2>7, <2>8, <2>9, <2>10 DEF MainStep
<1>2. ASSUME NEW c \in Clients, ReaderStep(c)
      PROVE  ReadRequest(c) \/ HitTaken(c) \/ Cant(c) \/ Can(c) \/ Unlist(c) \/ Finish(c) \/ Shape
  <2>a. c \in Threads /\ c # "main"
    BY ThreadFacts
  <2>b. ASSUME NEW l, NEW e, pc' = [pc EXCEPT ![c] = l], at' = at \/ at' = [at EXCEPT ![c] = e],
               UNCHANGED <<link, clients, freed, id, cells, bmatrix>>,
               l \in Leaving <=> pc[c] \in Leaving, l \in Copying => pc[c] \in Copying
        PROVE  Shape
    BY <1>c, <1>o, <2>a, <2>b
  <2>1. CASE Spin(c)
    <3>1. /\ pc[c] = "spin" /\ pc' = [pc EXCEPT ![c] = "read"]
          /\ UNCHANGED <<at, link, clients, freed, id, cells, bmatrix>>
      BY <2>1 DEF Spin
    <3> QED
      BY ZenonT(60), <1>c, <2>a, <3>1 DEF Leaving, Copying, cur
  <2>2. CASE ReadBusy(c)
    BY <2>2, <2>b, <1>f DEF ReadBusy, Leaving, Copying
  <2>4. CASE player_hit(c)
    <3>1. PICK e : Say(c, e, "DEAD", "hit", wire)
      BY <2>4 DEF player_hit, Halt, Running
    <3>2. pc[c] = "progress" /\ UNCHANGED <<link, clients, freed, id, cells, bmatrix>>
      BY <2>4 DEF player_hit, Halt, Running
    <3> QED
      BY <1>e, <2>a, <2>b, <3>1, <3>2 DEF Leaving, Copying
  <2>8. CASE teleport(c)
    <3>1. teleports' = teleports + 1
      BY <2>8 DEF teleport
    <3> QED
      BY <1>t, <3>1
  <2>9. CASE TeleportPut(c) \/ TeleportCant(c)
    BY <1>t, <2>a, <2>9 DEF TeleportPut, TeleportCant, Teleporting
  <2>11. CASE TellMove(c)
    BY <2>11, <2>a, <1>b, TellingFacts, TellFacts DEF Placed, Leaving, Copying
  <2>12. CASE ReadEnd(c)
    BY <2>12, <2>b DEF ReadEnd, Leaving, Copying
  <2>13. CASE Unsig(c)
    <3>1. /\ pc[c] = "unsig" /\ pc' = [pc EXCEPT ![c] = "last_wait"]
          /\ UNCHANGED <<at, link, clients, freed, id, cells, bmatrix>>
      BY <2>13 DEF Unsig
    <3> QED
      BY ZenonT(60), <1>c, <2>a, <3>1 DEF Leaving, Copying, cur
  <2>14. CASE TellLeft(c)
    BY <2>14, <2>a, <1>b, TellingFacts, TellFacts DEF Placed, Leaving, Copying
  <2> QED
    BY <1>2, <2>1, <2>2, <2>4, <2>8, <2>9, <2>11, <2>12, <2>13, <2>14 DEF ReaderStep
<1>g. ASSUME NEW t \in Threads, NEW l, NEW e, UNCHANGED <<link, clients, freed, id, cells, bmatrix>>,
             pc' = [pc EXCEPT ![t] = l], at' = at \/ at' = [at EXCEPT ![t] = e],
             l \in Leaving <=> pc[t] \in Leaving, l \in Copying => pc[t] \in Copying,
             l \notin Placed /\ pc[t] \notin Placed, l # "place"
      PROVE  Shape
  <2>1. t # "main" => cur' = cur
    BY <1>g, <1>o
  <2>2. Boarding(t, l)
    BY <1>g, <2>1 DEF Boarding
  <2> QED
    BY <2>2
<1>3. ASSUME NEW t \in Threads, SecondHalf(t) \/ BroadcastStep(t) \/ Interrupt(t)
      PROVE  Shape
  <2>1. CASE BroadcastStep(t)
    <3>1. /\ pc[t] \in DOMAIN AfterTelling /\ Begins(t, pc[t], mutex, Over(at[t]))
          /\ UNCHANGED <<link, clients, freed, id, cells, bmatrix>>
      BY <2>1, <1>a, BroadcastFacts
    <3>2. pc[t] \notin Leaving \cup Copying \cup Placed
      BY <3>1, TellFacts DEF Placed, Leaving, Copying
    <3> QED
      BY <1>b, <3>1, <3>2
  <2>2. CASE Interrupt(t)
    <3>1. UNCHANGED <<link, clients, freed, id, cells, bmatrix>>
      BY <2>2, InterruptFacts
    <3>2. \/ pc' = [pc EXCEPT ![t] = "sig_wait"]
          \/ pc' = pc /\ at' = at
          \/ pc[t] = "read" /\ pc' = [pc EXCEPT ![t] = "exit_wait"] /\ at' = [at EXCEPT ![t] = First]
          \/ pc[t] = "exit" /\ pc' = [pc EXCEPT ![t] = "dead"] /\ at' = at
      BY <2>2, InterruptFacts
    <3>3. pc' # [pc EXCEPT ![t] = "sig_wait"]
      BY <1>a, <1>s DEF Handling
    <3>4. CASE pc' = pc /\ at' = at
      BY <3>1, <3>4 DEF cur
    <3>5. CASE pc[t] = "read" /\ pc' = [pc EXCEPT ![t] = "exit_wait"] /\ at' = [at EXCEPT ![t] = First]
      BY <1>g, <3>1, <3>5 DEF Placed, Leaving, Copying
    <3>6. CASE pc[t] = "exit" /\ pc' = [pc EXCEPT ![t] = "dead"] /\ at' = at
      BY <1>g, <3>1, <3>6 DEF Placed, Leaving, Copying
    <3> QED
      BY <3>2, <3>3, <3>4, <3>5, <3>6
  <2>3. CASE SecondHalf(t)
    <3>1. /\ UNCHANGED <<link, clients, freed, id, cells, bmatrix>>
          /\ \/ pc' = pc /\ at' = at
             \/ \E m \in {"id", "board"} : Said(t, at[t], m, pc[t], Heard(at[t]))
      BY <2>3, HalfFacts
    <3>2. pc' # [pc EXCEPT ![t] = "sig_wait"]
      BY <1>a, <1>s DEF Handling
    <3>3. /\ pc' = pc \/ pc' = [pc EXCEPT ![t] = pc[t]]
          /\ at' = at \/ at' = [at EXCEPT ![t] = at[t]]
      BY <3>1, <3>2 DEF Said
    <3>4. pc' = pc /\ at' = at
      BY <3>3 DEF Types
    <3> QED
      BY <3>1, <3>4 DEF cur
  <2> QED
    BY <1>3, <2>1, <2>2, <2>3
<1>4. ASSUME NEW c \in Clients, Reply(c) \/ Refresh(c) \/ KeyDone(c) \/ Dismissed(c) \/ SeesEnd(c) \/ Connect(c) \/ Key(c) \/ Leave(c)
      PROVE  Connect(c) \/ (Gone(c) /\ link[c] # "off") \/ Shape
  BY <1>4 DEF Reply, Refresh, KeyDone, Dismissed, SeesEnd, Key, Leave, serverSide, Offline, cur
<1>5. ASSUME NEW t \in Threads, SigWait(t) \/ Shutdown(t)
      PROVE  FALSE
  <2>1. pc'[t] \in {"kill", "kill_last"}
    BY <1>a, <1>5, ShutFacts
  <2> QED
    BY <1>s, <2>1 DEF Handling
<1> HIDE DEF Shape
<1>6. \/ Accept \/ FirstFree \/ place_client_onboard \/ Unplace \/ CreateReader \/ add_client \/ Shape
      \/ \E c \in Clients : \/ ReadRequest(c) \/ HitTaken(c) \/ Cant(c) \/ Can(c) \/ Unlist(c) \/ Finish(c)
                          \/ Connect(c) \/ (Gone(c) /\ link[c] # "off")
  BY <1>1, <1>2, <1>3, <1>4, <1>5 DEF Next, ServerStep, ClientStep, Users
<1> QED
  BY <1>6 DEF Shape

-----------------------------------------------------------------------------
(* The clients whose id is on the board: the two parts of the list of       *)
(* players, those who play and the one who is about to.                     *)
Present(c) == Playing(c) \/ Registering(c)

\* No two of them have the same id; the board has each of the ids once.
OneId == \A c, d \in Clients : Present(c) /\ Present(d) /\ id[c] = id[d] => c = d
OnBoard == \A i \in Ids : cells[i] = IF \E c \in Clients : Present(c) /\ id[c] = i THEN 1 ELSE 0

\* The id found is still free when it is placed.
FreeId == pc["main"] = "place" => \A c \in Listed : id[c] # id[cur]

\* The copy that a fire works on is the board, as only its thread may change it.
Copies == \A c \in Clients : pc[c] \in Copying => bmatrix = cells

BoardInv == Regular => OneId /\ OnBoard /\ FreeId /\ Copies

(* Present by the places of the threads, before and after a step.  *)
LEMMA PresentFacts ==
    /\ \A c : Present(c) <=> (c \in Listed \ freed /\ pc[c] \notin Leaving) \/ AtMain(c, Placed)
    /\ \A c : Present(c)' <=> (c \in Listed' \ freed' /\ pc'[c] \notin Leaving) \/ AtMain(c, Placed)'
BY DEF Present, Playing, Registering, AtMain, Placed, Leaving

(* Every step keeps what is true of a regular board.  *)
LEMMA BoardStep ==
    ASSUME Types, Offline, FreshInv, MutexCovers, TalkInv, NoTeleport, IdInv, ListedIds, BoardInv, Next, Regular'
    PROVE  OneId' /\ OnBoard' /\ FreeId' /\ Copies'
<1>a. /\ pc = [t \in Threads |-> pc[t]] /\ link = [c \in Clients |-> link[c]]
      /\ at = [t \in Threads |-> at[t]] /\ id = [c \in Clients |-> id[c]]
      /\ cells \in [Ids -> Nat] /\ clients \in Seq(Clients) /\ freed \subseteq Clients
  BY DEF Types
<1>b. Regular /\ Running /\ Running' /\ teleports' = 0 /\ ~strayed' /\ ~Handled'
  BY RegularBack DEF Regular
<1>c. OneId /\ OnBoard /\ FreeId /\ Copies
  BY <1>b DEF BoardInv
<1>d. Listed \subseteq Clients
  BY <1>a DEF Listed
<1>e. pc["main"] \in NewLabels \cup {"add"} => cur \in Clients /\ cur \notin Listed \cup freed
  BY <1>b DEF FreshInv, AtMain, New
<1>f. mutex = NoOne => \A c \in Clients : pc[c] \notin Copying
  BY <1>b, ThreadFacts DEF MutexCovers, Critical, Running, Copying
<1>g. ASSUME \A c \in Clients : Present(c)' <=> Present(c), cells' = cells,
             \A c \in Clients : Present(c) => id'[c] = id[c]
      PROVE  OneId' /\ OnBoard'
  <2>1. OneId'
    BY <1>c, <1>g DEF OneId
  <2>2. OnBoard'
    BY <1>c, <1>g DEF OnBoard
  <2> QED
    BY <2>1, <2>2
<1>1. CASE Accept
  <2>1. /\ pc["main"] = "accept" /\ pc'["main"] \in {"refuse", "first_free"} /\ \A c \in Clients : pc'[c] = pc[c]
        /\ UNCHANGED <<clients, freed, id, cells, bmatrix>>
    BY <1>a, <1>1, ThreadFacts DEF Accept, Goto, Main, list, board
  <2>2. Listed' = Listed
    BY <2>1 DEF Listed
  <2>3. \A c \in Clients : Present(c)' <=> Present(c)
    BY <2>1, <2>2, PresentFacts DEF AtMain, Placed
  <2>4. FreeId' /\ Copies'
    BY <1>c, <2>1 DEF FreeId, Copies
  <2> QED
    BY <1>g, <2>1, <2>3, <2>4
<1>2. CASE FirstFree
  <2>1. /\ pc["main"] = "first_free" /\ pc' = [pc EXCEPT !["main"] = "place"]
        /\ id' = [id EXCEPT ![cur] = get_first_free]
        /\ UNCHANGED <<at, clients, freed, cells, bmatrix>>
    BY <1>b, <1>2 DEF FirstFree, Goto, Main, list, board, Halt, Running
  <2>2. cur \in Clients /\ cur \notin Listed
    BY <1>e, <2>1 DEF NewLabels
  <2>3. \A d \in Listed : id[d] # get_first_free
    BY FirstFreeFacts DEF ListedIds
  <2>4. /\ Listed' = Listed /\ cur' = cur /\ pc'["main"] = "place" /\ \A c \in Clients : pc'[c] = pc[c]
    BY <1>a, <2>1, ThreadFacts DEF Listed, cur
  <2>5. id'[cur] = get_first_free /\ \A c \in Clients : c # cur => id'[c] = id[c]
    BY <1>a, <2>1, <2>2
  <2>6. \A c \in Clients : (Present(c)' <=> Present(c)) /\ (Present(c) => c # cur)
    BY <2>1, <2>2, <2>4, PresentFacts DEF AtMain, Placed
  <2>7. FreeId'
    BY <1>d, <2>2, <2>3, <2>4, <2>5 DEF FreeId
  <2> QED
    BY <1>c, <1>g, <2>1, <2>4, <2>5, <2>6, <2>7 DEF Copies
<1>3. CASE place_client_onboard
  <2>1. /\ pc["main"] = "place" /\ mutex = NoOne /\ UNCHANGED <<at, clients, freed, id, bmatrix>>
        /\ \/ cells' = Put(cells, id[cur]) /\ pc' = [pc EXCEPT !["main"] = "idcl"]
           \/ cells' = cells /\ pc' = [pc EXCEPT !["main"] = "refuse"]
    BY <1>b, <1>3 DEF place_client_onboard, Goto, Main, list
  <2>2. cur \in Clients /\ cur \notin Listed
    BY <1>e, <2>1 DEF NewLabels
  <2>3. Listed' = Listed /\ cur' = cur /\ \A c \in Clients : pc'[c] = pc[c]
    BY <1>a, <2>1, ThreadFacts DEF Listed, cur
  <2>4. pc'["main"] \in {"idcl", "refuse"}
    BY <1>a, <2>1, ThreadFacts
  <2>5. FreeId' /\ Copies'
    BY <1>f, <2>1, <2>3, <2>4 DEF FreeId, Copies
  <2>6. \A c \in Clients : Present(c) => id[c] # id[cur]
    BY <1>c, <2>1, PresentFacts DEF FreeId, AtMain, Placed
  <2>7. CASE cells' = cells /\ pc' = [pc EXCEPT !["main"] = "refuse"]
    <3>1. pc'["main"] = "refuse"
      BY <1>a, <2>7, ThreadFacts
    <3>2. \A c \in Clients : Present(c)' <=> Present(c)
      BY <2>1, <2>3, <3>1, PresentFacts DEF AtMain, Placed
    <3> QED
      BY <1>g, <2>1, <2>5, <2>7, <3>2
  <2>8. CASE cells' = Put(cells, id[cur]) /\ pc' = [pc EXCEPT !["main"] = "idcl"]
    <3>1. pc'["main"] = "idcl"
      BY <1>a, <2>8, ThreadFacts
    <3>2. \A c \in Clients : Present(c)' <=> Present(c) \/ c = cur
      BY <2>1, <2>3, <3>1, PresentFacts DEF AtMain, Placed
    <3>3. OneId'
      BY <1>c, <2>1, <2>6, <3>2 DEF OneId
    <3>4. id[cur] \in Ids => cells[id[cur]] = 0
      BY <1>c, <2>6 DEF OnBoard
    <3>5. \A i \in Ids : cells'[i] = IF i = id[cur] THEN 1 ELSE cells[i]
      BY <1>a, <2>8, <3>4 DEF Put
    <3>6. OnBoard'
      BY <1>c, <2>1, <2>2, <3>2, <3>5 DEF OnBoard
    <3> QED
      BY <2>5, <3>3, <3>6
  <2> QED
    BY <2>1, <2>7, <2>8
<1>4. CASE Unplace
  <2>1. pc["main"] = "unplace" /\ pc' = [pc EXCEPT !["main"] = "accept"] /\ id' = id
    BY <1>b, <1>4 DEF Unplace, Goto, Main, Halt, Running
  <2>2. cur \in Clients /\ pc[cur] = "none" /\ id[cur] \in Ids
    BY <1>b, <2>1 DEF FreshInv, IdInv, NewLabels, Seated, New, AtMain
  <2>3. PICK h \in Clients : pc[h] = "none" /\ id[h] \in Ids
    BY <2>2
  <2>4. pc'[h] = "none" /\ pc'["main"] = "accept" /\ id'[h] # -1
    BY <1>a, <2>1, <2>3, ThreadFacts DEF Ids
  <2>5. GaveUp(h)'
    BY <2>4 DEF GaveUp, NewLabels
  <2> QED
    BY <2>5 DEF Regular
<1>5. CASE CreateReader
  <2>1. /\ pc["main"] = "create" /\ pc' = [pc EXCEPT !["main"] = "add", ![cur] = "spin"]
        /\ UNCHANGED <<at, clients, freed, id, cells, bmatrix>>
    BY <1>5 DEF CreateReader, Main, list, board
  <2>2. cur \in Clients /\ cur \notin Listed
    BY <1>e, <2>1 DEF NewLabels
  <2>3. /\ pc'["main"] = "add" /\ pc'[cur] = "spin" /\ \A c \in Clients : c # cur => pc'[c] = pc[c]
        /\ Listed' = Listed /\ cur' = cur
    BY <1>a, <2>1, <2>2, ThreadFacts DEF Listed, cur
  <2>4. \A c \in Clients : Present(c)' <=> Present(c)
    BY <2>1, <2>2, <2>3, PresentFacts DEF AtMain, Placed
  <2>5. FreeId' /\ Copies'
    BY <1>c, <2>1, <2>3 DEF FreeId, Copies, Copying
  <2> QED
    BY <1>g, <2>1, <2>4, <2>5
<1>6. CASE add_client
  <2>1. /\ pc["main"] = "add" /\ pc' = [pc EXCEPT !["main"] = "count"] /\ clients' = <<cur>> \o clients
        /\ UNCHANGED <<at, freed, id, cells, bmatrix>>
    BY <1>6 DEF add_client, Main, Goto, board
  <2>2. cur \in Clients /\ cur \notin Listed \cup freed /\ pc[cur] \notin Leaving
    BY <1>b, <1>e, <2>1 DEF FreshInv, Unlisted, Leaving
  <2>3. pc'["main"] = "count" /\ \A c \in Clients : pc'[c] = pc[c]
    BY <1>a, <2>1, ThreadFacts
  <2>4. Listed' = Listed \cup {cur}
    BY <1>a, <2>1, <2>2, AddedFacts
  <2>5. \A c \in Clients : Present(c)' <=> Present(c)
    BY <2>1, <2>2, <2>3, <2>4, PresentFacts DEF AtMain, Placed
  <2>6. FreeId' /\ Copies'
    BY <1>c, <2>1, <2>3 DEF FreeId, Copies, Copying
  <2> QED
    BY <1>g, <2>1, <2>5, <2>6
<1>7. ASSUME NEW c \in Clients, ReadRequest(c)
      PROVE  OneId' /\ OnBoard' /\ FreeId' /\ Copies'
  <2>1. /\ pc[c] = "read" /\ mutex = NoOne /\ pc' = [pc EXCEPT ![c] = "progress"] /\ bmatrix' = cells
        /\ UNCHANGED <<link, at, clients, freed, id, cells>>
    BY <1>b, <1>7, RequestFacts
  <2>2. /\ Listed' = Listed /\ cur' = cur /\ pc'["main"] = pc["main"] /\ pc'[c] = "progress"
        /\ \A d \in Clients : d # c => pc'[d] = pc[d]
    BY <1>a, <2>1, ThreadFacts DEF Listed, cur
  <2>3. \A d \in Clients : Present(d)' <=> Present(d)
    BY <2>1, <2>2, PresentFacts DEF AtMain, Leaving
  <2>4. FreeId' /\ Copies'
    BY <1>c, <2>1, <2>2 DEF FreeId, Copies
  <2> QED
    BY <1>g, <2>1, <2>3, <2>4
<1>8. ASSUME NEW c \in Clients, HitTaken(c) \/ Cant(c) \/ Can(c)
      PROVE  OneId' /\ OnBoard' /\ FreeId' /\ Copies'
  <2>1. /\ pc[c] \in Copying /\ UNCHANGED <<link, at, clients, freed, id>>
        /\ \E l \in {"progress", "spin", "bcast_all", "sig_wait"} : pc' = [pc EXCEPT ![c] = l]
    BY <1>b, <1>8 DEF HitTaken, Cant, Can, AnswerTo, Halt, Goto, list, Running, Copying
  <2>2. /\ Listed' = Listed /\ cur' = cur /\ pc'["main"] = pc["main"]
        /\ pc'[c] \in {"progress", "spin", "bcast_all", "sig_wait"}
        /\ \A d \in Clients : d # c => pc'[d] = pc[d]
    BY <1>a, <2>1, ThreadFacts DEF Listed, cur
  <2>3. \A d \in Clients : Present(d)' <=> Present(d)
    BY <2>1, <2>2, PresentFacts DEF AtMain, Leaving, Copying
  <2>4. bmatrix = cells /\ mutex = c /\ \A d \in Clients : d # c => pc[d] \notin Copying
    BY <1>b, <1>c, <2>1, ThreadFacts DEF Copies, MutexCovers, Critical, Running, Copying
  <2>5. cells' = cells /\ (bmatrix' = cells \/ pc'[c] \notin Copying)
    <3>1. CASE HitTaken(c)
      <4>1. cells' = cells /\ bmatrix' = [bmatrix EXCEPT ![id[at[c]]] = cells[id[at[c]]]]
        BY <1>b, <3>1 DEF HitTaken, Halt, Running
      <4> QED
        BY <1>a, <2>4, <4>1
    <3>2. CASE Cant(c) \/ Can(c)
      <4>1. cells' = bmatrix /\ \E l \in {"spin", "bcast_all", "sig_wait"} : pc' = [pc EXCEPT ![c] = l]
        BY <1>b, <3>2 DEF Cant, Can, AnswerTo, Goto, Running
      <4> QED
        BY <1>a, <2>4, <4>1, ThreadFacts DEF Copying
    <3> QED
      BY <1>8, <3>1, <3>2
  <2>6. FreeId' /\ Copies'
    BY <1>c, <2>1, <2>2, <2>4, <2>5 DEF FreeId, Copies
  <2> QED
    BY <1>g, <2>1, <2>3, <2>5, <2>6
<1>9. ASSUME NEW c \in Clients, Unlist(c)
      PROVE  OneId' /\ OnBoard' /\ FreeId' /\ Copies'
  <2>1. /\ pc[c] \in {"exit_wait", "dead_wait"} /\ mutex = NoOne /\ ~Dangling /\ c \in From(at[c])
        /\ \E l \in Leaving : pc' = [pc EXCEPT ![c] = l]
        /\ cells' = [cells EXCEPT ![id[c]] = 0]
        /\ clients' = clients \/ clients' = RemoveAt(clients, Pos(c))
        /\ UNCHANGED <<link, at, freed, id, bmatrix>>
    BY <1>b, <1>9, UnlistFacts DEF remove_id, Leaving
  <2>2. c \in Listed /\ c \notin freed
    BY <1>a, <2>1, FromFacts DEF Dangling
  <2>3. Listed' \subseteq Listed /\ \A d \in Listed : d # c => d \in Listed'
    BY <1>a, <2>1, <2>2, UnlistedFacts
  <2>4. /\ cur' = cur /\ pc'["main"] = pc["main"] /\ pc'[c] \in Leaving
        /\ \A d \in Clients : d # c => pc'[d] = pc[d]
    BY <1>a, <2>1, ThreadFacts DEF cur
  <2>5. pc["main"] \in Placed => cur # c
    BY <1>e, <2>2 DEF Placed, NewLabels
  <2>6. Present(c) /\ \A d \in Clients : Present(d)' <=> Present(d) /\ d # c
    BY <2>1, <2>2, <2>3, <2>4, <2>5, PresentFacts DEF AtMain, Leaving
  <2>7. OneId'
    BY <1>c, <2>1, <2>6 DEF OneId
  <2>8. id[c] \in Ids /\ cells'[id[c]] = 0 /\ \A i \in Ids : i # id[c] => cells'[i] = cells[i]
    BY <1>a, <2>1, <2>2 DEF ListedIds
  <2>9. OnBoard'
    BY <1>c, <2>1, <2>6, <2>8 DEF OnBoard, OneId
  <2>10. FreeId' /\ Copies'
    BY <1>c, <1>f, <2>1, <2>3, <2>4 DEF FreeId, Copies, Leaving, Copying
  <2> QED
    BY <2>7, <2>9, <2>10
<1>10. ASSUME NEW c \in Clients, Finish(c)
       PROVE  OneId' /\ OnBoard' /\ FreeId' /\ Copies'
  <2>1. /\ pc[c] \in Leaving /\ UNCHANGED <<link, at, clients, id, cells, bmatrix>>
        /\ \/ freed' = freed \cup {c} /\ pc' = [pc EXCEPT ![c] = "unsig"]
           \/ pc' = [pc EXCEPT ![c] = "sig_wait"]
    BY <1>b, <1>10 DEF Finish, Goto, wires, board, Running, Leaving
  <2>2. \A t \in Threads : pc'[t] # "sig_wait"
    BY <1>b DEF Handled, Threads
  <2>3. freed' = freed \cup {c} /\ pc' = [pc EXCEPT ![c] = "unsig"]
    BY <1>a, <2>1, <2>2, ThreadFacts
  <2>4. /\ Listed' = Listed /\ cur' = cur /\ pc'["main"] = pc["main"] /\ pc'[c] = "unsig"
        /\ \A d \in Clients : d # c => pc'[d] = pc[d]
    BY <1>a, <2>1, <2>3, ThreadFacts DEF Listed, cur
  <2>5. \A d \in Clients : Present(d)' <=> Present(d)
    BY <2>1, <2>3, <2>4, PresentFacts DEF AtMain, Leaving
  <2>6. FreeId' /\ Copies'
    BY <1>c, <2>1, <2>4 DEF FreeId, Copies, Copying
  <2> QED
    BY <1>g, <2>1, <2>5, <2>6
<1>11. ASSUME NEW c \in Clients, Connect(c) \/ (Gone(c) /\ link[c] # "off")
       PROVE  OneId' /\ OnBoard' /\ FreeId' /\ Copies'
  <2>1. /\ UNCHANGED <<pc, at, clients, freed, id, cells, bmatrix>>
        /\ \/ link' = [link EXCEPT ![c] = "closed"]
           \/ link[c] = "off" /\ link' = [link EXCEPT ![c] = "open"]
    BY <1>11 DEF Connect, Gone, serverSide, list, board
  <2>2. Listed' = Listed /\ cur' = cur /\ \A d \in Clients : link[d] = "closed" => link'[d] = "closed"
    BY <1>a, <2>1 DEF Listed, cur
  <2>3. \A d \in Clients : Present(d)' <=> Present(d)
    BY <2>1, <2>2, PresentFacts DEF AtMain
  <2>4. FreeId' /\ Copies'
    BY <1>c, <1>e, <2>1, <2>2 DEF FreeId, Copies, NewLabels
  <2> QED
    BY <1>g, <2>1, <2>3, <2>4
<1>12. ASSUME NEW t \in Threads, NEW l, Boarding(t, l)
       PROVE  OneId' /\ OnBoard' /\ FreeId' /\ Copies'
  <2>1. /\ UNCHANGED <<link, clients, freed, id, cells, bmatrix>>
        /\ \A u \in Threads : pc'[u] = IF u = t THEN l ELSE pc[u]
    BY <1>a, <1>12 DEF Boarding
  <2>2. Listed' = Listed
    BY <2>1 DEF Listed
  <2>3. CASE t = "main"
    <3>1. /\ pc'["main"] = l /\ \A c \in Clients : pc'[c] = pc[c]
          /\ l # "place" /\ (l \in Placed <=> pc["main"] \in Placed)
          /\ l \in Placed => cur' = cur
      BY <1>12, <2>1, <2>3, ThreadFacts DEF Boarding
    <3>2. \A d \in Clients : Present(d)' <=> Present(d)
      BY <2>1, <2>2, <3>1, PresentFacts DEF AtMain
    <3>3. FreeId' /\ Copies'
      BY <1>c, <2>1, <3>1 DEF FreeId, Copies
    <3> QED
      BY <1>g, <2>1, <3>2, <3>3
  <2>4. CASE t # "main"
    <3>1. /\ pc'["main"] = pc["main"] /\ cur' = cur /\ pc'[t] = l
          /\ (pc[t] \in Leaving <=> l \in Leaving) /\ (l \in Copying => pc[t] \in Copying)
      BY <1>12, <2>1, <2>4, ThreadFacts DEF Boarding
    <3>2. \A d \in Clients : Present(d)' <=> Present(d)
      BY <2>1, <2>2, <3>1, PresentFacts, ThreadFacts DEF AtMain
    <3>3. FreeId' /\ Copies'
      BY <1>c, <2>1, <2>2, <3>1, ThreadFacts DEF FreeId, Copies
    <3> QED
      BY <1>g, <2>1, <3>2, <3>3
  <2> QED
    BY <2>3, <2>4
<1>13. CASE UNCHANGED <<pc, link, clients, freed, id, cells, bmatrix>> /\ cur' = cur
  <2>1. Listed' = Listed
    BY <1>13 DEF Listed
  <2>2. \A d \in Clients : Present(d)' <=> Present(d)
    BY <1>13, <2>1, PresentFacts DEF AtMain
  <2>3. FreeId' /\ Copies'
    BY <1>c, <1>13, <2>1 DEF FreeId, Copies
  <2> QED
    BY <1>g, <1>13, <2>2, <2>3
<1> HIDE DEF OneId, OnBoard, FreeId, Copies
<1> QED
  BY <1>b, <1>1, <1>2, <1>3, <1>4, <1>5, <1>6, <1>7, <1>8, <1>9, <1>10, <1>11, <1>12, <1>13, BoardShape

-----------------------------------------------------------------------------
\* The bound in GTypeOK.
CountBound == nclients \in -Cardinality(Clients) .. Cardinality(Clients)

IInv == /\ Types /\ Offline /\ FreshInv /\ MutexCovers /\ TalkInv /\ OneConversation
        /\ CountInv /\ CountBound /\ NoTeleport /\ IdInv /\ ListedIds /\ BoardInv

(* While the server runs, the count is within these bounds.  *)
LEMMA NextBounded == Types' /\ CountInv' /\ Running' => CountBound'
<1> SUFFICES ASSUME Types', CountInv', Running'
             PROVE  CountBound'
  OBVIOUS
<1>1. /\ Cardinality(Clients) \in Nat
      /\ Cardinality(Out') \in Nat /\ Cardinality(Out') <= Cardinality(Clients)
      /\ Cardinality(freed') \in Nat /\ Cardinality(freed') <= Cardinality(Clients)
  BY GameAssumption, FS_Subset, FS_CardinalityType DEF Types, Out
<1>2. nclients' \in Int /\ -Cardinality(freed') <= nclients' /\ nclients' <= Cardinality(Out')
  BY DEF Types, CountInv
<1> QED
  BY <1>1, <1>2 DEF CountBound

(* The invariant holds at the start,  *)
LEMMA IInit == Init => IInv
<1> SUFFICES ASSUME Init
             PROVE  IInv
  OBVIOUS
<1>1. Ids \subseteq Nat /\ 0 \in Nat
  BY GameAssumption DEF Ids
<1>2. << >> \in Seq(Clients) /\ Len(<< >>) = 0 /\ IsInjective(<< >>)
  BY EmptySeq DEF IsInjective
<1>0. /\ backlog = << >> /\ clients = << >> /\ freed = {} /\ nclients = 0 /\ sig = 0 /\ teleports = 0
      /\ reg = [t \in Threads |-> 0] /\ id = [c \in Clients |-> -1]
      /\ cells = [i \in Ids |-> 0] /\ bmatrix = [i \in Ids |-> 0]
  BY DEF Init, NoCells
<1>3. Types
  <2>1. /\ link \in [Clients -> {"off", "open", "closed"}]
        /\ wire \in [Clients -> DOMAIN Answers \cup {"none", "more", "half", "reply"}]
        /\ creader \in [Clients -> {"off", "listen", "half", "locking", "dying"}]
        /\ keys \in [Clients -> {"off", "idle", "asked", "pending", "answered"}]
        /\ pc \in [Threads -> Labels]
        /\ at \in [Threads -> Clients \cup {NoOne}]
    BY DEF Init, Labels
  <2>2. /\ id \in [Clients -> Ids \cup {-1}] /\ cells \in [Ids -> Nat] /\ bmatrix \in [Ids -> Nat]
        /\ reg \in [Threads -> Int] /\ sig \in 0 .. 2 /\ nclients \in Int /\ teleports \in Nat
    BY <1>0, <1>1
  <2> QED
    BY <1>2, <2>1, <2>2 DEF Init, Types
<1>4. /\ pc["main"] = "accept" /\ \A c \in Clients : pc[c] = "none" /\ link[c] = "off"
      /\ \A t \in Threads : pc[t] \in {"accept", "none"}
  BY ThreadFacts DEF Init
<1>5. Offline
  BY DEF Init, Offline
<1>6. FreshInv
  <2>1. \A c : ~Queued(c)
    BY <1>0, <1>2 DEF Queued
  <2>2. Listed \cup freed = {}
    BY <1>0, <1>2 DEF Listed
  <2> QED
    BY <1>2, <1>4, <2>1, <2>2 DEF Init, FreshInv, AtMain, NewLabels
<1>7. MutexCovers
  BY <1>4, ThreadFacts DEF Init, MutexCovers, Critical
<1>8. TalkInv /\ NoTeleport
  BY <1>4 DEF Init, TalkInv, NoTeleport, Teleporting
<1>9. OneConversation
  BY DEF Init, OneConversation
<1>10. CountInv /\ CountBound
  <2>1. Cardinality(freed) = 0 /\ Cardinality(Clients) \in Nat
    BY <1>0, GameAssumption, FS_EmptySet, FS_CardinalityType
  <2>2. Out = {}
    BY <1>4 DEF Out
  <2>3. Cardinality(Out) = 0
    BY <2>2, FS_EmptySet
  <2>4. pc["main"] \notin Joining /\ \A c \in Clients : pc[c] \notin Leaving
    BY <1>4 DEF Joining, NewLabels, Leaving
  <2>5. -Cardinality(freed) <= nclients /\ nclients <= Cardinality(Out) /\ CountBound
    BY <1>0, <2>1, <2>3 DEF CountBound
  <2> QED
    BY <1>4, <2>4, <2>5 DEF CountInv
<1>12. IdInv /\ ListedIds
  <2>1. Listed = {}
    BY <1>0, <1>2 DEF Listed
  <2> QED
    BY <1>0, <1>4, <2>1 DEF IdInv, ListedIds, Seated
<1>11. BoardInv
  <2>1. \A c \in Clients : ~Present(c)
    <3>1. Listed = {}
      BY <1>0, <1>2 DEF Listed
    <3> QED
      BY <1>4, <3>1, PresentFacts DEF AtMain, Placed
  <2>2. OnBoard
    BY <1>0, <2>1 DEF OnBoard
  <2>3. OneId /\ FreeId /\ Copies
    BY <1>4, <2>1 DEF OneId, FreeId, Copies, Copying
  <2> QED
    BY <2>2, <2>3 DEF BoardInv
<1> QED
  BY <1>3, <1>5, <1>6, <1>7, <1>8, <1>9, <1>10, <1>11, <1>12 DEF IInv

(* and every step keeps it.  *)
LEMMA IStep == IInv /\ [Next]_vars => IInv'
<1> SUFFICES ASSUME IInv, [Next]_vars
             PROVE  IInv'
  OBVIOUS
<1> USE DEF IInv
<1>1. CASE Next
  <2>1. Running /\ Types' /\ Offline'
    BY <1>1, TypesStep, OfflineStep DEF Next, ServerStep, ClientStep, Users, Running
  <2>2. FreshInv'
    <3>1. CASE Running'
      BY <1>1, <2>1, <3>1, FreshStep
    <3>2. CASE ~Running'
      BY <3>2 DEF FreshInv
    <3> QED
      BY <3>1, <3>2
  <2>3. MutexCovers'
    <3>1. CASE Running'
      BY <1>1, <2>1, <3>1, MutexStep
    <3>2. CASE ~Running'
      BY <3>2 DEF MutexCovers, Running
    <3> QED
      BY <3>1, <3>2
  <2>4. TalkInv'
    <3>1. CASE Running'
      BY <1>1, <2>1, <3>1, TalkStep
    <3>2. CASE ~Running'
      BY <3>2 DEF TalkInv
    <3> QED
      BY <3>1, <3>2
  <2>5. OneConversation'
    <3>1. CASE halt' = "mixed"
      BY <1>1, <3>1, MixedStep DEF OneConversation
    <3>2. CASE halt' # "mixed"
      BY <3>2 DEF OneConversation
    <3> QED
      BY <3>1, <3>2
  <2>6. CountInv'
    <3>1. CASE Running'
      BY <1>1, <2>1, <3>1, CountStep
    <3>2. CASE ~Running'
      BY <3>2 DEF CountInv
    <3> QED
      BY <3>1, <3>2
  <2>7. CountBound'
    <3>1. CASE Running'
      BY <2>1, <2>6, <3>1, NextBounded
    <3>2. CASE ~Running'
      BY <1>1, <3>2, HaltedFacts DEF CountBound
    <3> QED
      BY <3>1, <3>2
  <2>9. NoTeleport'
    <3>1. CASE Running' /\ teleports' = 0
      BY <1>1, <2>1, <3>1, NoTeleportStep DEF NoTeleport, Threads
    <3>2. CASE ~(Running' /\ teleports' = 0)
      BY <3>2 DEF NoTeleport
    <3> QED
      BY <3>1, <3>2
  <2>10. IdInv' /\ ListedIds'
    <3>1. CASE Running'
      BY <1>1, <2>1, <3>1, IdStep
    <3>2. CASE ~Running'
      BY <1>1, <3>2, HaltedFacts DEF IdInv, ListedIds, Listed
    <3> QED
      BY <3>1, <3>2
  <2>8. BoardInv'
    <3>1. CASE Regular'
      BY <1>1, <3>1, BoardStep DEF BoardInv
    <3>2. CASE ~Regular'
      BY <3>2 DEF BoardInv
    <3> QED
      BY <3>1, <3>2
  <2> QED
    BY <2>1, <2>2, <2>3, <2>4, <2>5, <2>6, <2>7, <2>8, <2>9, <2>10
<1>2. CASE UNCHANGED vars
  <2> USE <1>2 DEF vars, wires, list, board, counters
  <2>1. UNCHANGED <<link, wire, creader, keys, backlog, pc, at, mutex, sig, clients, freed, nclients, reg,
                    id, cells, bmatrix, under, strayed, halt, teleports, cut>>
    OBVIOUS
  <2>2. Types' /\ Offline'
    BY <2>1 DEF Types, Offline, Threads, Labels
  <2>3. FreshInv'
    BY <2>1 DEF FreshInv, New, AtMain, NewLabels, Unlisted, Queued, Listed, cur, Running
  <2>4. MutexCovers' /\ TalkInv' /\ OneConversation'
    <3>1. MutexCovers'
      BY <2>1 DEF MutexCovers, Threads, Critical
    <3>2. TalkInv'
      <4>1. Running' <=> Running
        BY <2>1 DEF Running
      <4> QED
        BY <2>1, <4>1 DEF TalkInv, SpokenTo, Threads, Talking, Handling
    <3>3. OneConversation'
      BY <2>1 DEF OneConversation, Unlocked
    <3> QED
      BY <3>1, <3>2, <3>3
  <2>a. (Running' <=> Running) /\ Listed' = Listed /\ \A c : Queued(c)' <=> Queued(c)
    BY <2>1 DEF Running, Listed, Queued
  <2>b. cur' = cur /\ \A c, L : AtMain(c, L)' <=> AtMain(c, L)
    BY <2>1 DEF AtMain, cur
  <2>7. NoTeleport' /\ IdInv' /\ ListedIds'
    <3>1. NoTeleport'
      BY <2>1, <2>a DEF NoTeleport, Threads
    <3>2. IdInv' /\ ListedIds'
      BY <2>1, <2>a, <2>b DEF IdInv, ListedIds
    <3> QED
      BY <3>1, <3>2
  <2>5. CountInv' /\ CountBound'
    <3>1. Out' = Out
      BY <2>1, <2>a DEF Out
    <3>2. CountInv'
      BY <2>1, <2>a, <3>1 DEF CountInv
    <3>3. CountBound'
      BY <2>1 DEF CountBound
    <3> QED
      BY <3>2, <3>3
  <2>6. BoardInv'
    <3>1. \A c : Present(c)' <=> Present(c)
      BY <2>1, <2>a, <2>b, PresentFacts
    <3>2. Regular' <=> Regular
      <4>1. Handled' <=> Handled
        BY <2>1 DEF Handled, Threads
      <4>2. \A c : GaveUp(c)' <=> GaveUp(c)
        BY <2>1, <2>b DEF GaveUp
      <4> QED
        BY <2>1, <2>a, <4>1, <4>2 DEF Regular
    <3>3. OneId' /\ OnBoard' <=> OneId /\ OnBoard
      BY <2>1, <3>1 DEF OneId, OnBoard
    <3>4. FreeId' /\ Copies' <=> FreeId /\ Copies
      BY <2>1, <2>a, <2>b DEF FreeId, Copies
    <3> QED
      BY <3>2, <3>3, <3>4 DEF BoardInv
  <2> QED
    BY <2>2, <2>3, <2>4, <2>5, <2>6, <2>7
<1> QED
  BY <1>1, <1>2

(* Whoever talks to clients, walks the list to its end or changes it has   *)
(* the mutex, however many clients there are and whatever fails or is       *)
(* interrupted: the second lock of send_board changes nothing, and both     *)
(* ways out of a dialogue give the mutex back (server.c:1055-1092).         *)
THEOREM MutexIsKept == Spec => []MutexCovers
<1>1. IInv => MutexCovers
  BY DEF IInv
<1> QED
  BY <1>1, IInit, IStep, PTL DEF Spec

(* Two threads never speak to one client at once (server.c:1056), unless a  *)
(* signal has cut a dialogue short or a thread is sending boards after its  *)
(* teleport, without the mutex, or was when the handler took it over.       *)
THEOREM OneSpeaks == Spec => []OneConversation
<1>1. IInv => OneConversation
  BY DEF IInv
<1> QED
  BY <1>1, IInit, IStep, PTL DEF Spec

(* The count of clients, which the main thread and the readers change       *)
(* without the mutex (server.c:1171), never leaves its bounds, and no       *)
(* client comes on the list with the -1 of a get_first_free that has found  *)
(* no id (server.c:1127): so the whole state keeps its types.               *)
THEOREM GameTypes == Spec => []GTypeOK
<1>1. IInv => GTypeOK
  <2>1. Types /\ CountBound /\ ListedIds => GTypeOK
    BY EntryFacts DEF Types, CountBound, ListedIds, GTypeOK
  <2> QED
    BY <2>1 DEF IInv
<1> QED
  BY <1>1, IInit, IStep, PTL DEF Spec

(* With no teleport, no index past the end of free_idx, no handler and      *)
(* nobody who gave up, the board holds each player's id once and nothing    *)
(* else, whatever the order in which they join, move, are hit and leave.    *)
THEOREM BoardIsKept == Spec => []BoardMatchesList
<1>1. IInv => BoardMatchesList
  <2> SUFFICES ASSUME IInv, Running, teleports = 0, ~strayed, ~Handled,
                      \A c \in Clients : ~GaveUp(c), NEW i \in Ids
               PROVE  /\ cells[i] = Cardinality({c \in Clients : id[c] = i /\ Present(c)})
                      /\ cells[i] <= 1
    BY DEF BoardMatchesList, Present, Running
  <2>1. OneId /\ OnBoard
    BY DEF IInv, BoardInv, Regular
  <2> DEFINE S == {c \in Clients : id[c] = i /\ Present(c)}
  <2>2. cells[i] = IF \E c \in Clients : Present(c) /\ id[c] = i THEN 1 ELSE 0
    BY <2>1 DEF OnBoard
  <2>3. CASE \E c \in Clients : Present(c) /\ id[c] = i
    <3>1. PICK c \in Clients : Present(c) /\ id[c] = i
      BY <2>3
    <3>2. S = {c}
      BY <2>1, <3>1 DEF OneId
    <3> HIDE DEF S
    <3>3. Cardinality(S) = 1
      BY <3>2, FS_Singleton
    <3>4. cells[i] = 1
      BY <2>2, <2>3
    <3>5. cells[i] = Cardinality(S) /\ cells[i] <= 1
      BY <3>3, <3>4
    <3> QED
      BY <3>5 DEF S
  <2>4. CASE ~ \E c \in Clients : Present(c) /\ id[c] = i
    <3>1. S = {}
      BY <2>4
    <3> HIDE DEF S
    <3>2. Cardinality(S) = 0
      BY <3>1, FS_EmptySet
    <3>3. cells[i] = 0
      BY <2>2, <2>4
    <3>4. cells[i] = Cardinality(S) /\ cells[i] <= 1
      BY <3>2, <3>3
    <3> QED
      BY <3>4 DEF S
  <2> QED
    BY <2>3, <2>4
<1> QED
  BY <1>1, IInit, IStep, PTL DEF Spec

-----------------------------------------------------------------------------
(***************************************************************************)
(* The board itself, of any size: fire moves nobody, and a move leaves     *)
(* everybody else where they were and its player on one cell.  GameServer, *)
(* which only counts the cells that hold an id, rests on these facts.      *)
(***************************************************************************)

USE DEF FIELD_NONE, FIELD_MIRROR, FIELD_WALL, FIELD_ROCK, FIELD_GRASS, FIELD_WATER, FIELD_LAVA,
        FIELD_WALL_D1, FIELD_WALL_D2, FIELD_WALL_D3, FIELD_TELEPRT, FIELD_FLEFT,
        FIELD_WATER_FLEFT, FIELD_GRASS_FLEFT, LEFT, RIGHT, DOWN, UP, Directions

\* A fire has a direction, and what it stands on is no player.
LEMMA FireFacts ==
    ASSUME NEW f \in Fields, IsFire(f)
    PROVE  /\ direction(f) \in Directions
           /\ fire_root(f) \in {FIELD_NONE, FIELD_WATER, FIELD_GRASS}
           /\ first_fire(f) \in {FIELD_FLEFT, FIELD_WATER_FLEFT, FIELD_GRASS_FLEFT}
           /\ ~IsId(f)
BY DEF Fields, IsFire, Burning, direction, fire_root, first_fire, IsId

\* A mirror sends a fire in another direction (server.c:538).
LEMMA OppositeType == \A d \in Directions : Opposite(d) \in Directions \ {d}
BY DEF Opposite

\* field_hit leaves players alone and never puts one on the board.
LEMMA HitFacts ==
    ASSUME NEW f \in Fields, NEW w \in Fields, IsFire(w)
    PROVE  /\ field_hit(f, w) \in Fields
           /\ IsId(f) => field_hit(f, w) = f
           /\ ~IsId(f) => ~IsId(field_hit(f, w))
<1>1. /\ direction(w) \in Directions
      /\ Opposite(direction(w)) \in Directions
      /\ first_fire(w) \in {FIELD_FLEFT, FIELD_WATER_FLEFT, FIELD_GRASS_FLEFT}
  BY FireFacts, OppositeType
<1>2. CASE f \in {FIELD_MIRROR, FIELD_NONE, FIELD_WATER, FIELD_GRASS}
  BY <1>1, <1>2 DEF field_hit, Fields, IsId
<1>3. CASE f \notin {FIELD_MIRROR, FIELD_NONE, FIELD_WATER, FIELD_GRASS}
  BY <1>3 DEF field_hit, Fields, IsId
<1> QED BY <1>2, <1>3

\* The order of the cells is total.
LEMMA BeforeTotal ==
    \A p, q \in Cells : p # q => Before(p, q) \/ Before(q, p)
<1> SUFFICES ASSUME NEW p \in Cells, NEW q \in Cells, p # q
             PROVE  Before(p, q) \/ Before(q, p)
  OBVIOUS
<1>1. /\ p = <<p[1], p[2]>> /\ q = <<q[1], q[2]>>
      /\ {p[1], p[2], q[1], q[2]} \subseteq Int
  BY SideAssumption DEF Cells
<1> QED BY <1>1 DEF Before

\* ... and transitive.
LEMMA BeforeTransitive ==
    \A p, q, r \in Cells : Before(p, q) /\ Before(q, r) => Before(p, r)
<1> SUFFICES ASSUME NEW p \in Cells, NEW q \in Cells, NEW r \in Cells, Before(p, q), Before(q, r)
             PROVE  Before(p, r)
  OBVIOUS
<1>1. {p[1], p[2], q[1], q[2], r[1], r[2]} \subseteq Int
  BY SideAssumption DEF Cells
<1> QED BY <1>1 DEF Before

HasLast(S) == S = {} \/ \E p \in S : \A q \in S \ {p} : Before(q, p)

\* If a set of cells has a last one, it still has one with a cell more.
LEMMA AddOne ==
    ASSUME NEW S \in SUBSET Cells, NEW x \in Cells, HasLast(S)
    PROVE  HasLast(S \cup {x})
<1>1. CASE S = {}
  BY <1>1 DEF HasLast
<1>2. CASE x \in S
  <2>1. S \cup {x} = S  BY <1>2
  <2> QED BY <2>1
<1>3. CASE S # {} /\ x \notin S
  <2>1. PICK p \in S : \A q \in S \ {p} : Before(q, p)
    BY <1>3 DEF HasLast
  <2>2. CASE Before(p, x)
    <3>1. \A q \in (S \cup {x}) \ {x} : Before(q, x)
      BY <2>1, <2>2, BeforeTransitive
    <3> QED BY <3>1 DEF HasLast
  <2>3. CASE Before(x, p)
    <3>1. \A q \in (S \cup {x}) \ {p} : Before(q, p)
      BY <2>1, <2>3
    <3> QED BY <3>1 DEF HasLast
  <2> QED BY <2>1, <2>2, <2>3, <1>3, BeforeTotal
<1> QED BY <1>1, <1>2, <1>3

\* The board is a torus: every cell has a neighbour in each direction.
LEMMA NeighbourType == \A p \in Cells, d \in Directions : To(p, d) \in Cells /\ To(p, d) # p
<1> SUFFICES ASSUME NEW p \in Cells, NEW d \in Directions
             PROVE  To(p, d) \in Cells /\ To(p, d) # p
  OBVIOUS
<1>1. PICK x \in 0 .. Side - 1, y \in 0 .. Side - 1 : p = <<x, y>>
  BY DEF Cells
<1> QED BY <1>1, SideAssumption DEF To, Cells

\* Left of what is right of a cell is that cell, and so on.
LEMMA ThereAndBack == \A p \in Cells, d \in Directions : To(To(p, d), Opposite(d)) = p
<1> SUFFICES ASSUME NEW p \in Cells, NEW d \in Directions
             PROVE  To(To(p, d), Opposite(d)) = p
  OBVIOUS
<1>1. PICK x \in 0 .. Side - 1, y \in 0 .. Side - 1 : p = <<x, y>>
  BY DEF Cells
<1>2. CASE d = LEFT  BY <1>1, <1>2, SideAssumption DEF To, Opposite
<1>3. CASE d = RIGHT  BY <1>1, <1>3, SideAssumption DEF To, Opposite
<1>4. CASE d = DOWN  BY <1>1, <1>4, SideAssumption DEF To, Opposite
<1>5. CASE d = UP  BY <1>1, <1>5, SideAssumption DEF To, Opposite
<1> QED BY <1>2, <1>3, <1>4, <1>5

(* At most four fires hit a cell, so one of them is the last.              *)
LEMMA LastHit ==
    ASSUME NEW b \in Boards, NEW q \in Cells, Hitting(b, q) # {}
    PROVE  LastOf(Hitting(b, q)) \in Hitting(b, q)
<1> DEFINE N(d) == To(q, Opposite(d))
           S(D) == {p \in Cells : \E d \in D : p = N(d) /\ p \in Hitting(b, q)}
<1>1. \A d \in Directions : N(d) \in Cells
  BY NeighbourType, OppositeType
<1>2. ASSUME NEW D \in SUBSET Directions, NEW d \in Directions, HasLast(S(D))
      PROVE  HasLast(S(D \cup {d}))
  <2>1. S(D) \in SUBSET Cells  OBVIOUS
  <2>2. S(D \cup {d}) = S(D) \/ S(D \cup {d}) = S(D) \cup {N(d)}
    BY <1>1
  <2> QED BY <1>1, <1>2, <2>1, <2>2, AddOne
<1>3. HasLast(S({}))
  BY DEF HasLast
<1>4. HasLast(S(((({} \cup {LEFT}) \cup {RIGHT}) \cup {DOWN}) \cup {UP}))
  <2> HIDE DEF S
  <2>1. HasLast(S({} \cup {LEFT}))  BY <1>2, <1>3
  <2>2. HasLast(S(({} \cup {LEFT}) \cup {RIGHT}))  BY <1>2, <2>1
  <2>3. HasLast(S((({} \cup {LEFT}) \cup {RIGHT}) \cup {DOWN}))  BY <1>2, <2>2
  <2> QED BY <1>2, <2>3
<1>5. \A p \in Hitting(b, q) : /\ p \in Cells
                               /\ direction(b[p]) \in Directions
                               /\ To(p, direction(b[p])) = q
  BY FireFacts DEF Hitting, Fires, Boards
<1>6. \A p \in Hitting(b, q) : p = N(direction(b[p]))
  BY <1>5, ThereAndBack
<1>7. S(((({} \cup {LEFT}) \cup {RIGHT}) \cup {DOWN}) \cup {UP}) = Hitting(b, q)
  BY <1>5, <1>6
<1>8. HasLast(Hitting(b, q))
  BY <1>4, <1>7
<1> QED BY <1>8 DEF HasLast, LastOf

-----------------------------------------------------------------------------
(* progress_fire (server.c:587) yields a board on which every player       *)
(* stands where he stood, and no other: no cell gains or loses an id.      *)
THEOREM FireMovesNobody ==
    ASSUME NEW b \in Boards
    PROVE  /\ progress_fire(b) \in Boards
           /\ \A q \in Cells : IsId(b[q]) \/ IsId(progress_fire(b)[q]) => progress_fire(b)[q] = b[q]
<1> SUFFICES ASSUME NEW q \in Cells
             PROVE  /\ progress_fire(b)[q] \in Fields
                    /\ IsId(b[q]) \/ IsId(progress_fire(b)[q]) => progress_fire(b)[q] = b[q]
  BY DEF progress_fire, Boards
<1> DEFINE n == progress_fire(b)[q]
<1>1. b[q] \in Fields
  BY DEF Boards
<1>2. CASE IsFire(b[q])
  <2>1. n \in {b[q], fire_root(b[q])}
    BY <1>2 DEF progress_fire
  <2>2. ~IsId(b[q]) /\ ~IsId(fire_root(b[q])) /\ fire_root(b[q]) \in Fields
    BY <1>1, <1>2, FireFacts DEF Fields, IsId
  <2> QED BY <1>1, <2>1, <2>2
<1>3. CASE ~IsFire(b[q]) /\ Hitting(b, q) = {}
  <2>1. n = b[q]
    BY <1>3 DEF progress_fire
  <2> QED BY <1>1, <2>1
<1>4. CASE ~IsFire(b[q]) /\ Hitting(b, q) # {}
  <2> DEFINE w == b[LastOf(Hitting(b, q))]
  <2>1. w \in Fields /\ IsFire(w)
    BY <1>4, LastHit DEF Hitting, Fires, Boards
  <2>2. n = field_hit(b[q], w)
    BY <1>4 DEF progress_fire
  <2> HIDE DEF w
  <2> QED BY <1>1, <2>1, <2>2, HitFacts
<1> QED BY <1>2, <1>3, <1>4

StandsAt(b, i, w) == \A p \in Cells : b[p] = i <=> p = w

\* The search for a player who stands on one cell finds that cell.
LEMMA WhereIs ==
    ASSUME NEW b, NEW i, NEW w \in Cells, StandsAt(b, i, w)
    PROVE  where(b, i) = w
<1>1. {p \in Cells : b[p] = i} = {w}
  BY DEF StandsAt
<1> QED BY <1>1 DEF where, LastOf

(* move_id_up and its like (server.c:666): a player who stands on one cell *)
(* stands on one cell afterwards, another one if the move can be made, and *)
(* everybody else stands where he stood, whatever burns on the board.      *)
(* When a teleport overruns free_idx (mrandom.h:15), the player stands on  *)
(* one cell at most, and the others lose one cell at most.                 *)
THEOREM MoveMovesOne ==
    ASSUME NEW b \in Boards, NEW i \in 0 .. FIELD_NONE - 1, NEW w \in Cells, StandsAt(b, i, w),
           NEW d \in Directions, NEW m \in move_id(b, i, d)
    PROVE  /\ ~m.strayed => /\ \E v \in Cells : StandsAt(m.board, i, v) /\ (m.can <=> v # w)
                            /\ \A j \in 0 .. FIELD_NONE - 1 : j # i =>
                                  \A p \in Cells : m.board[p] = j <=> b[p] = j
           /\ m.strayed => \E q \in Cells :
                 /\ \A p \in Cells : m.board[p] = i => p = q
                 /\ \A j \in 0 .. FIELD_NONE - 1 : j # i =>
                       \A p \in Cells : /\ m.board[p] = j => b[p] = j
                                        /\ b[p] = j => p = q \/ m.board[p] = j
<1> DEFINE n == progress_fire(b)
           t == To(w, d)
           f == FIELD_FLEFT + Opposite(d)
           free == {p \in Cells : n[p] = FIELD_NONE}
           On(v, x) == [n EXCEPT ![v] = i, ![w] = x]
           Kept(B, q) == /\ \A p \in Cells : B[p] = i => p = q
                         /\ \A j \in 0 .. FIELD_NONE - 1 : j # i =>
                               \A p \in Cells : /\ B[p] = j => b[p] = j
                                                /\ b[p] = j => p = q \/ B[p] = j
           Same(B) == \A j \in 0 .. FIELD_NONE - 1 : j # i => \A p \in Cells : B[p] = j <=> b[p] = j
<1>1. where(b, i) = w
  BY WhereIs
<1>2. n \in Boards /\ \A p \in Cells : IsId(b[p]) \/ IsId(n[p]) => n[p] = b[p]
  BY FireMovesNobody
<1>3. StandsAt(n, i, w)
  BY <1>2 DEF StandsAt, IsId, Boards, Fields
<1>4. t \in Cells /\ t # w
  BY NeighbourType
<1>5. \A j \in 0 .. FIELD_NONE - 1 : \A p \in Cells : n[p] = j <=> b[p] = j
  BY <1>2 DEF IsId, Boards, Fields
<1>6. ASSUME NEW v \in Cells, v # w, ~IsId(n[v]), NEW x \in Fields, ~IsId(x)
      PROVE  StandsAt(On(v, x), i, v) /\ Same(On(v, x))
  <2> DEFINE B == On(v, x)
  <2>1. \A p \in Cells : B[p] = IF p = w THEN x ELSE IF p = v THEN i ELSE n[p]
    BY <1>2, <1>6 DEF Boards
  <2> HIDE DEF n, B
  <2>2. StandsAt(B, i, v)
    <3> SUFFICES ASSUME NEW p \in Cells PROVE B[p] = i <=> p = v
      BY DEF StandsAt
    <3>1. x # i
      BY <1>6 DEF IsId, Fields
    <3>2. n[p] = i <=> p = w
      BY <1>3 DEF StandsAt
    <3> QED BY <1>6, <2>1, <3>1, <3>2
  <2>3. Same(B)
    <3> SUFFICES ASSUME NEW j \in 0 .. FIELD_NONE - 1, j # i, NEW p \in Cells
                 PROVE  B[p] = j <=> n[p] = j
      BY <1>5
    <3>1. x # j /\ n[v] # j
      BY <1>2, <1>6 DEF IsId, Fields, Boards
    <3>2. n[w] = i
      BY <1>3 DEF StandsAt
    <3> QED BY <1>6, <2>1, <3>1, <3>2
  <2> QED BY <2>2, <2>3 DEF B
<1>7. CASE n[t] \in {FIELD_NONE, FIELD_GRASS}
  <2>1. m = [can |-> TRUE, strayed |-> FALSE, board |-> On(t, n[t])]
    BY <1>1, <1>7 DEF move_id
  <2>2. n[t] \in Fields /\ ~IsId(n[t])
    BY <1>7 DEF Fields, IsId
  <2>3. StandsAt(On(t, n[t]), i, t) /\ Same(On(t, n[t]))
    <3> HIDE DEF n, t, On, Same
    <3> QED BY <1>4, <1>6, <2>2
  <2> HIDE DEF On
  <2> QED BY <1>4, <2>1, <2>3
<1>8. CASE n[t] = FIELD_TELEPRT /\ free # {}
  <2>1. f \in Fields /\ ~IsId(f) /\ f # i
    BY OppositeType DEF Fields, IsId
  <2>2. m \in {[can |-> TRUE, strayed |-> p \notin free, board |-> On(p, f)] : p \in Cells}
              \cup {[can |-> c, strayed |-> TRUE, board |-> IF c THEN [n EXCEPT ![w] = f] ELSE n] : c \in BOOLEAN}
    BY <1>1, <1>8 DEF move_id
  <2>3. ASSUME NEW p \in Cells, m = [can |-> TRUE, strayed |-> p \notin free, board |-> On(p, f)], p \in free
        PROVE  ~m.strayed /\ m.can /\ StandsAt(m.board, i, p) /\ Same(m.board) /\ p # w
    <3>1. p # w /\ ~IsId(n[p])
      BY <1>3, <2>3 DEF StandsAt, IsId
    <3>2. StandsAt(On(p, f), i, p) /\ Same(On(p, f))
      <4> HIDE DEF n, f, On, Same
      <4> QED BY <1>6, <2>1, <3>1
    <3> HIDE DEF On, free
    <3> QED BY <2>3, <3>1, <3>2
  <2>4. ASSUME NEW p \in Cells, m = [can |-> TRUE, strayed |-> p \notin free, board |-> On(p, f)], p \notin free
        PROVE  m.strayed /\ Kept(m.board, p)
    <3> DEFINE B == On(p, f)
    <3>1. \A v \in Cells : B[v] = IF v = w THEN f ELSE IF v = p THEN i ELSE n[v]
      BY <1>2 DEF Boards
    <3>2. m.board = B /\ m.strayed
      BY <2>4
    <3> HIDE DEF n, B, f
    <3>3. \A v \in Cells : n[v] = i <=> v = w
      BY <1>3 DEF StandsAt
    <3>4. \A v \in Cells : B[v] = i => v = p
      BY <2>1, <3>1, <3>3
    <3>5. ASSUME NEW j \in 0 .. FIELD_NONE - 1, j # i, NEW v \in Cells
          PROVE  /\ B[v] = j => n[v] = j
                 /\ n[v] = j => v = p \/ B[v] = j
      <4>1. f # j
        BY <2>1 DEF IsId
      <4> QED BY <3>1, <3>3, <3>5, <4>1
    <3>6. Kept(B, p)
      BY <1>5, <3>4, <3>5
    <3> QED BY <3>2, <3>6
  <2>5. ASSUME NEW c \in BOOLEAN, m = [can |-> c, strayed |-> TRUE, board |-> IF c THEN [n EXCEPT ![w] = f] ELSE n]
        PROVE  m.strayed /\ Kept(m.board, w)
    <3> DEFINE B == IF c THEN [n EXCEPT ![w] = f] ELSE n
    <3>1. \A v \in Cells : v # w => B[v] = n[v]
      BY <1>2 DEF Boards
    <3>0. B[w] = f \/ B[w] = n[w]
      BY <1>2 DEF Boards
    <3>2. m.board = B /\ m.strayed
      BY <2>5
    <3> HIDE DEF n, B, f
    <3>3. \A v \in Cells : n[v] = i <=> v = w
      BY <1>3 DEF StandsAt
    <3>4. \A v \in Cells : B[v] = i => v = w
      BY <3>1, <3>3
    <3>5. ASSUME NEW j \in 0 .. FIELD_NONE - 1, j # i, NEW v \in Cells
          PROVE  /\ B[v] = j => n[v] = j
                 /\ n[v] = j => v = w \/ B[v] = j
      <4>1. f # j
        BY <2>1 DEF IsId
      <4> QED BY <3>0, <3>1, <3>3, <3>5, <4>1
    <3>6. Kept(B, w)
      BY <1>5, <3>4, <3>5
    <3> QED BY <3>2, <3>6
  <2> HIDE DEF Kept, Same, On, free, n
  <2>6. CASE \E p \in Cells : m = [can |-> TRUE, strayed |-> p \notin free, board |-> On(p, f)]
    <3>1. PICK p \in Cells : m = [can |-> TRUE, strayed |-> p \notin free, board |-> On(p, f)]
      BY <2>6
    <3>2. CASE p \in free
      BY <2>3, <3>1, <3>2 DEF Same
    <3>3. CASE p \notin free
      BY <2>4, <3>1, <3>3 DEF Kept
    <3> QED BY <3>2, <3>3
  <2>7. CASE \E c \in BOOLEAN : m = [can |-> c, strayed |-> TRUE, board |-> IF c THEN [n EXCEPT ![w] = f] ELSE n]
    <3>1. m.strayed /\ Kept(m.board, w)
      BY <2>5, <2>7
    <3> QED BY <3>1 DEF Kept
  <2> QED BY <2>2, <2>6, <2>7
<1>9. CASE n[t] \notin {FIELD_NONE, FIELD_GRASS} /\ ~(n[t] = FIELD_TELEPRT /\ free # {})
  <2>1. m = [can |-> FALSE, strayed |-> FALSE, board |-> n]
    BY <1>1, <1>9 DEF move_id
  <2>2. ~m.strayed /\ ~m.can /\ m.board = n
    BY <2>1
  <2> QED BY <1>3, <1>5, <2>2
<1> QED BY <1>7, <1>8, <1>9
=============================================================================
