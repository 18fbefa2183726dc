------------------------- MODULE P2PTransfers_proofs -------------------------
(***************************************************************************)
(* Proofs about P2PTransfers for every set of processes and transfers, and *)
(* files of every length.  The inductive invariant speaks of one transfer  *)
(* at a time: where the two ends are in their dialogue, and what is on the *)
(* way (Dialogue); what the file, the buffers and the bytes on the way     *)
(* hold (Contents).  What threads of a process share comes in through one  *)
(* fact only: who has not been disturbed is alone with its control block   *)
(* and with the kernel's requests (Alone).                                 *)
(***************************************************************************)
EXTENDS P2PTransfers, SequenceTheorems, TLAPS

Labels == {"none", "connect", "answer", "length", "chdir_w", "open_w", "submit", "wait",
           "read", "ack", "send", "request", "getcwd", "open_r", "error", "confirm",
           "over", "finished", "dead"}
CLabels == {"none", "connect", "answer", "length", "chdir_w", "open_w", "submit", "wait",
            "read", "ack", "over", "finished", "dead"}
SLabels == {"none", "request", "getcwd", "open_r", "submit", "wait", "send", "ack", "error",
            "confirm", "over", "dead"}

\* What a part of t may be taken for.
Data(t) == {Junk} \cup {<<t, n>> : n \in 1 .. Parts(t)}

Pieces == Transfers \X (Nat \ {0})
Messages == Pieces \cup {Junk, Sending, Error}
Requests == [by : Threads, at : Threads \cup {None}, part : Nat \ {0}, done : BOOLEAN, ok : BOOLEAN]
ThreadStates == [pc : Labels, i : Nat \ {0}, wd : {"start", "upload"}, buff : Pieces \cup {Junk}]

Rest == /\ up \subseteq Processes
        /\ found \in [Processes -> SUBSET Transfers]
        /\ downloads \in [Processes -> SUBSET Transfers]
        /\ uploads \in [Processes -> SUBSET Transfers]
        /\ cwd \in [Processes -> {"start", "upload"}]
        /\ cb \in [Processes -> [{"cbw", "cbr"} -> Threads \cup {None}]]
        /\ stored = [t \in Transfers |-> stored[t]]
        /\ s2c \in [Transfers -> Seq(Messages)]
        /\ c2s \in [Transfers -> Seq({"ok", "confirm"})]
Types == /\ route \in [Transfers -> [client : Processes, server : Processes, parts : Nat \ {0}]]
         /\ aio \in [Processes -> SUBSET Requests]
         /\ th \in [Threads -> ThreadStates]
         /\ Rest

\* Both ends of t are where they can be, at a part of the file.
Fits(t) == /\ pc(C(t)) \in CLabels /\ th[C(t)].i <= Parts(t)
           /\ pc(S(t)) \in SLabels /\ th[S(t)].i <= Parts(t)
           /\ th[S(t)].buff \in Data(t)

\* A request is in the process of the thread that made it.
RequestsFit == \A p \in Processes : \A r \in aio[p] : Proc(r.by) = p /\ r.part <= Parts(r.by[1])

Shape == Types /\ (\A t \in Transfers : Fits(t)) /\ RequestsFit

-----------------------------------------------------------------------------
Listed(t) ==
    /\ pc(S(t)) \in Transferring => t \in uploads[Server(t)]
    /\ t \in uploads[Server(t)] => pc(S(t)) \in Transferring \/ <<t, "aio failed">> \in mishaps
    /\ Downloading(t) => t \in downloads[Client(t)]
    /\ t \in downloads[Client(t)] => \/ Downloading(t)
                                     \/ <<t, "aio failed">> \in mishaps \/ <<t, "srvc">> \in mishaps

\* The other end of a transfer that has not begun is not there.
Begins(t) == pc(C(t)) \in {"none", "connect"} =>
                /\ s2c[t] = << >> /\ c2s[t] = << >>
                /\ Server(t) \in up => At(S(t), "none")

ListInv == \A t \in Transfers : Listed(t) /\ Begins(t)

-----------------------------------------------------------------------------
(* A thread that nobody disturbed is the only one of its process that uses *)
(* a control block; the only request is its own, while it waits.           *)
InBlock(h) == pc(h) \in Transferring \cup {"open_w"}
Disturbed(h) == <<h[1], "shared">> \in mishaps
Alone(h) ==
    InBlock(h) /\ ~ Disturbed(h) =>
       /\ \A g \in Threads : InBlock(g) /\ Proc(g) = Proc(h) => g = h
       /\ ~ At(h, "wait") => aio[Proc(h)] = {}
       /\ At(h, "wait") => \E r \in aio[Proc(h)] : /\ aio[Proc(h)] = {r}
                                                   /\ r.by = h /\ r.part = th[h].i

-----------------------------------------------------------------------------
(* The dialogue of a transfer of which D are the parts: the client is at c *)
(* and part i, the server at s and part j; q and a are on the way.         *)
si(t) == th[S(t)].i
ci(t) == th[C(t)].i

\* Each end begins with the first part.
FirstPart(t) ==
    /\ pc(C(t)) \in {"none", "connect", "answer", "length", "chdir_w", "open_w"} => ci(t) = 1
    /\ pc(S(t)) \in {"none", "request", "getcwd", "open_r"} => si(t) = 1
FirstInv == \A t \in Transfers : FirstPart(t)

\* What may be on the way to a client at c, but for an error at the end.
Way(c, D) == IF c = "answer" THEN {<< >>, <<Sending>>} \cup {<<Sending, d>> : d \in D}
             ELSE IF c \in {"submit", "wait", "ack"} THEN {<< >>}
             ELSE {<< >>} \cup {<<d>> : d \in D}
WithError(c, q, D) == \E w \in Way(c, D) : q = Append(w, Error)

\* Who reads next, or has to confirm, when the server has sent a part.
Turn(c, i, j, q, a, D) ==
    \/ c = "answer" /\ j = 1 /\ a = << >> /\ \E d \in D : q = <<Sending, d>>
    \/ c \in {"length", "chdir_w", "open_w", "read"} /\ j = i /\ a = << >> /\ \E d \in D : q = <<d>>
    \/ c = "read" /\ i = j + 1 /\ a = <<"ok">> /\ q = << >>
    \/ c \in {"submit", "wait", "ack"} /\ j = i /\ a = << >> /\ q = << >>

Talk(c, i, s, j, q, a, D) ==
    /\ q \in Way(c, D) \/ WithError(c, q, D)
    /\ s = "error" => q \in Way(c, D)
    /\ s = "confirm" => WithError(c, q, D)
    /\ s \in {"request", "getcwd", "open_r"} => c = "answer" /\ q = << >> /\ a = << >>
    /\ s \in {"submit", "wait", "send"} =>
          /\ c \in {"answer", "length", "chdir_w", "open_w", "read"} /\ j = i /\ a = << >>
          /\ q = IF c = "answer" THEN <<Sending>> ELSE << >>
    /\ s = "ack" => Turn(c, i, j, q, a, D)

Dialogue(t) ==
    Open(C(t)) /\ <<t, "text">> \notin mishaps =>
       Talk(pc(C(t)), ci(t), pc(S(t)), si(t), s2c[t], c2s[t], Data(t))
DialogueInv == \A t \in Transfers : Dialogue(t)

-----------------------------------------------------------------------------
(* What a transfer carries that nothing has spoilt: m is the length of the *)
(* file; the client is at c and part i, with b in its buffer; f is what    *)
(* has been downloaded, and q is on the way.                               *)
Prefix(t, n) == [k \in 1 .. n |-> <<t, k>>]

Carries(t, m, c, i, b, f, q) ==
    /\ c \in {"none", "connect", "answer", "length", "chdir_w", "open_w"} => f = << >>
    /\ c \in {"read", "submit"} => f = Prefix(t, i - 1)
    /\ c \in {"submit", "wait"} => b = <<t, i>>
    /\ c = "ack" => f = Prefix(t, i)
    /\ c = "finished" => f = Prefix(t, m)
    /\ c \notin Ended \cup {"connect"} =>
          \A k \in 1 .. Len(q) : q[k] \in {Sending, Error} \/ q[k] = <<t, i>>

\* What a request has done so far for a client that waits, and for a server.
Writes(t, f, i, r) == \/ r.done /\ ~ r.ok
                      \/ r.done /\ f = Prefix(t, i)
                      \/ ~ r.done /\ f = Prefix(t, i - 1)
CAsked(t) == At(C(t), "wait") =>
                \A r \in aio[Client(t)] : r.by = C(t) => Writes(t, stored[t], ci(t), r)
SAsked(t) == At(S(t), "wait") =>
                \A r \in aio[Server(t)] :
                   r.by = S(t) /\ r.done /\ r.ok => th[S(t)].buff = <<t, si(t)>>

Contents(t) ==
    ~ Spoilt(t) =>
       /\ Carries(t, Parts(t), pc(C(t)), ci(t), th[C(t)].buff, stored[t], s2c[t])
       /\ At(S(t), "send") => th[S(t)].buff = <<t, si(t)>>
       /\ CAsked(t) /\ SAsked(t)

ContentsInv == \A t \in Transfers : Contents(t)
AloneInv == \A h \in Threads : Alone(h)


-----------------------------------------------------------------------------
(* Short sequences. *)
LEMMA ShortAppend ==
    ASSUME NEW x, NEW y, NEW z
    PROVE  /\ Append(<< >>, x) = <<x>>
           /\ Append(<<x>>, y) = <<x, y>>
           /\ Append(<<x, y>>, z) = <<x, y, z>>
<1>1. Append(<< >>, x) = <<x>>
  OBVIOUS
<1>2. Append(<<x>>, y) = <<x, y>>
  <2>1. <<x>> \in Seq({x, y}) /\ <<x, y>> \in Seq({x, y})
    OBVIOUS
  <2>2. Append(<<x>>, y) \in Seq({x, y}) /\ Len(Append(<<x>>, y)) = 2
        /\ Append(<<x>>, y)[1] = x /\ Append(<<x>>, y)[2] = y
    BY <2>1, AppendProperties
  <2>3. Len(<<x, y>>) = 2 /\ \A k \in 1 .. 2 : Append(<<x>>, y)[k] = <<x, y>>[k]
    BY <2>2
  <2>4. QED
    BY <2>1, <2>2, <2>3, SeqEqual
<1>3. Append(<<x, y>>, z) = <<x, y, z>>
  <2>1. <<x, y>> \in Seq({x, y, z}) /\ <<x, y, z>> \in Seq({x, y, z})
    OBVIOUS
  <2>2. Append(<<x, y>>, z) \in Seq({x, y, z}) /\ Len(Append(<<x, y>>, z)) = 3
        /\ Append(<<x, y>>, z)[1] = x /\ Append(<<x, y>>, z)[2] = y
        /\ Append(<<x, y>>, z)[3] = z
    BY <2>1, AppendProperties
  <2>3. Len(<<x, y, z>>) = 3 /\ \A k \in 1 .. 3 : Append(<<x, y>>, z)[k] = <<x, y, z>>[k]
    BY <2>2
  <2>4. QED
    BY <2>1, <2>2, <2>3, SeqEqual
<1>4. QED
  BY <1>1, <1>2, <1>3

LEMMA ShortTail ==
    ASSUME NEW x, NEW y, NEW z
    PROVE  /\ Tail(<<x>>) = << >> /\ Head(<<x>>) = x
           /\ Tail(<<x, y>>) = <<y>> /\ Head(<<x, y>>) = x
           /\ Tail(<<x, y, z>>) = <<y, z>> /\ Head(<<x, y, z>>) = x
<1>1. Tail(<<x>>) = << >> /\ Head(<<x>>) = x
  OBVIOUS
<1>2. Tail(<<x, y>>) = <<y>> /\ Head(<<x, y>>) = x
  OBVIOUS
<1>3. Tail(<<x, y, z>>) = <<y, z>> /\ Head(<<x, y, z>>) = x
  OBVIOUS
<1>4. QED
  BY <1>1, <1>2, <1>3

LEMMA Marks ==
    ASSUME Shape, NEW t \in Transfers
    PROVE  /\ Sending # Error /\ Sending \notin Data(t) /\ Error \notin Data(t)
           /\ Junk \in Data(t)
BY DEF Shape, Types, Data, Junk, Sending, Error, Parts

-----------------------------------------------------------------------------
(* Threads. *)
LEMMA TwoEnds ==
    ASSUME Shape, NEW t \in Transfers
    PROVE  /\ C(t) \in Threads /\ S(t) \in Threads /\ C(t) # S(t)
           /\ C(t)[1] = t /\ S(t)[1] = t /\ C(t)[2] = "client" /\ S(t)[2] = "server"
           /\ Proc(C(t)) = Client(t) /\ Proc(S(t)) = Server(t)
           /\ Client(t) \in Processes /\ Server(t) \in Processes
           /\ Parts(t) \in Nat /\ Parts(t) > 0
           /\ \A u \in Transfers : u # t => C(u) # C(t) /\ C(u) # S(t) /\ S(u) # C(t) /\ S(u) # S(t)
BY DEF Shape, Types, Threads, C, S, Proc, Client, Server, Parts

LEMMA OneEnd ==
    ASSUME Shape, NEW h \in Threads
    PROVE  /\ h[1] \in Transfers /\ (h = C(h[1]) \/ h = S(h[1]))
           /\ Proc(h) \in Processes
           /\ Static(h) \in {"cbw", "cbr"}
           /\ th[h].pc \in Labels /\ th[h].i \in Nat \ {0} /\ th[h].wd \in {"start", "upload"}
           /\ th[h].buff \in Pieces \cup {Junk}
           /\ th[h].i <= Parts(h[1])
<1>1. h[1] \in Transfers /\ (h = C(h[1]) \/ h = S(h[1]))
  BY DEF Threads, C, S
<1>2. Proc(h) \in Processes
  BY <1>1, TwoEnds
<1>3. th[h] \in ThreadStates
  BY DEF Shape, Types
<1>4. th[h].i <= Parts(h[1])
  BY <1>1 DEF Shape, Fits
<1>5. QED
  BY <1>1, <1>2, <1>3, <1>4 DEF ThreadStates, Static

\* Only h changes, and stays a thread's state.
Only(h) == /\ th' \in [Threads -> ThreadStates]
           /\ \A g \in Threads : g # h => th'[g] = th[g]

LEMMA GotoEffect ==
    ASSUME Shape, NEW h \in Threads, NEW l \in Labels, Goto(h, l)
    PROVE  /\ Only(h)
           /\ th'[h].pc = l /\ th'[h].i = th[h].i /\ th'[h].wd = th[h].wd
           /\ th'[h].buff = th[h].buff
<1>1. th[h] \in ThreadStates /\ th \in [Threads -> ThreadStates]
  BY DEF Shape, Types
<1>2. [th[h] EXCEPT !.pc = l] \in ThreadStates
  BY <1>1 DEF ThreadStates
<1>3. th' = [th EXCEPT ![h] = [th[h] EXCEPT !.pc = l]]
  BY <1>1 DEF Goto
<1>4. QED
  BY <1>1, <1>2, <1>3 DEF Only, ThreadStates

LEMMA SetEffect ==
    ASSUME Shape, NEW h \in Threads, NEW l \in Labels, NEW b \in Pieces \cup {Junk},
           th' = [th EXCEPT ![h].buff = b, ![h].pc = l]
           \/ th' = [th EXCEPT ![h].pc = l, ![h].buff = b]
    PROVE  /\ Only(h)
           /\ th'[h].pc = l /\ th'[h].i = th[h].i /\ th'[h].wd = th[h].wd
           /\ th'[h].buff = b
<1>1. th[h] \in ThreadStates /\ th \in [Threads -> ThreadStates]
  BY DEF Shape, Types
<1> DEFINE new == [th[h] EXCEPT !.pc = l, !.buff = b]
<1>2. /\ new \in ThreadStates
      /\ new.pc = l /\ new.i = th[h].i /\ new.wd = th[h].wd /\ new.buff = b
      /\ new = [th[h] EXCEPT !.buff = b, !.pc = l]
  BY <1>1 DEF ThreadStates
<1>3. th' = [th EXCEPT ![h] = new]
  BY <1>1, <1>2
<1> HIDE DEF new
<1>4. QED
  BY <1>1, <1>2, <1>3 DEF Only

LEMMA NextPart ==
    ASSUME Shape, NEW h \in Threads, NEW l \in Labels,
           th' = [th EXCEPT ![h].i = @ + 1, ![h].pc = l]
    PROVE  /\ Only(h)
           /\ th'[h].pc = l /\ th'[h].i = th[h].i + 1 /\ th'[h].wd = th[h].wd
           /\ th'[h].buff = th[h].buff
<1>1. th[h] \in ThreadStates /\ th \in [Threads -> ThreadStates]
  BY DEF Shape, Types
<1> DEFINE new == [th[h] EXCEPT !.i = @ + 1, !.pc = l]
<1>2. /\ new \in ThreadStates
      /\ new.pc = l /\ new.i = th[h].i + 1 /\ new.wd = th[h].wd /\ new.buff = th[h].buff
  <2>1. th[h].i \in Nat \ {0}
    BY <1>1 DEF ThreadStates
  <2>2. th[h].i + 1 \in Nat \ {0}
    BY <2>1
  <2>3. QED
    BY <1>1, <2>2 DEF ThreadStates
<1>3. th' = [th EXCEPT ![h] = new]
  BY <1>1, <1>2
<1> HIDE DEF new
<1>4. QED
  BY <1>1, <1>2, <1>3 DEF Only

LEMMA WorkdirEffect ==
    ASSUME Shape, NEW h \in Threads, NEW l \in Labels, NEW w \in {"start", "upload"},
           th' = [th EXCEPT ![h].wd = w, ![h].pc = l]
    PROVE  /\ Only(h)
           /\ th'[h].pc = l /\ th'[h].i = th[h].i /\ th'[h].buff = th[h].buff
<1>1. th[h] \in ThreadStates /\ th \in [Threads -> ThreadStates]
  BY DEF Shape, Types
<1> DEFINE new == [th[h] EXCEPT !.wd = w, !.pc = l]
<1>2. /\ new \in ThreadStates
      /\ new.pc = l /\ new.i = th[h].i /\ new.buff = th[h].buff
  BY <1>1 DEF ThreadStates
<1>3. th' = [th EXCEPT ![h] = new]
  BY <1>1, <1>2
<1> HIDE DEF new
<1>4. QED
  BY <1>1, <1>2, <1>3 DEF Only

LEMMA IdleEffect ==
    ASSUME Shape, NEW h \in Threads, NEW l \in Labels, th' = [th EXCEPT ![h] = Idle(l)]
    PROVE  /\ Only(h)
           /\ th'[h].pc = l /\ th'[h].i = 1 /\ th'[h].buff = Junk
<1>1. th \in [Threads -> ThreadStates]
  BY DEF Shape, Types
<1>2. Idle(l) \in ThreadStates /\ Idle(l).pc = l /\ Idle(l).i = 1 /\ Idle(l).buff = Junk
  BY DEF Idle, ThreadStates
<1>3. QED
  BY <1>1, <1>2 DEF Only

\* Where one thread is changed, the ends of transfers fit if it fits.
LEMMA FitsStep ==
    ASSUME Shape, NEW h \in Threads, Only(h), route' = route,
           h[2] = "client" => th'[h].pc \in CLabels,
           h[2] = "server" => th'[h].pc \in SLabels /\ th'[h].buff \in Data(h[1]),
           th'[h].i <= Parts(h[1])
    PROVE  \A t \in Transfers : Fits(t)'
<1> SUFFICES ASSUME NEW t \in Transfers PROVE Fits(t)'
  OBVIOUS
<1>1. Fits(t) /\ C(t) \in Threads /\ S(t) \in Threads
  BY TwoEnds DEF Shape
<1>2. C(t)[1] = t /\ S(t)[1] = t /\ C(t)[2] = "client" /\ S(t)[2] = "server"
  BY DEF C, S
<1>3. Data(t)' = Data(t) /\ Parts(t)' = Parts(t)
  BY DEF Data, Parts
<1>4. th'[C(t)].pc \in CLabels /\ th'[C(t)].i <= Parts(t)
  <2>1. CASE h = C(t)
    BY <2>1, <1>2
  <2>2. CASE h # C(t)
    BY <2>2, <1>1 DEF Only, Fits, pc
  <2>3. QED
    BY <2>1, <2>2
<1>5. th'[S(t)].pc \in SLabels /\ th'[S(t)].i <= Parts(t) /\ th'[S(t)].buff \in Data(t)
  <2>1. CASE h = S(t)
    BY <2>1, <1>2
  <2>2. CASE h # S(t)
    BY <2>2, <1>1 DEF Only, Fits, pc
  <2>3. QED
    BY <2>1, <2>2
<1>6. QED
  BY <1>3, <1>4, <1>5 DEF Fits, pc, C, S

-----------------------------------------------------------------------------
(* What the parts of actions do. *)
LEMMA LeaveEffect ==
    ASSUME Shape, NEW h \in Threads, NEW l \in Labels, Leave(h, l)
    PROVE  /\ Only(h)
           /\ th'[h].pc = l /\ th'[h].i = 1 /\ th'[h].buff = Junk
           /\ cwd' \in [Processes -> {"start", "upload"}]
           /\ cb' \in [Processes -> [{"cbw", "cbr"} -> Threads \cup {None}]]
           /\ stored' = [t \in Transfers |-> stored'[t]]
           /\ \A t \in Transfers : t # h[1] => stored'[t] = stored[t]
           /\ (h[2] = "client" /\ l = "over") \/ stored' = stored
           /\ route' = route /\ up' = up /\ aio' = aio
<1>1. th' = [th EXCEPT ![h] = Idle(l)]
  BY DEF Leave
<1>2. /\ Only(h)
      /\ th'[h].pc = l /\ th'[h].i = 1 /\ th'[h].buff = Junk
  BY <1>1, IdleEffect
<1>3. h[1] \in Transfers /\ Proc(h) \in Processes /\ th[h].wd \in {"start", "upload"}
      /\ Static(h) \in {"cbw", "cbr"}
  BY OneEnd
<1>4. cwd' \in [Processes -> {"start", "upload"}]
  BY <1>3 DEF Leave, Shape, Types, Rest
<1>5. cb' \in [Processes -> [{"cbw", "cbr"} -> Threads \cup {None}]]
  <2>1. cb \in [Processes -> [{"cbw", "cbr"} -> Threads \cup {None}]]
    BY DEF Shape, Types, Rest
  <2>2. [cb EXCEPT ![Proc(h)][Static(h)] = None] \in [Processes -> [{"cbw", "cbr"} -> Threads \cup {None}]]
    BY <2>1, <1>3
  <2>3. cb' = [cb EXCEPT ![Proc(h)][Static(h)] = None] \/ cb' = cb
    BY DEF Leave
  <2>4. QED
    BY <2>1, <2>2, <2>3
<1>6. /\ stored' = [t \in Transfers |-> stored'[t]]
      /\ \A t \in Transfers : t # h[1] => stored'[t] = stored[t]
      /\ (h[2] = "client" /\ l = "over") \/ stored' = stored
  <2>1. stored = [t \in Transfers |-> stored[t]]
    BY DEF Shape, Types, Rest
  <2>2. stored' = [stored EXCEPT ![h[1]] = << >>] \/ stored' = stored
    BY DEF Leave
  <2>3. (h[2] = "client" /\ l = "over") \/ stored' = stored
    BY DEF Leave
  <2>4. QED
    BY <2>1, <2>2, <2>3, <1>3
<1>7. route' = route /\ up' = up /\ aio' = aio
  BY DEF Leave
<1>8. QED
  BY <1>2, <1>4, <1>5, <1>6, <1>7

LEMMA MallocEffect ==
    ASSUME Shape, NEW h \in Threads, Malloc(h)
    PROVE  /\ cb' \in [Processes -> [{"cbw", "cbr"} -> Threads \cup {None}]]
           /\ aio' = aio
           /\ mishaps \subseteq mishaps'
           /\ \A t, what : what # "shared" /\ <<t, what>> \in mishaps' => <<t, what>> \in mishaps
<1>1. Proc(h) \in Processes /\ Static(h) \in {"cbw", "cbr"}
  BY OneEnd
<1>2. cb' \in [Processes -> [{"cbw", "cbr"} -> Threads \cup {None}]]
  BY <1>1 DEF Malloc, Shape, Types, Rest
<1>3. aio' = aio /\ mishaps \subseteq mishaps'
  BY DEF Malloc
<1>4. \A t, what : what # "shared" /\ <<t, what>> \in mishaps' => <<t, what>> \in mishaps
  BY DEF Malloc
<1>5. QED
  BY <1>2, <1>3, <1>4

LEMMA SendEffect ==
    ASSUME Shape, NEW t \in Transfers, NEW m \in Messages, SendTo(t, m)
    PROVE  /\ s2c' \in [Transfers -> Seq(Messages)]
           /\ Open(C(t)) => s2c'[t] = Append(s2c[t], m)
           /\ ~ Open(C(t)) => s2c'[t] = s2c[t]
           /\ \A u \in Transfers : u # t => s2c'[u] = s2c[u]
<1>1. s2c \in [Transfers -> Seq(Messages)]
  BY DEF Shape, Types, Rest
<1>2. s2c[t] \in Seq(Messages)
  BY <1>1
<1>3. Append(s2c[t], m) \in Seq(Messages)
  BY <1>2, AppendProperties
<1>4. CASE Open(C(t))
  BY <1>1, <1>3, <1>4 DEF SendTo
<1>5. CASE ~ Open(C(t))
  BY <1>1, <1>5 DEF SendTo
<1>6. QED
  BY <1>4, <1>5

LEMMA ArrivesEffect ==
    ASSUME Shape, NEW t \in Transfers, NEW m, Arrives(t, m)
    PROVE  /\ s2c' \in [Transfers -> Seq(Messages)]
           /\ s2c[t] # << >> /\ Head(s2c[t]) = m /\ s2c'[t] = Tail(s2c[t])
           /\ \A u \in Transfers : u # t => s2c'[u] = s2c[u]
<1>1. s2c \in [Transfers -> Seq(Messages)]
  BY DEF Shape, Types, Rest
<1>2. s2c[t] \in Seq(Messages) /\ s2c[t] # << >>
  BY <1>1 DEF Arrives
<1>3. Tail(s2c[t]) \in Seq(Messages)
  BY <1>2, HeadTailProperties
<1>4. s2c' = [s2c EXCEPT ![t] = Tail(s2c[t])]
  BY DEF Arrives
<1>5. QED
  BY <1>1, <1>3, <1>4 DEF Arrives

\* What c2s takes up, and gives.
LEMMA ConfirmEffect ==
    ASSUME Shape, NEW t \in Transfers, NEW m \in {"ok", "confirm"},
           \/ c2s' = [c2s EXCEPT ![t] = Append(@, m)]
           \/ c2s[t] # << >> /\ c2s' = [c2s EXCEPT ![t] = Tail(@)]
           \/ c2s' = [c2s EXCEPT ![t] = @]
           \/ c2s' = c2s
    PROVE  /\ c2s' \in [Transfers -> Seq({"ok", "confirm"})]
           /\ \A u \in Transfers : u # t => c2s'[u] = c2s[u]
<1>1. c2s \in [Transfers -> Seq({"ok", "confirm"})]
  BY DEF Shape, Types, Rest
<1>2. c2s[t] \in Seq({"ok", "confirm"})
  BY <1>1
<1>3. Append(c2s[t], m) \in Seq({"ok", "confirm"})
  BY <1>2, AppendProperties
<1>4. c2s[t] # << >> => Tail(c2s[t]) \in Seq({"ok", "confirm"})
  BY <1>2, HeadTailProperties
<1>5. PICK q \in Seq({"ok", "confirm"}) : c2s' = [c2s EXCEPT ![t] = q] \/ c2s' = c2s
  BY <1>2, <1>3, <1>4
<1>6. QED
  BY <1>1, <1>5

LEMMA WrittenEffect ==
    ASSUME Shape, NEW h \in Threads, NEW part, Written(h, part)
    PROVE  /\ stored' = [t \in Transfers |-> stored'[t]]
           /\ \A t \in Transfers : t # h[1] => stored'[t] = stored[t]
           /\ h[2] = "server" => stored' = stored
<1>1. stored = [t \in Transfers |-> stored[t]] /\ h[1] \in Transfers
  BY OneEnd DEF Shape, Types, Rest
<1>2. CASE h[2] = "server"
  BY <1>1, <1>2 DEF Written
<1>3. CASE h[2] # "server"
  <2>1. PICK x : stored' = [stored EXCEPT ![h[1]] = x]
    BY <1>3 DEF Written
  <2>2. QED
    BY <2>1, <1>1, <1>3
<1>4. QED
  BY <1>2, <1>3

LEMMA AbortEffect ==
    ASSUME Shape, NEW p \in Processes, Abort(p)
    PROVE  /\ th' \in [Threads -> ThreadStates]
           /\ \A h \in Threads : Proc(h) # p => th'[h] = th[h]
           /\ \A h \in Threads : Proc(h) = p => th'[h] = Idle("dead")
           /\ Rest' /\ route' = route /\ aio' \in [Processes -> SUBSET Requests]
           /\ aio'[p] = {} /\ \A q \in Processes : q # p => aio'[q] = aio[q]
           /\ \A t \in Transfers : Client(t) # p => stored'[t] = stored[t]
           /\ up' \subseteq up /\ mishaps' = mishaps /\ s2c' = s2c /\ c2s' = c2s
<1>1. Types /\ Rest
  BY DEF Shape, Types
<1>2. th' \in [Threads -> ThreadStates]
  <2>1. Idle("dead") \in ThreadStates
    BY DEF Idle, ThreadStates, Labels
  <2>2. QED
    BY <1>1, <2>1 DEF Types, Abort
<1>3. /\ \A h \in Threads : Proc(h) # p => th'[h] = th[h]
      /\ \A h \in Threads : Proc(h) = p => th'[h] = Idle("dead")
  BY DEF Abort
<1>4. Rest'
  <2>1. /\ up' \subseteq Processes
        /\ found' \in [Processes -> SUBSET Transfers]
        /\ downloads' \in [Processes -> SUBSET Transfers]
        /\ uploads' \in [Processes -> SUBSET Transfers]
        /\ cwd' \in [Processes -> {"start", "upload"}]
    BY <1>1 DEF Rest, Abort
  <2>2. cb' \in [Processes -> [{"cbw", "cbr"} -> Threads \cup {None}]]
    <3>1. [s \in {"cbw", "cbr"} |-> None] \in [{"cbw", "cbr"} -> Threads \cup {None}]
      OBVIOUS
    <3>2. cb' = [cb EXCEPT ![p] = [s \in {"cbw", "cbr"} |-> None]]
      BY DEF Abort
    <3>3. QED
      BY <3>1, <3>2, <1>1 DEF Rest
  <2>3. stored' = [t \in Transfers |-> stored'[t]]
    BY DEF Abort
  <2>4. s2c' \in [Transfers -> Seq(Messages)] /\ c2s' \in [Transfers -> Seq({"ok", "confirm"})]
    BY <1>1 DEF Rest, Abort, net
  <2>5. QED
    BY <2>1, <2>2, <2>3, <2>4 DEF Rest
<1>5. /\ aio' \in [Processes -> SUBSET Requests]
      /\ aio'[p] = {} /\ \A q \in Processes : q # p => aio'[q] = aio[q]
  BY <1>1 DEF Types, Abort
<1>6. \A t \in Transfers : Client(t) # p => stored'[t] = stored[t]
  BY DEF Abort
<1>7. route' = route /\ up' \subseteq up /\ mishaps' = mishaps /\ s2c' = s2c /\ c2s' = c2s
  BY DEF Abort, net
<1>8. QED
  BY <1>2, <1>3, <1>4, <1>5, <1>6, <1>7

-----------------------------------------------------------------------------
(* The shape of the state. *)
LEMMA InitShape == Init => Shape
<1> SUFFICES ASSUME Init PROVE Shape
  OBVIOUS
<1>1. route \in [Transfers -> [client : Processes, server : Processes, parts : Nat \ {0}]]
  BY TransfersAssumption DEF Init
<1>2. Rest
  <2>1. << >> \in Seq(Messages) /\ << >> \in Seq({"ok", "confirm"})
    OBVIOUS
  <2>2. cb \in [Processes -> [{"cbw", "cbr"} -> Threads \cup {None}]]
    BY DEF Init
  <2>3. QED
    BY <2>1, <2>2 DEF Init, Rest
<1>3. aio \in [Processes -> SUBSET Requests]
  BY DEF Init
<1>4. Idle("none") \in ThreadStates /\ Idle("none").pc = "none" /\ Idle("none").i = 1
      /\ Idle("none").buff = Junk
  BY DEF Idle, ThreadStates, Labels
<1>5. th \in [Threads -> ThreadStates]
  BY <1>4 DEF Init
<1>6. ASSUME NEW t \in Transfers PROVE Fits(t)
  <2>1. C(t) \in Threads /\ S(t) \in Threads
    BY DEF C, S, Threads
  <2>2. Parts(t) \in Nat \ {0}
    BY <1>1 DEF Parts
  <2>3. th[C(t)] = Idle("none") /\ th[S(t)] = Idle("none")
    BY <2>1 DEF Init
  <2>4. QED
    BY <2>2, <2>3, <1>4 DEF Fits, CLabels, SLabels, pc, Data
<1>7. RequestsFit
  BY DEF Init, RequestsFit
<1>8. QED
  BY <1>1, <1>2, <1>3, <1>5, <1>6, <1>7 DEF Shape, Types

LEMMA RequestsKept ==
    ASSUME Shape, route' = route, aio' = aio
    PROVE  aio' \in [Processes -> SUBSET Requests] /\ RequestsFit'
BY DEF Shape, Types, RequestsFit, Proc, Parts

\* One thread's step keeps the shape.
LEMMA ShapeFrom ==
    ASSUME Shape, NEW h \in Threads, Only(h), route' = route, Rest',
           aio' \in [Processes -> SUBSET Requests], RequestsFit',
           h[2] = "client" => th'[h].pc \in CLabels,
           h[2] = "server" => th'[h].pc \in SLabels /\ th'[h].buff \in Data(h[1]),
           th'[h].i <= Parts(h[1])
    PROVE  Shape'
<1>1. \A t \in Transfers : Fits(t)'
  BY FitsStep
<1>2. Types'
  BY DEF Shape, Types, Only
<1>3. QED
  BY <1>1, <1>2 DEF Shape

\* The buffer of the server's end is left, or emptied.
LEMMA OldBuffer ==
    ASSUME Shape, NEW h \in Threads, h[2] = "server"
    PROVE  th[h].buff \in Data(h[1])
<1>1. h[1] \in Transfers /\ h = S(h[1])
  BY OneEnd DEF C
<1>2. QED
  BY <1>1 DEF Shape, Fits

LEMMA JunkIsData == \A t : Junk \in Data(t)
BY DEF Data

LEMMA GetShape ==
    ASSUME Shape, NEW t \in Transfers, Get(t)
    PROVE  Shape'
<1>1. C(t) \in Threads /\ C(t)[2] = "client" /\ C(t)[1] = t
  BY TwoEnds
<1>2. Only(C(t)) /\ th'[C(t)].pc = "connect" /\ th'[C(t)].i = th[C(t)].i
  BY <1>1, GotoEffect DEF Get, Labels
<1>3. route' = route /\ aio' = aio /\ Rest'
  BY DEF Get, Shape, Types, Rest, lists, blocks, net
<1>4. QED
  BY <1>1, <1>2, <1>3, RequestsKept, ShapeFrom, OneEnd DEF CLabels

LEMMA LClearShape ==
    ASSUME Shape, NEW p \in Processes, LClear(p)
    PROVE  Shape'
<1>1. route' = route /\ aio' = aio /\ th' = th /\ Rest'
  BY DEF LClear, Shape, Types, Rest, blocks, net
<1>2. \A t \in Transfers : Fits(t)'
  BY <1>1 DEF Shape, Fits, pc, C, S, Data, Parts
<1>3. QED
  BY <1>1, <1>2, RequestsKept DEF Shape, Types

LEMMA AbortShape ==
    ASSUME Shape, NEW p \in Processes, Abort(p)
    PROVE  Shape'
<1>1. /\ th' \in [Threads -> ThreadStates]
      /\ \A h \in Threads : Proc(h) # p => th'[h] = th[h]
      /\ \A h \in Threads : Proc(h) = p => th'[h] = Idle("dead")
      /\ Rest' /\ route' = route /\ aio' \in [Processes -> SUBSET Requests]
      /\ aio'[p] = {} /\ \A q \in Processes : q # p => aio'[q] = aio[q]
  BY AbortEffect
<1>2. Idle("dead").pc = "dead" /\ Idle("dead").i = 1 /\ Idle("dead").buff = Junk
  BY DEF Idle
<1>3. ASSUME NEW t \in Transfers PROVE Fits(t)'
  <2>1. Fits(t) /\ C(t) \in Threads /\ S(t) \in Threads /\ Parts(t) \in Nat /\ Parts(t) > 0
    BY TwoEnds DEF Shape
  <2>2. Data(t)' = Data(t) /\ Parts(t)' = Parts(t)
    BY <1>1 DEF Data, Parts
  <2>3. th'[C(t)].pc \in CLabels /\ th'[C(t)].i <= Parts(t)
    <3>1. CASE Proc(C(t)) = p
      BY <3>1, <2>1, <1>1, <1>2 DEF CLabels
    <3>2. CASE Proc(C(t)) # p
      BY <3>2, <2>1, <1>1 DEF Fits, pc
    <3>3. QED
      BY <3>1, <3>2
  <2>4. th'[S(t)].pc \in SLabels /\ th'[S(t)].i <= Parts(t) /\ th'[S(t)].buff \in Data(t)
    <3>1. CASE Proc(S(t)) = p
      BY <3>1, <2>1, <1>1, <1>2, JunkIsData DEF SLabels
    <3>2. CASE Proc(S(t)) # p
      BY <3>2, <2>1, <1>1 DEF Fits, pc
    <3>3. QED
      BY <3>1, <3>2
  <2>5. QED
    BY <2>2, <2>3, <2>4 DEF Fits, pc, C, S
<1>4. RequestsFit'
  <2> SUFFICES ASSUME NEW q \in Processes, NEW r \in aio'[q]
               PROVE  Proc(r.by)' = q /\ r.part <= Parts(r.by[1])'
    BY DEF RequestsFit
  <2>1. q # p /\ r \in aio[q]
    BY <1>1
  <2>2. QED
    BY <2>1, <1>1 DEF Shape, RequestsFit, Proc, Parts
<1>5. QED
  BY <1>1, <1>3, <1>4 DEF Shape, Types

LEMMA BufferFits ==
    ASSUME Shape, NEW h \in Threads, NEW n \in Nat \ {0}, n <= Parts(h[1])
    PROVE  /\ Buffer(h, n) \in Pieces \cup {Junk}
           /\ h[2] = "server" => Buffer(h, n) = <<h[1], n>> /\ Buffer(h, n) \in Data(h[1])
           /\ h[2] = "client" => Buffer(h, n) = th[h].buff
<1>1. h[1] \in Transfers /\ th[h].buff \in Pieces \cup {Junk}
  BY OneEnd
<1>2. Parts(h[1]) \in Nat
  BY <1>1, TwoEnds
<1>3. n \in 1 .. Parts(h[1])
  BY <1>2
<1>4. <<h[1], n>> \in Data(h[1]) /\ <<h[1], n>> \in Pieces
  BY <1>1, <1>3 DEF Data, Pieces
<1>5. Source(h[1])[n] = <<h[1], n>>
  BY <1>3 DEF Source
<1>6. QED
  BY <1>1, <1>4, <1>5 DEF Buffer

LEMMA AfterIOIs ==
    ASSUME NEW h \in Threads
    PROVE  /\ h[2] = "client" => AfterIO(h) = "ack"
           /\ h[2] = "server" => AfterIO(h) = "send"
           /\ AfterIO(h) \in Labels
BY DEF AfterIO, Labels

\* What Submit does, in both cases.
LEMMA SubmitEffect ==
    ASSUME Shape, NEW h \in Threads, Submit(h)
    PROVE  /\ At(h, "submit") /\ Only(h) /\ route' = route /\ Rest'
           /\ th'[h].i = th[h].i
           /\ \/ /\ aio' = [aio EXCEPT ![Proc(h)] = @ \cup {Request(h, FALSE, TRUE)}]
                 /\ Request(h, FALSE, TRUE) \in Requests
                 /\ th'[h].pc = "wait" /\ th'[h].buff = th[h].buff /\ stored' = stored
              \/ /\ aio' = aio
                 /\ Written(h, th[h].i)
                 /\ th'[h].pc = AfterIO(h) /\ th'[h].buff = Buffer(h, th[h].i)
           /\ lists' = lists /\ up' = up /\ s2c' = s2c /\ c2s' = c2s /\ mishaps' = mishaps
<1>1. /\ h[1] \in Transfers /\ Proc(h) \in Processes /\ Static(h) \in {"cbw", "cbr"}
      /\ th[h].i \in Nat \ {0} /\ th[h].i <= Parts(h[1])
  BY OneEnd
<1>2. /\ At(h, "submit") /\ route' = route /\ lists' = lists /\ up' = up
      /\ s2c' = s2c /\ c2s' = c2s /\ mishaps' = mishaps /\ cwd' = cwd
  BY DEF Submit, lists, net
<1>3. Rest
  BY DEF Shape, Types
<1>4. ASSUME cb' \in [Processes -> [{"cbw", "cbr"} -> Threads \cup {None}]],
             stored' = [t \in Transfers |-> stored'[t]]
      PROVE  Rest'
  BY <1>2, <1>3, <1>4 DEF Rest, lists
<1>5. CASE /\ aio' = [aio EXCEPT ![Proc(h)] = @ \cup {Request(h, FALSE, TRUE)}]
           /\ cb' = [cb EXCEPT ![Proc(h)][Static(h)] = None]
           /\ Goto(h, "wait") /\ UNCHANGED stored
  <2>1. Only(h) /\ th'[h].pc = "wait" /\ th'[h].i = th[h].i /\ th'[h].buff = th[h].buff
    BY <1>5, GotoEffect DEF Labels
  <2>2. cb' \in [Processes -> [{"cbw", "cbr"} -> Threads \cup {None}]]
    BY <1>1, <1>3, <1>5 DEF Rest
  <2>3. stored' = [t \in Transfers |-> stored'[t]]
    BY <1>3, <1>5 DEF Rest
  <2>4. Rest'
    BY <2>2, <2>3, <1>4
  <2>5. Block(h) \in Threads \cup {None}
    BY <1>1, <1>3 DEF Rest, Block
  <2>6. Request(h, FALSE, TRUE) \in Requests
    BY <2>5, <1>1 DEF Request, Requests
  <2>7. QED
    BY <1>2, <1>5, <2>1, <2>4, <2>6
<1>6. CASE /\ Written(h, th[h].i)
           /\ th' = [th EXCEPT ![h].pc = AfterIO(h), ![h].buff = Buffer(h, th[h].i)]
           /\ UNCHANGED <<aio, cb>>
  <2>1. Buffer(h, th[h].i) \in Pieces \cup {Junk}
    BY <1>1, BufferFits
  <2>2. /\ Only(h) /\ th'[h].pc = AfterIO(h) /\ th'[h].i = th[h].i
        /\ th'[h].buff = Buffer(h, th[h].i)
    <3>1. PICK l \in Labels, x \in Pieces \cup {Junk} :
             /\ l = AfterIO(h) /\ x = Buffer(h, th[h].i)
             /\ th' = [th EXCEPT ![h].pc = l, ![h].buff = x]
      BY <1>6, <2>1, AfterIOIs
    <3>2. th' = [th EXCEPT ![h].buff = x, ![h].pc = l] \/ th' = [th EXCEPT ![h].pc = l, ![h].buff = x]
      BY <3>1
    <3>3. /\ Only(h)
          /\ th'[h].pc = l /\ th'[h].i = th[h].i /\ th'[h].wd = th[h].wd
          /\ th'[h].buff = x
      BY <3>2, SetEffect
    <3>4. QED
      BY <3>1, <3>3
  <2>3. stored' = [t \in Transfers |-> stored'[t]]
    BY <1>6, WrittenEffect
  <2>4. cb' \in [Processes -> [{"cbw", "cbr"} -> Threads \cup {None}]]
    BY <1>3, <1>6 DEF Rest
  <2>5. Rest'
    BY <2>3, <2>4, <1>4
  <2>6. QED
    BY <1>2, <1>6, <2>2, <2>5
<1>7. QED
  BY <1>5, <1>6 DEF Submit

LEMMA SubmitShape ==
    ASSUME Shape, NEW h \in Threads, Submit(h)
    PROVE  Shape'
<1>1. /\ h[1] \in Transfers /\ Proc(h) \in Processes
      /\ th[h].i \in Nat \ {0} /\ th[h].i <= Parts(h[1]) /\ h[2] \in {"client", "server"}
  BY OneEnd DEF C, S
<1>2. Only(h) /\ route' = route /\ Rest' /\ th'[h].i = th[h].i
  BY SubmitEffect
<1>3. CASE /\ aio' = [aio EXCEPT ![Proc(h)] = @ \cup {Request(h, FALSE, TRUE)}]
           /\ Request(h, FALSE, TRUE) \in Requests
           /\ th'[h].pc = "wait" /\ th'[h].buff = th[h].buff /\ stored' = stored
  <2>1. aio' \in [Processes -> SUBSET Requests]
    BY <1>3 DEF Shape, Types
  <2>2. RequestsFit'
    <3> SUFFICES ASSUME NEW p \in Processes, NEW r \in aio'[p]
                 PROVE  Proc(r.by)' = p /\ r.part <= Parts(r.by[1])'
      BY DEF RequestsFit
    <3>1. CASE r \in aio[p]
      BY <3>1, <1>2 DEF Shape, RequestsFit, Proc, Parts
    <3>2. CASE r \notin aio[p]
      <4>1. p = Proc(h) /\ r = Request(h, FALSE, TRUE)
        BY <3>2, <1>3 DEF Shape, Types
      <4>2. r.by = h /\ r.part = th[h].i
        BY <4>1 DEF Request
      <4>3. QED
        BY <4>1, <4>2, <1>1, <1>2 DEF Proc, Parts
    <3>3. QED
      BY <3>1, <3>2
  <2>3. h[2] = "server" => th'[h].buff \in Data(h[1])
    BY <1>3, OldBuffer
  <2>4. QED
    BY <1>1, <1>2, <1>3, <2>1, <2>2, <2>3, ShapeFrom DEF CLabels, SLabels
<1>4. CASE /\ aio' = aio
           /\ Written(h, th[h].i)
           /\ th'[h].pc = AfterIO(h) /\ th'[h].buff = Buffer(h, th[h].i)
  <2>1. aio' \in [Processes -> SUBSET Requests] /\ RequestsFit'
    BY <1>2, <1>4, RequestsKept
  <2>2. h[2] = "server" => th'[h].buff \in Data(h[1])
    BY <1>1, <1>4, BufferFits
  <2>3. h[2] = "client" => th'[h].pc \in CLabels
    BY <1>4, AfterIOIs DEF CLabels
  <2>4. h[2] = "server" => th'[h].pc \in SLabels
    BY <1>4, AfterIOIs DEF SLabels
  <2>5. QED
    BY <1>1, <1>2, <2>1, <2>2, <2>3, <2>4, ShapeFrom
<1>5. QED
  BY <1>3, <1>4, SubmitEffect

\* A step in which the thread leaves, whatever it does to the lists and to the bytes on the way.
LEMMA LeaveShape ==
    ASSUME Shape, NEW h \in Threads, NEW l \in {"over", "finished", "error"}, Leave(h, l),
           h[2] = "client" => l # "error", h[2] = "server" => l # "finished",
           found' \in [Processes -> SUBSET Transfers],
           downloads' \in [Processes -> SUBSET Transfers],
           uploads' \in [Processes -> SUBSET Transfers],
           s2c' \in [Transfers -> Seq(Messages)],
           c2s' \in [Transfers -> Seq({"ok", "confirm"})]
    PROVE  Shape'
<1>1. /\ Only(h)
      /\ th'[h].pc = l /\ th'[h].i = 1 /\ th'[h].buff = Junk
      /\ cwd' \in [Processes -> {"start", "upload"}]
      /\ cb' \in [Processes -> [{"cbw", "cbr"} -> Threads \cup {None}]]
      /\ stored' = [t \in Transfers |-> stored'[t]]
      /\ route' = route /\ up' = up /\ aio' = aio
  BY LeaveEffect DEF Labels
<1>2. Rest'
  BY <1>1 DEF Shape, Types, Rest
<1>3. h[1] \in Transfers /\ Parts(h[1]) \in Nat /\ Parts(h[1]) > 0
  BY OneEnd, TwoEnds
<1>4. th'[h].i <= Parts(h[1])
  BY <1>1, <1>3
<1>5. h[2] = "client" => th'[h].pc \in CLabels
  BY <1>1 DEF CLabels
<1>6. h[2] = "server" => th'[h].pc \in SLabels /\ th'[h].buff \in Data(h[1])
  BY <1>1, JunkIsData DEF SLabels
<1>7. QED
  BY <1>1, <1>2, <1>4, <1>5, <1>6, RequestsKept, ShapeFrom

LEMMA WaitEffect ==
    ASSUME Shape, NEW h \in Threads, Wait(h)
    PROVE  /\ At(h, "wait") /\ Only(h) /\ route' = route /\ Rest'
           /\ th'[h].i = th[h].i /\ th'[h].pc = AfterIO(h) /\ th'[h].buff = th[h].buff
           /\ \E r \in aio[Proc(h)] :
                 /\ r.done /\ aio' = [aio EXCEPT ![Proc(h)] = @ \ {r}]
                 /\ mishaps' = mishaps \cup (IF r.ok THEN {} ELSE {<<r.by[1], "not seen">>})
           /\ lists' = lists /\ up' = up /\ stored' = stored /\ s2c' = s2c /\ c2s' = c2s
<1>1. Proc(h) \in Processes /\ Static(h) \in {"cbw", "cbr"}
  BY OneEnd
<1>2. /\ At(h, "wait") /\ route' = route /\ lists' = lists /\ up' = up /\ stored' = stored
      /\ s2c' = s2c /\ c2s' = c2s /\ cwd' = cwd
  BY DEF Wait, lists, net
<1>3. Only(h) /\ th'[h].i = th[h].i /\ th'[h].pc = AfterIO(h) /\ th'[h].buff = th[h].buff
  BY GotoEffect, AfterIOIs DEF Wait
<1>4. PICK r \in aio[Proc(h)] :
         /\ r.done
         /\ aio' = [aio EXCEPT ![Proc(h)] = @ \ {r}]
         /\ cb' = [cb EXCEPT ![Proc(h)][Static(h)] = r.at]
         /\ mishaps' = mishaps \cup (IF r.ok THEN {} ELSE {<<r.by[1], "not seen">>})
  BY DEF Wait
<1>5. Rest
  BY DEF Shape, Types
<1>6. r.at \in Threads \cup {None}
  BY <1>1 DEF Shape, Types, Requests
<1>7. cb' \in [Processes -> [{"cbw", "cbr"} -> Threads \cup {None}]]
  BY <1>1, <1>4, <1>5, <1>6 DEF Rest
<1>8. Rest'
  BY <1>2, <1>5, <1>7 DEF Rest, lists
<1>9. QED
  BY <1>2, <1>3, <1>4, <1>8

LEMMA WaitShape ==
    ASSUME Shape, NEW h \in Threads, Wait(h)
    PROVE  Shape'
<1>1. /\ Only(h) /\ route' = route /\ Rest'
      /\ th'[h].i = th[h].i /\ th'[h].pc = AfterIO(h) /\ th'[h].buff = th[h].buff
  BY WaitEffect
<1>2. PICK r : aio' = [aio EXCEPT ![Proc(h)] = @ \ {r}]
  BY WaitEffect
<1>3. aio' \in [Processes -> SUBSET Requests] /\ RequestsFit'
  BY <1>1, <1>2 DEF Shape, Types, RequestsFit, Proc, Parts
<1>4. h[2] = "server" => th'[h].buff \in Data(h[1])
  BY <1>1, OldBuffer
<1>5. h[2] = "client" => th'[h].pc \in CLabels
  BY <1>1, AfterIOIs DEF CLabels
<1>6. h[2] = "server" => th'[h].pc \in SLabels
  BY <1>1, AfterIOIs DEF SLabels
<1>7. QED
  BY <1>1, <1>3, <1>4, <1>5, <1>6, OneEnd, ShapeFrom

LEMMA AioStepShape ==
    ASSUME Shape, NEW h \in Threads, AioStep(h)
    PROVE  Shape'
<1>1. CASE Submit(h)
  BY <1>1, SubmitShape
<1>2. CASE Wait(h)
  BY <1>2, WaitShape
<1>3. CASE AioFails(h)
  <2>1. /\ found' \in [Processes -> SUBSET Transfers]
        /\ downloads' \in [Processes -> SUBSET Transfers]
        /\ uploads' \in [Processes -> SUBSET Transfers]
        /\ s2c' \in [Transfers -> Seq(Messages)]
        /\ c2s' \in [Transfers -> Seq({"ok", "confirm"})]
    BY <1>3 DEF AioFails, lists, net, Shape, Types, Rest
  <2>2. PICK l \in {"over", "finished", "error"} :
           /\ l = IF h[2] = "client" THEN "over" ELSE "error"
           /\ Leave(h, l)
    BY <1>3 DEF AioFails
  <2>3. (h[2] = "client" => l # "error") /\ (h[2] = "server" => l # "finished")
    BY <2>2
  <2>4. QED
    BY <2>1, <2>2, <2>3, LeaveShape
<1>4. CASE BadPointer(h)
  BY <1>4, AbortShape, OneEnd DEF BadPointer
<1>5. QED
  BY <1>1, <1>2, <1>3, <1>4 DEF AioStep, SubmitFails, WaitFails

(* What the kernel does with a request of p. *)
Completes(p, r, ok) ==
    /\ r \in aio[p] /\ ok \in BOOLEAN /\ ~ r.done
    /\ ok => pc(r.by) \in Transferring
    /\ aio' = [aio EXCEPT ![p] = (@ \ {r}) \cup {[r EXCEPT !.done = TRUE, !.ok = ok]}]
    /\ IF ok THEN /\ Written(r.by, r.part)
                  /\ th' = [th EXCEPT ![r.by].buff = Buffer(r.by, r.part)]
             ELSE UNCHANGED <<stored, th>>
    /\ UNCHANGED <<route, up, lists, cwd, cb, live, net, mishaps>>

LEMMA CompleteIs ==
    ASSUME Shape, NEW p \in Processes, Complete(p)
    PROVE  \E r \in aio[p], ok \in BOOLEAN : Completes(p, r, ok)
BY DEF Complete, Completes

LEMMA CompleteEffect ==
    ASSUME Shape, NEW p \in Processes, NEW r, NEW ok, Completes(p, r, ok)
    PROVE  /\ r \in Requests /\ r.by \in Threads /\ Proc(r.by) = p /\ r.part \in Nat \ {0}
           /\ r.part <= Parts(r.by[1])
           /\ Only(r.by) /\ route' = route /\ Rest'
           /\ th'[r.by].pc = th[r.by].pc /\ th'[r.by].i = th[r.by].i
           /\ ok => th'[r.by].buff = Buffer(r.by, r.part)
           /\ ~ ok => th' = th /\ stored' = stored
<1>1. r \in Requests /\ Proc(r.by) = p /\ r.part <= Parts(r.by[1])
  BY DEF Completes, Shape, Types, RequestsFit
<1>2. r.by \in Threads /\ r.part \in Nat \ {0}
  BY <1>1 DEF Requests
<1>3. route' = route /\ up' = up /\ lists' = lists /\ cwd' = cwd /\ cb' = cb /\ s2c' = s2c /\ c2s' = c2s
  BY DEF Completes, net
<1>4. Rest
  BY DEF Shape, Types
<1>5. CASE ok
  <2>1. Buffer(r.by, r.part) \in Pieces \cup {Junk}
    BY <1>1, <1>2, BufferFits
  <2>2. PICK x \in Pieces \cup {Junk} : x = Buffer(r.by, r.part) /\ th' = [th EXCEPT ![r.by].buff = x]
    BY <1>5, <2>1 DEF Completes
  <2> DEFINE new == [th[r.by] EXCEPT !.buff = x]
  <2>3. th[r.by] \in ThreadStates /\ th \in [Threads -> ThreadStates]
    BY <1>2 DEF Shape, Types
  <2>4. new \in ThreadStates /\ new.pc = th[r.by].pc /\ new.i = th[r.by].i /\ new.buff = x
    BY <2>3 DEF ThreadStates
  <2>5. th' = [th EXCEPT ![r.by] = new]
    BY <2>2
  <2> HIDE DEF new
  <2>6. /\ Only(r.by) /\ th'[r.by].pc = th[r.by].pc /\ th'[r.by].i = th[r.by].i
        /\ th'[r.by].buff = x
    BY <2>3, <2>4, <2>5, <1>2 DEF Only
  <2>7. stored' = [t \in Transfers |-> stored'[t]]
    BY <1>2, <1>5, WrittenEffect DEF Completes
  <2>8. Rest'
    BY <1>3, <1>4, <2>7 DEF Rest, lists
  <2>9. QED
    BY <1>1, <1>2, <1>3, <1>5, <2>2, <2>6, <2>8
<1>6. CASE ~ ok
  <2>1. th' = th /\ stored' = stored
    BY <1>6 DEF Completes
  <2>2. Only(r.by)
    BY <2>1 DEF Only, Shape, Types
  <2>3. Rest'
    BY <1>3, <1>4, <2>1 DEF Rest, lists
  <2>4. QED
    BY <1>1, <1>2, <1>3, <1>6, <2>1, <2>2, <2>3
<1>7. QED
  BY <1>5, <1>6

LEMMA CompleteShape ==
    ASSUME Shape, NEW p \in Processes, NEW r, NEW ok, Completes(p, r, ok)
    PROVE  Shape'
<1>1. /\ r \in Requests /\ r.by \in Threads /\ Proc(r.by) = p /\ r.part \in Nat \ {0}
      /\ r.part <= Parts(r.by[1])
      /\ Only(r.by) /\ route' = route /\ Rest'
      /\ th'[r.by].pc = th[r.by].pc /\ th'[r.by].i = th[r.by].i
      /\ ok => th'[r.by].buff = Buffer(r.by, r.part)
      /\ ~ ok => th' = th /\ stored' = stored
  BY CompleteEffect
<1> DEFINE new == [r EXCEPT !.done = TRUE, !.ok = ok]
<1>2. aio' = [aio EXCEPT ![p] = (@ \ {r}) \cup {new}] /\ ok \in BOOLEAN
  BY DEF Completes
<1>3. new \in Requests /\ new.by = r.by /\ new.part = r.part
  BY <1>1, <1>2 DEF Requests
<1> HIDE DEF new
<1>4. aio' \in [Processes -> SUBSET Requests]
  BY <1>2, <1>3 DEF Shape, Types
<1>5. RequestsFit'
  <2> SUFFICES ASSUME NEW q \in Processes, NEW s \in aio'[q]
               PROVE  Proc(s.by)' = q /\ s.part <= Parts(s.by[1])'
    BY DEF RequestsFit
  <2>1. CASE s \in aio[q]
    BY <2>1, <1>1 DEF Shape, RequestsFit, Proc, Parts
  <2>2. CASE s \notin aio[q]
    <3>1. q = p /\ s = new
      BY <2>2, <1>2 DEF Shape, Types
    <3>2. QED
      BY <3>1, <1>1, <1>3 DEF Proc, Parts
  <2>3. QED
    BY <2>1, <2>2
<1>6. r.by[1] \in Transfers /\ (r.by = C(r.by[1]) \/ r.by = S(r.by[1]))
  BY <1>1, OneEnd
<1>7. r.by[2] = "client" => th'[r.by].pc \in CLabels
  <2>1. r.by[2] = "client" => r.by = C(r.by[1])
    BY <1>6 DEF S
  <2>2. QED
    BY <2>1, <1>1, <1>6 DEF Shape, Fits, pc
<1>8. r.by[2] = "server" => th'[r.by].pc \in SLabels /\ th'[r.by].buff \in Data(r.by[1])
  <2>1. r.by[2] = "server" => r.by = S(r.by[1])
    BY <1>6 DEF C
  <2>2. r.by[2] = "server" => th'[r.by].pc \in SLabels
    BY <2>1, <1>1, <1>6 DEF Shape, Fits, pc
  <2>3. r.by[2] = "server" => th'[r.by].buff \in Data(r.by[1])
    <3>1. CASE ok
      BY <3>1, <1>1, BufferFits
    <3>2. CASE ~ ok
      BY <3>2, <1>1, OldBuffer
    <3>3. QED
      BY <3>1, <3>2
  <2>4. QED
    BY <2>2, <2>3
<1>9. QED
  BY <1>1, <1>4, <1>5, <1>7, <1>8, OneEnd, ShapeFrom

LEMMA ServerShapeFrom ==
    ASSUME Shape, NEW t \in Transfers, Only(S(t)), route' = route, aio' = aio, Rest',
           th'[S(t)].pc \in SLabels, th'[S(t)].i <= Parts(t),
           th'[S(t)].buff = th[S(t)].buff \/ th'[S(t)].buff = Junk
    PROVE  Shape'
<1>1. S(t) \in Threads /\ S(t)[1] = t /\ S(t)[2] = "server"
  BY TwoEnds
<1>2. th'[S(t)].buff \in Data(t)
  BY <1>1, OldBuffer, JunkIsData
<1>3. QED
  BY <1>1, <1>2, RequestsKept, ShapeFrom

LEMMA ClientShapeFrom ==
    ASSUME Shape, NEW t \in Transfers, Only(C(t)), route' = route, aio' = aio, Rest',
           th'[C(t)].pc \in CLabels, th'[C(t)].i <= Parts(t)
    PROVE  Shape'
<1>1. C(t) \in Threads /\ C(t)[1] = t /\ C(t)[2] = "client"
  BY TwoEnds
<1>2. QED
  BY <1>1, RequestsKept, ShapeFrom

\* SEnds, with what it leaves to its caller.
LEMMA SEndsShape ==
    ASSUME Shape, NEW t \in Transfers, NEW l \in {"over", "error"}, SEnds(t, l),
           s2c' \in [Transfers -> Seq(Messages)],
           c2s' \in [Transfers -> Seq({"ok", "confirm"})]
    PROVE  Shape'
<1>1. S(t) \in Threads /\ S(t)[1] = t /\ S(t)[2] = "server" /\ Server(t) \in Processes
  BY TwoEnds
<1>2. /\ found' \in [Processes -> SUBSET Transfers]
      /\ downloads' \in [Processes -> SUBSET Transfers]
      /\ uploads' \in [Processes -> SUBSET Transfers]
  BY <1>1 DEF SEnds, Shape, Types, Rest
<1>3. QED
  BY <1>1, <1>2, LeaveShape DEF SEnds

LEMMA TCPhandlerShape ==
    ASSUME Shape, NEW t \in Transfers, TCPhandler(t)
    PROVE  Shape'
<1> DEFINE h == S(t)
<1>1. h \in Threads /\ h[1] = t /\ h[2] = "server" /\ Server(t) \in Processes
      /\ Parts(t) \in Nat /\ Parts(t) > 0
  BY TwoEnds
<1>2. /\ th[h].i \in Nat \ {0} /\ th[h].i <= Parts(t) /\ th[h].wd \in {"start", "upload"}
      /\ th[h].buff \in Messages
  BY <1>1, OneEnd DEF Messages
<1>3. Rest /\ s2c \in [Transfers -> Seq(Messages)] /\ c2s \in [Transfers -> Seq({"ok", "confirm"})]
  BY DEF Shape, Types, Rest
<1>4. Sending \in Messages /\ Error \in Messages
  BY DEF Messages
<1> HIDE DEF h
<1>5. CASE SRequest(t)
  <2>1. PICK l \in {"getcwd", "over"} : Goto(h, l)
    BY <1>5 DEF SRequest, h
  <2>2. Only(h) /\ th'[h].pc = l /\ th'[h].i = th[h].i /\ th'[h].buff = th[h].buff
    BY <2>1, <1>1, GotoEffect DEF Labels
  <2>3. route' = route /\ aio' = aio /\ Rest'
    BY <1>1, <1>3, <1>5 DEF SRequest, Rest, lists, blocks, net
  <2>4. QED
    BY <1>2, <2>2, <2>3, ServerShapeFrom DEF SLabels, h
<1>6. CASE SGetcwd(t)
  <2>1. PICK w \in {"start", "upload"} : th' = [th EXCEPT ![h].wd = w, ![h].pc = "open_r"]
    BY <1>1, <1>3, <1>6 DEF SGetcwd, Rest, h
  <2>2. Only(h) /\ th'[h].pc = "open_r" /\ th'[h].i = th[h].i /\ th'[h].buff = th[h].buff
    BY <2>1, <1>1, WorkdirEffect DEF Labels
  <2>3. route' = route /\ aio' = aio /\ Rest'
    BY <1>1, <1>3, <1>6 DEF SGetcwd, Rest, lists, blocks, net
  <2>4. QED
    BY <1>2, <2>2, <2>3, ServerShapeFrom DEF SLabels, h
<1>7. CASE SOpen(t)
  <2>1. Only(h) /\ th'[h].pc = "submit" /\ th'[h].i = th[h].i /\ th'[h].buff = th[h].buff
    BY <1>1, <1>7, GotoEffect DEF SOpen, Labels, h
  <2>2. s2c' \in [Transfers -> Seq(Messages)]
    BY <1>4, <1>7, SendEffect DEF SOpen
  <2>3. cb' \in [Processes -> [{"cbw", "cbr"} -> Threads \cup {None}]] /\ aio' = aio
    BY <1>1, <1>7, MallocEffect DEF SOpen, h
  <2>4. route' = route /\ Rest'
    BY ZenonT(60), <1>1, <1>3, <1>7, <2>2, <2>3 DEF SOpen, Rest
  <2>5. QED
    BY <1>2, <2>1, <2>3, <2>4, ServerShapeFrom DEF SLabels, h
<1>8. CASE SOpenFails(t)
  <2>1. Only(h) /\ th'[h].pc = "error" /\ th'[h].i = 1 /\ th'[h].buff = Junk
    BY <1>1, <1>8, IdleEffect DEF SOpenFails, Labels, h
  <2>2. route' = route /\ aio' = aio /\ Rest'
    BY <1>1, <1>2, <1>3, <1>8 DEF SOpenFails, Rest, lists, blocks, net, h
  <2>3. QED
    BY <1>1, <2>1, <2>2, ServerShapeFrom DEF SLabels, h
<1>9. CASE SSend(t)
  <2>1. Only(h) /\ th'[h].pc = "ack" /\ th'[h].i = th[h].i /\ th'[h].buff = th[h].buff
    BY <1>1, <1>9, GotoEffect DEF SSend, Labels, h
  <2>2. s2c' \in [Transfers -> Seq(Messages)]
    BY <1>2, <1>9, SendEffect DEF SSend, h
  <2>3. route' = route /\ aio' = aio /\ Rest'
    BY <1>3, <1>9, <2>2 DEF SSend, Rest, lists, blocks
  <2>4. QED
    BY <1>2, <2>1, <2>3, ServerShapeFrom DEF SLabels, h
<1>10. CASE SSendFails(t)
  BY <1>3, <1>10, SEndsShape DEF SSendFails, net
<1>11. CASE SAck(t)
  <2>1. s2c' \in [Transfers -> Seq(Messages)] /\ c2s' \in [Transfers -> Seq({"ok", "confirm"})]
    BY <1>3, <1>11, ConfirmEffect DEF SAck
  <2>2. CASE SEnds(t, "over")
    BY <2>1, <2>2, SEndsShape
  <2>3. CASE /\ th[S(t)].i < Parts(t)
             /\ th' = [th EXCEPT ![S(t)].i = @ + 1, ![S(t)].pc = "submit"]
             /\ UNCHANGED <<route, up, lists, cwd, blocks, stored, mishaps>>
    <3>1. Only(h) /\ th'[h].pc = "submit" /\ th'[h].i = th[h].i + 1 /\ th'[h].buff = th[h].buff
      BY <1>1, <2>3, NextPart DEF Labels, h
    <3>2. th'[h].i <= Parts(t)
      BY <1>1, <1>2, <2>3, <3>1 DEF h
    <3>3. route' = route /\ aio' = aio /\ Rest'
      BY <1>3, <2>1, <2>3 DEF Rest, lists, blocks
    <3>4. QED
      BY <3>1, <3>2, <3>3, ServerShapeFrom DEF SLabels, h
  <2>4. QED
    BY <1>11, <2>2, <2>3 DEF SAck
<1>12. CASE SAckFails(t)
  BY <1>3, <1>12, SEndsShape DEF SAckFails, net
<1>13. CASE SError(t)
  <2>1. PICK l \in {"confirm", "over"} : Goto(h, l)
    BY <1>13 DEF SError, h
  <2>2. Only(h) /\ th'[h].pc = l /\ th'[h].i = th[h].i /\ th'[h].buff = th[h].buff
    BY <2>1, <1>1, GotoEffect DEF Labels
  <2>3. s2c' \in [Transfers -> Seq(Messages)]
    BY <1>4, <1>13, SendEffect DEF SError
  <2>4. route' = route /\ aio' = aio /\ Rest'
    BY <1>3, <1>13, <2>3 DEF SError, Rest, lists, blocks
  <2>5. QED
    BY <1>2, <2>2, <2>4, ServerShapeFrom DEF SLabels, h
<1>14. CASE SConfirm(t)
  <2>1. Only(h) /\ th'[h].pc = "over" /\ th'[h].i = th[h].i /\ th'[h].buff = th[h].buff
    BY <1>1, <1>14, GotoEffect DEF SConfirm, Labels, h
  <2>2. route' = route /\ aio' = aio /\ Rest'
    BY <1>3, <1>14 DEF SConfirm, Rest, lists, net
  <2>3. QED
    BY <1>2, <2>1, <2>2, ServerShapeFrom DEF SLabels, h
<1>15. CASE AioStep(S(t))
  BY <1>1, <1>15, AioStepShape DEF h
<1>16. QED
  BY <1>5, <1>6, <1>7, <1>8, <1>9, <1>10, <1>11, <1>12, <1>13, <1>14, <1>15 DEF TCPhandler

LEMMA RemoveKeepsType ==
    ASSUME Shape, NEW t \in Transfers, RemoveDEntry(t) \/ UNCHANGED downloads
    PROVE  downloads' \in [Processes -> SUBSET Transfers]
<1>1. downloads \in [Processes -> SUBSET Transfers]
  BY DEF Shape, Types, Rest
<1>2. PICK X \in SUBSET Transfers : X = downloads[Client(t)] \ {t}
  BY <1>1, TwoEnds
<1>3. downloads' = [downloads EXCEPT ![Client(t)] = X] \/ downloads' = downloads
  BY <1>2 DEF RemoveDEntry
<1>4. QED
  BY <1>1, <1>3

LEMMA CGivesUpShape ==
    ASSUME Shape, NEW t \in Transfers, CGivesUp(t)
    PROVE  Shape'
<1>1. C(t) \in Threads /\ C(t)[1] = t /\ C(t)[2] = "client" /\ Client(t) \in Processes
  BY TwoEnds
<1>2. Rest
  BY DEF Shape, Types
<1>3. CASE Leave(C(t), "over") /\ (RemoveDEntry(t) \/ UNCHANGED downloads)
           /\ UNCHANGED <<found, uploads, deleted, net>>
  <2>1. /\ found' \in [Processes -> SUBSET Transfers]
        /\ downloads' \in [Processes -> SUBSET Transfers]
        /\ uploads' \in [Processes -> SUBSET Transfers]
        /\ s2c' \in [Transfers -> Seq(Messages)]
        /\ c2s' \in [Transfers -> Seq({"ok", "confirm"})]
    <3>1. downloads' \in [Processes -> SUBSET Transfers]
      BY <1>3, RemoveKeepsType
    <3>2. QED
      BY <1>2, <1>3, <3>1 DEF Rest, net
  <2>2. QED
    BY <1>1, <1>3, <2>1, LeaveShape
<1>4. CASE Abort(Client(t))
  BY <1>1, <1>4, AbortShape
<1>5. QED
  BY <1>3, <1>4 DEF CGivesUp

\* connect: both ends go on.
LEMMA ConnectEffect ==
    ASSUME Shape, NEW t \in Transfers,
           th' = [th EXCEPT ![C(t)].pc = "answer", ![S(t)].pc = "request"]
    PROVE  /\ th' \in [Threads -> ThreadStates]
           /\ th'[C(t)].pc = "answer" /\ th'[C(t)].i = th[C(t)].i /\ th'[C(t)].buff = th[C(t)].buff
           /\ th'[S(t)].pc = "request" /\ th'[S(t)].i = th[S(t)].i /\ th'[S(t)].buff = th[S(t)].buff
           /\ \A h \in Threads : h # C(t) /\ h # S(t) => th'[h] = th[h]
<1>1. C(t) \in Threads /\ S(t) \in Threads /\ C(t) # S(t)
  BY TwoEnds
<1> DEFINE c == [th[C(t)] EXCEPT !.pc = "answer"]
           s == [th[S(t)] EXCEPT !.pc = "request"]
<1>2. th[C(t)] \in ThreadStates /\ th[S(t)] \in ThreadStates /\ th \in [Threads -> ThreadStates]
  BY <1>1 DEF Shape, Types
<1>3. /\ c \in ThreadStates /\ c.pc = "answer" /\ c.i = th[C(t)].i /\ c.buff = th[C(t)].buff
      /\ s \in ThreadStates /\ s.pc = "request" /\ s.i = th[S(t)].i /\ s.buff = th[S(t)].buff
  BY <1>2 DEF ThreadStates, Labels
<1>4. th' = [th EXCEPT ![C(t)] = c, ![S(t)] = s]
  BY <1>1, <1>2
<1> HIDE DEF c, s
<1>5. QED
  BY <1>1, <1>2, <1>3, <1>4

LEMMA TCPTransferShape ==
    ASSUME Shape, NEW t \in Transfers, TCPTransfer(t)
    PROVE  Shape'
<1> DEFINE h == C(t)
<1>1. h \in Threads /\ h[1] = t /\ h[2] = "client" /\ Client(t) \in Processes
      /\ Parts(t) \in Nat /\ Parts(t) > 0
  BY TwoEnds
<1>2. /\ th[h].i \in Nat \ {0} /\ th[h].i <= Parts(t)
  BY <1>1, OneEnd
<1>3. Rest /\ s2c \in [Transfers -> Seq(Messages)] /\ c2s \in [Transfers -> Seq({"ok", "confirm"})]
  BY DEF Shape, Types, Rest
<1> HIDE DEF h
<1>4. ASSUME NEW l \in CLabels, Goto(h, l)
      PROVE  Only(h) /\ th'[h].pc = l /\ th'[h].i = th[h].i
  BY <1>1, <1>4, GotoEffect DEF CLabels, Labels
<1>5. CASE CConnect(t)
  <2>1. route' = route /\ aio' = aio /\ Rest'
    BY <1>3, <1>5 DEF CConnect, Rest, lists, blocks, net
  <2>2. CASE Goto(h, "over")
    BY <1>2, <1>4, <2>1, <2>2, ClientShapeFrom DEF CLabels, h
  <2>3. CASE th' = [th EXCEPT ![C(t)].pc = "answer", ![S(t)].pc = "request"]
    <3>1. /\ th' \in [Threads -> ThreadStates]
          /\ th'[C(t)].pc = "answer" /\ th'[C(t)].i = th[C(t)].i
          /\ th'[S(t)].pc = "request" /\ th'[S(t)].i = th[S(t)].i /\ th'[S(t)].buff = th[S(t)].buff
          /\ \A g \in Threads : g # C(t) /\ g # S(t) => th'[g] = th[g]
      BY <2>3, ConnectEffect
    <3>2. ASSUME NEW u \in Transfers PROVE Fits(u)'
      <4>1. Fits(u) /\ Data(u)' = Data(u) /\ Parts(u)' = Parts(u) /\ C(u) \in Threads /\ S(u) \in Threads
        BY <2>1, TwoEnds DEF Shape, Data, Parts
      <4>2. CASE u = t
        <5>1. Fits(t)
          BY <4>1, <4>2
        <5>2. /\ th'[C(t)].pc \in CLabels /\ th'[C(t)].i <= Parts(t)
              /\ th'[S(t)].pc \in SLabels /\ th'[S(t)].i <= Parts(t) /\ th'[S(t)].buff \in Data(t)
          BY <5>1, <3>1 DEF Fits, CLabels, SLabels
        <5>3. QED
          BY <5>2, <4>1, <4>2 DEF Fits, pc, C, S
      <4>3. CASE u # t
        <5>1. th'[C(u)] = th[C(u)] /\ th'[S(u)] = th[S(u)]
          BY <3>1, <4>1, <4>3, TwoEnds
        <5>2. QED
          BY <4>1, <5>1 DEF Fits, pc, C, S
      <4>4. QED
        BY <4>2, <4>3
    <3>3. QED
      BY <2>1, <3>1, <3>2, RequestsKept DEF Shape, Types
  <2>4. QED
    BY <1>5, <2>2, <2>3 DEF CConnect, h
<1>6. CASE CAnswer(t)
  <2>1. PICK l \in {"length", "over"} : Goto(h, l)
    BY <1>6 DEF CAnswer, h
  <2>2. /\ found' \in [Processes -> SUBSET Transfers]
        /\ downloads' \in [Processes -> SUBSET Transfers]
        /\ s2c' \in [Transfers -> Seq(Messages)]
        /\ c2s' \in [Transfers -> Seq({"ok", "confirm"})]
    <3>1. CASE Arrives(t, Sending) /\ UNCHANGED <<found, c2s>>
               /\ downloads' = [downloads EXCEPT ![Client(t)] = @ \cup {t}]
      BY <1>1, <1>3, <3>1, ArrivesEffect DEF Rest
    <3>2. CASE /\ Arrives(t, Error) /\ RemoveDownloadEntry(t) /\ UNCHANGED downloads
               /\ c2s' = IF t \in found[Client(t)] THEN c2s ELSE [c2s EXCEPT ![t] = Append(@, "confirm")]
      <4>1. c2s' \in [Transfers -> Seq({"ok", "confirm"})]
        BY <3>2, ConfirmEffect
      <4>2. QED
        BY <1>1, <1>3, <3>2, <4>1, ArrivesEffect DEF Rest, RemoveDownloadEntry
    <3>3. CASE UNCHANGED <<found, downloads, net>>
      BY <1>3, <3>3 DEF Rest, net
    <3>4. QED
      BY <1>6, <3>1, <3>2, <3>3 DEF CAnswer
  <2>3. route' = route /\ aio' = aio /\ Rest'
    BY <1>3, <1>6, <2>2 DEF CAnswer, Rest, blocks
  <2>4. QED
    BY <1>2, <1>4, <2>1, <2>3, ClientShapeFrom DEF CLabels, h
<1>7. CASE CAnswerFails(t)
  <2>1. route' = route /\ aio' = aio /\ Rest' /\ Goto(h, "over")
    BY <1>3, <1>7 DEF CAnswerFails, Rest, lists, net, h
  <2>2. QED
    BY <1>2, <1>4, <2>1, ClientShapeFrom DEF CLabels, h
<1>8. CASE CLength(t)
  <2>1. PICK l \in {"chdir_w", "over"} : Goto(h, l)
    BY <1>8 DEF CLength, h
  <2>2. downloads' \in [Processes -> SUBSET Transfers]
    BY <1>8, RemoveKeepsType DEF CLength
  <2>3. route' = route /\ aio' = aio /\ Rest'
    BY <1>3, <1>8, <2>2 DEF CLength, Rest, blocks, net
  <2>4. QED
    BY <1>2, <1>4, <2>1, <2>3, ClientShapeFrom DEF CLabels, h
<1>9. CASE CChdir(t)
  <2>1. PICK w \in {"start", "upload"} : th' = [th EXCEPT ![h].wd = w, ![h].pc = "open_w"]
    BY <1>1, <1>3, <1>9 DEF CChdir, Rest, h
  <2>2. Only(h) /\ th'[h].pc = "open_w" /\ th'[h].i = th[h].i
    BY <2>1, <1>1, WorkdirEffect DEF Labels
  <2>3. cb' \in [Processes -> [{"cbw", "cbr"} -> Threads \cup {None}]] /\ aio' = aio
    BY <1>1, <1>9, MallocEffect DEF CChdir, h
  <2>4. route' = route /\ Rest'
    BY <1>1, <1>3, <1>9, <2>3 DEF CChdir, Rest, lists, net
  <2>5. QED
    BY <1>2, <2>2, <2>3, <2>4, ClientShapeFrom DEF CLabels, h
<1>10. CASE COpen(t)
  <2>1. route' = route /\ aio' = aio /\ Rest' /\ Goto(h, "read")
    BY <1>3, <1>10 DEF COpen, Rest, blocks, net, h
  <2>2. QED
    BY <1>2, <1>4, <2>1, ClientShapeFrom DEF CLabels, h
<1>11. CASE COpenFails(t)
  BY <1>1, <1>11, AbortShape DEF COpenFails
<1>12. CASE CRead(t)
  <2>1. route' = route /\ aio' = aio /\ s2c' \in [Transfers -> Seq(Messages)]
    BY <1>12, ArrivesEffect DEF CRead, blocks
  <2>2. Rest'
    BY <1>3, <1>12, <2>1 DEF CRead, Rest, lists, blocks
  <2>3. CASE th' = th
    <3>1. Only(h) /\ th'[h].pc \in CLabels /\ th'[h].i = th[h].i
      BY <2>3, <1>1 DEF Only, Shape, Types, Fits, pc, h
    <3>2. QED
      BY <1>2, <2>1, <2>2, <3>1, ClientShapeFrom DEF h
  <2>4. CASE \E m \in {Junk} \cup {<<t, n>> : n \in 1 .. Parts(t)} :
                th' = [th EXCEPT ![C(t)].buff = m, ![C(t)].pc = "submit"]
    <3>1. PICK x \in Pieces \cup {Junk} : th' = [th EXCEPT ![h].buff = x, ![h].pc = "submit"]
      <4>1. PICK m \in {Junk} \cup {<<t, n>> : n \in 1 .. Parts(t)} :
                th' = [th EXCEPT ![C(t)].buff = m, ![C(t)].pc = "submit"]
        BY <2>4
      <4>2. m \in Pieces \cup {Junk}
        BY DEF Pieces
      <4>3. QED
        BY <4>1, <4>2 DEF h
    <3>2. th' = [th EXCEPT ![h].buff = x, ![h].pc = "submit"] \/ th' = [th EXCEPT ![h].pc = "submit", ![h].buff = x]
      BY <3>1
    <3>3. Only(h) /\ th'[h].pc = "submit" /\ th'[h].i = th[h].i
      BY <3>2, <1>1, SetEffect DEF Labels
    <3>4. QED
      BY <1>2, <2>1, <2>2, <3>3, ClientShapeFrom DEF CLabels, h
  <2>5. QED
    BY <1>12, <2>3, <2>4 DEF CRead
<1>13. CASE CReadFails(t)
  BY <1>13, CGivesUpShape DEF CReadFails
<1>14. CASE CAck(t)
  <2>1. s2c' \in [Transfers -> Seq(Messages)] /\ c2s' \in [Transfers -> Seq({"ok", "confirm"})]
    BY <1>3, <1>14, ConfirmEffect DEF CAck
  <2>2. CASE RemoveDEntry(t) /\ RemoveDownloadEntry(t) /\ Leave(C(t), "finished")
             /\ UNCHANGED uploads
    <3>1. /\ found' \in [Processes -> SUBSET Transfers]
          /\ downloads' \in [Processes -> SUBSET Transfers]
          /\ uploads' \in [Processes -> SUBSET Transfers]
      BY <1>1, <1>3, <2>2 DEF Rest, RemoveDEntry, RemoveDownloadEntry
    <3>2. QED
      BY <1>1, <2>1, <2>2, <3>1, LeaveShape DEF h
  <2>3. CASE /\ th[C(t)].i < Parts(t)
             /\ th' = [th EXCEPT ![C(t)].i = @ + 1, ![C(t)].pc = "read"]
             /\ UNCHANGED <<route, up, lists, cwd, blocks, stored>>
    <3>1. Only(h) /\ th'[h].pc = "read" /\ th'[h].i = th[h].i + 1
      BY <1>1, <2>3, NextPart DEF Labels, h
    <3>2. th'[h].i <= Parts(t)
      BY <1>1, <1>2, <2>3, <3>1 DEF h
    <3>3. route' = route /\ aio' = aio /\ Rest'
      BY <1>3, <2>1, <2>3 DEF Rest, lists, blocks
    <3>4. QED
      BY <3>1, <3>2, <3>3, ClientShapeFrom DEF CLabels, h
  <2>4. QED
    BY <1>14, <2>2, <2>3 DEF CAck
<1>15. CASE CAckFails(t)
  BY <1>15, CGivesUpShape DEF CAckFails
<1>16. CASE BadEntry(t)
  BY <1>1, <1>16, AbortShape DEF BadEntry
<1>17. CASE AioStep(C(t))
  BY <1>1, <1>17, AioStepShape DEF h
<1>18. QED
  BY <1>5, <1>6, <1>7, <1>8, <1>9, <1>10, <1>11, <1>12, <1>13, <1>14, <1>15, <1>16, <1>17 DEF TCPTransfer

LEMMA ShapeStep == Shape /\ [Next]_vars => Shape'
<1> SUFFICES ASSUME Shape, [Next]_vars PROVE Shape'
  OBVIOUS
<1>1. CASE UNCHANGED vars
  BY <1>1 DEF vars, lists, blocks, net, Shape, Types, Rest, Fits, RequestsFit, pc, C, S, Data, Parts, Proc
<1>2. ASSUME NEW p \in Processes, LClear(p) \/ Complete(p) PROVE Shape'
  BY <1>2, LClearShape, CompleteIs, CompleteShape
<1>3. ASSUME NEW t \in Transfers, Get(t) \/ TCPTransfer(t) \/ TCPhandler(t) PROVE Shape'
  BY <1>3, GetShape, TCPTransferShape, TCPhandlerShape
<1>4. QED
  BY <1>1, <1>2, <1>3 DEF Next

-----------------------------------------------------------------------------
(* What the steps of one transfer do, as the other invariants see it.      *)

\* Nothing happens to the other transfers.
Elsewhere(t) ==
    /\ route' = route /\ up' = up /\ mishaps \subseteq mishaps'
    /\ \A u \in Transfers : u # t =>
          /\ th'[C(u)] = th[C(u)] /\ th'[S(u)] = th[S(u)]
          /\ s2c'[u] = s2c[u] /\ c2s'[u] = c2s[u] /\ stored'[u] = stored[u]
          /\ u \in uploads'[Server(u)] <=> u \in uploads[Server(u)]
          /\ u \in downloads'[Client(u)] <=> u \in downloads[Client(u)]

\* h goes on to l, part n, with b in its buffer.
Moves(h, l, n, b) ==
    Only(h) /\ th'[h].pc = l /\ th'[h].i = n /\ th'[h].buff = b
Serves(t, l, n, b) ==
    /\ Elsewhere(t) /\ Moves(S(t), l, n, b)
    /\ stored' = stored /\ downloads' = downloads /\ aio' = aio
Loads(t, l, n, b) ==
    /\ Elsewhere(t) /\ Moves(C(t), l, n, b)
    /\ uploads' = uploads /\ aio' = aio

LEMMA ElsewhereFrom ==
    ASSUME Shape, NEW t \in Transfers, Only(C(t)) \/ Only(S(t)),
           route' = route, up' = up, mishaps \subseteq mishaps',
           \A u \in Transfers : u # t => /\ s2c'[u] = s2c[u] /\ c2s'[u] = c2s[u]
                                        /\ stored'[u] = stored[u],
           NEW X, uploads' = uploads \/ uploads' = [uploads EXCEPT ![Server(t)] = X],
           X = uploads[Server(t)] \cup {t} \/ X = uploads[Server(t)] \ {t},
           NEW Y, downloads' = downloads \/ downloads' = [downloads EXCEPT ![Client(t)] = Y],
           Y = downloads[Client(t)] \cup {t} \/ Y = downloads[Client(t)] \ {t}
    PROVE  Elsewhere(t)
<1> SUFFICES ASSUME NEW u \in Transfers, u # t
             PROVE  /\ th'[C(u)] = th[C(u)] /\ th'[S(u)] = th[S(u)]
                    /\ u \in uploads'[Server(u)] <=> u \in uploads[Server(u)]
                    /\ u \in downloads'[Client(u)] <=> u \in downloads[Client(u)]
  BY DEF Elsewhere
<1>1. /\ C(u) \in Threads /\ S(u) \in Threads
      /\ C(u) # C(t) /\ C(u) # S(t) /\ S(u) # C(t) /\ S(u) # S(t)
      /\ Server(u) \in Processes /\ Client(u) \in Processes
  BY TwoEnds
<1>2. th'[C(u)] = th[C(u)] /\ th'[S(u)] = th[S(u)]
  BY <1>1 DEF Only
<1>3. uploads \in [Processes -> SUBSET Transfers] /\ downloads \in [Processes -> SUBSET Transfers]
  BY DEF Shape, Types, Rest
<1>4. u \in uploads'[Server(u)] <=> u \in uploads[Server(u)]
  <2>1. CASE uploads' = [uploads EXCEPT ![Server(t)] = X]
    BY <2>1, <1>1, <1>3
  <2>2. QED
    BY <2>1
<1>5. u \in downloads'[Client(u)] <=> u \in downloads[Client(u)]
  <2>1. CASE downloads' = [downloads EXCEPT ![Client(t)] = Y]
    BY <2>1, <1>1, <1>3
  <2>2. QED
    BY <2>1
<1>6. QED
  BY <1>2, <1>4, <1>5

\* The same, of a step that leaves one list or both.
LEMMA ServesFrom ==
    ASSUME Shape, NEW t \in Transfers, NEW l, NEW n, NEW b, Moves(S(t), l, n, b),
           route' = route, up' = up, mishaps \subseteq mishaps', stored' = stored, aio' = aio,
           downloads' = downloads,
           \A u \in Transfers : u # t => s2c'[u] = s2c[u] /\ c2s'[u] = c2s[u],
           \/ uploads' = uploads
           \/ uploads' = [uploads EXCEPT ![Server(t)] = @ \cup {t}]
           \/ uploads' = [uploads EXCEPT ![Server(t)] = @ \ {t}]
    PROVE  Serves(t, l, n, b)
<1>1. PICK X : /\ uploads' = uploads \/ uploads' = [uploads EXCEPT ![Server(t)] = X]
               /\ X = uploads[Server(t)] \cup {t} \/ X = uploads[Server(t)] \ {t}
  OBVIOUS
<1>2. PICK Y : Y = downloads[Client(t)] \cup {t}
  OBVIOUS
<1>3. Only(S(t))
  BY DEF Moves
<1>4. Elsewhere(t)
  BY <1>1, <1>2, <1>3, ElsewhereFrom
<1>5. QED
  BY <1>4 DEF Serves

LEMMA LoadsFrom ==
    ASSUME Shape, NEW t \in Transfers, NEW l, NEW n, NEW b, Moves(C(t), l, n, b),
           route' = route, up' = up, mishaps \subseteq mishaps', aio' = aio,
           uploads' = uploads,
           \A u \in Transfers : u # t => /\ s2c'[u] = s2c[u] /\ c2s'[u] = c2s[u]
                                        /\ stored'[u] = stored[u],
           \/ downloads' = downloads
           \/ downloads' = [downloads EXCEPT ![Client(t)] = @ \cup {t}]
           \/ downloads' = [downloads EXCEPT ![Client(t)] = @ \ {t}]
    PROVE  Loads(t, l, n, b)
<1>1. PICK X : X = uploads[Server(t)] \cup {t}
  OBVIOUS
<1>2. PICK Y : /\ downloads' = downloads \/ downloads' = [downloads EXCEPT ![Client(t)] = Y]
               /\ Y = downloads[Client(t)] \cup {t} \/ Y = downloads[Client(t)] \ {t}
  OBVIOUS
<1>3. Only(C(t))
  BY DEF Moves
<1>4. Elsewhere(t)
  BY <1>1, <1>2, <1>3, ElsewhereFrom
<1>5. QED
  BY <1>4 DEF Loads

LEMMA SRequestIs ==
    ASSUME Shape, NEW t \in Transfers, SRequest(t)
    PROVE  /\ At(S(t), "request")
           /\ \E l \in {"getcwd", "over"} : Serves(t, l, th[S(t)].i, th[S(t)].buff)
           /\ uploads' = uploads /\ s2c' = s2c /\ c2s' = c2s /\ mishaps' = mishaps
<1>1. PICK l \in {"getcwd", "over"} : Goto(S(t), l)
  BY DEF SRequest
<1>2. Moves(S(t), l, th[S(t)].i, th[S(t)].buff)
  BY <1>1, TwoEnds, GotoEffect DEF Labels, Moves
<1>3. Serves(t, l, th[S(t)].i, th[S(t)].buff)
  BY <1>2, ServesFrom DEF SRequest, lists, blocks, net
<1>4. QED
  BY <1>3 DEF SRequest, lists, net

LEMMA SGetcwdIs ==
    ASSUME Shape, NEW t \in Transfers, SGetcwd(t)
    PROVE  /\ At(S(t), "getcwd") /\ Serves(t, "open_r", th[S(t)].i, th[S(t)].buff)
           /\ uploads' = uploads /\ s2c' = s2c /\ c2s' = c2s /\ mishaps' = mishaps
<1>1. PICK w \in {"start", "upload"} : th' = [th EXCEPT ![S(t)].wd = w, ![S(t)].pc = "open_r"]
  <2>1. cwd[Server(t)] \in {"start", "upload"}
    BY TwoEnds DEF Shape, Types, Rest
  <2>2. QED
    BY <2>1 DEF SGetcwd
<1>2. Moves(S(t), "open_r", th[S(t)].i, th[S(t)].buff)
  BY <1>1, TwoEnds, WorkdirEffect DEF Labels, Moves
<1>3. Serves(t, "open_r", th[S(t)].i, th[S(t)].buff)
  BY <1>2, ServesFrom DEF SGetcwd, lists, blocks, net
<1>4. QED
  BY <1>3 DEF SGetcwd, lists, net

LEMMA SOpenIs ==
    ASSUME Shape, NEW t \in Transfers, SOpen(t)
    PROVE  /\ At(S(t), "open_r") /\ Serves(t, "submit", th[S(t)].i, th[S(t)].buff)
           /\ Open(C(t)) => s2c'[t] = Append(s2c[t], Sending)
           /\ ~ Open(C(t)) => s2c'[t] = s2c[t]
           /\ t \in uploads'[Server(t)] /\ c2s' = c2s /\ Malloc(S(t))
<1>1. Moves(S(t), "submit", th[S(t)].i, th[S(t)].buff)
  BY TwoEnds, GotoEffect DEF SOpen, Labels, Moves
<1>2. /\ Open(C(t)) => s2c'[t] = Append(s2c[t], Sending)
      /\ ~ Open(C(t)) => s2c'[t] = s2c[t]
      /\ \A u \in Transfers : u # t => s2c'[u] = s2c[u]
  BY SendEffect DEF SOpen, Messages
<1>3. aio' = aio /\ mishaps \subseteq mishaps'
  BY TwoEnds, MallocEffect DEF SOpen
<1>4. Serves(t, "submit", th[S(t)].i, th[S(t)].buff)
  BY <1>1, <1>2, <1>3, ServesFrom DEF SOpen
<1>5. t \in uploads'[Server(t)]
  BY TwoEnds DEF SOpen, Shape, Types, Rest
<1>6. QED
  BY <1>2, <1>4, <1>5 DEF SOpen

LEMMA SOpenFailsIs ==
    ASSUME Shape, NEW t \in Transfers, SOpenFails(t)
    PROVE  /\ At(S(t), "open_r") /\ Serves(t, "error", 1, Junk)
           /\ uploads' = uploads /\ s2c' = s2c /\ c2s' = c2s /\ mishaps' = mishaps
<1>1. Moves(S(t), "error", 1, Junk)
  BY TwoEnds, IdleEffect DEF SOpenFails, Labels, Moves
<1>2. Serves(t, "error", 1, Junk)
  BY <1>1, ServesFrom DEF SOpenFails, lists, blocks, net
<1>3. QED
  BY <1>2 DEF SOpenFails, lists, net

LEMMA SSendIs ==
    ASSUME Shape, NEW t \in Transfers, SSend(t)
    PROVE  /\ At(S(t), "send") /\ Serves(t, "ack", th[S(t)].i, th[S(t)].buff)
           /\ Open(C(t)) => s2c'[t] = Append(s2c[t], th[S(t)].buff)
           /\ ~ Open(C(t)) => s2c'[t] = s2c[t]
           /\ uploads' = uploads /\ c2s' = c2s /\ mishaps' = mishaps
<1>1. Moves(S(t), "ack", th[S(t)].i, th[S(t)].buff)
  BY TwoEnds, GotoEffect DEF SSend, Labels, Moves
<1>2. th[S(t)].buff \in Messages
  BY TwoEnds, OneEnd DEF Messages
<1>3. /\ Open(C(t)) => s2c'[t] = Append(s2c[t], th[S(t)].buff)
      /\ ~ Open(C(t)) => s2c'[t] = s2c[t]
      /\ \A u \in Transfers : u # t => s2c'[u] = s2c[u]
  BY <1>2, SendEffect DEF SSend
<1>4. Serves(t, "ack", th[S(t)].i, th[S(t)].buff)
  BY <1>1, <1>3, ServesFrom DEF SSend, lists, blocks
<1>5. QED
  BY <1>3, <1>4 DEF SSend, lists

LEMMA SEndsIs ==
    ASSUME Shape, NEW t \in Transfers, NEW l \in {"over", "error"}, SEnds(t, l),
           \A u \in Transfers : u # t => s2c'[u] = s2c[u] /\ c2s'[u] = c2s[u]
    PROVE  /\ Serves(t, l, 1, Junk) /\ t \notin uploads'[Server(t)] /\ mishaps' = mishaps
           /\ live' = live \ {cb[Server(t)]["cbr"]}
<1>1. S(t) \in Threads /\ S(t)[2] = "server" /\ Proc(S(t)) = Server(t) /\ Server(t) \in Processes
  BY TwoEnds
<1>2. Leave(S(t), l)
  BY DEF SEnds
<1>3. /\ Moves(S(t), l, 1, Junk)
      /\ stored' = stored /\ route' = route /\ up' = up /\ aio' = aio
  BY <1>1, <1>2, LeaveEffect DEF Labels, Moves
<1>4. Serves(t, l, 1, Junk)
  BY <1>3, ServesFrom DEF SEnds
<1>5. t \notin uploads'[Server(t)]
  BY <1>1 DEF SEnds, Shape, Types, Rest
<1>6. live' = live \ {cb[Server(t)]["cbr"]}
  BY <1>1, <1>2 DEF Leave, Static
<1>7. QED
  BY <1>4, <1>5, <1>6 DEF SEnds

LEMMA SAckIs ==
    ASSUME Shape, NEW t \in Transfers, SAck(t)
    PROVE  /\ At(S(t), "ack") /\ s2c' = s2c /\ mishaps' = mishaps
           /\ c2s[t] # << >> /\ c2s'[t] = Tail(c2s[t])
           /\ \/ Serves(t, "submit", th[S(t)].i + 1, th[S(t)].buff) /\ uploads' = uploads
              \/ Serves(t, "over", 1, Junk) /\ t \notin uploads'[Server(t)]
<1>1. /\ At(S(t), "ack") /\ s2c' = s2c /\ c2s[t] # << >>
      /\ c2s' = [c2s EXCEPT ![t] = Tail(@)]
  BY DEF SAck
<1>2. c2s'[t] = Tail(c2s[t]) /\ \A u \in Transfers : u # t => c2s'[u] = c2s[u]
  BY <1>1 DEF Shape, Types, Rest
<1>3. CASE SEnds(t, "over")
  BY <1>1, <1>2, <1>3, SEndsIs
<1>4. CASE /\ th' = [th EXCEPT ![S(t)].i = @ + 1, ![S(t)].pc = "submit"]
           /\ UNCHANGED <<route, up, lists, cwd, blocks, stored, mishaps>>
  <2>1. Moves(S(t), "submit", th[S(t)].i + 1, th[S(t)].buff)
    BY <1>4, TwoEnds, NextPart DEF Labels, Moves
  <2>2. Serves(t, "submit", th[S(t)].i + 1, th[S(t)].buff)
    BY <1>1, <1>2, <1>4, <2>1, ServesFrom DEF lists, blocks
  <2>3. QED
    BY <1>1, <1>2, <1>4, <2>2 DEF lists
<1>5. QED
  BY <1>3, <1>4 DEF SAck

LEMMA SFails ==
    ASSUME Shape, NEW t \in Transfers, SSendFails(t) \/ SAckFails(t)
    PROVE  /\ At(S(t), "send") \/ At(S(t), "ack")
           /\ Serves(t, "error", 1, Junk) /\ t \notin uploads'[Server(t)]
           /\ s2c' = s2c /\ c2s' = c2s /\ mishaps' = mishaps
<1>1. SEnds(t, "error") /\ s2c' = s2c /\ c2s' = c2s
  BY DEF SSendFails, SAckFails, net
<1>2. QED
  BY <1>1, SEndsIs DEF SSendFails, SAckFails

LEMMA SErrorIs ==
    ASSUME Shape, NEW t \in Transfers, SError(t)
    PROVE  /\ At(S(t), "error")
           /\ Open(C(t)) => /\ s2c'[t] = Append(s2c[t], Error)
                            /\ Serves(t, "confirm", th[S(t)].i, th[S(t)].buff)
           /\ ~ Open(C(t)) => /\ s2c'[t] = s2c[t]
                              /\ Serves(t, "over", th[S(t)].i, th[S(t)].buff)
           /\ uploads' = uploads /\ c2s' = c2s /\ mishaps' = mishaps
<1>1. PICK l \in {"confirm", "over"} : l = (IF Open(C(t)) THEN "confirm" ELSE "over") /\ Goto(S(t), l)
  BY DEF SError
<1>2. Moves(S(t), l, th[S(t)].i, th[S(t)].buff)
  BY <1>1, TwoEnds, GotoEffect DEF Labels, Moves
<1>3. /\ Open(C(t)) => s2c'[t] = Append(s2c[t], Error)
      /\ ~ Open(C(t)) => s2c'[t] = s2c[t]
      /\ \A u \in Transfers : u # t => s2c'[u] = s2c[u]
  BY SendEffect DEF SError, Messages
<1>4. Serves(t, l, th[S(t)].i, th[S(t)].buff)
  BY <1>2, <1>3, ServesFrom DEF SError, lists, blocks
<1>5. QED
  BY <1>1, <1>3, <1>4 DEF SError, lists

LEMMA SConfirmIs ==
    ASSUME Shape, NEW t \in Transfers, SConfirm(t)
    PROVE  /\ At(S(t), "confirm") /\ Serves(t, "over", th[S(t)].i, th[S(t)].buff)
           /\ uploads' = uploads /\ s2c' = s2c /\ c2s' = c2s /\ mishaps' = mishaps
<1>1. Moves(S(t), "over", th[S(t)].i, th[S(t)].buff)
  BY TwoEnds, GotoEffect DEF SConfirm, Labels, Moves
<1>2. Serves(t, "over", th[S(t)].i, th[S(t)].buff)
  BY <1>1, ServesFrom DEF SConfirm, lists, net
<1>3. QED
  BY <1>2 DEF SConfirm, lists, net

LEMMA ClientGoto ==
    ASSUME Shape, NEW t \in Transfers, NEW l \in CLabels, Goto(C(t), l)
    PROVE  Moves(C(t), l, th[C(t)].i, th[C(t)].buff)
BY TwoEnds, GotoEffect DEF CLabels, Labels, Moves

LEMMA GetIs ==
    ASSUME Shape, NEW t \in Transfers, Get(t)
    PROVE  /\ At(C(t), "none") /\ Loads(t, "connect", th[C(t)].i, th[C(t)].buff)
           /\ downloads' = downloads /\ s2c' = s2c /\ c2s' = c2s /\ mishaps' = mishaps
           /\ stored' = stored
<1>1. Loads(t, "connect", th[C(t)].i, th[C(t)].buff)
  BY ClientGoto, LoadsFrom DEF Get, CLabels, lists, blocks, net
<1>2. QED
  BY <1>1 DEF Get, lists, net

LEMMA CConnectIs ==
    ASSUME Shape, NEW t \in Transfers, CConnect(t)
    PROVE  /\ At(C(t), "connect")
           /\ \/ Loads(t, "over", th[C(t)].i, th[C(t)].buff)
              \/ /\ Server(t) \in up /\ Elsewhere(t) /\ aio' = aio /\ uploads' = uploads
                 /\ th'[C(t)].pc = "answer" /\ th'[C(t)].i = th[C(t)].i /\ th'[C(t)].buff = th[C(t)].buff
                 /\ th'[S(t)].pc = "request" /\ th'[S(t)].i = th[S(t)].i /\ th'[S(t)].buff = th[S(t)].buff
                 /\ \A h \in Threads : h # C(t) /\ h # S(t) => th'[h] = th[h]
           /\ downloads' = downloads /\ s2c' = s2c /\ c2s' = c2s /\ mishaps' = mishaps
           /\ stored' = stored
<1>1. /\ At(C(t), "connect") /\ route' = route /\ up' = up /\ aio' = aio
      /\ uploads' = uploads /\ downloads' = downloads /\ s2c' = s2c /\ c2s' = c2s
      /\ mishaps' = mishaps /\ stored' = stored
  BY DEF CConnect, lists, blocks, net
<1>2. CASE Goto(C(t), "over")
  BY <1>1, <1>2, ClientGoto, LoadsFrom DEF CLabels
<1>3. CASE Server(t) \in up /\ th' = [th EXCEPT ![C(t)].pc = "answer", ![S(t)].pc = "request"]
  <2>1. /\ th'[C(t)].pc = "answer" /\ th'[C(t)].i = th[C(t)].i /\ th'[C(t)].buff = th[C(t)].buff
        /\ th'[S(t)].pc = "request" /\ th'[S(t)].i = th[S(t)].i /\ th'[S(t)].buff = th[S(t)].buff
        /\ \A h \in Threads : h # C(t) /\ h # S(t) => th'[h] = th[h]
    BY <1>3, ConnectEffect
  <2>2. ASSUME NEW u \in Transfers, u # t
        PROVE  th'[C(u)] = th[C(u)] /\ th'[S(u)] = th[S(u)]
    BY <2>1, <2>2, TwoEnds
  <2>3. Elsewhere(t)
    BY <1>1, <2>2 DEF Elsewhere
  <2>4. QED
    BY <1>1, <1>3, <2>1, <2>3
<1>4. QED
  BY <1>1, <1>2, <1>3 DEF CConnect

LEMMA CAnswerIs ==
    ASSUME Shape, NEW t \in Transfers, CAnswer(t)
    PROVE  /\ At(C(t), "answer") /\ stored' = stored /\ mishaps' = mishaps
           /\ \/ /\ Loads(t, "length", th[C(t)].i, th[C(t)].buff)
                 /\ s2c[t] # << >> /\ Head(s2c[t]) = Sending /\ s2c'[t] = Tail(s2c[t])
                 /\ c2s'[t] = c2s[t] /\ t \in downloads'[Client(t)]
              \/ /\ Loads(t, "over", th[C(t)].i, th[C(t)].buff)
                 /\ t \in downloads'[Client(t)] <=> t \in downloads[Client(t)]
<1>1. /\ At(C(t), "answer") /\ route' = route /\ up' = up /\ aio' = aio
      /\ uploads' = uploads /\ mishaps' = mishaps /\ stored' = stored
  BY DEF CAnswer, blocks
<1>2. CASE /\ Arrives(t, Sending)
           /\ downloads' = [downloads EXCEPT ![Client(t)] = @ \cup {t}]
           /\ Goto(C(t), "length") /\ UNCHANGED <<found, c2s>>
  <2>1. /\ s2c[t] # << >> /\ Head(s2c[t]) = Sending /\ s2c'[t] = Tail(s2c[t])
        /\ \A u \in Transfers : u # t => s2c'[u] = s2c[u]
    BY <1>2, ArrivesEffect
  <2>2. Loads(t, "length", th[C(t)].i, th[C(t)].buff)
    BY <1>1, <1>2, <2>1, ClientGoto, LoadsFrom DEF CLabels
  <2>3. t \in downloads'[Client(t)]
    BY <1>2, TwoEnds DEF Shape, Types, Rest
  <2>4. QED
    BY <1>1, <1>2, <2>1, <2>2, <2>3
<1>3. CASE /\ Arrives(t, Error)
           /\ c2s' = IF t \in found[Client(t)] THEN c2s ELSE [c2s EXCEPT ![t] = Append(@, "confirm")]
           /\ Goto(C(t), "over") /\ UNCHANGED downloads
  <2>1. \A u \in Transfers : u # t => s2c'[u] = s2c[u]
    BY <1>3, ArrivesEffect
  <2>2. \A u \in Transfers : u # t => c2s'[u] = c2s[u]
    BY <1>3, ConfirmEffect
  <2>3. Loads(t, "over", th[C(t)].i, th[C(t)].buff)
    BY <1>1, <1>3, <2>1, <2>2, ClientGoto, LoadsFrom DEF CLabels
  <2>4. QED
    BY <1>1, <1>3, <2>3
<1>4. CASE Goto(C(t), "over") /\ UNCHANGED <<found, downloads, net>>
  BY <1>1, <1>4, ClientGoto, LoadsFrom DEF CLabels, net
<1>5. QED
  BY <1>2, <1>3, <1>4 DEF CAnswer

LEMMA CAnswerFailsIs ==
    ASSUME Shape, NEW t \in Transfers, CAnswerFails(t)
    PROVE  /\ At(C(t), "answer") /\ Loads(t, "over", th[C(t)].i, th[C(t)].buff)
           /\ downloads' = downloads /\ stored' = stored /\ mishaps' = mishaps
<1>1. Loads(t, "over", th[C(t)].i, th[C(t)].buff)
  BY ClientGoto, LoadsFrom DEF CAnswerFails, CLabels, lists, net
<1>2. QED
  BY <1>1 DEF CAnswerFails, lists

LEMMA CLengthIs ==
    ASSUME Shape, NEW t \in Transfers, CLength(t)
    PROVE  /\ At(C(t), "length")
           /\ \/ Loads(t, "chdir_w", th[C(t)].i, th[C(t)].buff) /\ downloads' = downloads
              \/ Loads(t, "over", th[C(t)].i, th[C(t)].buff) /\ t \notin downloads'[Client(t)]
           /\ stored' = stored /\ mishaps' = mishaps /\ s2c' = s2c /\ c2s' = c2s
<1>1. /\ At(C(t), "length") /\ route' = route /\ up' = up /\ aio' = aio
      /\ uploads' = uploads /\ mishaps' = mishaps /\ stored' = stored /\ s2c' = s2c /\ c2s' = c2s
  BY DEF CLength, blocks, net
<1>2. CASE Goto(C(t), "chdir_w") /\ UNCHANGED downloads
  BY <1>1, <1>2, ClientGoto, LoadsFrom DEF CLabels
<1>3. CASE RemoveDEntry(t) /\ Goto(C(t), "over")
  <2>1. Loads(t, "over", th[C(t)].i, th[C(t)].buff)
    BY <1>1, <1>3, ClientGoto, LoadsFrom DEF CLabels, RemoveDEntry
  <2>2. t \notin downloads'[Client(t)]
    BY <1>3, TwoEnds DEF RemoveDEntry, Shape, Types, Rest
  <2>3. QED
    BY <1>1, <2>1, <2>2
<1>4. QED
  BY <1>2, <1>3 DEF CLength

LEMMA CChdirIs ==
    ASSUME Shape, NEW t \in Transfers, CChdir(t)
    PROVE  /\ At(C(t), "chdir_w") /\ Loads(t, "open_w", th[C(t)].i, th[C(t)].buff)
           /\ Malloc(C(t))
           /\ downloads' = downloads /\ stored' = stored /\ s2c' = s2c /\ c2s' = c2s
<1>1. PICK w \in {"start", "upload"} : th' = [th EXCEPT ![C(t)].wd = w, ![C(t)].pc = "open_w"]
  <2>1. cwd[Client(t)] \in {"start", "upload"}
    BY TwoEnds DEF Shape, Types, Rest
  <2>2. QED
    BY <2>1 DEF CChdir
<1>2. Moves(C(t), "open_w", th[C(t)].i, th[C(t)].buff)
  BY <1>1, TwoEnds, WorkdirEffect DEF Labels, Moves
<1>3. aio' = aio /\ mishaps \subseteq mishaps'
  BY TwoEnds, MallocEffect DEF CChdir
<1>4. Loads(t, "open_w", th[C(t)].i, th[C(t)].buff)
  BY <1>2, <1>3, LoadsFrom DEF CChdir, lists, net
<1>5. QED
  BY <1>4 DEF CChdir, lists, net

LEMMA COpenIs ==
    ASSUME Shape, NEW t \in Transfers, COpen(t)
    PROVE  /\ At(C(t), "open_w") /\ Loads(t, "read", th[C(t)].i, th[C(t)].buff)
           /\ downloads' = downloads /\ stored' = stored /\ s2c' = s2c /\ c2s' = c2s
           /\ mishaps' = mishaps
<1>1. Loads(t, "read", th[C(t)].i, th[C(t)].buff)
  BY ClientGoto, LoadsFrom DEF COpen, CLabels, blocks, net
<1>2. QED
  BY <1>1 DEF COpen, net

LEMMA CReadIs ==
    ASSUME Shape, NEW t \in Transfers, CRead(t)
    PROVE  /\ At(C(t), "read") /\ s2c[t] # << >>
           /\ \E l \in {"submit", "read"} : \E b :
                 /\ Loads(t, l, th[C(t)].i, b)
                 /\ \/ l = "submit" /\ Head(s2c[t]) \in Data(t) /\ b = Head(s2c[t]) /\ mishaps' = mishaps
                    \/ <<t, "text">> \in mishaps'
           /\ s2c'[t] = Tail(s2c[t]) /\ c2s' = c2s /\ downloads' = downloads /\ stored' = stored
<1>1. /\ At(C(t), "read") /\ route' = route /\ up' = up /\ aio' = aio
      /\ uploads' = uploads /\ downloads' = downloads /\ stored' = stored /\ c2s' = c2s
  BY DEF CRead, lists, blocks
<1>2. /\ s2c[t] # << >> /\ s2c'[t] = Tail(s2c[t])
      /\ \A u \in Transfers : u # t => s2c'[u] = s2c[u]
  BY ArrivesEffect DEF CRead
<1>3. ASSUME NEW m \in Data(t), th' = [th EXCEPT ![C(t)].buff = m, ![C(t)].pc = "submit"],
             mishaps \subseteq mishaps'
      PROVE  Loads(t, "submit", th[C(t)].i, m)
  <2>1. m \in Pieces \cup {Junk}
    BY DEF Data, Pieces
  <2>2. th' = [th EXCEPT ![C(t)].buff = m, ![C(t)].pc = "submit"] \/ th' = [th EXCEPT ![C(t)].pc = "submit", ![C(t)].buff = m]
    BY <1>3
  <2>3. Moves(C(t), "submit", th[C(t)].i, m)
    <3>1. C(t) \in Threads /\ "submit" \in Labels
      BY TwoEnds DEF Labels
    <3>2. /\ Only(C(t))
          /\ th'[C(t)].pc = "submit" /\ th'[C(t)].i = th[C(t)].i /\ th'[C(t)].wd = th[C(t)].wd
          /\ th'[C(t)].buff = m
      BY <2>1, <2>2, <3>1, SetEffect
    <3>3. QED
      BY <3>2 DEF Moves
  <2>4. QED
    BY <1>1, <1>2, <1>3, <2>3, LoadsFrom
<1>4. CASE \E m \in Data(t) : /\ Arrives(t, m)
                             /\ th' = [th EXCEPT ![C(t)].buff = m, ![C(t)].pc = "submit"]
                             /\ UNCHANGED mishaps
  <2>1. PICK m \in Data(t) : /\ Head(s2c[t]) = m
                             /\ th' = [th EXCEPT ![C(t)].buff = m, ![C(t)].pc = "submit"]
                             /\ UNCHANGED mishaps
    BY <1>4 DEF Arrives
  <2>2. Loads(t, "submit", th[C(t)].i, m)
    BY <1>3, <2>1
  <2>3. QED
    BY <1>1, <1>2, <2>1, <2>2
<1>5. CASE Mishap(t, "text") /\ th' = [th EXCEPT ![C(t)].buff = Junk, ![C(t)].pc = "submit"]
  <2>1. mishaps \subseteq mishaps' /\ <<t, "text">> \in mishaps'
    BY <1>5 DEF Mishap
  <2>2. Loads(t, "submit", th[C(t)].i, Junk)
    BY <1>3, <1>5, <2>1, JunkIsData
  <2>3. QED
    BY <1>1, <1>2, <2>1, <2>2
<1>6. CASE Mishap(t, "text") /\ UNCHANGED th
  <2>1. mishaps \subseteq mishaps' /\ <<t, "text">> \in mishaps'
    BY <1>6 DEF Mishap
  <2>2. Moves(C(t), "read", th[C(t)].i, th[C(t)].buff)
    BY <1>1, <1>6 DEF Moves, Only, At, pc, Shape, Types
  <2>3. Loads(t, "read", th[C(t)].i, th[C(t)].buff)
    BY <1>1, <1>2, <2>1, <2>2, LoadsFrom
  <2>4. QED
    BY <1>1, <1>2, <2>1, <2>3
<1>7. QED
  BY <1>4, <1>5, <1>6 DEF CRead, Data

LEMMA CGivesUpIs ==
    ASSUME Shape, NEW t \in Transfers, CGivesUp(t)
    PROVE  \/ /\ Loads(t, "over", 1, Junk)
              /\ t \notin downloads'[Client(t)] \/ <<t, "srvc">> \in mishaps'
              /\ s2c' = s2c /\ c2s' = c2s
              /\ \A what : what # "srvc" /\ <<t, what>> \in mishaps' => <<t, what>> \in mishaps
           \/ Abort(Client(t))
<1>1. SUFFICES ASSUME Leave(C(t), "over"),
                      \/ RemoveDEntry(t) /\ UNCHANGED mishaps
                      \/ UNCHANGED downloads /\ Mishap(t, "srvc"),
                      UNCHANGED <<found, uploads, deleted, net>>
               PROVE  /\ Loads(t, "over", 1, Junk)
                      /\ t \notin downloads'[Client(t)] \/ <<t, "srvc">> \in mishaps'
                      /\ s2c' = s2c /\ c2s' = c2s
                      /\ \A what : what # "srvc" /\ <<t, what>> \in mishaps' => <<t, what>> \in mishaps
  BY DEF CGivesUp
<1>2. C(t) \in Threads /\ C(t)[1] = t /\ Client(t) \in Processes
  BY TwoEnds
<1>3. /\ Moves(C(t), "over", 1, Junk) /\ route' = route /\ up' = up /\ aio' = aio
      /\ \A u \in Transfers : u # t => stored'[u] = stored[u]
  BY <1>1, <1>2, LeaveEffect DEF Labels, Moves
<1>4. s2c' = s2c /\ c2s' = c2s /\ mishaps \subseteq mishaps' /\ uploads' = uploads
  BY <1>1 DEF net, Mishap
<1>5. Loads(t, "over", 1, Junk)
  BY <1>1, <1>3, <1>4, LoadsFrom DEF RemoveDEntry
<1>6. t \notin downloads'[Client(t)] \/ <<t, "srvc">> \in mishaps'
  BY <1>1, <1>2 DEF RemoveDEntry, Mishap, Shape, Types, Rest
<1>7. \A what : what # "srvc" /\ <<t, what>> \in mishaps' => <<t, what>> \in mishaps
  BY <1>1 DEF Mishap
<1>8. QED
  BY <1>4, <1>5, <1>6, <1>7

LEMMA CAckIs ==
    ASSUME Shape, NEW t \in Transfers, CAck(t)
    PROVE  /\ At(C(t), "ack") /\ s2c' = s2c /\ mishaps' = mishaps
           /\ Open(S(t)) => c2s'[t] = Append(c2s[t], "ok")
           /\ ~ Open(S(t)) => c2s'[t] = c2s[t]
           /\ \/ /\ th[C(t)].i < Parts(t)
                 /\ Loads(t, "read", th[C(t)].i + 1, th[C(t)].buff) /\ downloads' = downloads
              \/ /\ th[C(t)].i = Parts(t)
                 /\ Loads(t, "finished", 1, Junk) /\ t \notin downloads'[Client(t)]
           /\ stored' = stored
<1>1. /\ At(C(t), "ack") /\ s2c' = s2c /\ mishaps' = mishaps
  BY DEF CAck
<1>2. /\ Open(S(t)) => c2s'[t] = Append(c2s[t], "ok")
      /\ ~ Open(S(t)) => c2s'[t] = c2s[t]
      /\ \A u \in Transfers : u # t => c2s'[u] = c2s[u]
  BY DEF CAck, Shape, Types, Rest
<1>3. C(t) \in Threads /\ C(t)[1] = t /\ Client(t) \in Processes
  BY TwoEnds
<1>4. CASE /\ th[C(t)].i < Parts(t)
           /\ th' = [th EXCEPT ![C(t)].i = @ + 1, ![C(t)].pc = "read"]
           /\ UNCHANGED <<route, up, lists, cwd, blocks, stored>>
  <2>1. Moves(C(t), "read", th[C(t)].i + 1, th[C(t)].buff)
    BY <1>3, <1>4, NextPart DEF Labels, Moves
  <2>2. Loads(t, "read", th[C(t)].i + 1, th[C(t)].buff)
    BY <1>1, <1>2, <1>4, <2>1, LoadsFrom DEF lists, blocks
  <2>3. QED
    BY <1>1, <1>2, <1>4, <2>2 DEF lists
<1>5. CASE /\ th[C(t)].i = Parts(t)
           /\ RemoveDEntry(t) /\ Leave(C(t), "finished") /\ UNCHANGED uploads
  <2>1. /\ Moves(C(t), "finished", 1, Junk) /\ route' = route /\ up' = up /\ aio' = aio
        /\ stored' = stored
    BY <1>3, <1>5, LeaveEffect DEF Labels, Moves
  <2>2. Loads(t, "finished", 1, Junk)
    BY <1>1, <1>2, <1>5, <2>1, LoadsFrom DEF RemoveDEntry
  <2>3. t \notin downloads'[Client(t)]
    BY <1>3, <1>5 DEF RemoveDEntry, Shape, Types, Rest
  <2>4. QED
    BY <1>1, <1>2, <1>5, <2>1, <2>2, <2>3
<1>6. QED
  BY <1>4, <1>5 DEF CAck

\* Asynchronous I/O, of either end.
LEMMA ThreadElsewhere ==
    ASSUME Shape, NEW h \in Threads, Only(h), route' = route, up' = up, mishaps \subseteq mishaps',
           uploads' = uploads, downloads' = downloads, s2c' = s2c, c2s' = c2s,
           \A u \in Transfers : u # h[1] => stored'[u] = stored[u]
    PROVE  Elsewhere(h[1])
<1>1. h[1] \in Transfers /\ (Only(C(h[1])) \/ Only(S(h[1])))
  BY OneEnd
<1>2. PICK X, Y : X = uploads[Server(h[1])] \cup {h[1]} /\ Y = downloads[Client(h[1])] \cup {h[1]}
  OBVIOUS
<1>3. QED
  BY <1>1, <1>2, ElsewhereFrom

LEMMA SubmitElsewhere ==
    ASSUME Shape, NEW h \in Threads, Submit(h)
    PROVE  Elsewhere(h[1])
<1>1. /\ Only(h) /\ route' = route /\ lists' = lists /\ up' = up /\ s2c' = s2c /\ c2s' = c2s
      /\ mishaps' = mishaps /\ (stored' = stored \/ Written(h, th[h].i))
  BY SubmitEffect
<1>2. \A u \in Transfers : u # h[1] => stored'[u] = stored[u]
  BY <1>1, WrittenEffect
<1>3. QED
  BY <1>1, <1>2, ThreadElsewhere DEF lists

LEMMA WaitElsewhere ==
    ASSUME Shape, NEW h \in Threads, Wait(h)
    PROVE  Elsewhere(h[1])
<1>1. /\ Only(h) /\ route' = route /\ lists' = lists /\ up' = up /\ s2c' = s2c /\ c2s' = c2s
      /\ stored' = stored
  BY WaitEffect
<1>2. mishaps \subseteq mishaps'
  BY WaitEffect
<1>3. QED
  BY <1>1, <1>2, ThreadElsewhere DEF lists

LEMMA AioFailsIs ==
    ASSUME Shape, NEW h \in Threads, AioFails(h)
    PROVE  /\ Elsewhere(h[1])
           /\ Moves(h, IF h[2] = "client" THEN "over" ELSE "error", 1, Junk)
           /\ lists' = lists /\ aio' = aio /\ s2c' = s2c /\ c2s' = c2s
           /\ h[2] = "server" => stored' = stored
           /\ mishaps' = mishaps \cup {<<h[1], "aio failed">>}
<1>1. PICK l \in {"over", "error"} :
         l = (IF h[2] = "client" THEN "over" ELSE "error") /\ Leave(h, l)
  BY DEF AioFails
<1>2. /\ Moves(h, l, 1, Junk) /\ route' = route /\ up' = up /\ aio' = aio
      /\ \A u \in Transfers : u # h[1] => stored'[u] = stored[u]
      /\ h[2] = "server" => stored' = stored
  BY <1>1, LeaveEffect DEF Labels, Moves
<1>3. /\ lists' = lists /\ s2c' = s2c /\ c2s' = c2s
      /\ mishaps' = mishaps \cup {<<h[1], "aio failed">>}
  BY DEF AioFails, net, Mishap
<1>4. Elsewhere(h[1])
  BY <1>2, <1>3, ThreadElsewhere DEF lists, Moves
<1>5. QED
  BY <1>1, <1>2, <1>3, <1>4

LEMMA CompleteElsewhere ==
    ASSUME Shape, NEW p \in Processes, NEW r, NEW ok, Completes(p, r, ok)
    PROVE  Elsewhere(r.by[1])
<1>1. Only(r.by) /\ r.by \in Threads
  BY CompleteEffect
<1>2. /\ route' = route /\ lists' = lists /\ up' = up /\ s2c' = s2c /\ c2s' = c2s
      /\ mishaps' = mishaps /\ (stored' = stored \/ Written(r.by, r.part))
  BY DEF Completes, lists, net
<1>3. \A u \in Transfers : u # r.by[1] => stored'[u] = stored[u]
  BY <1>1, <1>2, WrittenEffect
<1>4. QED
  BY <1>1, <1>2, <1>3, ThreadElsewhere DEF lists

-----------------------------------------------------------------------------
(* The lists. *)
LEMMA InitList == Init => ListInv
<1> SUFFICES ASSUME Init, NEW t \in Transfers PROVE Listed(t) /\ Begins(t)
  BY DEF ListInv
<1>1. C(t) \in Threads /\ S(t) \in Threads /\ Client(t) \in Processes /\ Server(t) \in Processes
  BY InitShape, TwoEnds
<1>2. pc(C(t)) = "none" /\ pc(S(t)) = "none"
  BY <1>1 DEF Init, pc, Idle
<1>3. t \notin uploads[Server(t)] /\ t \notin downloads[Client(t)] /\ s2c[t] = << >> /\ c2s[t] = << >>
  BY <1>1 DEF Init
<1>4. QED
  BY <1>2, <1>3 DEF Listed, Begins, Downloading, Transferring, At

\* Elsewhere the lists match as before.
LEMMA ListElsewhere ==
    ASSUME Shape, ListInv, NEW t \in Transfers, Elsewhere(t), Listed(t)', Begins(t)'
    PROVE  ListInv'
<1> SUFFICES ASSUME NEW u \in Transfers, u # t PROVE Listed(u)' /\ Begins(u)'
  BY DEF ListInv
<1>1. /\ th'[C(u)] = th[C(u)] /\ th'[S(u)] = th[S(u)]
      /\ s2c'[u] = s2c[u] /\ c2s'[u] = c2s[u]
      /\ u \in uploads'[Server(u)] <=> u \in uploads[Server(u)]
      /\ u \in downloads'[Client(u)] <=> u \in downloads[Client(u)]
      /\ route' = route /\ up' = up /\ mishaps \subseteq mishaps'
  BY DEF Elsewhere
<1>2. pc(C(u))' = pc(C(u)) /\ pc(S(u))' = pc(S(u)) /\ Server(u)' = Server(u) /\ Client(u)' = Client(u)
  BY <1>1 DEF pc, C, S, Server, Client
<1>3. Listed(u) /\ Begins(u)
  BY DEF ListInv
<1>4. Listed(u)'
  BY <1>1, <1>2, <1>3 DEF Listed, Downloading
<1>5. Begins(u)'
  BY <1>1, <1>2, <1>3 DEF Begins, At
<1>6. QED
  BY <1>4, <1>5

LEMMA ServerListed ==
    ASSUME Shape, ListInv, NEW t \in Transfers, NEW l, Elsewhere(t),
           th'[C(t)] = th[C(t)], th'[S(t)].pc = l, pc(S(t)) # "none", downloads' = downloads,
           l \in Transferring => t \in uploads'[Server(t)],
           t \in uploads'[Server(t)] => l \in Transferring \/ <<t, "aio failed">> \in mishaps',
           ~ Open(C(t)) => s2c'[t] = s2c[t] /\ (c2s'[t] = c2s[t] \/ c2s[t] # << >>)
    PROVE  ListInv'
<1>1. Listed(t) /\ Begins(t)
  BY DEF ListInv
<1>2. route' = route /\ up' = up /\ mishaps \subseteq mishaps'
  BY DEF Elsewhere
<1>3. pc(C(t))' = pc(C(t)) /\ pc(S(t))' = l /\ Server(t)' = Server(t) /\ Client(t)' = Client(t)
  BY <1>2 DEF pc, C, S, Server, Client
<1>4. Listed(t)'
  BY <1>1, <1>2, <1>3 DEF Listed, Downloading
<1>5. pc(C(t)) \in {"none", "connect"} => ~ Open(C(t))
  BY DEF Open, Ended
<1>6. Begins(t)'
  BY <1>1, <1>2, <1>3, <1>5 DEF Begins, At
<1>7. QED
  BY <1>4, <1>6, ListElsewhere

\* What the threads of t are and stay.
LEMMA ServesKeeps ==
    ASSUME Shape, NEW t \in Transfers, NEW l, NEW n, NEW b, Serves(t, l, n, b)
    PROVE  /\ Elsewhere(t) /\ th'[C(t)] = th[C(t)]
           /\ th'[S(t)].pc = l /\ th'[S(t)].i = n /\ th'[S(t)].buff = b
           /\ stored' = stored /\ downloads' = downloads /\ aio' = aio
BY TwoEnds DEF Serves, Moves, Only

LEMMA LoadsKeeps ==
    ASSUME Shape, NEW t \in Transfers, NEW l, NEW n, NEW b, Loads(t, l, n, b)
    PROVE  /\ Elsewhere(t) /\ th'[S(t)] = th[S(t)]
           /\ th'[C(t)].pc = l /\ th'[C(t)].i = n /\ th'[C(t)].buff = b
           /\ uploads' = uploads /\ aio' = aio
BY TwoEnds DEF Loads, Moves, Only

LEMMA ServesListed ==
    ASSUME Shape, ListInv, NEW t \in Transfers, NEW l, NEW n, NEW b, Serves(t, l, n, b),
           pc(S(t)) # "none",
           \/ l \in Transferring /\ pc(S(t)) \in Transferring /\ uploads' = uploads
           \/ l \notin Transferring /\ pc(S(t)) \notin Transferring /\ uploads' = uploads
           \/ l \in Transferring /\ t \in uploads'[Server(t)]
           \/ l \notin Transferring /\ t \notin uploads'[Server(t)],
           ~ Open(C(t)) => s2c'[t] = s2c[t],
           c2s'[t] = c2s[t] \/ c2s[t] # << >>
    PROVE  ListInv'
<1>1. Elsewhere(t) /\ th'[C(t)] = th[C(t)] /\ th'[S(t)].pc = l /\ downloads' = downloads
  BY ServesKeeps
<1>2. Listed(t) /\ mishaps \subseteq mishaps'
  BY <1>1 DEF ListInv, Elsewhere
<1>3. /\ l \in Transferring => t \in uploads'[Server(t)]
      /\ t \in uploads'[Server(t)] => l \in Transferring \/ <<t, "aio failed">> \in mishaps'
  BY <1>2 DEF Listed
<1>4. QED
  BY <1>1, <1>3, ServerListed

LEMMA ClientListed ==
    ASSUME Shape, ListInv, NEW t \in Transfers, NEW l, Elsewhere(t),
           th'[S(t)] = th[S(t)], th'[C(t)].pc = l, l \notin {"none", "connect"}, uploads' = uploads,
           l \in {"length", "chdir_w", "open_w"} \cup Transferring => t \in downloads'[Client(t)],
           t \in downloads'[Client(t)] => \/ l \in {"length", "chdir_w", "open_w"} \cup Transferring
                                         \/ <<t, "aio failed">> \in mishaps'
                                         \/ <<t, "srvc">> \in mishaps'
    PROVE  ListInv'
<1>1. Listed(t) /\ Begins(t)
  BY DEF ListInv
<1>2. route' = route /\ up' = up /\ mishaps \subseteq mishaps'
  BY DEF Elsewhere
<1>3. pc(C(t))' = l /\ pc(S(t))' = pc(S(t)) /\ Server(t)' = Server(t) /\ Client(t)' = Client(t)
  BY <1>2 DEF pc, C, S, Server, Client
<1>4. Listed(t)'
  BY <1>1, <1>2, <1>3 DEF Listed, Downloading
<1>5. Begins(t)'
  BY <1>3 DEF Begins
<1>6. QED
  BY <1>4, <1>5, ListElsewhere

LEMMA LoadsListed ==
    ASSUME Shape, ListInv, NEW t \in Transfers, NEW l, NEW n, NEW b, Loads(t, l, n, b),
           l \notin {"none", "connect"},
           \/ Downloading(t) /\ l \in {"length", "chdir_w", "open_w"} \cup Transferring
              /\ (t \in downloads'[Client(t)] <=> t \in downloads[Client(t)])
           \/ ~ Downloading(t) /\ l \notin {"length", "chdir_w", "open_w"} \cup Transferring
              /\ (t \in downloads'[Client(t)] <=> t \in downloads[Client(t)])
           \/ l \in {"length", "chdir_w", "open_w"} \cup Transferring /\ t \in downloads'[Client(t)]
           \/ l \notin {"length", "chdir_w", "open_w"} \cup Transferring
              /\ (t \notin downloads'[Client(t)] \/ <<t, "srvc">> \in mishaps')
    PROVE  ListInv'
<1>1. Elsewhere(t) /\ th'[S(t)] = th[S(t)] /\ th'[C(t)].pc = l /\ uploads' = uploads
  BY LoadsKeeps
<1>2. Listed(t) /\ mishaps \subseteq mishaps'
  BY <1>1 DEF ListInv, Elsewhere
<1>3. /\ l \in {"length", "chdir_w", "open_w"} \cup Transferring => t \in downloads'[Client(t)]
      /\ t \in downloads'[Client(t)] => \/ l \in {"length", "chdir_w", "open_w"} \cup Transferring
                                        \/ <<t, "aio failed">> \in mishaps'
                                        \/ <<t, "srvc">> \in mishaps'
  BY <1>2 DEF Listed, Downloading
<1>4. QED
  BY <1>1, <1>3, ClientListed

LEMMA AbortListed ==
    ASSUME Shape, ListInv, NEW p \in Processes, Abort(p)
    PROVE  ListInv'
<1> SUFFICES ASSUME NEW u \in Transfers PROVE Listed(u)' /\ Begins(u)'
  BY DEF ListInv
<1>1. Listed(u) /\ Begins(u)
  BY DEF ListInv
<1>2. /\ C(u) \in Threads /\ S(u) \in Threads /\ Proc(C(u)) = Client(u) /\ Proc(S(u)) = Server(u)
      /\ Client(u) \in Processes /\ Server(u) \in Processes
  BY TwoEnds
<1>3. /\ \A h \in Threads : Proc(h) # p => th'[h] = th[h]
      /\ \A h \in Threads : Proc(h) = p => th'[h] = Idle("dead")
      /\ route' = route /\ up' \subseteq up /\ mishaps' = mishaps /\ s2c' = s2c /\ c2s' = c2s
  BY AbortEffect
<1>4. uploads' = [uploads EXCEPT ![p] = {}] /\ downloads' = [downloads EXCEPT ![p] = {}] /\ p \notin up'
  BY DEF Abort
<1>5. uploads \in [Processes -> SUBSET Transfers] /\ downloads \in [Processes -> SUBSET Transfers]
  BY DEF Shape, Types, Rest
<1>6. Server(u)' = Server(u) /\ Client(u)' = Client(u)
  BY <1>3 DEF Server, Client
<1>7. Idle("dead").pc = "dead"
  BY DEF Idle
<1>8. /\ Client(u) = p => pc(C(u))' = "dead" /\ u \notin downloads'[Client(u)]
      /\ Client(u) # p => pc(C(u))' = pc(C(u)) /\ downloads'[Client(u)] = downloads[Client(u)]
  BY <1>2, <1>3, <1>4, <1>5, <1>7 DEF pc, C
<1>9. /\ Server(u) = p => pc(S(u))' = "dead" /\ u \notin uploads'[Server(u)]
      /\ Server(u) # p => pc(S(u))' = pc(S(u)) /\ uploads'[Server(u)] = uploads[Server(u)]
  BY <1>2, <1>3, <1>4, <1>5, <1>7 DEF pc, S
<1>10. Listed(u)'
  BY <1>1, <1>3, <1>6, <1>8, <1>9 DEF Listed, Downloading, Transferring
<1>11. Begins(u)'
  BY <1>1, <1>3, <1>4, <1>6, <1>8, <1>9 DEF Begins, At
<1>12. QED
  BY <1>10, <1>11

LEMMA AioListed ==
    ASSUME Shape, ListInv, NEW h \in Threads, AioStep(h)
    PROVE  ListInv'
<1> DEFINE t == h[1]
<1>1. t \in Transfers /\ (h = C(t) \/ h = S(t)) /\ Proc(h) \in Processes
  BY OneEnd
<1>2. Listed(t) /\ C(t) # S(t) /\ C(t) \in Threads /\ S(t) \in Threads
      /\ C(t)[2] = "client" /\ S(t)[2] = "server"
  BY <1>1, TwoEnds DEF ListInv
<1> HIDE DEF t
<1>3. ASSUME Elsewhere(t), Only(h), At(h, "submit") \/ At(h, "wait"),
             NEW l, th'[h].pc = l, uploads' = uploads, downloads' = downloads,
             s2c' = s2c, c2s' = c2s,
             \/ l \in Transferring
             \/ /\ l \notin Transferring \cup {"none", "connect", "length", "chdir_w", "open_w"}
                /\ <<t, "aio failed">> \in mishaps'
      PROVE  ListInv'
  <2>1. CASE h = C(t)
    <3>1. th'[S(t)] = th[S(t)] /\ th'[C(t)].pc = l
      BY <1>2, <1>3, <2>1 DEF Only
    <3>2. t \in downloads'[Client(t)]
      BY <1>2, <1>3, <2>1 DEF Listed, Downloading, At, Transferring
    <3>3. l \notin {"none", "connect"}
      BY <1>3 DEF Transferring
    <3>4. l \in {"length", "chdir_w", "open_w"} \cup Transferring \/ <<t, "aio failed">> \in mishaps'
      BY <1>3
    <3>5. QED
      BY <1>1, <1>3, <3>1, <3>2, <3>3, <3>4, ClientListed
  <2>2. CASE h = S(t)
    <3>1. th'[C(t)] = th[C(t)] /\ th'[S(t)].pc = l
      BY <1>2, <1>3, <2>2 DEF Only
    <3>2. t \in uploads'[Server(t)] /\ pc(S(t)) # "none"
      BY <1>2, <1>3, <2>2 DEF Listed, At, Transferring
    <3>3. QED
      BY <1>1, <1>3, <3>1, <3>2, ServerListed
  <2>3. QED
    BY <1>1, <2>1, <2>2
<1>4. AfterIO(h) \in Transferring
  BY DEF AfterIO, Transferring
<1>5. CASE Submit(h)
  <2>1. /\ Elsewhere(t) /\ Only(h) /\ At(h, "submit") /\ th'[h].pc \in Transferring
        /\ uploads' = uploads /\ downloads' = downloads /\ s2c' = s2c /\ c2s' = c2s
    BY <1>4, <1>5, SubmitEffect, SubmitElsewhere DEF Transferring, lists, t
  <2>2. PICK l \in Transferring : th'[h].pc = l
    BY <2>1
  <2>3. QED
    BY <1>3, <2>1, <2>2
<1>6. CASE Wait(h)
  <2>1. /\ Elsewhere(t) /\ Only(h) /\ At(h, "wait") /\ th'[h].pc \in Transferring
        /\ uploads' = uploads /\ downloads' = downloads /\ s2c' = s2c /\ c2s' = c2s
    BY <1>4, <1>6, WaitEffect, WaitElsewhere DEF lists, t
  <2>2. PICK l \in Transferring : th'[h].pc = l
    BY <2>1
  <2>3. QED
    BY <1>3, <2>1, <2>2
<1>7. CASE SubmitFails(h) \/ WaitFails(h)
  <2>1. (At(h, "submit") \/ At(h, "wait")) /\ AioFails(h)
    BY <1>7 DEF SubmitFails, WaitFails
  <2>2. PICK l \in {"over", "error"} : Moves(h, l, 1, Junk)
    BY <2>1, AioFailsIs
  <2>3. /\ Elsewhere(t) /\ Only(h) /\ th'[h].pc = l
        /\ uploads' = uploads /\ downloads' = downloads /\ s2c' = s2c /\ c2s' = c2s
        /\ <<t, "aio failed">> \in mishaps'
    BY <2>1, <2>2, AioFailsIs DEF lists, t, Moves
  <2>4. l \notin Transferring \cup {"none", "connect", "length", "chdir_w", "open_w"}
    BY DEF Transferring
  <2>5. QED
    BY <1>3, <2>1, <2>3, <2>4
<1>8. CASE BadPointer(h)
  BY <1>1, <1>8, AbortListed DEF BadPointer
<1>9. QED
  BY <1>5, <1>6, <1>7, <1>8 DEF AioStep

LEMMA TCPhandlerListed ==
    ASSUME Shape, ListInv, NEW t \in Transfers, TCPhandler(t)
    PROVE  ListInv'
<1>1. CASE SRequest(t)
  <2>1. PICK l \in {"getcwd", "over"} : Serves(t, l, th[S(t)].i, th[S(t)].buff)
    BY <1>1, SRequestIs
  <2>2. l \notin Transferring /\ pc(S(t)) \notin Transferring /\ pc(S(t)) # "none"
    BY <1>1, SRequestIs DEF At, Transferring
  <2>3. uploads' = uploads /\ s2c' = s2c /\ c2s' = c2s
    BY <1>1, SRequestIs
  <2>4. QED
    BY <2>1, <2>2, <2>3, ServesListed
<1>2. CASE SGetcwd(t)
  <2>1. pc(S(t)) \notin Transferring /\ pc(S(t)) # "none" /\ "open_r" \notin Transferring
    BY <1>2, SGetcwdIs DEF At, Transferring
  <2>2. QED
    BY <1>2, <2>1, SGetcwdIs, ServesListed
<1>3. CASE SOpen(t)
  <2>1. pc(S(t)) # "none" /\ "submit" \in Transferring
    BY <1>3, SOpenIs DEF At, Transferring
  <2>2. QED
    BY <1>3, <2>1, SOpenIs, ServesListed
<1>4. CASE SOpenFails(t)
  <2>1. pc(S(t)) \notin Transferring /\ pc(S(t)) # "none" /\ "error" \notin Transferring
    BY <1>4, SOpenFailsIs DEF At, Transferring
  <2>2. QED
    BY <1>4, <2>1, SOpenFailsIs, ServesListed
<1>5. CASE SSend(t)
  <2>1. pc(S(t)) \in Transferring /\ pc(S(t)) # "none" /\ "ack" \in Transferring
    BY <1>5, SSendIs DEF At, Transferring
  <2>2. QED
    BY <1>5, <2>1, SSendIs, ServesListed
<1>6. CASE SAck(t)
  <2>1. pc(S(t)) \in Transferring /\ pc(S(t)) # "none" /\ "submit" \in Transferring /\ "over" \notin Transferring
    BY <1>6, SAckIs DEF At, Transferring
  <2>2. s2c' = s2c /\ c2s[t] # << >>
    BY <1>6, SAckIs
  <2>3. CASE Serves(t, "submit", th[S(t)].i + 1, th[S(t)].buff) /\ uploads' = uploads
    BY <2>1, <2>2, <2>3, ServesListed
  <2>4. CASE Serves(t, "over", 1, Junk) /\ t \notin uploads'[Server(t)]
    BY <2>1, <2>2, <2>4, ServesListed
  <2>5. QED
    BY <1>6, <2>3, <2>4, SAckIs
<1>7. CASE SSendFails(t) \/ SAckFails(t)
  <2>1. pc(S(t)) # "none" /\ "error" \notin Transferring
    BY <1>7, SFails DEF At, Transferring
  <2>2. QED
    BY <1>7, <2>1, SFails, ServesListed
<1>8. CASE SError(t)
  <2>1. PICK l \in {"confirm", "over"} : Serves(t, l, th[S(t)].i, th[S(t)].buff)
    BY <1>8, SErrorIs
  <2>2. l \notin Transferring /\ pc(S(t)) \notin Transferring /\ pc(S(t)) # "none"
    BY <1>8, SErrorIs DEF At, Transferring
  <2>3. uploads' = uploads /\ c2s' = c2s /\ (~ Open(C(t)) => s2c'[t] = s2c[t])
    BY <1>8, SErrorIs
  <2>4. QED
    BY <2>1, <2>2, <2>3, ServesListed
<1>9. CASE SConfirm(t)
  <2>1. pc(S(t)) \notin Transferring /\ pc(S(t)) # "none" /\ "over" \notin Transferring
    BY <1>9, SConfirmIs DEF At, Transferring
  <2>2. QED
    BY <1>9, <2>1, SConfirmIs, ServesListed
<1>10. CASE AioStep(S(t))
  BY <1>10, TwoEnds, AioListed
<1>11. QED
  BY <1>1, <1>2, <1>3, <1>4, <1>5, <1>6, <1>7, <1>8, <1>9, <1>10 DEF TCPhandler

LEMMA TCPTransferListed ==
    ASSUME Shape, ListInv, NEW t \in Transfers, TCPTransfer(t)
    PROVE  ListInv'
<1> DEFINE Busy == {"length", "chdir_w", "open_w"} \cup Transferring
<1>1. /\ "over" \notin Busy /\ "finished" \notin Busy /\ "answer" \notin Busy
      /\ "length" \in Busy /\ "chdir_w" \in Busy /\ "open_w" \in Busy
      /\ "read" \in Busy /\ "submit" \in Busy /\ "ack" \in Busy
  BY DEF Transferring
<1>2. Client(t) \in Processes
  BY TwoEnds
<1>3. Downloading(t) <=> pc(C(t)) \in Busy
  BY DEF Downloading
<1>4. ASSUME NEW l, NEW n, NEW b, Loads(t, l, n, b), l \notin {"none", "connect"},
             \/ pc(C(t)) \in Busy /\ l \in Busy /\ downloads' = downloads
             \/ /\ pc(C(t)) \notin Busy /\ l \notin Busy
                /\ (t \in downloads'[Client(t)] <=> t \in downloads[Client(t)])
             \/ l \in Busy /\ t \in downloads'[Client(t)]
             \/ l \notin Busy /\ (t \notin downloads'[Client(t)] \/ <<t, "srvc">> \in mishaps')
      PROVE  ListInv'
  BY <1>3, <1>4, LoadsListed
<1> HIDE DEF Busy
<1>5. CASE CConnect(t)
  <2>1. At(C(t), "connect") /\ downloads' = downloads /\ s2c' = s2c /\ c2s' = c2s /\ mishaps' = mishaps
    BY <1>5, CConnectIs
  <2>2. CASE Loads(t, "over", th[C(t)].i, th[C(t)].buff)
    <3>1. pc(C(t)) \notin Busy
      BY <2>1 DEF At, Busy, Transferring
    <3>2. QED
      BY <1>1, <1>4, <2>1, <2>2, <3>1
  <2>3. CASE /\ Server(t) \in up /\ Elsewhere(t) /\ uploads' = uploads
             /\ th'[C(t)].pc = "answer" /\ th'[S(t)].pc = "request"
    <3>1. Listed(t) /\ Begins(t)
      BY DEF ListInv
    <3>2. pc(S(t)) = "none" /\ pc(C(t)) = "connect"
      BY <2>1, <2>3, <3>1 DEF Begins, At
    <3>3. /\ pc(C(t))' = "answer" /\ pc(S(t))' = "request"
          /\ Server(t)' = Server(t) /\ Client(t)' = Client(t)
      BY <2>3 DEF pc, C, S, Server, Client, Elsewhere
    <3>4. Listed(t)'
      BY <2>1, <2>3, <3>1, <3>2, <3>3 DEF Listed, Downloading, Transferring
    <3>5. Begins(t)'
      BY <3>3 DEF Begins
    <3>6. QED
      BY <2>3, <3>4, <3>5, ListElsewhere
  <2>4. QED
    BY <1>5, <2>2, <2>3, CConnectIs
<1>6. CASE CAnswer(t)
  <2>1. pc(C(t)) \notin Busy
    BY <1>6, CAnswerIs DEF At, Busy, Transferring
  <2>2. CASE Loads(t, "length", th[C(t)].i, th[C(t)].buff) /\ t \in downloads'[Client(t)]
    BY <1>1, <1>4, <2>2
  <2>3. CASE /\ Loads(t, "over", th[C(t)].i, th[C(t)].buff)
             /\ t \in downloads'[Client(t)] <=> t \in downloads[Client(t)]
    BY <1>1, <1>4, <2>1, <2>3
  <2>4. QED
    BY <1>6, <2>2, <2>3, CAnswerIs
<1>7. CASE CAnswerFails(t)
  <2>1. pc(C(t)) \notin Busy
    BY <1>7, CAnswerFailsIs DEF At, Busy, Transferring
  <2>2. QED
    BY <1>1, <1>4, <1>7, <2>1, CAnswerFailsIs
<1>8. CASE CLength(t)
  <2>1. pc(C(t)) \in Busy
    BY <1>8, CLengthIs DEF At, Busy
  <2>2. CASE Loads(t, "chdir_w", th[C(t)].i, th[C(t)].buff) /\ downloads' = downloads
    BY <1>1, <1>4, <2>1, <2>2
  <2>3. CASE Loads(t, "over", th[C(t)].i, th[C(t)].buff) /\ t \notin downloads'[Client(t)]
    BY <1>1, <1>4, <2>3
  <2>4. QED
    BY <1>8, <2>2, <2>3, CLengthIs
<1>9. CASE CChdir(t)
  <2>1. pc(C(t)) \in Busy
    BY <1>9, CChdirIs DEF At, Busy
  <2>2. QED
    BY <1>1, <1>4, <1>9, <2>1, CChdirIs
<1>10. CASE COpen(t)
  <2>1. pc(C(t)) \in Busy
    BY <1>10, COpenIs DEF At, Busy
  <2>2. QED
    BY <1>1, <1>4, <1>10, <2>1, COpenIs
<1>11. CASE COpenFails(t)
  BY <1>2, <1>11, AbortListed DEF COpenFails
<1>12. CASE CRead(t)
  <2>1. pc(C(t)) \in Busy
    BY <1>1, <1>12, CReadIs DEF At
  <2>2. PICK l \in {"submit", "read"} : \E b : Loads(t, l, th[C(t)].i, b)
    BY <1>12, CReadIs
  <2>3. QED
    BY <1>1, <1>4, <1>12, <2>1, <2>2, CReadIs
<1>13. CASE CReadFails(t) \/ CAckFails(t)
  <2>1. CGivesUp(t)
    BY <1>13 DEF CReadFails, CAckFails
  <2>2. CASE Abort(Client(t))
    BY <1>2, <2>2, AbortListed
  <2>3. CASE Loads(t, "over", 1, Junk) /\ (t \notin downloads'[Client(t)] \/ <<t, "srvc">> \in mishaps')
    BY <1>1, <1>4, <2>3
  <2>4. QED
    BY <2>1, <2>2, <2>3, CGivesUpIs
<1>14. CASE CAck(t)
  <2>1. pc(C(t)) \in Busy
    BY <1>1, <1>14, CAckIs DEF At
  <2>2. CASE Loads(t, "read", th[C(t)].i + 1, th[C(t)].buff) /\ downloads' = downloads
    BY <1>1, <1>4, <2>1, <2>2
  <2>3. CASE Loads(t, "finished", 1, Junk) /\ t \notin downloads'[Client(t)]
    BY <1>1, <1>4, <2>3
  <2>4. QED
    BY <1>14, <2>2, <2>3, CAckIs
<1>15. CASE BadEntry(t)
  BY <1>2, <1>15, AbortListed DEF BadEntry
<1>16. CASE AioStep(C(t))
  BY <1>16, TwoEnds, AioListed
<1>17. QED
  BY <1>5, <1>6, <1>7, <1>8, <1>9, <1>10, <1>11, <1>12, <1>13, <1>14, <1>15, <1>16 DEF TCPTransfer

\* A step that changes no thread's place, no list and nothing on the way.
LEMMA StillListed ==
    ASSUME Shape, ListInv, route' = route, up' = up, mishaps' = mishaps,
           uploads' = uploads, downloads' = downloads, s2c' = s2c, c2s' = c2s,
           \A h \in Threads : th'[h].pc = th[h].pc
    PROVE  ListInv'
<1> SUFFICES ASSUME NEW u \in Transfers PROVE Listed(u)' /\ Begins(u)'
  BY DEF ListInv
<1>1. Listed(u) /\ Begins(u) /\ C(u) \in Threads /\ S(u) \in Threads
  BY TwoEnds DEF ListInv
<1>2. pc(C(u))' = pc(C(u)) /\ pc(S(u))' = pc(S(u)) /\ Server(u)' = Server(u) /\ Client(u)' = Client(u)
  BY <1>1 DEF pc, C, S, Server, Client
<1>3. QED
  BY <1>1, <1>2 DEF Listed, Begins, Downloading, At

LEMMA ListStep == Shape /\ ListInv /\ [Next]_vars => ListInv'
<1> SUFFICES ASSUME Shape, ListInv, [Next]_vars PROVE ListInv'
  OBVIOUS
<1>1. CASE UNCHANGED vars
  BY <1>1, StillListed DEF vars, lists, net
<1>2. ASSUME NEW p \in Processes, LClear(p) PROVE ListInv'
  BY <1>2, StillListed DEF LClear, blocks, net
<1>3. ASSUME NEW p \in Processes, Complete(p) PROVE ListInv'
  <2>1. PICK r \in aio[p], ok \in BOOLEAN : Completes(p, r, ok)
    BY <1>3, CompleteIs
  <2>2. \A h \in Threads : th'[h].pc = th[h].pc
    BY <2>1, CompleteEffect DEF Only
  <2>3. QED
    BY <2>1, <2>2, StillListed DEF Completes, lists, net
<1>4. ASSUME NEW t \in Transfers, Get(t) PROVE ListInv'
  <2>1. /\ At(C(t), "none") /\ Elsewhere(t) /\ th'[S(t)] = th[S(t)] /\ th'[C(t)].pc = "connect"
        /\ uploads' = uploads /\ downloads' = downloads /\ s2c' = s2c /\ c2s' = c2s
    BY <1>4, GetIs, LoadsKeeps
  <2>2. Listed(t) /\ Begins(t) /\ mishaps \subseteq mishaps' /\ up' = up
    BY <2>1 DEF ListInv, Elsewhere
  <2>3. pc(C(t))' = "connect" /\ pc(S(t))' = pc(S(t)) /\ Server(t)' = Server(t) /\ Client(t)' = Client(t)
    BY <2>1 DEF pc, C, S, Server, Client, Elsewhere
  <2>4. Listed(t)'
    BY <2>1, <2>2, <2>3 DEF Listed, Downloading, Transferring, At
  <2>5. Begins(t)'
    BY <2>1, <2>2, <2>3 DEF Begins, At
  <2>6. QED
    BY <2>1, <2>4, <2>5, ListElsewhere
<1>5. ASSUME NEW t \in Transfers, TCPTransfer(t) \/ TCPhandler(t) PROVE ListInv'
  BY <1>5, TCPTransferListed, TCPhandlerListed
<1>6. QED
  BY <1>1, <1>2, <1>3, <1>4, <1>5 DEF Next

(* "listu" and "listd" show what is under way, whatever the number of      *)
(* transfers, except after the failures that leave an entry behind.        *)
THEOREM ListsAreTrue == Spec => []ListsMatch
<1>1. Init => Shape /\ ListInv
  BY InitShape, InitList
<1>2. Shape /\ ListInv /\ [Next]_vars => (Shape /\ ListInv)'
  BY ShapeStep, ListStep
<1>3. ListInv => ListsMatch
  BY DEF ListInv, Listed, ListsMatch
<1>4. QED
  BY <1>1, <1>2, <1>3, PTL DEF Spec

-----------------------------------------------------------------------------
(* Who is alone with its control block. *)
LEMMA InitAlone == Init => AloneInv
<1> SUFFICES ASSUME Init, NEW h \in Threads PROVE Alone(h)
  BY DEF AloneInv
<1>1. pc(h) = "none"
  BY DEF Init, pc, Idle
<1>2. QED
  BY <1>1 DEF Alone, InBlock, Transferring

\* Primes of what is asked of one thread.
LEMMA ThreadPrimes ==
    ASSUME NEW g, route' = route
    PROVE  /\ Proc(g)' = Proc(g)
           /\ InBlock(g)' <=> th'[g].pc \in Transferring \cup {"open_w"}
           /\ InBlock(g) <=> th[g].pc \in Transferring \cup {"open_w"}
           /\ At(g, "wait")' <=> th'[g].pc = "wait"
           /\ At(g, "wait") <=> th[g].pc = "wait"
           /\ Disturbed(g)' <=> <<g[1], "shared">> \in mishaps'
BY DEF Proc, InBlock, At, pc, Disturbed

\* Nobody comes to share what g has alone.
LEMMA StillAlone ==
    ASSUME Shape, AloneInv, NEW g \in Threads, route' = route, mishaps \subseteq mishaps',
           InBlock(g)' => InBlock(g) /\ th'[g].pc = th[g].pc /\ th'[g].i = th[g].i,
           \A k \in Threads : Proc(k) = Proc(g) /\ InBlock(k)' => InBlock(k),
           aio'[Proc(g)] = aio[Proc(g)]
    PROVE  Alone(g)'
<1> SUFFICES ASSUME InBlock(g)', ~ Disturbed(g)' PROVE Alone(g)'
  BY DEF Alone
<1>1. Alone(g) /\ InBlock(g) /\ ~ Disturbed(g)
  BY ThreadPrimes DEF AloneInv, Disturbed
<1>2. \A k \in Threads : (InBlock(k) /\ Proc(k) = Proc(g))' => k = g
  BY <1>1, ThreadPrimes DEF Alone
<1>3. (~ At(g, "wait"))' => (aio[Proc(g)] = {})'
  BY <1>1, ThreadPrimes DEF Alone
<1>4. At(g, "wait")' => (\E r \in aio[Proc(g)] : /\ aio[Proc(g)] = {r}
                                                 /\ r.by = g /\ r.part = th[g].i)'
  <2> SUFFICES ASSUME At(g, "wait")'
               PROVE  \E r \in aio'[Proc(g)] : aio'[Proc(g)] = {r} /\ r.by = g /\ r.part = th'[g].i
    BY ThreadPrimes
  <2>1. PICK r \in aio[Proc(g)] : aio[Proc(g)] = {r} /\ r.by = g /\ r.part = th[g].i
    BY <1>1, ThreadPrimes DEF Alone
  <2>2. QED
    BY <2>1
<1>5. QED
  BY <1>2, <1>3, <1>4 DEF Alone

\* h does not enter, and neither begins nor ends to wait.
LEMMA QuietAlone ==
    ASSUME Shape, AloneInv, NEW h \in Threads, route' = route, mishaps \subseteq mishaps', aio' = aio,
           \A g \in Threads : g # h => th'[g] = th[g],
           th'[h].pc \in Transferring \cup {"open_w"} =>
              /\ th[h].pc \in Transferring \cup {"open_w"}
              /\ th[h].pc # "wait" /\ th'[h].pc # "wait"
    PROVE  AloneInv'
<1> SUFFICES ASSUME NEW g \in Threads PROVE Alone(g)'
  BY DEF AloneInv
<1>1. \A k \in Threads : InBlock(k)' => InBlock(k)
  BY ThreadPrimes
<1>2. CASE g # h
  BY <1>1, <1>2, StillAlone, ThreadPrimes
<1>3. CASE g = h
  <2> SUFFICES ASSUME InBlock(h)', ~ Disturbed(h)' PROVE Alone(h)'
    BY <1>3 DEF Alone
  <2>1. Alone(h) /\ InBlock(h) /\ ~ Disturbed(h) /\ ~ At(h, "wait") /\ (~ At(h, "wait"))'
    BY ThreadPrimes DEF AloneInv, Disturbed
  <2>2. \A k \in Threads : (InBlock(k) /\ Proc(k) = Proc(h))' => k = h
    BY <1>1, <2>1, ThreadPrimes DEF Alone
  <2>3. (aio[Proc(h)] = {})'
    BY <2>1, ThreadPrimes DEF Alone
  <2>4. QED
    BY <2>1, <2>2, <2>3 DEF Alone
<1>4. QED
  BY <1>2, <1>3

\* h enters.
LEMMA MallocAlone ==
    ASSUME Shape, AloneInv, NEW h \in Threads, Malloc(h), route' = route,
           \A g \in Threads : g # h => th'[g] = th[g],
           th'[h].pc \in {"submit", "open_w"}
    PROVE  AloneInv'
<1>1. aio' = aio /\ mishaps \subseteq mishaps'
  BY MallocEffect
<1> DEFINE others == InAio(Proc(h)) \ {h}
<1>2. \A g \in Threads : g \in InAio(Proc(h)) <=> InBlock(g) /\ Proc(g) = Proc(h)
  BY DEF InAio, InBlock
<1> SUFFICES ASSUME NEW g \in Threads PROVE Alone(g)'
  BY DEF AloneInv
<1>3. \A k \in Threads : k # h /\ InBlock(k)' => InBlock(k)
  BY ThreadPrimes
<1>4. CASE Proc(g) # Proc(h)
  <2>1. \A k \in Threads : Proc(k) = Proc(g) /\ InBlock(k)' => InBlock(k)
    BY <1>3, <1>4
  <2>2. InBlock(g)' => InBlock(g) /\ th'[g] = th[g]
    BY <1>4, <2>1
  <2>3. QED
    BY <1>1, <2>1, <2>2, StillAlone
<1>5. CASE Proc(g) = Proc(h) /\ ~ (others = {} /\ aio[Proc(h)] = {})
  <2>1. mishaps' = mishaps \cup {<<k[1], "shared">> : k \in others \cup {h}}
    BY <1>5 DEF Malloc
  <2>2. InBlock(g)' => g \in others \cup {h}
    BY <1>2, <1>3, <1>5
  <2>3. InBlock(g)' => Disturbed(g)'
    BY <2>1, <2>2, ThreadPrimes
  <2>4. QED
    BY <2>3 DEF Alone
<1>6. CASE Proc(g) = Proc(h) /\ others = {} /\ aio[Proc(h)] = {}
  <2>1. \A k \in Threads : (InBlock(k) /\ Proc(k) = Proc(h))' => k = h
    BY <1>2, <1>3, <1>6, ThreadPrimes
  <2>2. (aio[Proc(h)] = {})'
    BY <1>1, <1>6, ThreadPrimes
  <2>3. (~ At(h, "wait"))'
    BY ThreadPrimes
  <2>4. Alone(h)'
    BY <2>1, <2>2, <2>3 DEF Alone
  <2>5. g # h => ~ InBlock(g)'
    BY <1>6, <2>1, ThreadPrimes
  <2>6. g # h => Alone(g)'
    BY <2>5 DEF Alone
  <2>7. QED
    BY <2>4, <2>6
<1>7. QED
  BY <1>4, <1>5, <1>6

\* Two undisturbed threads of one process are not in their blocks at the same time.
LEMMA TwoNotAlone ==
    ASSUME AloneInv, NEW g \in Threads, NEW h \in Threads, g # h, Proc(g) = Proc(h),
           InBlock(g), InBlock(h)
    PROVE  Disturbed(g) /\ Disturbed(h)
BY DEF AloneInv, Alone

LEMMA SubmitAlone ==
    ASSUME Shape, AloneInv, NEW h \in Threads, Submit(h)
    PROVE  AloneInv'
<1>1. /\ At(h, "submit") /\ Only(h) /\ route' = route /\ th'[h].i = th[h].i /\ mishaps' = mishaps
  BY SubmitEffect
<1>2. th[h].pc = "submit" /\ InBlock(h) /\ ~ At(h, "wait") /\ Proc(h) \in Processes
  BY <1>1, OneEnd DEF At, pc, InBlock, Transferring
<1>3. CASE aio' = aio /\ th'[h].pc = AfterIO(h)
  <2>1. th'[h].pc \in Transferring /\ th'[h].pc # "wait"
    BY <1>3 DEF AfterIO, Transferring
  <2>2. QED
    BY <1>1, <1>2, <1>3, <2>1, QuietAlone DEF Only, Transferring
<1>4. CASE /\ aio' = [aio EXCEPT ![Proc(h)] = @ \cup {Request(h, FALSE, TRUE)}]
           /\ th'[h].pc = "wait"
  <2> SUFFICES ASSUME NEW g \in Threads PROVE Alone(g)'
    BY DEF AloneInv
  <2>1. \A k \in Threads : InBlock(k)' => InBlock(k)
    BY <1>1, <1>2, ThreadPrimes DEF Only
  <2>2. aio \in [Processes -> SUBSET Requests] /\ Proc(g) \in Processes
    BY OneEnd DEF Shape, Types
  <2>3. CASE Proc(g) # Proc(h)
    <3>1. aio'[Proc(g)] = aio[Proc(g)]
      BY <1>4, <2>2, <2>3
    <3>2. g # h /\ th'[g] = th[g]
      BY <1>1, <2>3 DEF Only
    <3>3. QED
      BY <1>1, <2>1, <3>1, <3>2, StillAlone
  <2>4. CASE Proc(g) = Proc(h) /\ g # h
    <3>1. InBlock(g)' => Disturbed(g)
      BY <1>2, <2>1, <2>4, TwoNotAlone
    <3>2. InBlock(g)' => Disturbed(g)'
      BY <1>1, <3>1 DEF Disturbed
    <3>3. QED
      BY <3>2 DEF Alone
  <2>5. CASE g = h
    <3> SUFFICES ASSUME ~ Disturbed(h)' PROVE Alone(h)'
      BY <2>5 DEF Alone
    <3>1. Alone(h) /\ ~ Disturbed(h)
      BY <1>1 DEF AloneInv, Disturbed
    <3>2. \A k \in Threads : (InBlock(k) /\ Proc(k) = Proc(h))' => k = h
      BY <1>1, <1>2, <2>1, <3>1, ThreadPrimes DEF Alone
    <3>3. aio[Proc(h)] = {}
      BY <1>2, <3>1 DEF Alone
    <3> DEFINE r == Request(h, FALSE, TRUE)
    <3>4. r.by = h /\ r.part = th[h].i
      BY DEF Request
    <3> HIDE DEF r
    <3>5. aio'[Proc(h)] = {r}
      BY <1>2, <1>4, <2>2, <3>3 DEF r
    <3>6. (\E s \in aio[Proc(h)] : aio[Proc(h)] = {s} /\ s.by = h /\ s.part = th[h].i)'
      BY <1>1, <3>4, <3>5, ThreadPrimes
    <3>7. At(h, "wait")'
      BY <1>1, <1>4, ThreadPrimes
    <3>8. QED
      BY <3>2, <3>6, <3>7 DEF Alone
  <2>6. QED
    BY <2>3, <2>4, <2>5
<1>5. QED
  BY <1>3, <1>4, SubmitEffect

LEMMA WaitAlone ==
    ASSUME Shape, AloneInv, NEW h \in Threads, Wait(h)
    PROVE  AloneInv'
<1>1. /\ At(h, "wait") /\ Only(h) /\ route' = route /\ th'[h].i = th[h].i /\ th'[h].pc = AfterIO(h)
  BY WaitEffect
<1>2. PICK r \in aio[Proc(h)] : aio' = [aio EXCEPT ![Proc(h)] = @ \ {r}] /\ mishaps \subseteq mishaps'
  BY WaitEffect
<1>3. InBlock(h) /\ Proc(h) \in Processes
  BY <1>1, OneEnd DEF At, InBlock, Transferring
<1>4. th'[h].pc # "wait"
  BY <1>1 DEF AfterIO
<1> SUFFICES ASSUME NEW g \in Threads PROVE Alone(g)'
  BY DEF AloneInv
<1>5. \A k \in Threads : InBlock(k)' => InBlock(k)
  BY <1>1, <1>3, ThreadPrimes DEF Only
<1>6. aio \in [Processes -> SUBSET Requests] /\ Proc(g) \in Processes
  BY OneEnd DEF Shape, Types
<1>7. CASE Proc(g) # Proc(h)
  <2>1. aio'[Proc(g)] = aio[Proc(g)]
    BY <1>2, <1>6, <1>7
  <2>2. g # h /\ th'[g] = th[g]
    BY <1>1, <1>7 DEF Only
  <2>3. QED
    BY <1>1, <1>2, <1>5, <2>1, <2>2, StillAlone
<1>8. CASE Proc(g) = Proc(h) /\ g # h
  <2>1. InBlock(g)' => Disturbed(g)
    BY <1>3, <1>5, <1>8, TwoNotAlone
  <2>2. InBlock(g)' => Disturbed(g)'
    BY <1>2, <2>1 DEF Disturbed
  <2>3. QED
    BY <2>2 DEF Alone
<1>9. CASE g = h
  <2> SUFFICES ASSUME ~ Disturbed(h)' PROVE Alone(h)'
    BY <1>9 DEF Alone
  <2>1. Alone(h) /\ ~ Disturbed(h)
    BY <1>2 DEF AloneInv, Disturbed
  <2>2. \A k \in Threads : (InBlock(k) /\ Proc(k) = Proc(h))' => k = h
    <3>1. \A k \in Threads : InBlock(k) /\ Proc(k) = Proc(h) => k = h
      BY <1>3, <2>1 DEF Alone
    <3>2. QED
      BY <1>1, <1>5, <3>1, ThreadPrimes
  <2>3. aio[Proc(h)] = {r}
    BY <1>1, <1>2, <1>3, <2>1 DEF Alone
  <2>4. (aio[Proc(h)] = {})'
    BY <1>1, <1>2, <1>3, <1>6, <2>3, ThreadPrimes
  <2>5. (~ At(h, "wait"))'
    BY <1>1, <1>4, ThreadPrimes
  <2>6. QED
    BY <2>2, <2>4, <2>5 DEF Alone
<1>10. QED
  BY <1>7, <1>8, <1>9

LEMMA CompleteAlone ==
    ASSUME Shape, AloneInv, NEW p \in Processes, NEW r, NEW ok, Completes(p, r, ok)
    PROVE  AloneInv'
<1>1. /\ r \in Requests /\ r.by \in Threads /\ Only(r.by) /\ route' = route
      /\ th'[r.by].pc = th[r.by].pc /\ th'[r.by].i = th[r.by].i
  BY CompleteEffect
<1> DEFINE new == [r EXCEPT !.done = TRUE, !.ok = ok]
<1>2. aio' = [aio EXCEPT ![p] = (@ \ {r}) \cup {new}] /\ r \in aio[p] /\ mishaps' = mishaps
  BY DEF Completes
<1>3. new.by = r.by /\ new.part = r.part
  BY <1>1 DEF Requests
<1> HIDE DEF new
<1>4. \A k \in Threads : th'[k].pc = th[k].pc /\ th'[k].i = th[k].i
  BY <1>1 DEF Only
<1> SUFFICES ASSUME NEW g \in Threads PROVE Alone(g)'
  BY DEF AloneInv
<1>5. \A k \in Threads : InBlock(k)' <=> InBlock(k)
  BY <1>1, <1>4, ThreadPrimes
<1>6. aio \in [Processes -> SUBSET Requests] /\ Proc(g) \in Processes
  BY OneEnd DEF Shape, Types
<1>7. CASE Proc(g) # p
  <2>1. aio'[Proc(g)] = aio[Proc(g)]
    BY <1>2, <1>6, <1>7
  <2>2. QED
    BY <1>1, <1>2, <1>4, <1>5, <2>1, StillAlone
<1>8. CASE Proc(g) = p
  <2> SUFFICES ASSUME InBlock(g)', ~ Disturbed(g)' PROVE Alone(g)'
    BY DEF Alone
  <2>1. Alone(g) /\ InBlock(g) /\ ~ Disturbed(g)
    BY <1>2, <1>5 DEF AloneInv, Disturbed
  <2>2. \A k \in Threads : (InBlock(k) /\ Proc(k) = Proc(g))' => k = g
    BY ZenonT(60), <1>1, <1>5, <2>1, ThreadPrimes DEF Alone
  <2>3. At(g, "wait") /\ aio[p] = {r} /\ r.by = g /\ r.part = th[g].i
    BY <1>2, <1>8, <2>1 DEF Alone
  <2>4. aio'[p] = {new}
    BY <1>2, <1>6, <1>8, <2>3
  <2>5. (\E s \in aio[Proc(g)] : aio[Proc(g)] = {s} /\ s.by = g /\ s.part = th[g].i)'
    BY <1>1, <1>3, <1>4, <1>8, <2>3, <2>4, ThreadPrimes
  <2>6. At(g, "wait")'
    BY <1>1, <1>4, <2>3, ThreadPrimes
  <2>7. QED
    BY <2>2, <2>5, <2>6 DEF Alone
<1>9. QED
  BY <1>7, <1>8

LEMMA AbortAlone ==
    ASSUME Shape, AloneInv, NEW p \in Processes, Abort(p)
    PROVE  AloneInv'
<1>1. /\ \A h \in Threads : Proc(h) # p => th'[h] = th[h]
      /\ \A h \in Threads : Proc(h) = p => th'[h] = Idle("dead")
      /\ route' = route /\ mishaps' = mishaps
      /\ \A q \in Processes : q # p => aio'[q] = aio[q]
  BY AbortEffect
<1>2. Idle("dead").pc = "dead"
  BY DEF Idle
<1> SUFFICES ASSUME NEW g \in Threads PROVE Alone(g)'
  BY DEF AloneInv
<1>3. CASE Proc(g) = p
  <2>1. ~ InBlock(g)'
    BY <1>1, <1>2, <1>3, ThreadPrimes DEF Transferring
  <2>2. QED
    BY <2>1 DEF Alone
<1>4. CASE Proc(g) # p
  <2>1. aio'[Proc(g)] = aio[Proc(g)] /\ th'[g] = th[g]
    BY <1>1, <1>4, OneEnd
  <2>2. \A k \in Threads : Proc(k) = Proc(g) => (InBlock(k)' <=> InBlock(k))
    BY <1>1, <1>4, ThreadPrimes
  <2>3. QED
    BY <1>1, <2>1, <2>2, StillAlone
<1>5. QED
  BY <1>3, <1>4

\* Those in a block, but for who waits.
Working == (Transferring \cup {"open_w"}) \ {"wait"}

LEMMA ServesAlone ==
    ASSUME Shape, AloneInv, NEW t \in Transfers, NEW l, NEW n, NEW b, Serves(t, l, n, b),
           l \notin Transferring \cup {"open_w"} \/ (l \in Working /\ pc(S(t)) \in Working)
    PROVE  AloneInv'
<1>1. /\ route' = route /\ mishaps \subseteq mishaps' /\ aio' = aio /\ th'[S(t)].pc = l
      /\ \A g \in Threads : g # S(t) => th'[g] = th[g]
  BY DEF Serves, Elsewhere, Moves, Only
<1>2. S(t) \in Threads
  BY TwoEnds
<1>3. l \in Transferring \cup {"open_w"} =>
         /\ th[S(t)].pc \in Transferring \cup {"open_w"} /\ th[S(t)].pc # "wait" /\ l # "wait"
  BY DEF Working, pc
<1>4. QED
  BY <1>1, <1>2, <1>3, QuietAlone

LEMMA LoadsAlone ==
    ASSUME Shape, AloneInv, NEW t \in Transfers, NEW l, NEW n, NEW b, Loads(t, l, n, b),
           l \notin Transferring \cup {"open_w"} \/ (l \in Working /\ pc(C(t)) \in Working)
    PROVE  AloneInv'
<1>1. /\ route' = route /\ mishaps \subseteq mishaps' /\ aio' = aio /\ th'[C(t)].pc = l
      /\ \A g \in Threads : g # C(t) => th'[g] = th[g]
  BY DEF Loads, Elsewhere, Moves, Only
<1>2. C(t) \in Threads
  BY TwoEnds
<1>3. l \in Transferring \cup {"open_w"} =>
         /\ th[C(t)].pc \in Transferring \cup {"open_w"} /\ th[C(t)].pc # "wait" /\ l # "wait"
  BY DEF Working, pc
<1>4. QED
  BY <1>1, <1>2, <1>3, QuietAlone

LEMMA AioAlone ==
    ASSUME Shape, AloneInv, NEW h \in Threads, AioStep(h)
    PROVE  AloneInv'
<1>1. CASE AioFails(h)
  <2>1. PICK l \in {"over", "error"} : Moves(h, l, 1, Junk)
    BY <1>1, AioFailsIs
  <2>2. l \notin Transferring \cup {"open_w"}
    BY DEF Transferring
  <2>3. route' = route /\ mishaps \subseteq mishaps' /\ aio' = aio
    BY <1>1, AioFailsIs DEF Elsewhere
  <2>4. QED
    BY <2>1, <2>2, <2>3, QuietAlone DEF Moves, Only
<1>2. CASE BadPointer(h)
  BY <1>2, AbortAlone, OneEnd DEF BadPointer
<1>3. QED
  BY <1>1, <1>2, SubmitAlone, WaitAlone DEF AioStep, SubmitFails, WaitFails

LEMMA TCPhandlerAlone ==
    ASSUME Shape, AloneInv, NEW t \in Transfers, TCPhandler(t)
    PROVE  AloneInv'
<1>1. /\ \A l \in {"getcwd", "over", "open_r", "error", "confirm"} : l \notin Transferring \cup {"open_w"}
      /\ "submit" \in Working /\ "send" \in Working /\ "ack" \in Working
  BY DEF Transferring, Working
<1>2. CASE SRequest(t) \/ SGetcwd(t) \/ SOpenFails(t) \/ SSendFails(t) \/ SAckFails(t) \/ SError(t) \/ SConfirm(t)
  <2>1. PICK l, n, b : l \in {"getcwd", "over", "open_r", "error", "confirm"} /\ Serves(t, l, n, b)
    BY <1>2, SRequestIs, SGetcwdIs, SOpenFailsIs, SFails, SErrorIs, SConfirmIs
  <2>2. QED
    BY <1>1, <2>1, ServesAlone
<1>3. CASE SOpen(t)
  <2>1. Serves(t, "submit", th[S(t)].i, th[S(t)].buff) /\ Malloc(S(t))
    BY <1>3, SOpenIs
  <2>2. route' = route /\ (\A g \in Threads : g # S(t) => th'[g] = th[g]) /\ th'[S(t)].pc = "submit"
    BY <2>1 DEF Serves, Elsewhere, Moves, Only
  <2>3. QED
    BY <2>1, <2>2, MallocAlone, TwoEnds
<1>4. CASE SSend(t)
  <2>1. pc(S(t)) \in Working
    BY <1>1, <1>4, SSendIs DEF At
  <2>2. QED
    BY <1>1, <1>4, <2>1, SSendIs, ServesAlone
<1>5. CASE SAck(t)
  <2>1. pc(S(t)) \in Working
    BY <1>1, <1>5, SAckIs DEF At
  <2>2. PICK l, n, b : l \in {"submit", "over"} /\ Serves(t, l, n, b)
    BY <1>5, SAckIs
  <2>3. QED
    BY <1>1, <2>1, <2>2, ServesAlone
<1>6. CASE AioStep(S(t))
  BY <1>6, TwoEnds, AioAlone
<1>7. QED
  BY <1>2, <1>3, <1>4, <1>5, <1>6 DEF TCPhandler

LEMMA TCPTransferAlone ==
    ASSUME Shape, AloneInv, NEW t \in Transfers, TCPTransfer(t) \/ Get(t)
    PROVE  AloneInv'
<1>1. /\ \A l \in {"connect", "answer", "over", "length", "chdir_w", "finished"} : l \notin Transferring \cup {"open_w"}
      /\ "submit" \in Working /\ "read" \in Working /\ "ack" \in Working /\ "open_w" \in Working
  BY DEF Transferring, Working
<1>2. Client(t) \in Processes
  BY TwoEnds
<1>3. CASE \E l \in {"connect", "answer", "over", "length", "chdir_w", "finished"} : \E n, b : Loads(t, l, n, b)
  BY <1>1, <1>3, LoadsAlone
<1>4. CASE Get(t) \/ CAnswer(t) \/ CAnswerFails(t) \/ CLength(t)
  BY <1>3, <1>4, GetIs, CAnswerIs, CAnswerFailsIs, CLengthIs
<1>5. CASE CConnect(t)
  <2>1. CASE /\ Elsewhere(t) /\ aio' = aio
             /\ th'[C(t)].pc = "answer" /\ th'[S(t)].pc = "request"
             /\ \A h \in Threads : h # C(t) /\ h # S(t) => th'[h] = th[h]
    <3> SUFFICES ASSUME NEW g \in Threads PROVE Alone(g)'
      BY DEF AloneInv
    <3>1. route' = route /\ mishaps \subseteq mishaps'
      BY <2>1 DEF Elsewhere
    <3>2. th'[C(t)].pc \notin Transferring \cup {"open_w"} /\ th'[S(t)].pc \notin Transferring \cup {"open_w"}
      BY <2>1 DEF Transferring
    <3>3. \A k \in Threads : InBlock(k)' => InBlock(k) /\ th'[k] = th[k]
      BY <2>1, <3>1, <3>2, ThreadPrimes
    <3>4. QED
      BY <2>1, <3>1, <3>3, StillAlone
  <2>2. QED
    BY <1>3, <1>5, <2>1, CConnectIs
<1>6. CASE CChdir(t)
  <2>1. Loads(t, "open_w", th[C(t)].i, th[C(t)].buff) /\ Malloc(C(t))
    BY <1>6, CChdirIs
  <2>2. route' = route /\ (\A g \in Threads : g # C(t) => th'[g] = th[g]) /\ th'[C(t)].pc = "open_w"
    BY <2>1 DEF Loads, Elsewhere, Moves, Only
  <2>3. QED
    BY <2>1, <2>2, MallocAlone, TwoEnds
<1>7. CASE COpen(t)
  <2>1. pc(C(t)) \in Working
    BY <1>1, <1>7, COpenIs DEF At
  <2>2. QED
    BY <1>1, <1>7, <2>1, COpenIs, LoadsAlone
<1>8. CASE CRead(t)
  <2>1. pc(C(t)) \in Working
    BY <1>1, <1>8, CReadIs DEF At
  <2>2. PICK l \in {"submit", "read"} : \E b : Loads(t, l, th[C(t)].i, b)
    BY <1>8, CReadIs
  <2>3. QED
    BY <1>1, <2>1, <2>2, LoadsAlone
<1>9. CASE CAck(t)
  <2>1. pc(C(t)) \in Working
    BY <1>1, <1>9, CAckIs DEF At
  <2>2. PICK l, n, b : l \in {"read", "finished"} /\ Loads(t, l, n, b)
    BY <1>9, CAckIs
  <2>3. QED
    BY <1>1, <2>1, <2>2, LoadsAlone
<1>10. CASE CReadFails(t) \/ CAckFails(t) \/ COpenFails(t) \/ BadEntry(t)
  <2>1. CASE Abort(Client(t))
    BY <1>2, <2>1, AbortAlone
  <2>2. CASE CGivesUp(t)
    BY <1>3, <2>1, <2>2, CGivesUpIs
  <2>3. QED
    BY <1>10, <2>1, <2>2 DEF CReadFails, CAckFails, COpenFails, BadEntry
<1>11. CASE AioStep(C(t))
  BY <1>11, TwoEnds, AioAlone
<1>12. QED
  BY <1>4, <1>5, <1>6, <1>7, <1>8, <1>9, <1>10, <1>11 DEF TCPTransfer

\* No thread is anywhere else.
LEMMA SameAlone ==
    ASSUME Shape, AloneInv, route' = route, mishaps' = mishaps, aio' = aio, th' = th
    PROVE  AloneInv'
BY StillAlone, ThreadPrimes DEF AloneInv

LEMMA AloneStep == Shape /\ AloneInv /\ [Next]_vars => AloneInv'
<1> SUFFICES ASSUME Shape, AloneInv, [Next]_vars PROVE AloneInv'
  OBVIOUS
<1>1. CASE UNCHANGED vars
  BY <1>1, SameAlone DEF vars, blocks
<1>2. ASSUME NEW p \in Processes, LClear(p) PROVE AloneInv'
  BY <1>2, SameAlone DEF LClear, blocks
<1>3. ASSUME NEW p \in Processes, Complete(p) PROVE AloneInv'
  BY <1>3, CompleteIs, CompleteAlone
<1>4. ASSUME NEW t \in Transfers, Get(t) \/ TCPTransfer(t) \/ TCPhandler(t) PROVE AloneInv'
  BY <1>4, TCPTransferAlone, TCPhandlerAlone
<1>5. QED
  BY <1>1, <1>2, <1>3, <1>4 DEF Next

-----------------------------------------------------------------------------
(* The first part. *)
LEMMA InitFirst == Init => FirstInv
<1> SUFFICES ASSUME Init, NEW t \in Transfers PROVE FirstPart(t)
  BY DEF FirstInv
<1>1. C(t) \in Threads /\ S(t) \in Threads
  BY DEF C, S, Threads
<1>2. th[C(t)].i = 1 /\ th[S(t)].i = 1
  BY <1>1 DEF Init, Idle
<1>3. QED
  BY <1>2 DEF FirstPart, ci, si

\* Whoever is at its first part stays there, or is where no part is asked for.
LEMMA StillFirst ==
    ASSUME Shape, FirstInv,
           \A h \in Threads :
              \/ th'[h].i = 1
              \/ th'[h].i = th[h].i /\ th'[h].pc = th[h].pc
              \/ /\ h[2] = "client"
                 /\ th'[h].pc \notin {"none", "connect", "answer", "length", "chdir_w", "open_w"}
              \/ /\ h[2] = "server" /\ th'[h].pc \notin {"none", "request", "getcwd", "open_r"}
    PROVE  FirstInv'
<1> SUFFICES ASSUME NEW t \in Transfers PROVE FirstPart(t)'
  BY DEF FirstInv
<1>1. /\ C(t) \in Threads /\ S(t) \in Threads /\ C(t)[2] = "client" /\ S(t)[2] = "server"
  BY TwoEnds
<1>2. FirstPart(t)
  BY DEF FirstInv
<1>3. th'[C(t)].pc \in {"none", "connect", "answer", "length", "chdir_w", "open_w"} => th'[C(t)].i = 1
  BY <1>1, <1>2 DEF FirstPart, ci, pc
<1>4. th'[S(t)].pc \in {"none", "request", "getcwd", "open_r"} => th'[S(t)].i = 1
  BY <1>1, <1>2 DEF FirstPart, si, pc
<1>5. QED
  BY <1>3, <1>4 DEF FirstPart, ci, si, pc, C, S

LEMMA ServesFirst ==
    ASSUME Shape, FirstInv, NEW t \in Transfers, NEW l, NEW n, NEW b, Serves(t, l, n, b),
           \/ n = 1 \/ l \notin {"none", "request", "getcwd", "open_r"}
           \/ n = th[S(t)].i /\ pc(S(t)) \in {"none", "request", "getcwd", "open_r"}
    PROVE  FirstInv'
<1>1. S(t)[2] = "server" /\ FirstPart(t)
  BY TwoEnds DEF FirstInv
<1>2. Only(S(t)) /\ th'[S(t)].pc = l /\ th'[S(t)].i = n
  BY DEF Serves, Moves
<1>3. n = 1 \/ l \notin {"none", "request", "getcwd", "open_r"}
  BY <1>1 DEF FirstPart, si
<1>4. ASSUME NEW h \in Threads
      PROVE  \/ th'[h].i = 1
             \/ th'[h].i = th[h].i /\ th'[h].pc = th[h].pc
             \/ h[2] = "server" /\ th'[h].pc \notin {"none", "request", "getcwd", "open_r"}
  <2>1. CASE h = S(t)
    BY <2>1, <1>1, <1>2, <1>3
  <2>2. CASE h # S(t)
    BY <2>2, <1>2 DEF Only
  <2>3. QED
    BY <2>1, <2>2
<1>5. QED
  BY <1>4, StillFirst

LEMMA LoadsFirst ==
    ASSUME Shape, FirstInv, NEW t \in Transfers, NEW l, NEW n, NEW b, Loads(t, l, n, b),
           \/ n = 1 \/ l \notin {"none", "connect", "answer", "length", "chdir_w", "open_w"}
           \/ /\ n = th[C(t)].i
              /\ pc(C(t)) \in {"none", "connect", "answer", "length", "chdir_w", "open_w"}
    PROVE  FirstInv'
<1>1. C(t)[2] = "client" /\ FirstPart(t)
  BY TwoEnds DEF FirstInv
<1>2. Only(C(t)) /\ th'[C(t)].pc = l /\ th'[C(t)].i = n
  BY DEF Loads, Moves
<1>3. n = 1 \/ l \notin {"none", "connect", "answer", "length", "chdir_w", "open_w"}
  BY <1>1 DEF FirstPart, ci
<1>4. ASSUME NEW h \in Threads
      PROVE  \/ th'[h].i = 1
             \/ th'[h].i = th[h].i /\ th'[h].pc = th[h].pc
             \/ h[2] = "client" /\ th'[h].pc \notin {"none", "connect", "answer", "length", "chdir_w", "open_w"}
  <2>1. CASE h = C(t)
    BY <2>1, <1>1, <1>2, <1>3
  <2>2. CASE h # C(t)
    BY <2>2, <1>2 DEF Only
  <2>3. QED
    BY <2>1, <2>2
<1>5. QED
  BY <1>4, StillFirst

LEMMA AbortFirst ==
    ASSUME Shape, FirstInv, NEW p \in Processes, Abort(p)
    PROVE  FirstInv'
<1>1. \A h \in Threads : th'[h] = th[h] \/ th'[h] = Idle("dead")
  BY AbortEffect
<1>2. Idle("dead").i = 1
  BY DEF Idle
<1>3. QED
  BY <1>1, <1>2, StillFirst

LEMMA AioFirst ==
    ASSUME Shape, FirstInv, NEW h \in Threads, AioStep(h)
    PROVE  FirstInv'
<1>1. h[2] \in {"client", "server"}
  BY DEF Threads
<1>2. ASSUME Only(h), th'[h].i = 1 \/ th'[h].pc \in {"wait", "ack", "send"} PROVE FirstInv'
  BY <1>1, <1>2, StillFirst DEF Only
<1>3. AfterIO(h) \in {"wait", "ack", "send"}
  BY DEF AfterIO
<1>4. CASE Submit(h)
  BY <1>2, <1>3, <1>4, SubmitEffect
<1>5. CASE Wait(h)
  BY <1>2, <1>3, <1>5, WaitEffect
<1>6. CASE AioFails(h)
  BY <1>2, <1>6, AioFailsIs DEF Moves
<1>7. CASE BadPointer(h)
  BY <1>7, AbortFirst, OneEnd DEF BadPointer
<1>8. QED
  BY <1>4, <1>5, <1>6, <1>7 DEF AioStep, SubmitFails, WaitFails

LEMMA FirstStep == Shape /\ ListInv /\ FirstInv /\ [Next]_vars => FirstInv'
<1> SUFFICES ASSUME Shape, ListInv, FirstInv, [Next]_vars PROVE FirstInv'
  OBVIOUS
<1>1. CASE th' = th
  BY <1>1, StillFirst
<1>2. ASSUME NEW p \in Processes, Complete(p) PROVE FirstInv'
  <2>1. PICK r, ok : Completes(p, r, ok)
    BY <1>2, CompleteIs
  <2>2. \A h \in Threads : th'[h].pc = th[h].pc /\ th'[h].i = th[h].i
    BY <2>1, CompleteEffect DEF Only
  <2>3. QED
    BY <2>2, StillFirst
<1>3. ASSUME NEW t \in Transfers, TCPhandler(t) PROVE FirstInv'
  <2>1. CASE SRequest(t)
    <3>1. pc(S(t)) = "request"
      BY <2>1, SRequestIs DEF At
    <3>2. PICK l : Serves(t, l, th[S(t)].i, th[S(t)].buff)
      BY <2>1, SRequestIs
    <3>3. QED
      BY <3>1, <3>2, ServesFirst
  <2>2. CASE SGetcwd(t)
    BY <2>2, SGetcwdIs, ServesFirst DEF At
  <2>3. CASE SOpen(t)
    BY <2>3, SOpenIs, ServesFirst
  <2>4. CASE SOpenFails(t) \/ SSendFails(t) \/ SAckFails(t)
    BY <2>4, SOpenFailsIs, SFails, ServesFirst
  <2>5. CASE SSend(t)
    BY <2>5, SSendIs, ServesFirst
  <2>6. CASE SAck(t)
    BY <2>6, SAckIs, ServesFirst
  <2>7. CASE SError(t)
    BY <2>7, SErrorIs, ServesFirst
  <2>8. CASE SConfirm(t)
    BY <2>8, SConfirmIs, ServesFirst
  <2>9. CASE AioStep(S(t))
    BY <2>9, TwoEnds, AioFirst
  <2>10. QED
    BY <1>3, <2>1, <2>2, <2>3, <2>4, <2>5, <2>6, <2>7, <2>8, <2>9 DEF TCPhandler
<1>4. ASSUME NEW t \in Transfers, Get(t) \/ TCPTransfer(t) PROVE FirstInv'
  <2>1. CASE Get(t)
    BY <2>1, GetIs, LoadsFirst DEF At
  <2>2. CASE CConnect(t)
    <3>1. FirstPart(t) /\ Begins(t) /\ pc(C(t)) = "connect"
      BY <2>2, CConnectIs DEF FirstInv, ListInv, At
    <3>2. CASE Loads(t, "over", th[C(t)].i, th[C(t)].buff)
      BY <3>2, LoadsFirst
    <3>3. CASE /\ Server(t) \in up
               /\ th'[C(t)].i = th[C(t)].i /\ th'[S(t)].i = th[S(t)].i
               /\ \A h \in Threads : h # C(t) /\ h # S(t) => th'[h] = th[h]
      <4>1. th'[C(t)].i = 1
        BY <3>1, <3>3 DEF FirstPart, ci
      <4>2. th'[S(t)].i = 1
        <5>1. pc(S(t)) = "none"
          BY <3>1, <3>3 DEF Begins, At
        <5>2. QED
          BY <3>1, <3>3, <5>1 DEF FirstPart, si
      <4>3. QED
        BY <3>3, <4>1, <4>2, StillFirst
    <3>4. QED
      BY <2>2, <3>2, <3>3, CConnectIs
  <2>3. CASE CAnswer(t)
    <3>1. PICK l \in {"length", "over"} : Loads(t, l, th[C(t)].i, th[C(t)].buff)
      BY <2>3, CAnswerIs
    <3>2. pc(C(t)) = "answer"
      BY <2>3, CAnswerIs DEF At
    <3>3. QED
      BY <3>1, <3>2, LoadsFirst
  <2>4. CASE CAnswerFails(t)
    BY <2>4, CAnswerFailsIs, LoadsFirst
  <2>5. CASE CLength(t)
    BY <2>5, CLengthIs, LoadsFirst DEF At
  <2>6. CASE CChdir(t)
    BY <2>6, CChdirIs, LoadsFirst DEF At
  <2>7. CASE COpen(t)
    BY <2>7, COpenIs, LoadsFirst
  <2>8. CASE CRead(t)
    <3>1. PICK l \in {"submit", "read"} : \E b : Loads(t, l, th[C(t)].i, b)
      BY <2>8, CReadIs
    <3>2. QED
      BY <3>1, LoadsFirst
  <2>9. CASE CAck(t)
    BY <2>9, CAckIs, LoadsFirst
  <2>10. CASE CReadFails(t) \/ CAckFails(t) \/ COpenFails(t) \/ BadEntry(t)
    <3>1. CASE Abort(Client(t))
      BY <3>1, AbortFirst, TwoEnds
    <3>2. CASE CGivesUp(t)
      BY <3>1, <3>2, CGivesUpIs, LoadsFirst
    <3>3. QED
      BY <2>10, <3>1, <3>2 DEF CReadFails, CAckFails, COpenFails, BadEntry
  <2>11. CASE AioStep(C(t))
    BY <2>11, TwoEnds, AioFirst
  <2>12. QED
    BY <1>4, <2>1, <2>2, <2>3, <2>4, <2>5, <2>6, <2>7, <2>8, <2>9, <2>10, <2>11 DEF TCPTransfer
<1>5. QED
  BY <1>1, <1>2, <1>3, <1>4 DEF Next, LClear, vars

-----------------------------------------------------------------------------
(* The dialogue, one step at a time. *)
\* What is in the way of a client, element by element.
LEMMA WayIs ==
    ASSUME NEW D, NEW c, NEW q, q \in Way(c, D)
    PROVE  \/ q = << >>
           \/ c = "answer" /\ (q = <<Sending>> \/ \E d \in D : q = <<Sending, d>>)
           \/ c \notin {"answer", "submit", "wait", "ack"} /\ \E d \in D : q = <<d>>
BY DEF Way

LEMMA WayHas ==
    ASSUME NEW D, NEW c
    PROVE  /\ << >> \in Way(c, D)
           /\ c = "answer" => <<Sending>> \in Way(c, D) /\ \A d \in D : <<Sending, d>> \in Way(c, D)
           /\ c \notin {"answer", "submit", "wait", "ack"} => \A d \in D : <<d>> \in Way(c, D)
BY DEF Way

\* The client takes the first message that was on the way, and goes on to where fewer may be.
LEMMA WayTail ==
    ASSUME NEW D, NEW c, NEW e, NEW q, q \in Way(c, D), q # << >>,
           \/ c = "answer" /\ e = "length"
           \/ c = "read" /\ e = "submit"
    PROVE  Tail(q) \in Way(e, D)
<1>1. CASE c = "answer" /\ q = <<Sending>>
  BY <1>1, ShortTail, WayHas
<1>2. CASE c = "answer" /\ \E d \in D : q = <<Sending, d>>
  <2>1. PICK d \in D : q = <<Sending, d>>
    BY <1>2
  <2>2. Tail(q) = <<d>>
    BY <2>1, ShortTail
  <2>3. QED
    BY <1>2, <2>2, WayHas
<1>3. CASE c = "read" /\ \E d \in D : q = <<d>>
  <2>1. PICK d \in D : q = <<d>>
    BY <1>3
  <2>2. Tail(q) = << >>
    BY <2>1, ShortTail
  <2>3. QED
    BY <2>2, WayHas
<1>4. QED
  BY <1>1, <1>2, <1>3, WayIs

LEMMA ErrorTail ==
    ASSUME NEW D, NEW c, NEW e, NEW q, WithError(c, q, D), Head(q) # Error,
           \/ c = "answer" /\ e = "length"
           \/ c = "read" /\ e = "submit"
    PROVE  WithError(e, Tail(q), D)
<1>1. PICK w \in Way(c, D) : q = Append(w, Error)
  BY DEF WithError
<1>2. w # << >>
  BY <1>1, ShortAppend, ShortTail
<1>3. Tail(w) \in Way(e, D)
  BY <1>1, <1>2, WayTail
<1>4. Tail(q) = Append(Tail(w), Error)
  <2>1. CASE w = <<Sending>>
    <3>1. q = <<Sending, Error>> /\ Tail(w) = << >>
      BY <1>1, <2>1, ShortAppend, ShortTail
    <3>2. Tail(q) = <<Error>>
      BY <3>1, ShortTail
    <3>3. QED
      BY <3>1, <3>2, ShortAppend
  <2>2. CASE \E d \in D : w = <<Sending, d>>
    <3>1. PICK d \in D : w = <<Sending, d>>
      BY <2>2
    <3>2. q = <<Sending, d, Error>> /\ Tail(w) = <<d>>
      <4>1. Append(<<Sending, d>>, Error) = <<Sending, d, Error>>
        BY ShortAppend
      <4>2. Tail(<<Sending, d>>) = <<d>>
        BY ShortTail
      <4>3. QED
        BY <1>1, <3>1, <4>1, <4>2
    <3>3. Tail(q) = <<d, Error>>
      BY <3>2, ShortTail
    <3>4. QED
      BY <3>2, <3>3, ShortAppend
  <2>3. CASE \E d \in D : w = <<d>>
    <3>1. PICK d \in D : w = <<d>>
      BY <2>3
    <3>2. q = <<d, Error>> /\ Tail(w) = << >>
      BY <1>1, <3>1, ShortAppend, ShortTail
    <3>3. Tail(q) = <<Error>>
      BY <3>2, ShortTail
    <3>4. QED
      BY <3>2, <3>3, ShortAppend
  <2>4. QED
    BY <1>2, <2>1, <2>2, <2>3, WayIs
<1>5. QED
  BY <1>3, <1>4 DEF WithError

\* The server's steps.
LEMMA TalkServer ==
    ASSUME NEW D, NEW c, NEW i, NEW s, NEW j, NEW q, NEW a, Talk(c, i, s, j, q, a, D)
    PROVE  /\ \A n : Talk(c, i, "over", n, q, a, D) /\ Talk(c, i, "dead", n, q, a, D)
           /\ s = "request" => Talk(c, i, "getcwd", j, q, a, D)
           /\ s = "getcwd" => Talk(c, i, "open_r", j, q, a, D)
           /\ s = "open_r" => Talk(c, i, "error", 1, q, a, D)
           /\ s \in {"submit", "wait", "send"} => /\ Talk(c, i, "wait", j, q, a, D)
                                               /\ Talk(c, i, "send", j, q, a, D)
           /\ s \in {"submit", "wait", "send", "ack"} => Talk(c, i, "error", 1, q, a, D)
           /\ s = "error" => Talk(c, i, "confirm", j, Append(q, Error), a, D)
<1>1. \A n : Talk(c, i, "over", n, q, a, D) /\ Talk(c, i, "dead", n, q, a, D)
  BY DEF Talk
<1>2. /\ s = "request" => Talk(c, i, "getcwd", j, q, a, D)
      /\ s = "getcwd" => Talk(c, i, "open_r", j, q, a, D)
  BY DEF Talk
<1>3. q \in Way(c, D) => Talk(c, i, "error", 1, q, a, D)
  BY DEF Talk
<1>4. s \in {"request", "getcwd", "open_r", "submit", "wait", "send"} => q \in Way(c, D)
  BY WayHas DEF Talk
<1>5. s = "ack" => q \in Way(c, D)
  <2> SUFFICES ASSUME s = "ack" PROVE q \in Way(c, D)
    OBVIOUS
  <2>1. Turn(c, i, j, q, a, D)
    BY DEF Talk
  <2>2. CASE c = "answer" /\ \E d \in D : q = <<Sending, d>>
    BY <2>2, WayHas
  <2>3. CASE c \in {"length", "chdir_w", "open_w", "read"} /\ \E d \in D : q = <<d>>
    BY <2>3, WayHas
  <2>4. CASE q = << >>
    BY <2>4, WayHas
  <2>5. QED
    BY <2>1, <2>2, <2>3, <2>4 DEF Turn
<1>6. s \in {"submit", "wait", "send"} => /\ Talk(c, i, "wait", j, q, a, D)
                                      /\ Talk(c, i, "send", j, q, a, D)
  BY DEF Talk
<1>7. s = "error" => Talk(c, i, "confirm", j, Append(q, Error), a, D)
  <2>1. s = "error" => WithError(c, Append(q, Error), D)
    BY DEF Talk, WithError
  <2>2. QED
    BY <2>1 DEF Talk
<1>8. QED
  BY <1>1, <1>2, <1>3, <1>4, <1>5, <1>6, <1>7

\* It answers, with the first part to come.
LEMMA TalkOpens ==
    ASSUME NEW D, NEW c, NEW i, NEW j, NEW q, NEW a, Talk(c, i, "open_r", j, q, a, D),
           c = "answer" => i = j
    PROVE  Talk(c, i, "submit", j, Append(q, Sending), a, D)
<1>1. c = "answer" /\ q = << >> /\ a = << >>
  BY DEF Talk
<1>2. Append(q, Sending) = <<Sending>>
  BY <1>1, ShortAppend
<1>3. Append(q, Sending) \in Way(c, D)
  BY <1>1, <1>2, WayHas
<1>4. QED
  BY <1>1, <1>2, <1>3 DEF Talk

\* It sends a part.
LEMMA TalkSends ==
    ASSUME NEW D, NEW c, NEW i, NEW j, NEW q, NEW a, Talk(c, i, "send", j, q, a, D),
           NEW d \in D, c = "answer" => i = 1
    PROVE  Talk(c, i, "ack", j, Append(q, d), a, D)
<1>1. /\ c \in {"answer", "length", "chdir_w", "open_w", "read"} /\ j = i /\ a = << >>
      /\ q = IF c = "answer" THEN <<Sending>> ELSE << >>
  BY DEF Talk
<1>2. CASE c = "answer"
  <2>1. Append(q, d) = <<Sending, d>>
    BY <1>1, <1>2, ShortAppend
  <2>2. Append(q, d) \in Way(c, D) /\ Turn(c, i, j, Append(q, d), a, D)
    BY <1>1, <1>2, <2>1, WayHas DEF Turn
  <2>3. QED
    BY <2>2 DEF Talk
<1>3. CASE c # "answer"
  <2>1. Append(q, d) = <<d>>
    BY <1>1, <1>3, ShortAppend
  <2>2. Append(q, d) \in Way(c, D) /\ Turn(c, i, j, Append(q, d), a, D)
    BY <1>1, <1>3, <2>1, WayHas DEF Turn
  <2>3. QED
    BY <2>2 DEF Talk
<1>4. QED
  BY <1>2, <1>3

\* It has a confirmation, and takes the next part.
LEMMA TalkAcked ==
    ASSUME NEW D, NEW c, NEW i, NEW j, NEW q, NEW a, Talk(c, i, "ack", j, q, a, D), a # << >>
    PROVE  Talk(c, i, "submit", j + 1, q, Tail(a), D)
<1>1. c = "read" /\ i = j + 1 /\ a = <<"ok">> /\ q = << >>
  BY DEF Talk, Turn
<1>2. Tail(a) = << >>
  BY <1>1, ShortTail
<1>3. q \in Way(c, D)
  BY <1>1, WayHas
<1>4. QED
  BY <1>1, <1>2, <1>3 DEF Talk

\* The client has its answer.
LEMMA TalkAnswered ==
    ASSUME NEW D, NEW s, NEW j, NEW q, NEW a, Talk("answer", 1, s, j, q, a, D),
           q # << >>, Head(q) = Sending, Sending # Error
    PROVE  Talk("length", 1, s, j, Tail(q), a, D)
<1>1. Head(q) # Error
  OBVIOUS
<1>2. q \in Way("answer", D) => Tail(q) \in Way("length", D)
  BY WayTail
<1>3. WithError("answer", q, D) => WithError("length", Tail(q), D)
  BY <1>1, ErrorTail
<1>4. Tail(q) \in Way("length", D) \/ WithError("length", Tail(q), D)
  BY <1>2, <1>3 DEF Talk
<1>5. s \notin {"request", "getcwd", "open_r"}
  BY DEF Talk
<1>6. s \in {"submit", "wait", "send"} => j = 1 /\ a = << >> /\ Tail(q) = << >>
  BY ShortTail DEF Talk
<1>7. s = "ack" => Turn("length", 1, j, Tail(q), a, D)
  <2> SUFFICES ASSUME s = "ack" PROVE Turn("length", 1, j, Tail(q), a, D)
    OBVIOUS
  <2>1. j = 1 /\ a = << >> /\ \E d \in D : q = <<Sending, d>>
    BY DEF Talk, Turn
  <2>2. PICK d \in D : q = <<Sending, d>>
    BY <2>1
  <2>3. Tail(q) = <<d>>
    BY <2>2, ShortTail
  <2>4. QED
    BY <2>1, <2>3 DEF Turn
<1>8. QED
  BY <1>2, <1>3, <1>4, <1>5, <1>6, <1>7 DEF Talk

\* The client goes on without taking anything.
LEMMA TalkGoesOn ==
    ASSUME NEW D, NEW c, NEW e, NEW i, NEW s, NEW j, NEW q, NEW a, Talk(c, i, s, j, q, a, D),
           \/ c = "length" /\ e = "chdir_w"
           \/ c = "chdir_w" /\ e = "open_w"
           \/ c = "open_w" /\ e = "read"
           \/ c \in {"submit", "wait"} /\ e \in {"wait", "ack"}
    PROVE  Talk(e, i, s, j, q, a, D)
<1>1. Way(e, D) = Way(c, D) /\ (WithError(c, q, D) => WithError(e, q, D))
  BY DEF Way, WithError
<1>2. Turn(c, i, j, q, a, D) => Turn(e, i, j, q, a, D)
  BY DEF Turn
<1>3. QED
  BY <1>1, <1>2 DEF Talk

\* It has a part to write.
LEMMA TalkReads ==
    ASSUME NEW D, NEW i, NEW s, NEW j, NEW q, NEW a, Talk("read", i, s, j, q, a, D),
           q # << >>, Head(q) \in D, Error \notin D
    PROVE  Talk("submit", i, s, j, Tail(q), a, D)
<1>1. Head(q) # Error
  OBVIOUS
<1>2. q \in Way("read", D) => Tail(q) \in Way("submit", D)
  BY WayTail
<1>3. WithError("read", q, D) => WithError("submit", Tail(q), D)
  BY <1>1, ErrorTail
<1>4. Tail(q) \in Way("submit", D) \/ WithError("submit", Tail(q), D)
  BY <1>2, <1>3 DEF Talk
<1>5. s \notin {"request", "getcwd", "open_r", "submit", "wait", "send"}
  BY DEF Talk
<1>6. s = "ack" => Turn("submit", i, j, Tail(q), a, D)
  <2> SUFFICES ASSUME s = "ack" PROVE Turn("submit", i, j, Tail(q), a, D)
    OBVIOUS
  <2>1. j = i /\ a = << >> /\ \E d \in D : q = <<d>>
    BY DEF Talk, Turn
  <2>2. Tail(q) = << >>
    BY <2>1, ShortTail
  <2>3. QED
    BY <2>1, <2>2 DEF Turn
<1>7. QED
  BY <1>2, <1>3, <1>4, <1>5, <1>6 DEF Talk

\* It confirms a part, if the server is there, and waits for the next.
LEMMA TalkConfirms ==
    ASSUME NEW D, NEW i \in Nat, NEW s, NEW j \in Nat, NEW q, NEW a, NEW b, Talk("ack", i, s, j, q, a, D),
           s = "ack" => b = Append(a, "ok")
    PROVE  Talk("read", i + 1, s, j, q, b, D)
<1>1. Way("ack", D) = {<< >>} /\ << >> \in Way("read", D)
  BY WayHas DEF Way
<1>2. /\ q \in Way("ack", D) => q \in Way("read", D)
      /\ WithError("ack", q, D) => WithError("read", q, D)
  BY <1>1 DEF WithError
<1>3. s \notin {"request", "getcwd", "open_r", "submit", "wait", "send"}
  BY DEF Talk
<1>4. s = "ack" => Turn("read", i + 1, j, q, b, D)
  <2> SUFFICES ASSUME s = "ack" PROVE Turn("read", i + 1, j, q, b, D)
    OBVIOUS
  <2>1. j = i /\ a = << >> /\ q = << >>
    BY DEF Talk, Turn
  <2>2. b = <<"ok">>
    BY <2>1, ShortAppend
  <2>3. QED
    BY <2>1, <2>2 DEF Turn
<1>5. QED
  BY <1>2, <1>3, <1>4 DEF Talk

\* The dialogues of all transfers after a step of t.
LEMMA DialogueAfter ==
    ASSUME Shape, DialogueInv, NEW t \in Transfers, Elsewhere(t),
           th'[C(t)].pc \notin Ended \cup {"connect"} /\ <<t, "text">> \notin mishaps' =>
              Talk(th'[C(t)].pc, th'[C(t)].i, th'[S(t)].pc, th'[S(t)].i, s2c'[t], c2s'[t], Data(t))
    PROVE  DialogueInv'
<1> SUFFICES ASSUME NEW u \in Transfers PROVE Dialogue(u)'
  BY DEF DialogueInv
<1>1. Data(u)' = Data(u) /\ mishaps \subseteq mishaps'
  BY DEF Elsewhere, Data, Parts
<1>2. /\ pc(C(u))' = th'[C(u)].pc /\ ci(u)' = th'[C(u)].i
      /\ pc(S(u))' = th'[S(u)].pc /\ si(u)' = th'[S(u)].i
      /\ Open(C(u))' <=> th'[C(u)].pc \notin Ended \cup {"connect"}
  BY DEF pc, ci, si, C, S, Open
<1>3. CASE u = t
  BY <1>1, <1>2, <1>3 DEF Dialogue
<1>4. CASE u # t
  <2>1. th'[C(u)] = th[C(u)] /\ th'[S(u)] = th[S(u)] /\ s2c'[u] = s2c[u] /\ c2s'[u] = c2s[u]
    BY <1>4 DEF Elsewhere
  <2>2. Dialogue(u)
    BY DEF DialogueInv
  <2>3. /\ pc(C(u))' = pc(C(u)) /\ ci(u)' = ci(u) /\ pc(S(u))' = pc(S(u)) /\ si(u)' = si(u)
        /\ Open(C(u))' <=> Open(C(u))
    BY <1>2, <2>1 DEF pc, ci, si, Open
  <2>4. QED
    BY <1>1, <2>1, <2>2, <2>3 DEF Dialogue
<1>5. QED
  BY <1>3, <1>4

LEMMA ServesDialogue ==
    ASSUME Shape, DialogueInv, NEW t \in Transfers, NEW l, NEW n, NEW b, Serves(t, l, n, b),
           Open(C(t)) /\ Talk(pc(C(t)), ci(t), pc(S(t)), si(t), s2c[t], c2s[t], Data(t)) =>
              Talk(pc(C(t)), ci(t), l, n, s2c'[t], c2s'[t], Data(t))
    PROVE  DialogueInv'
<1>1. Elsewhere(t) /\ th'[C(t)] = th[C(t)] /\ th'[S(t)].pc = l /\ th'[S(t)].i = n
  BY ServesKeeps
<1>2. th'[C(t)].pc = pc(C(t)) /\ th'[C(t)].i = ci(t) /\ mishaps \subseteq mishaps'
  BY <1>1 DEF pc, ci, Elsewhere
<1>3. Dialogue(t)
  BY DEF DialogueInv
<1>4. ASSUME th'[C(t)].pc \notin Ended \cup {"connect"}, <<t, "text">> \notin mishaps'
      PROVE  Talk(th'[C(t)].pc, th'[C(t)].i, th'[S(t)].pc, th'[S(t)].i, s2c'[t], c2s'[t], Data(t))
  <2>1. Open(C(t)) /\ <<t, "text">> \notin mishaps
    BY <1>2, <1>4 DEF Open
  <2>2. Talk(pc(C(t)), ci(t), pc(S(t)), si(t), s2c[t], c2s[t], Data(t))
    BY <1>3, <2>1 DEF Dialogue
  <2>3. Talk(pc(C(t)), ci(t), l, n, s2c'[t], c2s'[t], Data(t))
    BY <2>1, <2>2
  <2>4. QED
    BY <1>1, <1>2, <2>3
<1>5. QED
  BY <1>1, <1>4, DialogueAfter

LEMMA LoadsDialogue ==
    ASSUME Shape, DialogueInv, NEW t \in Transfers, NEW l, NEW n, NEW b, Loads(t, l, n, b),
           \/ l \in Ended \cup {"connect"} \/ <<t, "text">> \in mishaps'
           \/ /\ Open(C(t))
              /\ Talk(pc(C(t)), ci(t), pc(S(t)), si(t), s2c[t], c2s[t], Data(t)) =>
                    Talk(l, n, pc(S(t)), si(t), s2c'[t], c2s'[t], Data(t))
    PROVE  DialogueInv'
<1>1. Elsewhere(t) /\ th'[S(t)] = th[S(t)] /\ th'[C(t)].pc = l /\ th'[C(t)].i = n
  BY LoadsKeeps
<1>2. th'[S(t)].pc = pc(S(t)) /\ th'[S(t)].i = si(t) /\ mishaps \subseteq mishaps'
  BY <1>1 DEF pc, si, Elsewhere
<1>3. Dialogue(t)
  BY DEF DialogueInv
<1>4. ASSUME th'[C(t)].pc \notin Ended \cup {"connect"}, <<t, "text">> \notin mishaps'
      PROVE  Talk(th'[C(t)].pc, th'[C(t)].i, th'[S(t)].pc, th'[S(t)].i, s2c'[t], c2s'[t], Data(t))
  <2>1. Open(C(t)) /\ <<t, "text">> \notin mishaps
    BY <1>1, <1>2, <1>4
  <2>2. Talk(pc(C(t)), ci(t), pc(S(t)), si(t), s2c[t], c2s[t], Data(t))
    BY <1>3, <2>1 DEF Dialogue
  <2>3. Talk(l, n, pc(S(t)), si(t), s2c'[t], c2s'[t], Data(t))
    BY <1>1, <1>4, <2>2
  <2>4. QED
    BY <1>1, <1>2, <2>3
<1>5. QED
  BY <1>1, <1>4, DialogueAfter

LEMMA AbortDialogue ==
    ASSUME Shape, DialogueInv, NEW p \in Processes, Abort(p)
    PROVE  DialogueInv'
<1> SUFFICES ASSUME NEW u \in Transfers, Open(C(u))', <<u, "text">> \notin mishaps'
             PROVE  Talk(pc(C(u)), ci(u), pc(S(u)), si(u), s2c[u], c2s[u], Data(u))'
  BY DEF DialogueInv, Dialogue
<1>1. /\ \A h \in Threads : th'[h] = th[h] \/ th'[h] = Idle("dead")
      /\ route' = route /\ mishaps' = mishaps /\ s2c' = s2c /\ c2s' = c2s
  BY AbortEffect
<1>2. C(u) \in Threads /\ S(u) \in Threads
  BY TwoEnds
<1>3. Idle("dead").pc = "dead"
  BY DEF Idle
<1>4. th'[C(u)] = th[C(u)]
  BY <1>1, <1>2, <1>3 DEF Open, Ended, pc, C
<1>5. pc(C(u))' = pc(C(u)) /\ ci(u)' = ci(u) /\ Open(C(u)) /\ Data(u)' = Data(u)
  BY <1>1, <1>4 DEF pc, ci, C, Open, Data, Parts
<1>6. Talk(pc(C(u)), ci(u), pc(S(u)), si(u), s2c[u], c2s[u], Data(u))
  BY <1>1, <1>5 DEF DialogueInv, Dialogue
<1>7. CASE th'[S(u)] = th[S(u)]
  <2>1. pc(S(u))' = pc(S(u)) /\ si(u)' = si(u)
    BY <1>7 DEF pc, si, S
  <2>2. QED
    BY <1>1, <1>5, <1>6, <2>1
<1>8. CASE th'[S(u)] = Idle("dead")
  <2>1. pc(S(u))' = "dead"
    BY <1>3, <1>8 DEF pc, S
  <2>2. Talk(pc(C(u)), ci(u), "dead", si(u)', s2c[u], c2s[u], Data(u))
    BY <1>6, TalkServer
  <2>3. QED
    BY <1>1, <1>5, <2>1, <2>2
<1>9. QED
  BY <1>1, <1>2, <1>7, <1>8

LEMMA AioDialogue ==
    ASSUME Shape, DialogueInv, NEW h \in Threads, AioStep(h)
    PROVE  DialogueInv'
<1> DEFINE t == h[1]
<1>1. t \in Transfers /\ (h = C(t) \/ h = S(t)) /\ Proc(h) \in Processes
  BY OneEnd
<1>2. C(t) # S(t) /\ C(t) \in Threads /\ S(t) \in Threads /\ C(t)[2] = "client" /\ S(t)[2] = "server"
  BY <1>1, TwoEnds
<1> HIDE DEF t
<1>3. ASSUME Elsewhere(t), Only(h), At(h, "submit") \/ At(h, "wait"), s2c' = s2c, c2s' = c2s,
             \/ th'[h].i = th[h].i /\ h = C(t) /\ th'[h].pc \in {"wait", "ack"}
             \/ th'[h].i = th[h].i /\ h = S(t) /\ th'[h].pc \in {"wait", "send"}
             \/ h = C(t) /\ th'[h].pc = "over"
             \/ h = S(t) /\ th'[h].pc = "error" /\ th'[h].i = 1
      PROVE  DialogueInv'
  <2>1. mishaps \subseteq mishaps' /\ Dialogue(t) /\ (pc(h) = "submit" \/ pc(h) = "wait")
    BY <1>1, <1>3 DEF Elsewhere, DialogueInv, At
  <2>2. ASSUME th'[C(t)].pc \notin Ended \cup {"connect"}, <<t, "text">> \notin mishaps'
        PROVE  Talk(th'[C(t)].pc, th'[C(t)].i, th'[S(t)].pc, th'[S(t)].i, s2c'[t], c2s'[t], Data(t))
    <3>1. CASE h = C(t)
      <4>1. th'[S(t)] = th[S(t)] /\ th'[C(t)].pc \in {"wait", "ack"} /\ th'[C(t)].i = th[C(t)].i
        BY <1>2, <1>3, <2>2, <3>1 DEF Only, Ended
      <4>2. Open(C(t)) /\ <<t, "text">> \notin mishaps /\ pc(C(t)) \in {"submit", "wait"}
        BY <2>1, <2>2, <3>1 DEF Open, Ended
      <4>3. Talk(pc(C(t)), ci(t), pc(S(t)), si(t), s2c[t], c2s[t], Data(t))
        BY <2>1, <4>2 DEF Dialogue
      <4>4. Talk(th'[C(t)].pc, ci(t), pc(S(t)), si(t), s2c[t], c2s[t], Data(t))
        BY <4>1, <4>2, <4>3, TalkGoesOn
      <4>5. QED
        BY <1>3, <4>1, <4>4 DEF ci, si, pc
    <3>2. CASE h = S(t)
      <4>1. th'[C(t)] = th[C(t)]
        BY <1>2, <1>3, <3>2 DEF Only
      <4>2. Open(C(t)) /\ <<t, "text">> \notin mishaps /\ pc(S(t)) \in {"submit", "wait", "send"}
        BY <2>1, <2>2, <3>2, <4>1 DEF Open, pc
      <4>3. Talk(pc(C(t)), ci(t), pc(S(t)), si(t), s2c[t], c2s[t], Data(t))
        BY <2>1, <4>2 DEF Dialogue
      <4>4. /\ Talk(pc(C(t)), ci(t), "wait", si(t), s2c[t], c2s[t], Data(t))
            /\ Talk(pc(C(t)), ci(t), "send", si(t), s2c[t], c2s[t], Data(t))
            /\ Talk(pc(C(t)), ci(t), "error", 1, s2c[t], c2s[t], Data(t))
        BY <4>2, <4>3, TalkServer
      <4>5. Talk(pc(C(t)), ci(t), th'[S(t)].pc, th'[S(t)].i, s2c[t], c2s[t], Data(t))
        BY <1>2, <1>3, <3>2, <4>4 DEF si
      <4>6. QED
        BY <1>3, <4>1, <4>5 DEF ci, pc
    <3>3. QED
      BY <1>1, <3>1, <3>2
  <2>3. QED
    BY <1>1, <1>3, <2>2, DialogueAfter
<1>4. h = C(t) => AfterIO(h) = "ack"
  BY <1>2, AfterIOIs
<1>5. h = S(t) => AfterIO(h) = "send"
  BY <1>2, AfterIOIs
<1>6. CASE Submit(h)
  <2>1. /\ At(h, "submit") /\ Only(h) /\ th'[h].i = th[h].i /\ s2c' = s2c /\ c2s' = c2s
        /\ th'[h].pc = "wait" \/ th'[h].pc = AfterIO(h)
    BY <1>6, SubmitEffect
  <2>2. Elsewhere(t)
    BY <1>6, SubmitElsewhere DEF t
  <2>3. QED
    BY <1>1, <1>3, <1>4, <1>5, <2>1, <2>2
<1>7. CASE Wait(h)
  <2>1. /\ At(h, "wait") /\ Only(h) /\ th'[h].i = th[h].i /\ s2c' = s2c /\ c2s' = c2s
        /\ th'[h].pc = AfterIO(h)
    BY <1>7, WaitEffect
  <2>2. Elsewhere(t)
    BY <1>7, WaitElsewhere DEF t
  <2>3. QED
    BY <1>1, <1>3, <1>4, <1>5, <2>1, <2>2
<1>8. CASE (At(h, "submit") \/ At(h, "wait")) /\ AioFails(h)
  <2>1. /\ Elsewhere(t) /\ s2c' = s2c /\ c2s' = c2s
        /\ Moves(h, IF h[2] = "client" THEN "over" ELSE "error", 1, Junk)
    BY <1>8, AioFailsIs DEF t
  <2>2. QED
    BY <1>1, <1>2, <1>3, <1>8, <2>1 DEF Moves
<1>9. CASE BadPointer(h)
  BY <1>1, <1>9, AbortDialogue DEF BadPointer
<1>10. QED
  BY <1>6, <1>7, <1>8, <1>9 DEF AioStep, SubmitFails, WaitFails

LEMMA TCPhandlerDialogue ==
    ASSUME Shape, FirstInv, DialogueInv, NEW t \in Transfers, TCPhandler(t)
    PROVE  DialogueInv'
<1> DEFINE D == Data(t)
           c == pc(C(t))
           i == ci(t)
           s == pc(S(t))
           j == si(t)
           q == s2c[t]
           a == c2s[t]
<1>1. FirstPart(t) /\ th[S(t)].i = j /\ th[S(t)].buff \in D
  BY TwoEnds, OldBuffer DEF FirstInv, si
<1>2. c = "answer" => i = 1
  BY <1>1 DEF FirstPart
<1>3. s = "open_r" => j = 1
  BY <1>1 DEF FirstPart
<1>4. ASSUME NEW l, NEW n, NEW b, Serves(t, l, n, b),
             Open(C(t)) /\ Talk(c, i, s, j, q, a, D) => Talk(c, i, l, n, s2c'[t], c2s'[t], D)
      PROVE  DialogueInv'
  BY <1>4, ServesDialogue
<1> HIDE DEF D, c, i, s, j, q, a
<1>5. CASE SRequest(t)
  <2>1. PICK l \in {"getcwd", "over"} : Serves(t, l, j, th[S(t)].buff)
    BY <1>1, <1>5, SRequestIs
  <2>2. s = "request" /\ s2c'[t] = q /\ c2s'[t] = a
    BY <1>5, SRequestIs DEF At, s, q, a
  <2>3. Talk(c, i, s, j, q, a, D) => Talk(c, i, l, j, q, a, D)
    BY <2>2, TalkServer
  <2>4. QED
    BY <1>4, <2>1, <2>2, <2>3
<1>6. CASE SGetcwd(t)
  <2>1. Serves(t, "open_r", j, th[S(t)].buff) /\ s = "getcwd" /\ s2c'[t] = q /\ c2s'[t] = a
    BY <1>1, <1>6, SGetcwdIs DEF At, s, q, a
  <2>2. Talk(c, i, s, j, q, a, D) => Talk(c, i, "open_r", j, q, a, D)
    BY <2>1, TalkServer
  <2>3. QED
    BY <1>4, <2>1, <2>2
<1>7. CASE SOpen(t)
  <2>1. /\ Serves(t, "submit", j, th[S(t)].buff) /\ s = "open_r" /\ c2s'[t] = a
        /\ Open(C(t)) => s2c'[t] = Append(q, Sending)
    BY <1>1, <1>7, SOpenIs DEF At, s, q, a
  <2>2. Talk(c, i, s, j, q, a, D) => Talk(c, i, "submit", j, Append(q, Sending), a, D)
    BY <1>2, <1>3, <2>1, TalkOpens
  <2>3. QED
    BY <1>4, <2>1, <2>2
<1>8. CASE SOpenFails(t)
  <2>1. Serves(t, "error", 1, Junk) /\ s = "open_r" /\ s2c'[t] = q /\ c2s'[t] = a
    BY <1>8, SOpenFailsIs DEF At, s, q, a
  <2>2. Talk(c, i, s, j, q, a, D) => Talk(c, i, "error", 1, q, a, D)
    BY <2>1, TalkServer
  <2>3. QED
    BY <1>4, <2>1, <2>2
<1>9. CASE SSend(t)
  <2>1. /\ Serves(t, "ack", j, th[S(t)].buff) /\ s = "send" /\ c2s'[t] = a
        /\ Open(C(t)) => s2c'[t] = Append(q, th[S(t)].buff)
    BY <1>1, <1>9, SSendIs DEF At, s, q, a
  <2>2. Talk(c, i, s, j, q, a, D) => Talk(c, i, "ack", j, Append(q, th[S(t)].buff), a, D)
    BY <1>1, <1>2, <2>1, TalkSends
  <2>3. QED
    BY <1>4, <2>1, <2>2
<1>10. CASE SAck(t)
  <2>1. /\ s = "ack" /\ s2c'[t] = q /\ a # << >> /\ c2s'[t] = Tail(a)
    BY <1>10, SAckIs DEF At, s, q, a
  <2>2. CASE Serves(t, "submit", th[S(t)].i + 1, th[S(t)].buff)
    <3>1. Talk(c, i, s, j, q, a, D) => Talk(c, i, "submit", j + 1, q, Tail(a), D)
      BY <2>1, TalkAcked
    <3>2. QED
      BY <1>1, <1>4, <2>1, <2>2, <3>1
  <2>3. CASE Serves(t, "over", 1, Junk)
    <3>1. Talk(c, i, s, j, q, a, D) => Talk(c, i, "submit", j + 1, q, Tail(a), D)
      BY <2>1, TalkAcked
    <3>2. Talk(c, i, s, j, q, a, D) => Talk(c, i, "over", 1, q, Tail(a), D)
      BY <3>1, TalkServer
    <3>3. QED
      BY <1>4, <2>1, <2>3, <3>2
  <2>4. QED
    BY <1>10, <2>2, <2>3, SAckIs
<1>11. CASE SSendFails(t) \/ SAckFails(t)
  <2>1. Serves(t, "error", 1, Junk) /\ s \in {"send", "ack"} /\ s2c'[t] = q /\ c2s'[t] = a
    BY <1>11, SFails DEF At, s, q, a
  <2>2. Talk(c, i, s, j, q, a, D) => Talk(c, i, "error", 1, q, a, D)
    BY <2>1, TalkServer
  <2>3. QED
    BY <1>4, <2>1, <2>2
<1>12. CASE SError(t)
  <2>1. s = "error" /\ c2s'[t] = a
    BY <1>12, SErrorIs DEF At, s, a
  <2>2. CASE Open(C(t))
    <3>1. Serves(t, "confirm", j, th[S(t)].buff) /\ s2c'[t] = Append(q, Error)
      BY <1>1, <1>12, <2>2, SErrorIs DEF q
    <3>2. Talk(c, i, s, j, q, a, D) => Talk(c, i, "confirm", j, Append(q, Error), a, D)
      BY <2>1, TalkServer
    <3>3. QED
      BY <1>4, <2>1, <3>1, <3>2
  <2>3. CASE ~ Open(C(t))
    <3>1. Serves(t, "over", j, th[S(t)].buff)
      BY <1>1, <1>12, <2>3, SErrorIs
    <3>2. QED
      BY <1>4, <2>3, <3>1
  <2>4. QED
    BY <2>2, <2>3
<1>13. CASE SConfirm(t)
  <2>1. Serves(t, "over", j, th[S(t)].buff) /\ s2c'[t] = q /\ c2s'[t] = a
    BY <1>1, <1>13, SConfirmIs DEF q, a
  <2>2. Talk(c, i, s, j, q, a, D) => Talk(c, i, "over", j, q, a, D)
    BY TalkServer
  <2>3. QED
    BY <1>4, <2>1, <2>2
<1>14. CASE AioStep(S(t))
  BY <1>14, TwoEnds, AioDialogue
<1>15. QED
  BY <1>5, <1>6, <1>7, <1>8, <1>9, <1>10, <1>11, <1>12, <1>13, <1>14 DEF TCPhandler

LEMMA TCPTransferDialogue ==
    ASSUME Shape, ListInv, FirstInv, DialogueInv, NEW t \in Transfers, TCPTransfer(t) \/ Get(t)
    PROVE  DialogueInv'
<1> DEFINE D == Data(t)
           c == pc(C(t))
           i == ci(t)
           s == pc(S(t))
           j == si(t)
           q == s2c[t]
           a == c2s[t]
<1>1. FirstPart(t) /\ th[C(t)].i = i /\ i \in Nat /\ j \in Nat
  BY TwoEnds, OneEnd DEF FirstInv, ci, si
<1>2. c = "answer" => i = 1
  BY <1>1 DEF FirstPart
<1>3. Sending # Error /\ Error \notin D
  BY Marks
<1>4. ASSUME NEW l, NEW n, NEW b, Loads(t, l, n, b),
             \/ l \in Ended \cup {"connect"} \/ <<t, "text">> \in mishaps'
             \/ /\ Open(C(t))
                /\ Talk(c, i, s, j, q, a, D) => Talk(l, n, s, j, s2c'[t], c2s'[t], D)
      PROVE  DialogueInv'
  BY <1>4, LoadsDialogue
<1>5. c \in {"answer", "length", "chdir_w", "open_w", "read", "ack"} => Open(C(t))
  BY DEF Open, Ended
<1>6. "over" \in Ended /\ "finished" \in Ended
  BY DEF Ended
<1>7. Client(t) \in Processes
  BY TwoEnds
<1> HIDE DEF D, c, i, s, j, q, a
<1>8. CASE Get(t)
  BY <1>4, <1>8, GetIs
<1>9. CASE CConnect(t)
  <2>1. CASE Loads(t, "over", th[C(t)].i, th[C(t)].buff)
    BY <1>4, <1>6, <2>1
  <2>2. CASE /\ Elsewhere(t)
             /\ th'[C(t)].pc = "answer" /\ th'[C(t)].i = th[C(t)].i
             /\ th'[S(t)].pc = "request" /\ th'[S(t)].i = th[S(t)].i
    <3>1. c = "connect" /\ s2c'[t] = q /\ c2s'[t] = a
      BY <1>9, CConnectIs DEF At, c, q, a
    <3>2. q = << >> /\ a = << >>
      BY <3>1 DEF ListInv, Begins, c, q, a
    <3>3. Talk("answer", th'[C(t)].i, "request", th'[S(t)].i, << >>, << >>, Data(t))
      BY WayHas DEF Talk
    <3>4. QED
      BY <2>2, <3>1, <3>2, <3>3, DialogueAfter
  <2>3. QED
    BY <1>9, <2>1, <2>2, CConnectIs
<1>10. CASE CAnswer(t)
  <2>1. CASE /\ Loads(t, "length", th[C(t)].i, th[C(t)].buff)
             /\ s2c[t] # << >> /\ Head(s2c[t]) = Sending /\ s2c'[t] = Tail(s2c[t])
             /\ c2s'[t] = c2s[t]
    <3>1. c = "answer" /\ q # << >> /\ Head(q) = Sending /\ s2c'[t] = Tail(q) /\ c2s'[t] = a
      BY <1>10, <2>1, CAnswerIs DEF At, c, q, a
    <3>2. Talk(c, i, s, j, q, a, D) => Talk("length", i, s, j, Tail(q), a, D)
      BY <1>2, <1>3, <3>1, TalkAnswered
    <3>3. QED
      BY <1>1, <1>4, <1>5, <2>1, <3>1, <3>2
  <2>2. CASE Loads(t, "over", th[C(t)].i, th[C(t)].buff)
    BY <1>4, <1>6, <2>2
  <2>3. QED
    BY <1>10, <2>1, <2>2, CAnswerIs
<1>11. CASE CAnswerFails(t)
  BY <1>4, <1>6, <1>11, CAnswerFailsIs
<1>12. CASE CLength(t)
  <2>1. CASE Loads(t, "chdir_w", th[C(t)].i, th[C(t)].buff)
    <3>1. c = "length" /\ s2c'[t] = q /\ c2s'[t] = a
      BY <1>12, CLengthIs DEF At, c, q, a
    <3>2. Talk(c, i, s, j, q, a, D) => Talk("chdir_w", i, s, j, q, a, D)
      BY <3>1, TalkGoesOn
    <3>3. QED
      BY <1>1, <1>4, <1>5, <2>1, <3>1, <3>2
  <2>2. CASE Loads(t, "over", th[C(t)].i, th[C(t)].buff)
    BY <1>4, <1>6, <2>2
  <2>3. QED
    BY <1>12, <2>1, <2>2, CLengthIs
<1>13. CASE CChdir(t)
  <2>1. c = "chdir_w" /\ s2c'[t] = q /\ c2s'[t] = a /\ Loads(t, "open_w", i, th[C(t)].buff)
    BY <1>1, <1>13, CChdirIs DEF At, c, q, a
  <2>2. Talk(c, i, s, j, q, a, D) => Talk("open_w", i, s, j, q, a, D)
    BY <2>1, TalkGoesOn
  <2>3. QED
    BY <1>4, <1>5, <2>1, <2>2
<1>14. CASE COpen(t)
  <2>1. c = "open_w" /\ s2c'[t] = q /\ c2s'[t] = a /\ Loads(t, "read", i, th[C(t)].buff)
    BY <1>1, <1>14, COpenIs DEF At, c, q, a
  <2>2. Talk(c, i, s, j, q, a, D) => Talk("read", i, s, j, q, a, D)
    BY <2>1, TalkGoesOn
  <2>3. QED
    BY <1>4, <1>5, <2>1, <2>2
<1>15. CASE CRead(t)
  <2>1. c = "read" /\ q # << >> /\ s2c'[t] = Tail(q) /\ c2s'[t] = a
    BY <1>15, CReadIs DEF At, c, q, a
  <2>2. PICK l, b :
           /\ l \in {"submit", "read"}
           /\ Loads(t, l, i, b)
           /\ \/ l = "submit" /\ Head(q) \in D
              \/ <<t, "text">> \in mishaps'
    BY <1>1, <1>15, CReadIs DEF q, D
  <2>3. CASE <<t, "text">> \in mishaps'
    BY <1>4, <2>2, <2>3
  <2>4. CASE l = "submit" /\ Head(q) \in D
    <3>1. Talk(c, i, s, j, q, a, D) => Talk("submit", i, s, j, Tail(q), a, D)
      BY <1>3, <2>1, <2>4, TalkReads
    <3>2. QED
      BY <1>4, <1>5, <2>1, <2>2, <2>4, <3>1
  <2>5. QED
    BY <2>2, <2>3, <2>4
<1>16. CASE CAck(t)
  <2>1. c = "ack" /\ s2c'[t] = q /\ (Open(S(t)) => c2s'[t] = Append(a, "ok"))
    BY <1>16, CAckIs DEF At, c, q, a
  <2>2. CASE Loads(t, "read", th[C(t)].i + 1, th[C(t)].buff)
    <3>1. s = "ack" => Open(S(t))
      BY DEF s, Open, Ended
    <3>2. Talk(c, i, s, j, q, a, D) => Talk("read", i + 1, s, j, q, c2s'[t], D)
      BY <1>1, <2>1, <3>1, TalkConfirms
    <3>3. QED
      BY <1>1, <1>4, <1>5, <2>1, <2>2, <3>2
  <2>3. CASE Loads(t, "finished", 1, Junk)
    BY <1>4, <1>6, <2>3
  <2>4. QED
    BY <1>16, <2>2, <2>3, CAckIs
<1>17. CASE CReadFails(t) \/ CAckFails(t) \/ COpenFails(t) \/ BadEntry(t)
  <2>1. CASE Abort(Client(t))
    BY <1>7, <2>1, AbortDialogue
  <2>2. CASE CGivesUp(t)
    BY <1>4, <1>6, <2>1, <2>2, CGivesUpIs
  <2>3. QED
    BY <1>17, <2>1, <2>2 DEF CReadFails, CAckFails, COpenFails, BadEntry
<1>18. CASE AioStep(C(t))
  BY <1>18, TwoEnds, AioDialogue
<1>19. QED
  BY <1>8, <1>9, <1>10, <1>11, <1>12, <1>13, <1>14, <1>15, <1>16, <1>17, <1>18 DEF TCPTransfer

LEMMA InitDialogue == Init => DialogueInv
<1> SUFFICES ASSUME Init, NEW t \in Transfers PROVE Dialogue(t)
  BY DEF DialogueInv
<1>1. pc(C(t)) = "none"
  BY DEF Init, C, Threads, pc, Idle
<1>2. QED
  BY <1>1 DEF Dialogue, Open, Ended

\* No thread goes anywhere, and nothing moves on the way.
LEMMA SameDialogue ==
    ASSUME Shape, DialogueInv, route' = route, mishaps' = mishaps, s2c' = s2c, c2s' = c2s,
           \A h \in Threads : th'[h].pc = th[h].pc /\ th'[h].i = th[h].i
    PROVE  DialogueInv'
<1> SUFFICES ASSUME NEW u \in Transfers PROVE Dialogue(u)'
  BY DEF DialogueInv
<1>1. C(u) \in Threads /\ S(u) \in Threads /\ Dialogue(u)
  BY TwoEnds DEF DialogueInv
<1>2. /\ pc(C(u))' = pc(C(u)) /\ ci(u)' = ci(u) /\ pc(S(u))' = pc(S(u)) /\ si(u)' = si(u)
      /\ Open(C(u))' <=> Open(C(u))
  BY <1>1 DEF pc, ci, si, C, S, Open
<1>3. Data(u)' = Data(u)
  BY DEF Data, Parts
<1>4. QED
  BY <1>1, <1>2, <1>3 DEF Dialogue

LEMMA DialogueStep == Shape /\ ListInv /\ FirstInv /\ DialogueInv /\ [Next]_vars => DialogueInv'
<1> SUFFICES ASSUME Shape, ListInv, FirstInv, DialogueInv, [Next]_vars PROVE DialogueInv'
  OBVIOUS
<1>1. CASE UNCHANGED vars
  BY <1>1, SameDialogue DEF vars, net
<1>2. ASSUME NEW p \in Processes, LClear(p) PROVE DialogueInv'
  BY <1>2, SameDialogue DEF LClear, net
<1>3. ASSUME NEW p \in Processes, Complete(p) PROVE DialogueInv'
  <2>1. PICK r, ok : Completes(p, r, ok)
    BY <1>3, CompleteIs
  <2>2. \A h \in Threads : th'[h].pc = th[h].pc /\ th'[h].i = th[h].i
    BY <2>1, CompleteEffect DEF Only
  <2>3. QED
    BY <2>1, <2>2, SameDialogue DEF Completes, net
<1>4. ASSUME NEW t \in Transfers, Get(t) \/ TCPTransfer(t) \/ TCPhandler(t) PROVE DialogueInv'
  BY <1>4, TCPTransferDialogue, TCPhandlerDialogue
<1>5. QED
  BY <1>1, <1>2, <1>3, <1>4 DEF Next

\* What follows from the dialogue, and from who is alone.
LEMMA NobodyWaitsInVain ==
    ASSUME Shape, DialogueInv, AloneInv
    PROVE  NoVainWait
<1> SUFFICES ASSUME NEW t \in Transfers
             PROVE  /\ (At(C(t), "answer") \/ At(C(t), "read")) =>
                          (s2c[t] # << >> \/ ~ SWaits(t) \/ <<t, "text">> \in mishaps)
                    /\ \A h \in {C(t), S(t)} :
                          At(h, "wait") => (aio[Proc(h)] # {} \/ <<t, "shared">> \in mishaps)
  BY DEF NoVainWait
<1>1. ASSUME At(C(t), "answer") \/ At(C(t), "read"), s2c[t] = << >>, SWaits(t), <<t, "text">> \notin mishaps
      PROVE  FALSE
  <2>1. Open(C(t))
    BY <1>1 DEF At, Open, Ended
  <2>2. Talk(pc(C(t)), ci(t), pc(S(t)), si(t), s2c[t], c2s[t], Data(t))
    BY <1>1, <2>1 DEF DialogueInv, Dialogue
  <2>3. CASE At(S(t), "ack") /\ c2s[t] = << >>
    <3>1. Turn(pc(C(t)), ci(t), si(t), s2c[t], c2s[t], Data(t))
      BY <2>2, <2>3 DEF Talk, At
    <3>2. \A d : <<Sending, d>> # << >> /\ <<d>> # << >>
      OBVIOUS
    <3>3. QED
      BY <1>1, <2>3, <3>1, <3>2 DEF Turn, At
  <2>4. CASE At(S(t), "confirm")
    <3>1. PICK w \in Way(pc(C(t)), Data(t)) : s2c[t] = Append(w, Error)
      BY <2>2, <2>4 DEF Talk, WithError, At
    <3>2. s2c[t] # << >>
      BY <3>1, WayIs, ShortAppend
    <3>3. QED
      BY <1>1, <3>2
  <2>5. QED
    BY <1>1, <2>3, <2>4 DEF SWaits
<1>2. ASSUME NEW h \in {C(t), S(t)}, At(h, "wait"), <<t, "shared">> \notin mishaps
      PROVE  aio[Proc(h)] # {}
  <2>1. h \in Threads /\ h[1] = t
    BY TwoEnds
  <2>2. InBlock(h) /\ ~ Disturbed(h)
    BY <1>2, <2>1 DEF InBlock, Disturbed, At, Transferring
  <2>3. QED
    BY <1>2, <2>1, <2>2 DEF AloneInv, Alone
<1>3. QED
  BY <1>1, <1>2

(* The two ends never wait for each other, but for the text of an error    *)
(* taken for contents; nor does a thread for a request that is not there.  *)
THEOREM NobodyInVain == Spec => []NoVainWait
<1> DEFINE I == Shape /\ ListInv /\ FirstInv /\ AloneInv /\ DialogueInv
<1>1. Init => I
  BY InitShape, InitList, InitFirst, InitAlone, InitDialogue
<1>2. I /\ [Next]_vars => I'
  BY ShapeStep, ListStep, FirstStep, AloneStep, DialogueStep
<1>3. I => NoVainWait
  BY NobodyWaitsInVain
<1>4. QED
  BY <1>1, <1>2, <1>3, PTL DEF Spec
-----------------------------------------------------------------------------
(* What is downloaded.                                                     *)

\* Of all transfers after a step of t.
LEMMA ContentsAfter ==
    ASSUME Shape, ContentsInv, NEW t \in Transfers, Elsewhere(t),
           \A p \in Processes : \A r \in aio'[p] : r \in aio[p] \/ r.by[1] = t,
           ~ Spoilt(t)' => Contents(t)'
    PROVE  ContentsInv'
<1> SUFFICES ASSUME NEW u \in Transfers PROVE Contents(u)'
  BY DEF ContentsInv
<1>1. CASE u = t
  BY <1>1 DEF Contents
<1>2. CASE u # t
  <2>1. /\ th'[C(u)] = th[C(u)] /\ th'[S(u)] = th[S(u)] /\ s2c'[u] = s2c[u] /\ stored'[u] = stored[u]
        /\ mishaps \subseteq mishaps' /\ route' = route
    BY <1>2 DEF Elsewhere
  <2>2. /\ pc(C(u))' = pc(C(u)) /\ ci(u)' = ci(u) /\ pc(S(u))' = pc(S(u)) /\ si(u)' = si(u)
        /\ Parts(u)' = Parts(u) /\ Client(u)' = Client(u) /\ Server(u)' = Server(u)
    BY <2>1 DEF pc, ci, si, C, S, Parts, Client, Server
  <2>3. ASSUME ~ Spoilt(u)' PROVE ~ Spoilt(u)
    BY <2>1, <2>3 DEF Spoilt
  <2>4. Contents(u) /\ C(u)[1] = u /\ S(u)[1] = u /\ Client(u) \in Processes /\ Server(u) \in Processes
    BY TwoEnds DEF ContentsInv
  <2>5. \A r \in aio'[Client(u)] : r.by = C(u) => r \in aio[Client(u)]
    BY <1>2, <2>4
  <2>6. \A r \in aio'[Server(u)] : r.by = S(u) => r \in aio[Server(u)]
    BY <1>2, <2>4
  <2>7. CAsked(u) => CAsked(u)'
    BY <2>1, <2>2, <2>5 DEF CAsked, At
  <2>8. SAsked(u) => SAsked(u)'
    BY <2>1, <2>2, <2>6 DEF SAsked, At
  <2>9. QED
    BY <2>1, <2>2, <2>3, <2>4, <2>7, <2>8 DEF Contents, At
<1>3. QED
  BY <1>1, <1>2

LEMMA ServesContents ==
    ASSUME Shape, ContentsInv, NEW t \in Transfers, NEW l, NEW n, NEW b, Serves(t, l, n, b),
           l \notin {"wait", "send"},
           ~ Spoilt(t) /\ Open(C(t)) =>
              \A k \in 1 .. Len(s2c'[t]) : s2c'[t][k] \in {Sending, Error} \/ s2c'[t][k] = <<t, ci(t)>>
    PROVE  ContentsInv'
<1>1. /\ Elsewhere(t) /\ th'[C(t)] = th[C(t)] /\ th'[S(t)].pc = l
      /\ aio' = aio /\ stored' = stored
  BY ServesKeeps DEF Serves
<1>2. ASSUME ~ Spoilt(t)' PROVE Contents(t)'
  <2>1. ~ Spoilt(t) /\ Contents(t)
    BY <1>1, <1>2 DEF Spoilt, Elsewhere, ContentsInv
  <2>2. /\ pc(C(t))' = pc(C(t)) /\ ci(t)' = ci(t) /\ pc(S(t))' = l
        /\ Parts(t)' = Parts(t) /\ Client(t)' = Client(t)
    BY <1>1 DEF pc, ci, C, S, Parts, Client, Elsewhere
  <2>3. CAsked(t)'
    BY <1>1, <2>1, <2>2 DEF Contents, CAsked, At
  <2>4. SAsked(t)' /\ ~ At(S(t), "send")'
    BY <2>2 DEF SAsked, At
  <2>5. Carries(t, Parts(t), pc(C(t)), ci(t), th[C(t)].buff, stored[t], s2c[t])
    BY <2>1 DEF Contents
  <2>6. Carries(t, Parts(t), pc(C(t)), ci(t), th[C(t)].buff, stored[t], s2c'[t])
    BY <2>1, <2>5 DEF Carries, Open
  <2>7. QED
    BY <1>1, <2>2, <2>3, <2>4, <2>6 DEF Contents
<1>3. QED
  BY <1>1, <1>2, ContentsAfter

LEMMA LoadsContents ==
    ASSUME Shape, ContentsInv, NEW t \in Transfers, NEW l, NEW n, NEW b, Loads(t, l, n, b),
           l # "wait",
           ~ Spoilt(t)' /\ Carries(t, Parts(t), pc(C(t)), ci(t), th[C(t)].buff, stored[t], s2c[t]) =>
              Carries(t, Parts(t), l, n, b, stored'[t], s2c'[t])
    PROVE  ContentsInv'
<1>1. /\ Elsewhere(t) /\ th'[S(t)] = th[S(t)] /\ th'[C(t)].pc = l
      /\ th'[C(t)].i = n /\ th'[C(t)].buff = b /\ aio' = aio
  BY LoadsKeeps DEF Loads, Moves
<1>2. ASSUME ~ Spoilt(t)' PROVE Contents(t)'
  <2>1. ~ Spoilt(t) /\ Contents(t)
    BY <1>1, <1>2 DEF Spoilt, Elsewhere, ContentsInv
  <2>2. /\ pc(S(t))' = pc(S(t)) /\ si(t)' = si(t) /\ pc(C(t))' = l /\ ci(t)' = n
        /\ Parts(t)' = Parts(t) /\ Server(t)' = Server(t)
    BY <1>1 DEF pc, ci, si, C, S, Parts, Server, Elsewhere
  <2>3. SAsked(t)' /\ (At(S(t), "send")' => th'[S(t)].buff = <<t, si(t)>>)
    BY <1>1, <2>1, <2>2 DEF Contents, SAsked, At
  <2>4. CAsked(t)'
    BY <2>2 DEF CAsked, At
  <2>5. Carries(t, Parts(t), l, n, b, stored'[t], s2c'[t])
    BY <1>2, <2>1 DEF Contents
  <2>6. QED
    BY <1>1, <2>2, <2>3, <2>4, <2>5 DEF Contents
<1>3. QED
  BY <1>1, <1>2, ContentsAfter

LEMMA AbortContents ==
    ASSUME Shape, ContentsInv, NEW p \in Processes, Abort(p)
    PROVE  ContentsInv'
<1> SUFFICES ASSUME NEW u \in Transfers, ~ Spoilt(u)' PROVE Contents(u)'
  BY DEF ContentsInv, Contents
<1>1. /\ \A h \in Threads : Proc(h) # p => th'[h] = th[h]
      /\ \A h \in Threads : Proc(h) = p => th'[h] = Idle("dead")
      /\ aio'[p] = {} /\ \A x \in Processes : x # p => aio'[x] = aio[x]
      /\ \A t \in Transfers : Client(t) # p => stored'[t] = stored[t]
      /\ route' = route /\ mishaps' = mishaps /\ s2c' = s2c
  BY AbortEffect
<1>2. /\ C(u) \in Threads /\ S(u) \in Threads /\ Proc(C(u)) = Client(u) /\ Proc(S(u)) = Server(u)
      /\ Client(u) \in Processes /\ Server(u) \in Processes
  BY TwoEnds
<1>3. Contents(u) /\ ~ Spoilt(u)
  BY <1>1 DEF ContentsInv, Spoilt
<1>4. /\ pc(C(u))' = th'[C(u)].pc /\ ci(u)' = th'[C(u)].i /\ pc(S(u))' = th'[S(u)].pc
      /\ si(u)' = th'[S(u)].i
      /\ Parts(u)' = Parts(u) /\ Client(u)' = Client(u) /\ Server(u)' = Server(u)
  BY <1>1 DEF pc, ci, si, C, S, Parts, Client, Server
<1>5. Idle("dead").pc = "dead" /\ "dead" \in Ended
  BY DEF Idle, Ended
<1>6. /\ Carries(u, Parts(u), pc(C(u)), ci(u), th[C(u)].buff, stored[u], s2c[u])'
      /\ CAsked(u)'
  <2>1. CASE Client(u) = p
    <3>1. pc(C(u))' = "dead"
      BY <1>1, <1>2, <1>4, <1>5, <2>1
    <3>2. QED
      BY <1>5, <3>1 DEF Carries, CAsked, At
  <2>2. CASE Client(u) # p
    <3>1. th'[C(u)] = th[C(u)] /\ stored'[u] = stored[u] /\ aio'[Client(u)] = aio[Client(u)]
      BY <1>1, <1>2, <2>2
    <3>2. pc(C(u))' = pc(C(u)) /\ ci(u)' = ci(u)
      BY <3>1, <1>4 DEF pc, ci
    <3>3. CAsked(u)'
      BY <1>3, <1>4, <3>1, <3>2 DEF Contents, CAsked, At
    <3>4. QED
      BY <1>1, <1>3, <1>4, <3>1, <3>2, <3>3 DEF Contents
  <2>3. QED
    BY <2>1, <2>2
<1>7. SAsked(u)' /\ (At(S(u), "send")' => th'[S(u)].buff = <<u, si(u)'>>)
  <2>1. CASE Server(u) = p
    <3>1. pc(S(u))' = "dead"
      BY <1>1, <1>2, <1>4, <1>5, <2>1
    <3>2. QED
      BY <3>1 DEF SAsked, At
  <2>2. CASE Server(u) # p
    <3>1. th'[S(u)] = th[S(u)] /\ aio'[Server(u)] = aio[Server(u)]
      BY <1>1, <1>2, <2>2
    <3>2. pc(S(u))' = pc(S(u)) /\ si(u)' = si(u)
      BY <3>1, <1>4 DEF pc, si
    <3>3. QED
      BY <1>3, <1>4, <3>1, <3>2 DEF Contents, SAsked, At
  <2>3. QED
    BY <2>1, <2>2
<1>8. QED
  BY <1>6, <1>7 DEF Contents, At, pc, S
\* The next part after those that are there.
LEMMA WrittenPart ==
    ASSUME Shape, NEW t \in Transfers, NEW i \in Nat \ {0}, Written(C(t), i),
           stored[t] = Prefix(t, i - 1), th[C(t)].buff = <<t, i>>
    PROVE  stored'[t] = Prefix(t, i)
<1>1. stored = [u \in Transfers |-> stored[u]] /\ C(t)[1] = t /\ C(t)[2] # "server"
  BY TwoEnds DEF Shape, Types, Rest
<1> DEFINE f == stored[t]
<1>2. stored'[t] = [n \in DOMAIN f \cup 1 .. i |-> CASE n = i                     -> <<t, i>>
                                                    [] n # i /\ n \in DOMAIN f -> f[n]
                                                    [] OTHER                      -> Junk]
  BY <1>1 DEF Written
<1>3. DOMAIN f = 1 .. (i - 1) /\ \A n \in 1 .. (i - 1) : f[n] = <<t, n>>
  BY DEF Prefix
<1>4. DOMAIN f \cup 1 .. i = 1 .. i
  BY <1>3
<1>5. \A n \in 1 .. i : n # i => n \in DOMAIN f
  BY <1>3
<1> HIDE DEF f
<1>6. QED
  BY <1>2, <1>3, <1>4, <1>5 DEF Prefix

LEMMA NoPart ==
    ASSUME NEW t
    PROVE  Prefix(t, 1 - 1) = << >>
BY DEF Prefix

(* A thread that nobody disturbed gets the part it asked for; a request    *)
(* that failed is not noticed, unless that has happened to the transfer.   *)
LEMMA SubmitContents ==
    ASSUME Shape, ContentsInv, AloneInv, NEW h \in Threads, Submit(h)
    PROVE  ContentsInv'
<1> DEFINE t == h[1]
<1>1. /\ t \in Transfers /\ (h = C(t) \/ h = S(t)) /\ Proc(h) \in Processes
      /\ th[h].i \in Nat \ {0} /\ th[h].i <= Parts(t)
  BY OneEnd
<1>2. /\ C(t) # S(t) /\ C(t)[2] = "client" /\ S(t)[2] = "server"
      /\ Proc(C(t)) = Client(t) /\ Proc(S(t)) = Server(t)
      /\ Client(t) \in Processes /\ Server(t) \in Processes /\ Parts(t) \in Nat
      /\ C(t) \in Threads /\ S(t) \in Threads
  BY <1>1, TwoEnds
<1>3. /\ At(h, "submit") /\ Only(h) /\ th'[h].i = th[h].i /\ route' = route
      /\ s2c' = s2c /\ mishaps' = mishaps
      /\ \/ /\ aio' = [aio EXCEPT ![Proc(h)] = @ \cup {Request(h, FALSE, TRUE)}]
            /\ th'[h].pc = "wait" /\ th'[h].buff = th[h].buff /\ stored' = stored
         \/ /\ aio' = aio
            /\ Written(h, th[h].i)
            /\ th'[h].pc = AfterIO(h) /\ th'[h].buff = Buffer(h, th[h].i)
  BY SubmitEffect
<1>4. Elsewhere(t) /\ aio \in [Processes -> SUBSET Requests]
  BY SubmitElsewhere DEF Shape, Types
<1> DEFINE R == Request(h, FALSE, TRUE)
<1>5. R.by = h /\ R.done = FALSE
  BY DEF Request
<1>6. \A p \in Processes : \A r \in aio'[p] : r \in aio[p] \/ r.by = h
  BY <1>1, <1>3, <1>4, <1>5
<1>7. /\ Parts(t)' = Parts(t) /\ Client(t)' = Client(t) /\ Server(t)' = Server(t)
      /\ pc(C(t))' = th'[C(t)].pc /\ ci(t)' = th'[C(t)].i
      /\ pc(S(t))' = th'[S(t)].pc /\ si(t)' = th'[S(t)].i
  BY <1>3 DEF pc, ci, si, C, S, Parts, Client, Server
<1> HIDE DEF t, R
<1>8. ASSUME ~ Spoilt(t)' PROVE Contents(t)'
  <2>1. ~ Spoilt(t) /\ Contents(t)
    BY <1>1, <1>3, <1>8 DEF Spoilt, ContentsInv
  <2>2. aio[Proc(h)] = {}
    <3>1. InBlock(h) /\ ~ Disturbed(h) /\ ~ At(h, "wait")
      BY <1>3, <2>1 DEF InBlock, Disturbed, Transferring, At, Spoilt, t
    <3>2. QED
      BY <3>1 DEF AloneInv, Alone
  <2>3. CASE h = C(t)
    <3>1. /\ stored[t] = Prefix(t, ci(t) - 1) /\ th[h].buff = <<t, ci(t)>> /\ Open(C(t))
          /\ \A k \in 1 .. Len(s2c[t]) : s2c[t][k] \in {Sending, Error} \/ s2c[t][k] = <<t, ci(t)>>
      BY <1>3, <2>1, <2>3 DEF Contents, Carries, At, Open, Ended
    <3>2. th'[S(t)] = th[S(t)]
      BY <1>2, <1>3, <2>3 DEF Only
    <3>3. pc(S(t))' = pc(S(t)) /\ si(t)' = si(t)
      BY <3>2, <1>7 DEF pc, si
    <3>4. \A r \in aio'[Server(t)] : r.by = S(t) => r \in aio[Server(t)]
      BY <1>2, <1>6, <2>3
    <3>5. SAsked(t)' /\ (At(S(t), "send")' => th'[S(t)].buff = <<t, si(t)'>>)
      BY <1>7, <2>1, <3>2, <3>3, <3>4 DEF Contents, SAsked, At
    <3>6. CASE /\ aio' = [aio EXCEPT ![Proc(h)] = @ \cup {R}]
               /\ th'[h].pc = "wait" /\ th'[h].buff = th[h].buff /\ stored' = stored
      <4>1. aio'[Client(t)] = {R}
        BY <1>1, <1>2, <1>4, <2>2, <2>3, <3>6
      <4>2. CAsked(t)'
        BY <1>3, <1>5, <1>7, <2>3, <3>1, <3>6, <4>1 DEF CAsked, Writes, ci
      <4>3. Carries(t, Parts(t), "wait", ci(t), th'[h].buff, stored'[t], s2c'[t])
        BY <1>3, <3>1, <3>6 DEF Carries
      <4>4. QED
        BY <1>3, <1>7, <2>3, <3>5, <3>6, <4>2, <4>3 DEF Contents, ci
    <3>7. CASE aio' = aio /\ Written(h, th[h].i) /\ th'[h].pc = AfterIO(h)
      <4>1. stored'[t] = Prefix(t, ci(t)) /\ th'[h].pc = "ack"
        BY <1>1, <1>2, <2>3, <3>1, <3>7, WrittenPart, AfterIOIs DEF ci
      <4>2. Carries(t, Parts(t), "ack", ci(t), th'[h].buff, stored'[t], s2c'[t])
        BY <1>3, <3>1, <4>1 DEF Carries
      <4>3. CAsked(t)'
        BY <1>7, <2>3, <4>1 DEF CAsked, At
      <4>4. QED
        BY <1>3, <1>7, <2>3, <3>5, <4>1, <4>2, <4>3 DEF Contents, ci
    <3>8. QED
      BY <1>3, <3>6, <3>7 DEF R
  <2>4. CASE h = S(t)
    <3>1. th'[C(t)] = th[C(t)]
      BY <1>2, <1>3, <2>4 DEF Only
    <3>2. pc(C(t))' = pc(C(t)) /\ ci(t)' = ci(t)
      BY <3>1, <1>7 DEF pc, ci
    <3>3. stored' = stored
      BY <1>2, <1>3, <2>4 DEF Written
    <3>4. \A r \in aio'[Client(t)] : r.by = C(t) => r \in aio[Client(t)]
      BY <1>2, <1>6, <2>4
    <3>5. CAsked(t)'
      BY <1>7, <2>1, <3>2, <3>3, <3>4 DEF Contents, CAsked, At
    <3>6. Carries(t, Parts(t), pc(C(t)), ci(t), th[C(t)].buff, stored[t], s2c[t])'
      BY <1>3, <1>7, <2>1, <3>1, <3>2, <3>3 DEF Contents
    <3>7. CASE aio' = [aio EXCEPT ![Proc(h)] = @ \cup {R}] /\ th'[h].pc = "wait"
      <4>1. aio'[Server(t)] = {R}
        BY <1>1, <1>2, <1>4, <2>2, <2>4, <3>7
      <4>2. SAsked(t)' /\ ~ At(S(t), "send")'
        BY <1>5, <1>7, <2>4, <3>7, <4>1 DEF SAsked, At
      <4>3. QED
        BY <3>5, <3>6, <4>2 DEF Contents
    <3>8. CASE th'[h].pc = AfterIO(h) /\ th'[h].buff = Buffer(h, th[h].i)
      <4>1. th'[h].pc = "send"
        BY <1>2, <2>4, <3>8, AfterIOIs
      <4>2. th'[S(t)].buff = <<t, si(t)'>>
        BY <1>1, <1>2, <1>3, <1>7, <2>4, <3>8 DEF Buffer, Source, t
      <4>3. SAsked(t)'
        BY <1>7, <2>4, <4>1 DEF SAsked, At
      <4>4. QED
        BY <3>5, <3>6, <4>2, <4>3 DEF Contents
    <3>9. QED
      BY <1>3, <3>7, <3>8 DEF R
  <2>5. QED
    BY <1>1, <2>3, <2>4
<1>9. QED
  BY <1>1, <1>4, <1>6, <1>8, ContentsAfter DEF t

LEMMA WaitContents ==
    ASSUME Shape, ContentsInv, AloneInv, NEW h \in Threads, Wait(h)
    PROVE  ContentsInv'
<1> DEFINE t == h[1]
<1>1. /\ t \in Transfers /\ (h = C(t) \/ h = S(t)) /\ Proc(h) \in Processes
  BY OneEnd
<1>2. /\ C(t) # S(t) /\ C(t)[2] = "client" /\ S(t)[2] = "server"
      /\ Proc(C(t)) = Client(t) /\ Proc(S(t)) = Server(t)
      /\ Client(t) \in Processes /\ Server(t) \in Processes
      /\ C(t) \in Threads /\ S(t) \in Threads
  BY <1>1, TwoEnds
<1>3. /\ At(h, "wait") /\ Only(h) /\ route' = route /\ stored' = stored /\ s2c' = s2c
      /\ th'[h].i = th[h].i /\ th'[h].pc = AfterIO(h) /\ th'[h].buff = th[h].buff
  BY WaitEffect
<1>4. PICK r \in aio[Proc(h)] :
         /\ r.done /\ aio' = [aio EXCEPT ![Proc(h)] = @ \ {r}]
         /\ mishaps' = mishaps \cup (IF r.ok THEN {} ELSE {<<r.by[1], "not seen">>})
  BY WaitEffect
<1>5. Elsewhere(t) /\ aio \in [Processes -> SUBSET Requests]
  BY WaitElsewhere DEF Shape, Types
<1>6. \A p \in Processes : aio'[p] \subseteq aio[p]
  BY <1>1, <1>4, <1>5
<1>7. /\ Parts(t)' = Parts(t) /\ Client(t)' = Client(t) /\ Server(t)' = Server(t)
      /\ pc(C(t))' = th'[C(t)].pc /\ ci(t)' = th'[C(t)].i
      /\ pc(S(t))' = th'[S(t)].pc /\ si(t)' = th'[S(t)].i
  BY <1>3 DEF pc, ci, si, C, S, Parts, Client, Server
<1> HIDE DEF t
<1>8. ASSUME ~ Spoilt(t)' PROVE Contents(t)'
  <2>1. ~ Spoilt(t) /\ Contents(t)
    BY <1>1, <1>5, <1>8 DEF Spoilt, ContentsInv, Elsewhere
  <2>2. r.by = h /\ r.ok
    <3>1. InBlock(h) /\ ~ Disturbed(h)
      BY <1>3, <2>1 DEF InBlock, Disturbed, Transferring, At, Spoilt, t
    <3>2. r.by = h
      BY <1>3, <1>4, <3>1 DEF AloneInv, Alone
    <3>3. r.ok
      BY <1>4, <1>8, <3>2 DEF Spoilt, t
    <3>4. QED
      BY <3>2, <3>3
  <2>3. CASE h = C(t)
    <3>1. th'[S(t)] = th[S(t)] /\ th'[h].pc = "ack"
      BY <1>2, <1>3, <2>3, AfterIOIs DEF Only
    <3>2. pc(S(t))' = pc(S(t)) /\ si(t)' = si(t)
      BY <3>1, <1>7 DEF pc, si
    <3>3. SAsked(t)' /\ (At(S(t), "send")' => th'[S(t)].buff = <<t, si(t)'>>)
      BY <1>2, <1>6, <1>7, <2>1, <3>1, <3>2 DEF Contents, SAsked, At
    <3>4. CAsked(t)'
      BY <1>7, <2>3, <3>1 DEF CAsked, At
    <3>5. stored[t] = Prefix(t, ci(t))
      BY <1>2, <1>3, <1>4, <2>1, <2>2, <2>3 DEF Contents, CAsked, Writes
    <3>6. \A k \in 1 .. Len(s2c[t]) : s2c[t][k] \in {Sending, Error} \/ s2c[t][k] = <<t, ci(t)>>
      BY <1>3, <2>1, <2>3 DEF Contents, Carries, At, Ended
    <3>7. Carries(t, Parts(t), "ack", ci(t), th'[h].buff, stored'[t], s2c'[t])
      BY <1>3, <3>5, <3>6 DEF Carries
    <3>8. QED
      BY <1>3, <1>7, <2>3, <3>1, <3>3, <3>4, <3>7 DEF Contents, ci
  <2>4. CASE h = S(t)
    <3>1. th'[C(t)] = th[C(t)] /\ th'[h].pc = "send"
      BY <1>2, <1>3, <2>4, AfterIOIs DEF Only
    <3>2. pc(C(t))' = pc(C(t)) /\ ci(t)' = ci(t)
      BY <3>1, <1>7 DEF pc, ci
    <3>3. CAsked(t)'
      BY <1>2, <1>3, <1>6, <1>7, <2>1, <3>2 DEF Contents, CAsked, At
    <3>4. Carries(t, Parts(t), pc(C(t)), ci(t), th[C(t)].buff, stored[t], s2c[t])'
      BY <1>3, <1>7, <2>1, <3>1, <3>2 DEF Contents
    <3>5. th'[S(t)].buff = <<t, si(t)'>>
      BY <1>2, <1>3, <1>4, <1>7, <2>1, <2>2, <2>4 DEF Contents, SAsked, si
    <3>6. SAsked(t)'
      BY <1>7, <2>4, <3>1 DEF SAsked, At
    <3>7. QED
      BY <3>3, <3>4, <3>5, <3>6 DEF Contents
  <2>5. QED
    BY <1>1, <2>3, <2>4
<1>9. QED
  BY <1>1, <1>5, <1>6, <1>8, ContentsAfter DEF t

LEMMA CompleteContents ==
    ASSUME Shape, ContentsInv, AloneInv, NEW p \in Processes, Complete(p)
    PROVE  ContentsInv'
<1>1. PICK r, ok : Completes(p, r, ok)
  BY CompleteIs
<1> DEFINE h == r.by
           t == h[1]
           R == [r EXCEPT !.done = TRUE, !.ok = ok]
<1>2. /\ r \in Requests /\ h \in Threads /\ Proc(h) = p /\ r.part \in Nat \ {0} /\ r.part <= Parts(t)
      /\ Only(h) /\ route' = route /\ th'[h].pc = th[h].pc /\ th'[h].i = th[h].i
      /\ ok => th'[h].buff = Buffer(h, r.part)
      /\ ~ ok => th' = th /\ stored' = stored
  BY <1>1, CompleteEffect
<1>3. R.by = h /\ R.done /\ R.ok = ok
  BY <1>2 DEF Requests
<1>4. /\ r \in aio[p] /\ ok \in BOOLEAN /\ ~ r.done /\ s2c' = s2c /\ mishaps' = mishaps
      /\ ok => pc(h) \in Transferring /\ Written(h, r.part)
      /\ aio' = [aio EXCEPT ![p] = (@ \ {r}) \cup {R}]
  BY <1>1 DEF Completes, net
<1>5. Elsewhere(t) /\ aio \in [Processes -> SUBSET Requests]
  BY <1>1, CompleteElsewhere DEF Shape, Types
<1>6. t \in Transfers /\ (h = C(t) \/ h = S(t))
  BY <1>2, OneEnd
<1>7. /\ C(t) # S(t) /\ C(t)[2] = "client" /\ S(t)[2] = "server"
      /\ Proc(C(t)) = Client(t) /\ Proc(S(t)) = Server(t)
      /\ Client(t) \in Processes /\ Server(t) \in Processes /\ Parts(t) \in Nat
      /\ C(t) \in Threads /\ S(t) \in Threads
  BY <1>6, TwoEnds
<1> HIDE DEF R
<1>8. \A x \in Processes : \A g \in aio'[x] : g \in aio[x] \/ (x = p /\ g = R)
  BY <1>4, <1>5
<1>9. /\ Parts(t)' = Parts(t) /\ Client(t)' = Client(t) /\ Server(t)' = Server(t)
      /\ pc(C(t))' = th'[C(t)].pc /\ ci(t)' = th'[C(t)].i
      /\ pc(S(t))' = th'[S(t)].pc /\ si(t)' = th'[S(t)].i
  BY <1>2 DEF pc, ci, si, C, S, Parts, Client, Server
<1>10. \A g \in Threads : th'[g].pc = th[g].pc /\ th'[g].i = th[g].i
  BY <1>2 DEF Only
<1>11. pc(C(t))' = pc(C(t)) /\ ci(t)' = ci(t) /\ pc(S(t))' = pc(S(t)) /\ si(t)' = si(t)
  BY <1>7, <1>9, <1>10 DEF pc, ci, si
<1> HIDE DEF h, t
<1>12. ASSUME ~ Spoilt(t)' PROVE Contents(t)'
  <2>1. ~ Spoilt(t) /\ Contents(t)
    BY <1>4, <1>6, <1>12 DEF Spoilt, ContentsInv
  <2>2. CASE ~ ok
    <3>1. th' = th /\ stored' = stored /\ ~ R.ok /\ R.done
      BY <1>2, <1>3, <2>2
    <3>2. CAsked(t)'
      BY <1>7, <1>8, <1>9, <1>11, <2>1, <3>1 DEF Contents, CAsked, Writes, At
    <3>3. SAsked(t)'
      BY <1>7, <1>8, <1>9, <1>11, <2>1, <3>1 DEF Contents, SAsked, At
    <3>4. QED
      BY <1>4, <1>9, <1>11, <2>1, <3>1, <3>2, <3>3 DEF Contents, At
  <2>3. CASE ok
    <3>1. At(h, "wait") /\ r.part = th[h].i /\ aio[p] = {r}
      <4>1. InBlock(h) /\ ~ Disturbed(h)
        BY <1>4, <2>1, <2>3 DEF InBlock, Disturbed, Spoilt, t
      <4>2. QED
        BY <1>2, <1>4, <4>1 DEF AloneInv, Alone, h
    <3>2. aio'[p] = {R}
      BY <1>4, <1>5, <3>1
    <3>3. CASE h = C(t)
      <4>1. stored[t] = Prefix(t, ci(t) - 1) /\ th[h].buff = <<t, ci(t)>>
        BY <1>2, <1>4, <1>7, <2>1, <3>1, <3>3 DEF Contents, Carries, CAsked, Writes, At, h
      <4>2. stored'[t] = Prefix(t, ci(t)) /\ th'[h].buff = th[h].buff
        BY <1>2, <1>4, <1>6, <1>7, <2>3, <3>1, <3>3, <4>1, WrittenPart DEF Buffer, ci
      <4>3. th'[S(t)] = th[S(t)]
        BY <1>2, <1>7, <3>3 DEF Only
      <4>4. CAsked(t)'
        BY <1>2, <1>3, <1>7, <1>9, <1>11, <3>2, <3>3, <4>2 DEF CAsked, Writes
      <4>5. \A g \in aio'[Server(t)] : g.by = S(t) => g \in aio[Server(t)]
        BY <1>3, <1>7, <1>8, <3>3
      <4>6. SAsked(t)' /\ (At(S(t), "send")' => th'[S(t)].buff = <<t, si(t)'>>)
        BY <1>9, <1>11, <2>1, <4>3, <4>5 DEF Contents, SAsked, At
      <4>7. Carries(t, Parts(t), pc(C(t)), ci(t), th'[C(t)].buff, stored'[t], s2c'[t])
        BY <1>4, <2>1, <3>1, <3>3, <4>2 DEF Contents, Carries, At
      <4>8. QED
        BY <1>9, <1>11, <4>4, <4>6, <4>7 DEF Contents
    <3>4. CASE h = S(t)
      <4>1. th'[C(t)] = th[C(t)] /\ stored' = stored
        BY <1>2, <1>4, <1>7, <2>3, <3>4 DEF Only, Written
      <4>2. th'[S(t)].buff = <<t, si(t)>>
        BY <1>2, <1>7, <2>3, <3>1, <3>4 DEF Buffer, Source, si, t
      <4>3. SAsked(t)' /\ ~ At(S(t), "send")'
        BY <1>11, <3>1, <3>4, <4>2 DEF SAsked, At
      <4>4. \A g \in aio'[Client(t)] : g.by = C(t) => g \in aio[Client(t)]
        BY <1>3, <1>7, <1>8, <3>4
      <4>5. CAsked(t)'
        BY <1>9, <1>11, <2>1, <4>1, <4>4 DEF Contents, CAsked, At
      <4>6. Carries(t, Parts(t), pc(C(t)), ci(t), th'[C(t)].buff, stored'[t], s2c'[t])
        BY <1>4, <2>1, <4>1 DEF Contents
      <4>7. QED
        BY <1>9, <1>11, <4>3, <4>5, <4>6 DEF Contents
    <3>5. QED
      BY <1>6, <3>3, <3>4
  <2>4. QED
    BY <1>4, <2>2, <2>3
<1>13. QED
  <2>1. \A x \in Processes : \A g \in aio'[x] : g \in aio[x] \/ g.by[1] = t
    BY <1>3, <1>8 DEF t
  <2>2. QED
    BY <1>5, <1>6, <1>12, <2>1, ContentsAfter

LEMMA AioContents ==
    ASSUME Shape, ContentsInv, AloneInv, NEW h \in Threads, AioStep(h)
    PROVE  ContentsInv'
<1>1. CASE AioFails(h)
  <2> DEFINE t == h[1]
             l == IF h[2] = "client" THEN "over" ELSE "error"
  <2>1. /\ t \in Transfers /\ (h = C(t) \/ h = S(t)) /\ C(t)[2] = "client" /\ S(t)[2] = "server"
    BY OneEnd, TwoEnds
  <2>2. /\ Elsewhere(t) /\ Moves(h, l, 1, Junk)
        /\ uploads' = uploads /\ downloads' = downloads /\ aio' = aio /\ s2c' = s2c
        /\ h[2] = "server" => stored' = stored
    BY <1>1, AioFailsIs DEF lists
  <2>3. CASE h = C(t)
    <3>1. Loads(t, "over", 1, Junk)
      BY <2>1, <2>2, <2>3 DEF Loads
    <3>2. Carries(t, Parts(t), "over", 1, Junk, stored'[t], s2c'[t])
      BY DEF Carries, Ended
    <3>3. QED
      BY <2>1, <3>1, <3>2, LoadsContents
  <2>4. CASE h = S(t)
    <3>1. Serves(t, "error", 1, Junk)
      BY <2>1, <2>2, <2>4 DEF Serves
    <3>2. ~ Spoilt(t) /\ Open(C(t)) =>
             \A k \in 1 .. Len(s2c'[t]) : s2c'[t][k] \in {Sending, Error} \/ s2c'[t][k] = <<t, ci(t)>>
      BY <2>1, <2>2 DEF ContentsInv, Contents, Carries, Open
    <3>3. QED
      BY <2>1, <3>1, <3>2, ServesContents
  <2>5. QED
    BY <2>1, <2>3, <2>4
<1>2. CASE BadPointer(h)
  BY <1>2, AbortContents, OneEnd DEF BadPointer
<1>3. QED
  BY <1>1, <1>2, SubmitContents, WaitContents DEF AioStep, SubmitFails, WaitFails

\* One more message on the way, and one fewer.
OnlyPart(t, i, q) == \A k \in 1 .. Len(q) : q[k] \in {Sending, Error} \/ q[k] = <<t, i>>

LEMMA MoreOnTheWay ==
    ASSUME NEW t, NEW i, NEW T, NEW q \in Seq(T), NEW m \in T, OnlyPart(t, i, q),
           m \in {Sending, Error} \/ m = <<t, i>>
    PROVE  OnlyPart(t, i, Append(q, m))
BY DEF OnlyPart

LEMMA LessOnTheWay ==
    ASSUME NEW t, NEW i, NEW T, NEW q \in Seq(T), q # << >>, OnlyPart(t, i, q)
    PROVE  /\ OnlyPart(t, i, Tail(q))
           /\ Head(q) \in {Sending, Error} \/ Head(q) = <<t, i>>
<1>1. Len(q) \in Nat /\ Len(q) > 0
  OBVIOUS
<1>2. Head(q) = q[1]
  OBVIOUS
<1>3. Len(Tail(q)) = Len(q) - 1 /\ \A k \in 1 .. (Len(q) - 1) : Tail(q)[k] = q[k + 1]
  BY <1>1
<1>4. \A k \in 1 .. (Len(q) - 1) : k + 1 \in 1 .. Len(q)
  BY <1>1
<1>5. QED
  BY <1>1, <1>2, <1>3, <1>4 DEF OnlyPart

LEMMA TCPhandlerContents ==
    ASSUME Shape, ContentsInv, AloneInv, DialogueInv, NEW t \in Transfers, TCPhandler(t)
    PROVE  ContentsInv'
<1>1. s2c[t] \in Seq(Messages) /\ Sending \in Messages /\ Error \in Messages /\ th[S(t)].buff \in Messages
  BY TwoEnds, OneEnd DEF Shape, Types, Rest, Messages
<1>2. ASSUME ~ Spoilt(t), Open(C(t)) PROVE OnlyPart(t, ci(t), s2c[t])
  BY <1>2 DEF ContentsInv, Contents, Carries, Open, OnlyPart
<1>3. ASSUME NEW l, NEW n, NEW b, Serves(t, l, n, b), l \notin {"wait", "send"},
             ~ Spoilt(t) /\ Open(C(t)) =>
                \/ s2c'[t] = s2c[t]
                \/ \E m \in Messages : /\ s2c'[t] = Append(s2c[t], m)
                                       /\ m \in {Sending, Error} \/ m = <<t, ci(t)>>
      PROVE  ContentsInv'
  <2>1. ~ Spoilt(t) /\ Open(C(t)) => OnlyPart(t, ci(t), s2c'[t])
    BY <1>1, <1>2, <1>3, MoreOnTheWay
  <2>2. QED
    BY <1>3, <2>1, ServesContents DEF OnlyPart
<1>4. CASE SRequest(t)
  BY <1>3, <1>4, SRequestIs
<1>5. CASE SGetcwd(t) \/ SOpenFails(t)
  BY <1>3, <1>5, SGetcwdIs, SOpenFailsIs
<1>6. CASE SOpen(t)
  BY <1>1, <1>3, <1>6, SOpenIs
<1>7. CASE SSend(t)
  <2>1. ~ Spoilt(t) /\ Open(C(t)) => th[S(t)].buff = <<t, ci(t)>>
    <3>1. SUFFICES ASSUME ~ Spoilt(t), Open(C(t)) PROVE th[S(t)].buff = <<t, ci(t)>>
      OBVIOUS
    <3>2. pc(S(t)) = "send"
      BY <1>7, SSendIs DEF At
    <3>3. Talk(pc(C(t)), ci(t), pc(S(t)), si(t), s2c[t], c2s[t], Data(t))
      BY <3>1 DEF DialogueInv, Dialogue, Spoilt
    <3>4. si(t) = ci(t)
      BY <3>2, <3>3 DEF Talk
    <3>5. QED
      BY <3>1, <3>2, <3>4 DEF ContentsInv, Contents, At
  <2>2. /\ Serves(t, "ack", th[S(t)].i, th[S(t)].buff)
        /\ Open(C(t)) => s2c'[t] = Append(s2c[t], th[S(t)].buff)
    BY <1>7, SSendIs
  <2>3. ASSUME ~ Spoilt(t), Open(C(t))
        PROVE  \E m \in Messages : /\ s2c'[t] = Append(s2c[t], m)
                                   /\ m \in {Sending, Error} \/ m = <<t, ci(t)>>
    BY <1>1, <2>1, <2>2, <2>3
  <2>4. QED
    BY <1>3, <2>2, <2>3
<1>8. CASE SAck(t)
  BY <1>3, <1>8, SAckIs
<1>9. CASE SSendFails(t) \/ SAckFails(t)
  BY <1>3, <1>9, SFails
<1>10. CASE SError(t)
  BY <1>1, <1>3, <1>10, SErrorIs
<1>11. CASE SConfirm(t)
  BY <1>3, <1>11, SConfirmIs
<1>12. CASE AioStep(S(t))
  BY <1>12, TwoEnds, AioContents
<1>13. QED
  BY <1>4, <1>5, <1>6, <1>7, <1>8, <1>9, <1>10, <1>11, <1>12 DEF TCPhandler

LEMMA TCPTransferContents ==
    ASSUME Shape, ListInv, FirstInv, ContentsInv, AloneInv, DialogueInv,
           NEW t \in Transfers, TCPTransfer(t) \/ Get(t)
    PROVE  ContentsInv'
<1> DEFINE c == pc(C(t))
           i == ci(t)
           b == th[C(t)].buff
           f == stored[t]
           q == s2c[t]
           m == Parts(t)
<1>1. ASSUME NEW l, NEW n, NEW d, Loads(t, l, n, d), l # "wait",
             ~ Spoilt(t)' /\ Carries(t, m, c, i, b, f, q) => Carries(t, m, l, n, d, stored'[t], s2c'[t])
      PROVE  ContentsInv'
  BY <1>1, LoadsContents
<1>2. /\ th[C(t)].i = i /\ i \in Nat \ {0} /\ m \in Nat /\ q \in Seq(Messages)
      /\ c \in {"none", "connect", "answer", "length", "chdir_w", "open_w"} => i = 1
  BY TwoEnds, OneEnd DEF ci, FirstInv, FirstPart, Shape, Types, Rest
<1>3. \A n, d, g, p : Carries(t, m, "over", n, d, g, p)
  BY DEF Carries, Ended
<1>4. Client(t) \in Processes
  BY TwoEnds
<1>5. Carries(t, m, c, i, b, f, q) /\ c \notin Ended \cup {"connect"} => OnlyPart(t, i, q)
  BY DEF Carries, OnlyPart
<1> HIDE DEF c, i, b, f, q, m
<1>6. CASE Get(t)
  <2>1. c = "none" /\ Loads(t, "connect", i, b) /\ stored'[t] = f
    BY <1>2, <1>6, GetIs DEF At, c, f, b
  <2>2. Carries(t, m, c, i, b, f, q) => Carries(t, m, "connect", i, b, f, s2c'[t])
    BY <2>1 DEF Carries
  <2>3. QED
    BY <1>1, <2>1, <2>2
<1>7. CASE CConnect(t)
  <2>1. CASE Loads(t, "over", th[C(t)].i, th[C(t)].buff)
    BY <1>1, <1>3, <2>1
  <2>2. CASE /\ Elsewhere(t) /\ aio' = aio
             /\ th'[C(t)].pc = "answer" /\ th'[C(t)].i = th[C(t)].i /\ th'[C(t)].buff = th[C(t)].buff
             /\ th'[S(t)].pc = "request"
    <3>1. c = "connect" /\ s2c'[t] = q /\ stored'[t] = f
      BY <1>7, CConnectIs DEF At, c, q, f
    <3>2. Len(q) = 0
      BY <3>1 DEF ListInv, Begins, c, q
    <3>3. Carries(t, m, c, i, b, f, q) => Carries(t, m, "answer", i, b, f, q)
      BY <3>1, <3>2 DEF Carries
    <3>4. ASSUME ~ Spoilt(t)' PROVE Contents(t)'
      <4>1. ~ Spoilt(t) /\ Contents(t)
        BY <2>2, <3>4 DEF Spoilt, Elsewhere, ContentsInv
      <4>2. Carries(t, m, "answer", i, b, f, q)
        BY <3>3, <4>1 DEF Contents, c, i, b, f, q, m
      <4>3. pc(C(t))' = "answer" /\ ci(t)' = i /\ pc(S(t))' = "request" /\ Parts(t)' = m
        BY <1>2, <2>2 DEF pc, ci, C, S, Parts, m, Elsewhere
      <4>4. CAsked(t)' /\ SAsked(t)' /\ ~ At(S(t), "send")'
        BY <4>3 DEF CAsked, SAsked, At
      <4>5. QED
        BY <2>2, <3>1, <4>2, <4>3, <4>4 DEF Contents, b
    <3>5. QED
      BY <2>2, <3>4, ContentsAfter
  <2>3. QED
    BY <1>7, <2>1, <2>2, CConnectIs
<1>8. CASE CAnswer(t)
  <2>1. CASE /\ Loads(t, "length", th[C(t)].i, th[C(t)].buff)
             /\ s2c[t] # << >> /\ s2c'[t] = Tail(s2c[t])
    <3>1. c = "answer" /\ q # << >> /\ s2c'[t] = Tail(q) /\ stored'[t] = f /\ Loads(t, "length", i, b)
      BY <1>2, <1>8, <2>1, CAnswerIs DEF At, c, q, f, b
    <3>2. Carries(t, m, c, i, b, f, q) => OnlyPart(t, i, Tail(q))
      BY <1>2, <1>5, <3>1, LessOnTheWay DEF Ended
    <3>3. Carries(t, m, c, i, b, f, q) => Carries(t, m, "length", i, b, f, Tail(q))
      BY <3>1, <3>2 DEF Carries, OnlyPart
    <3>4. QED
      BY <1>1, <3>1, <3>3
  <2>2. CASE Loads(t, "over", th[C(t)].i, th[C(t)].buff)
    BY <1>1, <1>3, <2>2
  <2>3. QED
    BY <1>8, <2>1, <2>2, CAnswerIs
<1>9. CASE CAnswerFails(t)
  BY <1>1, <1>3, <1>9, CAnswerFailsIs
<1>10. CASE CLength(t)
  <2>1. CASE Loads(t, "chdir_w", th[C(t)].i, th[C(t)].buff)
    <3>1. c = "length" /\ s2c'[t] = q /\ stored'[t] = f /\ Loads(t, "chdir_w", i, b)
      BY <1>2, <1>10, <2>1, CLengthIs DEF At, c, q, f, b
    <3>2. Carries(t, m, c, i, b, f, q) => Carries(t, m, "chdir_w", i, b, f, q)
      BY <3>1 DEF Carries, Ended
    <3>3. QED
      BY <1>1, <3>1, <3>2
  <2>2. CASE Loads(t, "over", th[C(t)].i, th[C(t)].buff)
    BY <1>1, <1>3, <2>2
  <2>3. QED
    BY <1>10, <2>1, <2>2, CLengthIs
<1>11. CASE CChdir(t)
  <2>1. c = "chdir_w" /\ s2c'[t] = q /\ stored'[t] = f /\ Loads(t, "open_w", i, b)
    BY <1>2, <1>11, CChdirIs DEF At, c, q, f, b
  <2>2. Carries(t, m, c, i, b, f, q) => Carries(t, m, "open_w", i, b, f, q)
    BY <2>1 DEF Carries, Ended
  <2>3. QED
    BY <1>1, <2>1, <2>2
<1>12. CASE COpen(t)
  <2>1. c = "open_w" /\ s2c'[t] = q /\ stored'[t] = f /\ Loads(t, "read", i, b)
    BY <1>2, <1>12, COpenIs DEF At, c, q, f, b
  <2>2. Carries(t, m, c, i, b, f, q) => f = Prefix(t, i - 1)
    BY <1>2, <2>1, NoPart DEF Carries
  <2>3. Carries(t, m, c, i, b, f, q) => Carries(t, m, "read", i, b, f, q)
    BY <2>1, <2>2 DEF Carries, Ended
  <2>4. QED
    BY <1>1, <2>1, <2>3
<1>13. CASE CRead(t)
  <2>1. c = "read" /\ q # << >> /\ s2c'[t] = Tail(q) /\ stored'[t] = f
    BY <1>13, CReadIs DEF At, c, q, f
  <2>2. PICK l, d :
           /\ l \in {"submit", "read"}
           /\ Loads(t, l, i, d)
           /\ \/ l = "submit" /\ Head(q) \in Data(t) /\ d = Head(q)
              \/ <<t, "text">> \in mishaps'
    BY <1>2, <1>13, CReadIs DEF q
  <2>3. CASE <<t, "text">> \in mishaps'
    BY <1>1, <2>2, <2>3 DEF Spoilt
  <2>4. CASE l = "submit" /\ Head(q) \in Data(t) /\ d = Head(q)
    <3>1. Carries(t, m, c, i, b, f, q) => OnlyPart(t, i, Tail(q)) /\ d = <<t, i>>
      BY <1>2, <1>5, <2>1, <2>4, LessOnTheWay, Marks DEF Ended
    <3>2. Carries(t, m, c, i, b, f, q) => Carries(t, m, "submit", i, d, f, Tail(q))
      BY <2>1, <3>1 DEF Carries, OnlyPart
    <3>3. QED
      BY <1>1, <2>1, <2>2, <2>4, <3>2
  <2>5. QED
    BY <2>2, <2>3, <2>4
<1>14. CASE CAck(t)
  <2>1. c = "ack" /\ s2c'[t] = q /\ stored'[t] = f /\ mishaps' = mishaps
    BY <1>14, CAckIs DEF At, c, q, f
  <2>2. CASE Loads(t, "read", th[C(t)].i + 1, th[C(t)].buff)
    <3>1. ASSUME ~ Spoilt(t) PROVE OnlyPart(t, i + 1, q)
      <4>1. Talk(c, i, pc(S(t)), si(t), q, c2s[t], Data(t))
        BY <2>1, <3>1 DEF DialogueInv, Dialogue, Spoilt, Open, Ended, c, i, q
      <4>2. q \in Way("ack", Data(t)) \/ WithError("ack", q, Data(t))
        BY <2>1, <4>1 DEF Talk
      <4>3. q = << >> \/ q = <<Error>>
        BY <4>2, ShortAppend DEF Way, WithError
      <4>4. QED
        BY <4>3 DEF OnlyPart
    <3>2. ~ Spoilt(t) /\ Carries(t, m, c, i, b, f, q) => Carries(t, m, "read", i + 1, b, f, q)
      BY <1>2, <2>1, <3>1 DEF Carries, OnlyPart
    <3>3. ~ Spoilt(t)' => ~ Spoilt(t)
      BY <2>1 DEF Spoilt
    <3>4. QED
      BY <1>1, <1>2, <2>1, <2>2, <3>2, <3>3 DEF b
  <2>3. CASE Loads(t, "finished", 1, Junk) /\ th[C(t)].i = m
    <3>1. Carries(t, m, c, i, b, f, q) => Carries(t, m, "finished", 1, Junk, f, q)
      BY <1>2, <2>1, <2>3 DEF Carries, Ended
    <3>2. QED
      BY <1>1, <2>1, <2>3, <3>1
  <2>4. QED
    BY <1>14, <2>2, <2>3, CAckIs DEF m
<1>15. CASE CReadFails(t) \/ CAckFails(t) \/ COpenFails(t) \/ BadEntry(t)
  <2>1. CASE Abort(Client(t))
    BY <1>4, <2>1, AbortContents
  <2>2. CASE CGivesUp(t)
    BY <1>1, <1>3, <2>1, <2>2, CGivesUpIs
  <2>3. QED
    BY <1>15, <2>1, <2>2 DEF CReadFails, CAckFails, COpenFails, BadEntry
<1>16. CASE AioStep(C(t))
  BY <1>16, TwoEnds, AioContents
<1>17. QED
  BY <1>6, <1>7, <1>8, <1>9, <1>10, <1>11, <1>12, <1>13, <1>14, <1>15, <1>16 DEF TCPTransfer

LEMMA InitContents == Init => ContentsInv
<1> SUFFICES ASSUME Init, NEW t \in Transfers PROVE Contents(t)
  BY DEF ContentsInv
<1>1. pc(C(t)) = "none" /\ pc(S(t)) = "none" /\ stored[t] = << >>
  BY DEF Init, C, S, Threads, pc, Idle
<1>2. QED
  BY <1>1 DEF Contents, Carries, CAsked, SAsked, At, Ended

LEMMA SameContents ==
    ASSUME ContentsInv, route' = route, mishaps' = mishaps, s2c' = s2c, stored' = stored,
           th' = th, aio' = aio
    PROVE  ContentsInv'
BY DEF ContentsInv, Contents, Spoilt, CAsked, SAsked, At, pc, ci, si, C, S, Parts, Client, Server

LEMMA ContentsStep ==
    Shape /\ ListInv /\ FirstInv /\ AloneInv /\ DialogueInv /\ ContentsInv /\ [Next]_vars => ContentsInv'
<1> SUFFICES ASSUME Shape, ListInv, FirstInv, AloneInv, DialogueInv, ContentsInv, [Next]_vars
             PROVE  ContentsInv'
  OBVIOUS
<1>1. CASE UNCHANGED vars
  BY <1>1, SameContents DEF vars, net, blocks
<1>2. ASSUME NEW p \in Processes, LClear(p) \/ Complete(p) PROVE ContentsInv'
  BY <1>2, SameContents, CompleteContents DEF LClear, net, blocks
<1>3. ASSUME NEW t \in Transfers, Get(t) \/ TCPTransfer(t) \/ TCPhandler(t) PROVE ContentsInv'
  BY <1>3, TCPTransferContents, TCPhandlerContents
<1>4. QED
  BY <1>1, <1>2, <1>3 DEF Next

(* A finished download is the server's file, although the control blocks   *)
(* are shared, and aio_waitcomplete returns for anybody's request; unless  *)
(* one of the mishaps that Intact names has happened to it.                *)
THEOREM FilesAreIntact == Spec => []Intact
<1> DEFINE I == Shape /\ ListInv /\ FirstInv /\ AloneInv /\ DialogueInv /\ ContentsInv
<1>1. Init => I
  BY InitShape, InitList, InitFirst, InitAlone, InitDialogue, InitContents
<1>2. I /\ [Next]_vars => I'
  BY ShapeStep, ListStep, FirstStep, AloneStep, DialogueStep, ContentsStep
<1>3. I => Intact
  BY DEF Intact, ContentsInv, Contents, Carries, At, Prefix, Source
<1>4. QED
  BY <1>1, <1>2, <1>3, PTL DEF Spec

=============================================================================
