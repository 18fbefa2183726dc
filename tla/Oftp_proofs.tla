---------------------------- MODULE Oftp_proofs -----------------------------
(***************************************************************************)
(* Proofs about Oftp for any clients, files, passwords and sizes of buffer *)
(* and byte.  The pieces of a stream are numbered from its beginning: what *)
(* the child has not read yet is where it belongs, and so is what it has   *)
(* written to the disk.                                                    *)
(***************************************************************************)
EXTENDS Oftp, SequenceTheorems, TLAPS

ClientLabels == {"connect", "spare", "name", "modes", "wait", "data", "done", "failed"}
Open == {"spare", "name", "modes", "wait", "data"}
ChildLabels == {"none", "name", "modes", "mkdir", "exists", "create", "data", "stored", "gone"}
Early == {"none", "name", "modes", "mkdir", "exists", "create"}
Filing == {"exists", "create", "data", "stored"}
Late == {"data", "stored", "gone"}

Files == {File, Stray}
Entries == (0 .. Byte) \X (Conns \cup {Nothing})

Shape == /\ cpc \in [Clients -> ClientLabels]
         /\ sent \in [Clients -> Nat]
         /\ used \in [Clients -> 0 .. MaxConns]
         /\ stream \in [Conns -> Seq(Nat)]
         /\ wopen \in [Conns -> BOOLEAN]
         /\ child \in [Conns -> ChildLabels]
         /\ fname \in [Conns -> Files \cup {"dir"}]
         /\ bytes \in [Conns -> Nat]
         /\ offset \in [Conns -> Nat]
         /\ whole \in [Conns -> BOOLEAN]
         /\ disk \in [Files -> Seq(Entries) \cup {Nothing}]
         /\ opener \in [Files -> Conns \cup {Nothing}]
         /\ reply = [k \in Conns |-> reply[k]]
         /\ todo = [c \in Clients |-> todo[c]]

\* The connection is its client's gfd.
Current(k) == k = gfd(k[1])
Failed(k) == Current(k) /\ cpc[k[1]] = "failed"
Busy(k) == Current(k) /\ cpc[k[1]] \in Open
Dry(k) == stream[k] = << >> /\ ~wopen[k]

\* A client has a connection open from connect to close, and answers to its places.
ClientOk(c) ==
    /\ cpc[c] \in Open => used[c] > 0 /\ wopen[gfd(c)]
    /\ cpc[c] \notin Open /\ used[c] > 0 => ~wopen[gfd(c)]
    /\ cpc[c] \in {"spare", "name"} => child[gfd(c)] = "name" /\ stream[gfd(c)] = << >>
    /\ cpc[c] = "connect" /\ used[c] > 0 => child[gfd(c)] \in Late
    /\ cpc[c] = "data" => child[gfd(c)] \in Late /\ sent[c] <= Len(Contents[c])
    /\ cpc[c] \notin {"data", "failed"} => sent[c] = 0

ClientInv == \A c \in Clients : ClientOk(c)

\* A connection that is to come, one that its client has left, and the child's places.
ConnOk(k) ==
    /\ k[2] > used[k[1]] => child[k] = "none" /\ stream[k] = << >> /\ ~wopen[k]
    /\ k[2] < used[k[1]] => ~wopen[k] /\ child[k] \in Late
    /\ child[k] \in Early => reply[k] = "none" /\ bytes[k] = 0
    /\ child[k] \in {"none", "name", "gone"} => fname[k] = Stray
    /\ child[k] \in Filing => fname[k] # "dir"
    /\ child[k] = "stored" => Dry(k)

ConnInv == \A k \in Conns : ConnOk(k)

\* The child has its file open; the file is as long as what it has written.
FileInv ==
    /\ \A k \in Conns : child[k] \in {"data", "stored"} => disk[fname[k]] \in Seq(Entries)
    /\ \A k \in Conns : opener[File] = k =>
          /\ child[k] \in Late /\ disk[File] \in Seq(Entries)
          /\ child[k] # "gone" => fname[k] = File /\ offset[k] <= Len(disk[File])

\* The first piece tells a file from a directory.
NameOk(k) ==
    Current(k) /\ cpc[k[1]] \in {"modes", "wait"} =>
        /\ child[k] = "name" => /\ stream[k] # << >>
                                /\ Head(stream[k]) = Head(NAME) => Head(todo[k[1]]) # "dir"
        /\ fname[k] = File => Head(todo[k[1]]) # "dir"

NameInv == \A k \in Conns : NameOk(k)

-----------------------------------------------------------------------------
Size(c) == Len(Contents[c])
Code(c, j) == (Contents[c][j] + Key(j - 1)) % Byte

\* Pieces written so far by a client that has the connection open.
Wrote(c) == CASE cpc[c] = "modes" -> 2
              [] cpc[c] = "wait"  -> 4
              [] cpc[c] = "data"  -> 4 + sent[c]
              [] OTHER            -> 0

Lengths(k) == {0, 2} \cup 4 .. 4 + Size(k[1])

\* The piece at q if the client wrote w and then perhaps ERR.
Right(k, w, q, x) == IF q <= w THEN q > 4 => x = Code(k[1], q - 4) ELSE x >= Byte

Under(k, w, off) ==
    /\ w \in Lengths(k)
    /\ off + Len(stream[k]) = w \/ (off + Len(stream[k]) = w + 2 /\ Failed(k))
    /\ \A j \in 1 .. Len(stream[k]) : Right(k, w, off + j, stream[k][j])
    /\ Busy(k) => w = Wrote(k[1])
    /\ ~Busy(k) /\ ~Failed(k) => w = 4 + Size(k[1])

Filed(k, w) == opener[File] = k =>
    \A j \in 1 .. Len(disk[File]) :
        disk[File][j][2] = k => j <= bytes[k] /\ disk[File][j][1] = IF j <= w - 4 THEN Contents[k[1]][j] ELSE Garbage

(* What is in the stream while the child waits for the name, for the modes,*)
(* and after that; a file whose client failed early may stay empty.        *)
StreamOk(k) ==
    /\ child[k] = "name" => Dry(k) \/ \E w \in Lengths(k) : Under(k, w, 0)
    /\ child[k] = "modes" /\ fname[k] = File /\ whole[k] => \E w \in Lengths(k) : Under(k, w, 2)
    /\ child[k] \in Filing /\ fname[k] = File /\ whole[k] =>
          \/ Dry(k) /\ Failed(k) /\ bytes[k] = 0 /\ Filed(k, 4)
          \/ \E w \in Lengths(k) : w >= 4 /\ Under(k, w, 4 + bytes[k]) /\ Filed(k, w)

StreamInv == \A k \in Conns : StreamOk(k)

IInv == Shape /\ ClientInv /\ ConnInv /\ FileInv /\ NameInv /\ StreamInv

\* As long as no write was short, the child is in the file where it is in the stream.
OffsetOk(k) == /\ child[k] \in Early => offset[k] = 0
               /\ whole[k] => offset[k] = bytes[k]

OffsetInv == \A k \in Conns : OffsetOk(k)

-----------------------------------------------------------------------------
(* Arithmetic of bytes: what encode adds, decode takes away.               *)

LEMMA NoMultiple ==
    ASSUME NEW B \in Nat \ {0}, NEW z \in Int, -B < B * z, B * z < B
    PROVE  z = 0
<1>1. CASE z >= 1
  <2>1. B * z >= B
    BY <1>1
  <2>2. QED
    BY <2>1
<1>2. CASE z <= -1
  <2>1. B * z <= -B
    BY <1>2
  <2>2. QED
    BY <2>1
<1>3. QED
  BY <1>1, <1>2

LEMMA ModRange ==
    ASSUME NEW B \in Nat \ {0}, NEW n \in Int
    PROVE  n % B \in 0 .. B - 1
OBVIOUS

LEMMA ModDiv ==
    ASSUME NEW B \in Nat \ {0}, NEW n \in Int
    PROVE  n \div B \in Int /\ n = (B * (n \div B)) + (n % B)
OBVIOUS

\* The inverse of adding y modulo B.
LEMMA ModInverse ==
    ASSUME NEW B \in Nat \ {0}, NEW x \in 0 .. B - 1, NEW y \in Int
    PROVE  (((x + y) % B) - y) % B = x
<1> DEFINE m == x + y
           r == m % B
           q == m \div B
           n == r - y
           t == n % B
           p == n \div B
<1>1. m \in Int
  OBVIOUS
<1>2. r \in 0 .. B - 1
  BY <1>1, ModRange
<1>3. q \in Int /\ m = (B * q) + r
  BY ONLY B \in Nat \ {0}, <1>1, ModDiv
<1>4. n \in Int
  BY <1>2
<1>5. t \in 0 .. B - 1
  BY <1>4, ModRange
<1>6. p \in Int /\ n = (B * p) + t
  BY ONLY B \in Nat \ {0}, <1>4, ModDiv
<1>7. m = x + y /\ n = r - y
  OBVIOUS
<1>8. t = (((x + y) % B) - y) % B
  OBVIOUS
<1> HIDE DEF m, n, r, q, t, p
<1>9. B * q \in Int /\ B * p \in Int /\ B * (p + q) = B * p + B * q
  BY <1>3, <1>6
<1>10. B * (p + q) = x - t
  BY <1>2, <1>3, <1>5, <1>6, <1>7, <1>9
<1>11. p + q \in Int /\ -B < B * (p + q) /\ B * (p + q) < B
  BY <1>3, <1>5, <1>6, <1>10
<1>12. p + q = 0
  BY <1>11, NoMultiple
<1>13. B * (p + q) = 0
  BY <1>12
<1>14. x = t
  BY <1>5, <1>10, <1>13
<1>15. QED
  BY <1>8, <1>14

LEMMA KeyInt == \A n \in Nat : Key(n) \in Int
<1> SUFFICES ASSUME NEW n \in Nat PROVE Key(n) \in Int
  OBVIOUS
<1>1. CASE Pass = << >>
  BY <1>1 DEF Key
<1>2. CASE Pass # << >>
  <2>1. Pass \in Seq(0 .. Byte - 1) /\ Byte \in Nat
    BY OftpAssumption
  <2>2. Len(Pass) \in Nat \ {0}
    BY <2>1, <1>2, EmptySeq
  <2>3. (n % Len(Pass)) + 1 \in 1 .. Len(Pass)
    <3> DEFINE L == Len(Pass)
    <3>1. L \in Nat \ {0}
      BY <2>2
    <3> HIDE DEF L
    <3>2. n % L \in 0 .. L - 1
      BY <3>1, ModRange
    <3>3. (n % L) + 1 \in 1 .. L
      BY <3>1, <3>2
    <3>4. QED
      BY <3>3 DEF L
  <2>4. Pass[(n % Len(Pass)) + 1] \in 0 .. Byte - 1
    BY <2>1, <2>3
  <2>5. QED
    BY <1>2, <2>1, <2>4 DEF Key
<1>3. QED
  BY <1>1, <1>2

\* What encode makes of the j-th byte of c's file.
LEMMA CodeFacts ==
    ASSUME NEW c \in Clients
    PROVE  /\ Size(c) \in Nat /\ Contents[c] \in Seq(0 .. Byte - 1)
           /\ \A j \in 1 .. Size(c) :
                 /\ Contents[c][j] \in 0 .. Byte - 1
                 /\ Code(c, j) \in 0 .. Byte - 1
                 /\ (Code(c, j) - Key(j - 1)) % Byte = Contents[c][j]
<1>1. Contents[c] \in Seq(0 .. Byte - 1) /\ Byte \in Nat \ {0}
  BY OftpAssumption
<1>2. Size(c) \in Nat
  BY <1>1 DEF Size
<1>3. ASSUME NEW j \in 1 .. Size(c)
      PROVE  /\ Contents[c][j] \in 0 .. Byte - 1
             /\ Code(c, j) \in 0 .. Byte - 1
             /\ (Code(c, j) - Key(j - 1)) % Byte = Contents[c][j]
  <2>1. Contents[c][j] \in 0 .. Byte - 1
    BY <1>1 DEF Size
  <2>2. j \in Nat /\ j - 1 \in Nat
    BY <1>2
  <2>3. Key(j - 1) \in Int
    BY <2>2, KeyInt
  <2>4. Contents[c][j] + Key(j - 1) \in Int
    BY <1>1, <2>1, <2>3
  <2>5. Code(c, j) \in 0 .. Byte - 1
    BY <1>1, <2>4, ModRange DEF Code
  <2>6. QED
    BY <1>1, <2>1, <2>3, <2>5, ModInverse DEF Code
<1>4. QED
  BY <1>1, <1>2, <1>3

(* What a client writes next.                                              *)
LEMMA ChunkFacts ==
    ASSUME NEW c \in Clients, sent[c] \in Nat
    PROVE  /\ Chunk(c) \in Seq(Nat) /\ Len(Chunk(c)) \in Nat
           /\ Len(Chunk(c)) > 0 => sent[c] + Len(Chunk(c)) <= Size(c)
           /\ Chunk(c) = << >> => Size(c) <= sent[c]
           /\ \A j \in 1 .. Len(Chunk(c)) : Chunk(c)[j] = Code(c, sent[c] + j)
<1> DEFINE from == sent[c] + 1
           to == Least(sent[c] + BUFS, Len(Contents[c]))
           buff == SubSeq(Contents[c], from, to)
<1>1. BUFS \in Nat /\ BUFS > 0 /\ Byte \in Nat /\ Byte > 0
  BY OftpAssumption
<1>2. Size(c) \in Nat /\ Contents[c] \in Seq(0 .. Byte - 1) /\ Size(c) = Len(Contents[c])
  BY CodeFacts DEF Size
<1>3. /\ from \in Nat /\ to \in Nat /\ from = sent[c] + 1 /\ to <= Size(c)
      /\ to = Size(c) \/ to = sent[c] + BUFS
  BY <1>1, <1>2 DEF Least
<1> HIDE DEF from, to
<1>4. ASSUME NEW j \in from .. to PROVE Contents[c][j] \in 0 .. Byte - 1
  <2>1. j \in 1 .. Size(c)
    BY <1>2, <1>3
  <2>2. QED
    BY <2>1, CodeFacts
<1>5. /\ buff \in Seq(0 .. Byte - 1)
      /\ Len(buff) = IF from <= to THEN to - from + 1 ELSE 0
      /\ \A j \in 1 .. to - from + 1 : buff[j] = Contents[c][from + j - 1]
  BY <1>3, <1>4, SubSeqProperties
<1>6. Len(buff) \in Nat /\ DOMAIN buff = 1 .. Len(buff)
  BY <1>5, LenProperties
<1>7. Chunk(c) = [j \in 1 .. Len(buff) |-> (buff[j] + Key(j - 1 + sent[c])) % Byte]
  BY <1>6 DEF Chunk, encode, from, to
<1>8. ASSUME NEW j \in 1 .. Len(buff)
      PROVE  /\ Chunk(c)[j] = Code(c, sent[c] + j)
             /\ Chunk(c)[j] \in Nat
  <2>1. j \in Nat /\ from <= to /\ j <= to - from + 1 /\ j >= 1
    BY <1>3, <1>5, <1>6
  <2>a. from + j - 1 = sent[c] + j /\ j \in 1 .. to - from + 1
    BY <1>3, <2>1
  <2>b. sent[c] + j \in 1 .. Size(c)
    BY SMTT(30), <1>2, <1>3, <2>1
  <2>2. buff[j] = Contents[c][sent[c] + j] /\ sent[c] + j \in 1 .. Size(c)
    BY <1>5, <2>a, <2>b
  <2>3. j - 1 + sent[c] = (sent[c] + j) - 1
    BY <2>1
  <2>4. Chunk(c)[j] = Code(c, sent[c] + j)
    BY <1>7, <2>2, <2>3 DEF Code
  <2>5. QED
    BY <1>1, <2>2, <2>4, CodeFacts
<1> HIDE DEF buff
<1>9. Chunk(c) \in Seq(Nat) /\ Len(Chunk(c)) = Len(buff)
  BY <1>6, <1>7, <1>8
<1> DEFINE n == Len(buff)
<1>a. n = IF from <= to THEN to - from + 1 ELSE 0
  BY <1>5
<1> HIDE DEF n
<1>b. ASSUME n > 0 PROVE sent[c] + n <= Size(c)
  <2>1. n = to - from + 1
    BY <1>a, <1>b
  <2>2. sent[c] + n = to
    BY <1>3, <2>1
  <2>3. QED
    BY <1>3, <2>2
<1>10. Len(Chunk(c)) > 0 => sent[c] + Len(Chunk(c)) <= Size(c)
  BY <1>9, <1>b DEF n
<1>11. Chunk(c) = << >> => Size(c) <= sent[c]
  <2>1. Chunk(c) = << >> => Len(Chunk(c)) = 0
    OBVIOUS
  <2>2. Len(buff) = 0 => ~ from <= to
    BY <1>3, <1>5
  <2>3. ~ from <= to => Size(c) <= sent[c]
    BY <1>1, <1>2, <1>3
  <2>4. QED
    BY <1>9, <2>1, <2>2, <2>3
<1>12. QED
  BY <1>6, <1>8, <1>9, <1>10, <1>11

(* A read takes pieces from the beginning, a write adds some to the end.   *)
LEMMA ReadFacts ==
    ASSUME NEW s \in Seq(Nat), NEW n \in 1 .. Len(s)
    PROVE  /\ SubSeq(s, n + 1, Len(s)) \in Seq(Nat)
           /\ Len(SubSeq(s, n + 1, Len(s))) = Len(s) - n
           /\ \A j \in 1 .. Len(s) - n : SubSeq(s, n + 1, Len(s))[j] = s[n + j]
<1> DEFINE from == n + 1
           to == Len(s)
<1>1. to \in Nat /\ n \in Nat /\ from = n + 1 /\ n <= to
  OBVIOUS
<1> HIDE DEF from
<1>2. \A j \in from .. to : s[j] \in Nat
  BY <1>1
<1> HIDE DEF to
<1>3. /\ SubSeq(s, from, to) \in Seq(Nat)
      /\ Len(SubSeq(s, from, to)) = IF from <= to THEN to - from + 1 ELSE 0
      /\ \A j \in 1 .. to - from + 1 : SubSeq(s, from, to)[j] = s[from + j - 1]
  BY <1>1, <1>2, SubSeqProperties
<1>4. to - from + 1 = to - n /\ (~ from <= to => to - n = 0)
  BY <1>1
<1>5. \A j \in 1 .. to - n : from + j - 1 = n + j
  BY <1>1
<1>6. Len(SubSeq(s, from, to)) = to - n
  BY <1>3, <1>4
<1>7. \A j \in 1 .. to - n : SubSeq(s, from, to)[j] = s[n + j]
  BY <1>3, <1>4, <1>5
<1>8. QED
  BY <1>3, <1>6, <1>7 DEF from, to

(* Bytes that are written to a file are where they should be, and nothing  *)
(* else has changed.                                                       *)
LEMMA WriteAtFacts ==
    ASSUME NEW old \in Seq(Entries), NEW at \in Nat, NEW new \in Seq(Entries), <<0, Nothing>> \in Entries,
           NEW size \in Nat, size = IF Len(old) > at + Len(new) THEN Len(old) ELSE at + Len(new)
    PROVE  /\ WriteAt(old, at, new) \in Seq(Entries)
           /\ Len(WriteAt(old, at, new)) = size
           /\ \A j \in 1 .. size :
                 WriteAt(old, at, new)[j] = IF j > at /\ j <= at + Len(new) THEN new[j - at]
                                            ELSE IF j <= Len(old) THEN old[j] ELSE <<0, Nothing>>
<1>1. WriteAt(old, at, new) =
          [j \in 1 .. size |-> IF j > at /\ j <= at + Len(new) THEN new[j - at]
                                ELSE IF j <= Len(old) THEN old[j] ELSE <<0, Nothing>>]
  BY DEF WriteAt
<1>2. ASSUME NEW j \in 1 .. size
      PROVE  (IF j > at /\ j <= at + Len(new) THEN new[j - at]
              ELSE IF j <= Len(old) THEN old[j] ELSE <<0, Nothing>>) \in Entries
  OBVIOUS
<1>3. QED
  BY <1>1, <1>2

-----------------------------------------------------------------------------
(* Pieces and connections. *)

LEMMA ConstantFacts ==
    /\ BUFS \in Nat /\ BUFS > 0 /\ Byte \in Nat /\ Byte > 0 /\ MaxConns \in Nat
    /\ File # Stray /\ File # "dir" /\ Stray # "dir"
  BY OftpAssumption

LEMMA PieceFacts ==
    /\ NAME \in Seq(Nat) /\ Len(NAME) = 2 /\ Head(NAME) = Byte + 1 /\ NAME[1] = Byte + 1
    /\ DIR \in Seq(Nat) /\ Len(DIR) = 2 /\ Head(DIR) = Byte + 2 /\ DIR[1] = Byte + 2
    /\ MODES \in Seq(Nat) /\ Len(MODES) = 2
    /\ ERR \in Seq(Nat) /\ Len(ERR) = 2 /\ Head(ERR) = Byte + 4
    /\ ERR[1] >= Byte /\ ERR[2] >= Byte
<1>1. Byte \in Nat
  BY ConstantFacts
<1>2. NAME \in Seq(Nat) /\ Len(NAME) = 2 /\ Head(NAME) = Byte + 1 /\ NAME[1] = Byte + 1
  BY <1>1 DEF NAME, Rest
<1>3. DIR \in Seq(Nat) /\ Len(DIR) = 2 /\ Head(DIR) = Byte + 2 /\ DIR[1] = Byte + 2
  BY <1>1 DEF DIR, Rest
<1>4. MODES \in Seq(Nat) /\ Len(MODES) = 2
  BY <1>1 DEF MODES, Rest
<1>5. ERR \in Seq(Nat) /\ Len(ERR) = 2 /\ Head(ERR) = Byte + 4
  BY <1>1 DEF ERR, Rest
<1>6. ERR[1] >= Byte /\ ERR[2] >= Byte
  BY <1>1 DEF ERR, Rest
<1>7. QED
  BY <1>2, <1>3, <1>4, <1>5, <1>6

LEMMA ConnFacts ==
    ASSUME NEW k \in Conns
    PROVE  /\ k[1] \in Clients /\ k[2] \in Nat /\ k[2] >= 1 /\ k[2] <= MaxConns
           /\ k = <<k[1], k[2]>> /\ k # Nothing
<1>1. PICK c \in Clients, n \in 1 .. MaxConns : k = <<c, n>>
  BY DEF Conns
<1>2. Len(k) = 2 /\ Len(Nothing) = 1
  BY <1>1 DEF Nothing
<1>3. k[1] = c /\ k[2] = n
  BY <1>1
<1>4. QED
  BY <1>1, <1>2, <1>3, ConstantFacts

LEMMA GfdFacts ==
    ASSUME Shape, NEW c \in Clients
    PROVE  /\ used[c] \in Nat /\ used[c] <= MaxConns
           /\ gfd(c)[1] = c /\ gfd(c)[2] = used[c]
           /\ used[c] > 0 => gfd(c) \in Conns
           /\ \A k \in Conns : k = gfd(c) <=> k[1] = c /\ k[2] = used[c]
<1>1. used[c] \in Nat /\ used[c] <= MaxConns
  BY ConstantFacts DEF Shape
<1>2. gfd(c)[1] = c /\ gfd(c)[2] = used[c]
  BY DEF gfd
<1>3. used[c] > 0 => gfd(c) \in Conns
  BY <1>1, ConstantFacts DEF gfd, Conns
<1>4. \A k \in Conns : k = gfd(c) <=> k[1] = c /\ k[2] = used[c]
  BY ConnFacts DEF gfd
<1>5. QED
  BY <1>1, <1>2, <1>3, <1>4

\* For a connection: it is its client's, an earlier one, or one to come.
LEMMA CurrentFacts ==
    ASSUME Shape, NEW k \in Conns
    PROVE  /\ Current(k) <=> k[2] = used[k[1]]
           /\ Current(k) => used[k[1]] > 0
           /\ used[k[1]] \in Nat /\ k[2] \in Nat
<1>1. k[1] \in Clients /\ k[2] \in Nat /\ k[2] >= 1
  BY ConnFacts
<1>2. used[k[1]] \in Nat
  BY <1>1, GfdFacts
<1>3. Current(k) <=> k[2] = used[k[1]]
  BY <1>1, GfdFacts DEF Current
<1>4. QED
  BY <1>1, <1>2, <1>3

LEMMA WriteFacts ==
    ASSUME Shape, NEW c \in Clients, used[c] > 0, NEW x \in Seq(Nat), Write(c, x)
    PROVE  /\ stream' \in [Conns -> Seq(Nat)]
           /\ \A k \in Conns : k # gfd(c) => stream'[k] = stream[k]
           /\ child[gfd(c)] = "gone" => stream'[gfd(c)] = stream[gfd(c)]
           /\ child[gfd(c)] # "gone" => stream'[gfd(c)] = stream[gfd(c)] \o x
<1>1. gfd(c) \in Conns /\ stream \in [Conns -> Seq(Nat)]
  BY GfdFacts DEF Shape
<1> DEFINE g == gfd(c)
           s == stream[g] \o x
<1>2. s \in Seq(Nat)
  <2>1. stream[g] \in Seq(Nat)
    BY <1>1
  <2>2. QED
    BY <2>1, ConcatProperties
<1>3. stream' = IF child[g] = "gone" THEN stream ELSE [stream EXCEPT ![g] = s]
  BY DEF Write
<1> HIDE DEF g, s
<1>4. g \in Conns
  BY <1>1 DEF g
<1>5. /\ stream' \in [Conns -> Seq(Nat)]
      /\ \A k \in Conns : k # g => stream'[k] = stream[k]
      /\ child[g] = "gone" => stream'[g] = stream[g]
      /\ child[g] # "gone" => stream'[g] = s
  BY <1>1, <1>2, <1>3, <1>4
<1>6. QED
  BY <1>5 DEF g, s

-----------------------------------------------------------------------------
(* A client's step changes nothing for other clients and connections.      *)

\* What the steps of c but CConnect leave alone.
Frame(c) ==
    /\ UNCHANGED <<used, reply, child, fname, bytes, offset, whole, disk, opener>>
    /\ \A d \in Clients : d # c => cpc'[d] = cpc[d] /\ sent'[d] = sent[d] /\ todo'[d] = todo[d]
    /\ \A k \in Conns : k # gfd(c) => stream'[k] = stream[k] /\ wopen'[k] = wopen[k]

LEMMA SameUnder ==
    ASSUME NEW k \in Conns, NEW w \in Lengths(k), NEW off \in Nat, Under(k, w, off),
           stream'[k] = stream[k], Failed(k)' <=> Failed(k), Busy(k)' <=> Busy(k),
           Busy(k) => Wrote(k[1])' = Wrote(k[1])
    PROVE  Under(k, w, off)'
<1> DEFINE s == stream[k]
<1>1. stream'[k] = s
  OBVIOUS
<1>2. /\ off + Len(s) = w \/ (off + Len(s) = w + 2 /\ Failed(k))
      /\ \A j \in 1 .. Len(s) : Right(k, w, off + j, s[j])
      /\ Busy(k) => w = Wrote(k[1])
      /\ ~Busy(k) /\ ~Failed(k) => w = 4 + Size(k[1])
  BY DEF Under
<1> HIDE DEF s
<1>3. /\ off + Len(s) = w \/ (off + Len(s) = w + 2 /\ Failed(k)')
      /\ Busy(k)' => w = Wrote(k[1])'
      /\ ~Busy(k)' /\ ~Failed(k)' => w = 4 + Size(k[1])
  BY <1>2
<1>4. QED
  BY <1>1, <1>2, <1>3 DEF Under, Lengths, Right

LEMMA SameStream ==
    ASSUME NEW k \in Conns, StreamOk(k), bytes[k] \in Nat,
           stream'[k] = stream[k], wopen'[k] = wopen[k],
           Failed(k)' <=> Failed(k), Busy(k)' <=> Busy(k),
           Busy(k) => Wrote(k[1])' = Wrote(k[1]),
           child'[k] = child[k], fname'[k] = fname[k], whole'[k] = whole[k], bytes'[k] = bytes[k],
           \A w \in Lengths(k) : Filed(k, w) => Filed(k, w)'
    PROVE  StreamOk(k)'
<1>1. Dry(k) <=> Dry(k)'
  BY DEF Dry
<1>2. \A w \in Lengths(k), off \in Nat : Under(k, w, off) => Under(k, w, off)'
  BY SameUnder
<1>3. 0 \in Nat /\ 2 \in Nat /\ 4 + bytes[k] \in Nat
  OBVIOUS
<1>4. 4 \in Lengths(k)
  <2>1. Size(k[1]) \in Nat
    BY ConnFacts, CodeFacts
  <2>2. QED
    BY <2>1 DEF Lengths
<1>5. child[k] = "name" => Dry(k)' \/ \E w \in Lengths(k) : Under(k, w, 0)'
  BY <1>1, <1>2, <1>3 DEF StreamOk
<1>6. child[k] = "modes" /\ fname[k] = File /\ whole[k] => \E w \in Lengths(k) : Under(k, w, 2)'
  BY <1>2, <1>3 DEF StreamOk
<1>7. child[k] \in Filing /\ fname[k] = File /\ whole[k] =>
          \/ Dry(k)' /\ Failed(k)' /\ bytes[k] = 0 /\ Filed(k, 4)'
          \/ \E w \in Lengths(k) : w >= 4 /\ Under(k, w, 4 + bytes[k])' /\ Filed(k, w)'
  BY <1>1, <1>2, <1>3, <1>4 DEF StreamOk
<1>8. QED
  BY <1>5, <1>6, <1>7 DEF StreamOk, Under, Lengths

LEMMA OthersStay ==
    ASSUME IInv, NEW c \in Clients, Frame(c)
    PROVE  /\ gfd(c)' = gfd(c) /\ FileInv'
           /\ \A d \in Clients : d # c => ClientOk(d)'
           /\ \A k \in Conns : k # gfd(c) => ConnOk(k)' /\ NameOk(k)' /\ StreamOk(k)'
<1>0. Shape /\ ClientInv /\ ConnInv /\ FileInv /\ NameInv /\ StreamInv
  BY DEF IInv
<1>1. UNCHANGED <<used, reply, child, fname, bytes, offset, whole, disk, opener>>
  BY DEF Frame
<1>2. \A d : gfd(d)' = gfd(d)
  BY <1>1 DEF gfd
<1>3. FileInv'
  BY <1>0, <1>1 DEF FileInv
<1>4. ASSUME NEW d \in Clients, d # c PROVE ClientOk(d)'
  <2>1. cpc'[d] = cpc[d] /\ sent'[d] = sent[d] /\ ClientOk(d)
    BY <1>0, <1>4 DEF Frame, ClientInv
  <2>2. used[d] > 0 => stream'[gfd(d)] = stream[gfd(d)] /\ wopen'[gfd(d)] = wopen[gfd(d)]
    <3>1. gfd(d) # gfd(c)
      BY <1>0, <1>4, GfdFacts
    <3>2. used[d] > 0 => gfd(d) \in Conns
      BY <1>0, GfdFacts
    <3>3. QED
      BY <3>1, <3>2 DEF Frame
  <2>3. QED
    BY <1>1, <1>2, <2>1, <2>2 DEF ClientOk, Open
<1>5. ASSUME NEW k \in Conns, k # gfd(c) PROVE ConnOk(k)' /\ NameOk(k)' /\ StreamOk(k)'
  <2>1. stream'[k] = stream[k] /\ wopen'[k] = wopen[k] /\ ConnOk(k) /\ NameOk(k) /\ StreamOk(k)
    BY <1>0, <1>5 DEF Frame, ConnInv, NameInv, StreamInv
  <2>2. ConnOk(k)'
    BY <1>1, <2>1 DEF ConnOk, Dry
  <2>3. Current(k)' <=> Current(k)
    BY <1>2 DEF Current
  <2>4. Current(k) => k[1] \in Clients /\ k[1] # c
    BY <1>5, ConnFacts DEF Current
  <2>5. Current(k) => /\ cpc'[k[1]] = cpc[k[1]] /\ sent'[k[1]] = sent[k[1]]
                      /\ todo'[k[1]] = todo[k[1]]
    BY <2>4 DEF Frame
  <2>6. NameOk(k)'
    BY <1>1, <2>1, <2>3, <2>5 DEF NameOk
  <2>7. (Failed(k)' <=> Failed(k)) /\ (Busy(k)' <=> Busy(k))
    BY <2>3, <2>5 DEF Failed, Busy
  <2>8. Busy(k) => Wrote(k[1])' = Wrote(k[1])
    BY <2>5 DEF Busy, Wrote
  <2>9. \A w \in Lengths(k) : Filed(k, w) => Filed(k, w)'
    BY <1>1 DEF Filed
  <2>10. bytes[k] \in Nat
    BY <1>0 DEF Shape
  <2>11. /\ child'[k] = child[k] /\ fname'[k] = fname[k] /\ whole'[k] = whole[k]
         /\ bytes'[k] = bytes[k]
    BY <1>1
  <2>12. StreamOk(k)'
    BY <2>1, <2>7, <2>8, <2>9, <2>10, <2>11, SameStream
  <2>13. QED
    BY <2>2, <2>6, <2>12
<1>6. QED
  BY <1>2, <1>3, <1>4, <1>5

(* For a client's step it is enough to look at its last connection.        *)
LEMMA ClientKeeps ==
    ASSUME IInv, NEW c \in Clients, Frame(c), Shape', ClientOk(c)',
           \A k \in Conns : k = gfd(c) => ConnOk(k)' /\ NameOk(k)' /\ StreamOk(k)'
    PROVE  IInv'
<1>1. ClientInv'
  BY OthersStay DEF ClientInv
<1>2. ASSUME NEW k \in Conns PROVE ConnOk(k)' /\ NameOk(k)' /\ StreamOk(k)'
  <2>1. CASE k = gfd(c)
    BY <2>1
  <2>2. CASE k # gfd(c)
    BY <2>2, OthersStay
  <2>3. QED
    BY <2>1, <2>2
<1>3. QED
  BY <1>1, <1>2, OthersStay DEF IInv, ConnInv, NameInv, StreamInv

(* The pieces x that a client adds to its stream of w pieces; with them it *)
(* has written v, and perhaps ERR.                                         *)
Adds(k, w, x, v) ==
    /\ w <= v
    /\ w + Len(x) = v \/ (w + Len(x) = v + 2 /\ Failed(k)')
    /\ \A j \in 1 .. Len(x) : Right(k, v, w + j, x[j])
    /\ Busy(k)' => v = Wrote(k[1])'
    /\ ~Busy(k)' /\ ~Failed(k)' => v = 4 + Size(k[1])

LEMMA MoreUnder ==
    ASSUME Shape, NEW k \in Conns, NEW w \in Lengths(k), NEW off \in Nat, Under(k, w, off), ~Failed(k),
           NEW x \in Seq(Nat), stream'[k] = stream[k] \o x,
           NEW v \in Lengths(k), w <= v,
           Adds(k, w, x, v)
    PROVE  Under(k, v, off)'
<1>0. Size(k[1]) \in Nat
  BY ConnFacts, CodeFacts
<1>1. w \in Nat /\ v \in Nat
  BY <1>0 DEF Lengths
<1> DEFINE s == stream[k]
<1>2. s \in Seq(Nat) /\ Len(s) \in Nat /\ Len(x) \in Nat
  BY DEF Shape
<1>3. /\ stream'[k] = s \o x /\ s \o x \in Seq(Nat) /\ Len(s \o x) = Len(s) + Len(x)
      /\ \A j \in 1 .. Len(s) + Len(x) : (s \o x)[j] = IF j <= Len(s) THEN s[j] ELSE x[j - Len(s)]
  BY <1>2, ConcatProperties
<1>4. /\ off + Len(s) = w
      /\ \A j \in 1 .. Len(s) : Right(k, w, off + j, s[j])
  BY DEF Under
<1> HIDE DEF s
<1>5. off + Len(s) + Len(x) = v \/ (off + Len(s) + Len(x) = v + 2 /\ Failed(k)')
  BY <1>1, <1>2, <1>4 DEF Adds
<1>6. ASSUME NEW j \in 1 .. Len(s) + Len(x)
      PROVE  Right(k, v, off + j, (s \o x)[j])
  <2>1. j \in Nat /\ j >= 1
    BY <1>2
  <2>2. CASE j <= Len(s)
    <3>1. (s \o x)[j] = s[j] /\ Right(k, w, off + j, s[j]) /\ off + j <= w
      BY <1>2, <1>3, <1>4, <2>1, <2>2
    <3>2. off + j <= v
      BY <1>1, <2>1, <3>1
    <3>3. QED
      BY <3>1, <3>2 DEF Right
  <2>3. CASE j > Len(s)
    <3>1. j - Len(s) \in 1 .. Len(x) /\ off + j = w + (j - Len(s))
      BY <1>2, <1>4, <2>1, <2>3
    <3>2. (s \o x)[j] = x[j - Len(s)]
      BY <1>2, <1>3, <2>1, <2>3
    <3>3. QED
      BY <3>1, <3>2 DEF Adds
  <2>4. QED
    BY <1>2, <2>1, <2>2, <2>3
<1>7. Len(stream'[k]) = Len(s) + Len(x)
  BY <1>3
<1>8. off + Len(stream'[k]) = v \/ (off + Len(stream'[k]) = v + 2 /\ Failed(k)')
  BY <1>2, <1>5, <1>7
<1>9. \A j \in 1 .. Len(stream'[k]) : Right(k, v, off + j, stream'[k][j])
  BY <1>3, <1>6, <1>7
<1>10. QED
  BY <1>8, <1>9 DEF Under, Lengths, Right, Adds

LEMMA MoreStream ==
    ASSUME Shape, NEW k \in Conns, StreamOk(k), ~Failed(k), Dry(k) => Dry(k)',
           NEW x \in Seq(Nat), stream'[k] = stream[k] \o x,
           UNCHANGED <<child, fname, bytes, offset, whole, disk, opener>>,
           \A w \in Lengths(k) : (Busy(k) => w = Wrote(k[1])) => \E v \in Lengths(k) : Adds(k, w, x, v)
    PROVE  StreamOk(k)'
<1>0. Size(k[1]) \in Nat /\ bytes[k] \in Nat
  BY ConnFacts, CodeFacts DEF Shape
<1>1. ASSUME NEW off \in Nat, NEW w \in Lengths(k), Under(k, w, off)
      PROVE  \E v \in Lengths(k) : w <= v /\ Under(k, v, off)' /\ off + Len(stream[k]) = w
  <2>1. PICK v \in Lengths(k) : Adds(k, w, x, v)
    BY <1>1 DEF Under
  <2>2. Under(k, v, off)'
    BY <1>1, <2>1, MoreUnder DEF Adds
  <2>3. off + Len(stream[k]) = w
    BY <1>1 DEF Under
  <2>4. QED
    BY <2>1, <2>2, <2>3 DEF Adds
<1>2. child[k] = "name" => Dry(k)' \/ \E v \in Lengths(k) : Under(k, v, 0)'
  BY <1>1 DEF StreamOk
<1>3. child[k] = "modes" /\ fname[k] = File /\ whole[k] => \E v \in Lengths(k) : Under(k, v, 2)'
  BY <1>1 DEF StreamOk
<1>4. ASSUME child[k] \in Filing, fname[k] = File, whole[k]
      PROVE  \E v \in Lengths(k) : v >= 4 /\ Under(k, v, 4 + bytes[k])' /\ Filed(k, v)'
  <2>1. PICK w \in Lengths(k) : w >= 4 /\ Under(k, w, 4 + bytes[k]) /\ Filed(k, w)
    BY <1>4 DEF StreamOk
  <2>2. 4 + bytes[k] \in Nat
    BY <1>0
  <2>3. PICK v \in Lengths(k) : w <= v /\ Under(k, v, 4 + bytes[k])' /\ 4 + bytes[k] + Len(stream[k]) = w
    BY <1>1, <2>1, <2>2
  <2>a. \A y \in Lengths(k) : y \in Nat
    BY <1>0 DEF Lengths
  <2>b. stream[k] \in Seq(Nat)
    BY DEF Shape
  <2>4. v \in Nat /\ w \in Nat /\ Len(stream[k]) \in Nat
    BY <2>a, <2>b
  <2>5. v >= 4 /\ bytes[k] <= w - 4 /\ w - 4 <= v - 4
    BY <1>0, <2>1, <2>3, <2>4
  <2>6. Filed(k, v)'
    <3>1. SUFFICES ASSUME opener[File] = k, NEW j \in 1 .. Len(disk[File]), disk[File][j][2] = k
                   PROVE  j <= bytes[k] /\ disk[File][j][1] = IF j <= v - 4 THEN Contents[k[1]][j] ELSE Garbage
      BY DEF Filed
    <3>2. j <= bytes[k] /\ disk[File][j][1] = IF j <= w - 4 THEN Contents[k[1]][j] ELSE Garbage
      BY <2>1, <3>1 DEF Filed
    <3>3. j \in Nat
      BY DEF Shape
    <3>4. j <= w - 4 /\ j <= v - 4
      BY <1>0, <2>4, <2>5, <3>2, <3>3
    <3>5. QED
      BY <3>2, <3>4
  <2>7. QED
    BY <2>3, <2>5, <2>6
<1>5. QED
  BY <1>2, <1>3, <1>4 DEF StreamOk, Under, Lengths

-----------------------------------------------------------------------------
(* The steps of a client. *)

LEMMA GoneStream ==
    ASSUME NEW k \in Conns, child'[k] = "gone"
    PROVE  StreamOk(k)'
  BY DEF StreamOk, Filing

\* What holds for a client and its connection.
LEMMA ClientFacts ==
    ASSUME IInv, NEW c \in Clients
    PROVE  /\ Shape /\ ClientOk(c)
           /\ cpc[c] \in Open => used[c] > 0
           /\ used[c] > 0 => gfd(c) \in Conns
           /\ \A k \in Conns : ConnOk(k) /\ NameOk(k) /\ StreamOk(k)
           /\ \A k \in Conns : k = gfd(c) => k[1] = c /\ k[2] = used[c] /\ Current(k)
  BY GfdFacts, CurrentFacts DEF IInv, ClientInv, ConnInv, NameInv, StreamInv, ClientOk

\* A piece of contents, n of which were written before.
LEMMA RightByte ==
    ASSUME NEW k, NEW v \in Nat, NEW w \in Nat, NEW n \in Nat, NEW j \in Nat, NEW x,
           w = 4 + n, w + j <= v, x = Code(k[1], n + j)
    PROVE  Right(k, v, w + j, x)
<1> DEFINE q == w + j
<1>1. q \in Nat /\ q <= v /\ q - 4 = n + j
  OBVIOUS
<1> HIDE DEF q
<1>2. x = Code(k[1], q - 4)
  BY <1>1
<1>3. Right(k, v, q, x)
  BY <1>1, <1>2 DEF Right
<1>4. QED
  BY <1>3 DEF q

(* A client that writes x to its open connection.                          *)
LEMMA WriterKeeps ==
    ASSUME IInv, NEW c \in Clients, Frame(c), Shape', ClientOk(c)',
           cpc[c] \in Open,
           NEW x \in Seq(Nat), Write(c, x),
           \A k \in Conns : k = gfd(c) =>
               /\ NameOk(k)'
               /\ \E v \in Lengths(k) : Adds(k, Wrote(c), x, v)
    PROVE  IInv'
<1>0. /\ Shape /\ ClientOk(c) /\ used[c] > 0
      /\ \A k \in Conns : ConnOk(k) /\ StreamOk(k)
      /\ \A k \in Conns : k = gfd(c) => k[1] = c /\ k[2] = used[c] /\ Current(k)
  BY ClientFacts
<1>1. ASSUME NEW k \in Conns, k = gfd(c) PROVE ConnOk(k)' /\ NameOk(k)' /\ StreamOk(k)'
  <2>1. UNCHANGED <<used, reply, child, fname, bytes, offset, whole, disk, opener>>
    BY DEF Frame
  <2>2. wopen[k] /\ Busy(k) /\ ~Failed(k) /\ k[1] = c /\ k[2] = used[c]
    BY <1>0, <1>1 DEF ClientOk, Busy, Failed, Open
  <2>3. used[c] \in Nat
    BY <1>0, GfdFacts
  <2>4. ConnOk(k)'
    BY <1>0, <2>1, <2>2, <2>3 DEF ConnOk, Dry
  <2>5. CASE child[k] = "gone"
    BY <1>1, <2>1, <2>4, <2>5, GoneStream
  <2>6. CASE child[k] # "gone"
    <3>1. stream'[k] = stream[k] \o x
      BY <1>0, <1>1, <2>6, WriteFacts
    <3>2. \A w \in Lengths(k) : (Busy(k) => w = Wrote(k[1])) => \E v \in Lengths(k) : Adds(k, w, x, v)
      BY <1>1, <2>2
    <3>3. ~Dry(k)
      BY <2>2 DEF Dry
    <3>4. StreamOk(k)'
      BY <1>0, <2>1, <2>2, <3>1, <3>2, <3>3, MoreStream
    <3>5. QED
      BY <1>1, <2>4, <3>4
  <2>7. QED
    BY <2>5, <2>6
<1>2. QED
  BY <1>1, ClientKeeps

(* A client that leaves its connection, which it has not spoilt.           *)
LEMMA LeaverKeeps ==
    ASSUME IInv, NEW c \in Clients, Frame(c), Shape', ClientOk(c)', UNCHANGED stream,
           \A k \in Conns : k = gfd(c) =>
               /\ ~wopen'[k] /\ NameOk(k)' /\ ~Failed(k)
               /\ \/ StreamOk(k)'
                  \/ \A w \in Lengths(k) : (Busy(k) => w = Wrote(c)) =>
                        \E v \in Lengths(k) : Adds(k, w, << >>, v)
    PROVE  IInv'
<1>0. /\ Shape /\ ClientOk(c)
      /\ \A k \in Conns : ConnOk(k) /\ StreamOk(k)
      /\ \A k \in Conns : k = gfd(c) => k[1] = c /\ k[2] = used[c] /\ Current(k)
  BY ClientFacts
<1>1. ASSUME NEW k \in Conns, k = gfd(c) PROVE ConnOk(k)' /\ NameOk(k)' /\ StreamOk(k)'
  <2>1. UNCHANGED <<used, reply, child, fname, bytes, offset, whole, disk, opener>>
    BY DEF Frame
  <2>2. k[1] = c /\ k[2] = used[c] /\ used[c] \in Nat
    BY <1>0, <1>1, GfdFacts
  <2>3. ConnOk(k)'
    BY <1>0, <1>1, <2>1, <2>2 DEF ConnOk, Dry
  <2>4. ASSUME \A w \in Lengths(k) : (Busy(k) => w = Wrote(c)) =>
                   \E v \in Lengths(k) : Adds(k, w, << >>, v)
        PROVE  StreamOk(k)'
    <3>1. << >> \in Seq(Nat) /\ stream[k] \in Seq(Nat)
      BY <1>0 DEF Shape
    <3>2. stream'[k] = stream[k] \o << >>
      BY <3>1, ConcatEmptySeq
    <3>3. Dry(k) => Dry(k)'
      BY <1>1 DEF Dry
    <3>4. \A w \in Lengths(k) : (Busy(k) => w = Wrote(k[1])) => \E v \in Lengths(k) : Adds(k, w, << >>, v)
      BY <2>2, <2>4
    <3>5. QED
      BY <1>0, <1>1, <2>1, <3>1, <3>2, <3>3, <3>4, MoreStream
  <2>5. QED
    BY <1>1, <2>3, <2>4
<1>2. QED
  BY <1>1, ClientKeeps

LEMMA LengthsFacts ==
    ASSUME NEW k \in Conns
    PROVE  /\ Size(k[1]) \in Nat /\ Lengths(k) \subseteq Nat
           /\ 0 \in Lengths(k) /\ 2 \in Lengths(k) /\ 4 \in Lengths(k)
           /\ \A n \in Nat : n <= Size(k[1]) => 4 + n \in Lengths(k)
<1>1. Size(k[1]) \in Nat
  BY ConnFacts, CodeFacts
<1>2. QED
  BY <1>1 DEF Lengths

LEMMA SpareKeeps ==
    ASSUME IInv, NEW c \in Clients, CSpare(c)
    PROVE  IInv'
<1>0. /\ Shape /\ ClientOk(c) /\ cpc[c] = "spare" /\ used[c] > 0 /\ gfd(c) \in Conns
      /\ \A k \in Conns : k = gfd(c) => k[1] = c /\ k[2] = used[c] /\ Current(k)
  BY ClientFacts DEF CSpare, Open
<1>1. /\ cpc' = [cpc EXCEPT ![c] = "done"]
      /\ wopen' = [wopen EXCEPT ![gfd(c)] = FALSE]
      /\ UNCHANGED <<todo, sent, used, stream, reply, child, fname, bytes, offset, whole, disk, opener>>
  BY DEF CSpare, Close, Goto, serverVars
<1>2. child[gfd(c)] = "name" /\ stream[gfd(c)] = << >> /\ sent[c] = 0
  BY <1>0 DEF ClientOk
<1>3. Frame(c)
  BY <1>0, <1>1 DEF Frame, Shape
<1>4. Shape'
  BY <1>0, <1>1 DEF Shape, ClientLabels
<1>5. cpc'[c] = "done" /\ wopen'[gfd(c)] = FALSE /\ gfd(c)' = gfd(c)
  BY <1>0, <1>1 DEF Shape, gfd
<1>6. ClientOk(c)'
  BY <1>1, <1>2, <1>5 DEF ClientOk, Open
<1>7. ASSUME NEW k \in Conns, k = gfd(c)
      PROVE  ~wopen'[k] /\ NameOk(k)' /\ ~Failed(k) /\ StreamOk(k)'
  <2>1. k[1] = c /\ child'[k] = "name" /\ stream'[k] = << >> /\ ~wopen'[k]
    BY <1>0, <1>1, <1>2, <1>5, <1>7
  <2>2. NameOk(k)' /\ ~Failed(k)
    BY <1>0, <1>5, <2>1 DEF NameOk, Failed
  <2>3. StreamOk(k)'
    BY <2>1 DEF StreamOk, Dry, Filing
  <2>4. QED
    BY <2>1, <2>2, <2>3
<1>8. QED
  BY <1>1, <1>3, <1>4, <1>6, <1>7, LeaverKeeps

\* The name is written (CName without the error).
LEMMA NameKeeps ==
    ASSUME IInv, NEW c \in Clients, cpc[c] = "name",
           Write(c, IF Head(todo[c]) = "dir" THEN DIR ELSE NAME), Goto(c, "modes"),
           UNCHANGED <<todo, sent, used, wopen, reply, serverVars>>
    PROVE  IInv'
<1> DEFINE x == IF Head(todo[c]) = "dir" THEN DIR ELSE NAME
<1>0. /\ Shape /\ ClientOk(c) /\ used[c] > 0 /\ gfd(c) \in Conns /\ cpc[c] \in Open
      /\ \A k \in Conns : ConnOk(k)
      /\ \A k \in Conns : k = gfd(c) => k[1] = c /\ k[2] = used[c] /\ Current(k)
  BY ClientFacts DEF Open
<1>1. /\ cpc' = [cpc EXCEPT ![c] = "modes"]
      /\ UNCHANGED <<todo, sent, used, wopen, reply, child, fname, bytes, offset, whole, disk, opener>>
  BY DEF Goto, serverVars
<1>2. /\ child[gfd(c)] = "name" /\ stream[gfd(c)] = << >> /\ sent[c] = 0 /\ wopen[gfd(c)]
  BY <1>0 DEF ClientOk, Open
<1>3. x \in Seq(Nat) /\ Len(x) = 2 /\ Write(c, x) /\ Head(NAME) # Head(DIR)
  BY PieceFacts, ConstantFacts
<1>4. /\ x = DIR \/ x = NAME
      /\ Head(x) = Head(NAME) => Head(todo[c]) # "dir"
  BY <1>3
<1> HIDE DEF x
<1>5. stream' \in [Conns -> Seq(Nat)] /\ (\A k \in Conns : k # gfd(c) => stream'[k] = stream[k])
      /\ stream'[gfd(c)] = x
  <2>1. /\ stream' \in [Conns -> Seq(Nat)] /\ (\A k \in Conns : k # gfd(c) => stream'[k] = stream[k])
        /\ stream'[gfd(c)] = << >> \o x
    BY ZenonT(60), <1>0, <1>2, <1>3, WriteFacts
  <2>2. << >> \o x = x
    BY <1>3, ConcatEmptySeq
  <2>3. QED
    BY <2>1, <2>2
<1>6. Frame(c)
  BY <1>0, <1>1, <1>5 DEF Frame, Shape
<1>7. Shape'
  BY <1>0, <1>1, <1>5 DEF Shape, ClientLabels
<1>8. cpc'[c] = "modes" /\ gfd(c)' = gfd(c)
  BY <1>0, <1>1 DEF Shape, gfd
<1>9. ClientOk(c)'
  BY <1>0, <1>1, <1>2, <1>8 DEF ClientOk, Open
<1>10. ASSUME NEW k \in Conns, k = gfd(c)
       PROVE  NameOk(k)' /\ \E v \in Lengths(k) : Adds(k, Wrote(c), x, v)
  <2>1. k[1] = c /\ child'[k] = "name" /\ stream'[k] = x /\ todo' = todo /\ fname'[k] = Stray
    BY <1>0, <1>1, <1>2, <1>5, <1>10 DEF ConnOk
  <2>2. x # << >>
    <3>1. x = << >> => Len(x) = 0
      OBVIOUS
    <3>2. QED
      BY <1>3, <3>1
  <2>3. NameOk(k)'
    BY <1>4, <2>1, <2>2, ConstantFacts DEF NameOk, NAME
  <2>4. Wrote(c) = 0 /\ Wrote(c)' = 2
    BY <1>0, <1>8 DEF Wrote
  <2>5. Busy(k)'
    BY <1>8, <1>10, <2>1 DEF Busy, Current, Open
  <2>6. Adds(k, 0, x, 2)
    BY <1>3, <2>1, <2>4, <2>5 DEF Adds, Right
  <2>7. QED
    BY <2>3, <2>4, <2>6, LengthsFacts
<1>11. QED
  BY <1>0, <1>1, <1>3, <1>6, <1>7, <1>9, <1>10, WriterKeeps

LEMMA ModesKeeps ==
    ASSUME IInv, NEW c \in Clients, CModes(c)
    PROVE  IInv'
<1>0. /\ Shape /\ ClientOk(c) /\ cpc[c] = "modes" /\ used[c] > 0 /\ gfd(c) \in Conns /\ cpc[c] \in Open
      /\ \A k \in Conns : NameOk(k)
      /\ \A k \in Conns : k = gfd(c) => k[1] = c /\ k[2] = used[c] /\ Current(k)
  BY ClientFacts DEF CModes, Open
<1>1. /\ cpc' = [cpc EXCEPT ![c] = "wait"] /\ Write(c, MODES)
      /\ UNCHANGED <<todo, sent, used, wopen, reply, child, fname, bytes, offset, whole, disk, opener>>
  BY DEF CModes, Goto, serverVars
<1>2. sent[c] = 0 /\ wopen[gfd(c)]
  BY <1>0 DEF ClientOk, Open
<1>3. MODES \in Seq(Nat) /\ Len(MODES) = 2
  BY PieceFacts
<1>4. /\ stream' \in [Conns -> Seq(Nat)] /\ (\A k \in Conns : k # gfd(c) => stream'[k] = stream[k])
      /\ child[gfd(c)] # "gone" => stream'[gfd(c)] = stream[gfd(c)] \o MODES
  BY <1>0, <1>1, <1>3, WriteFacts
<1>6. Frame(c)
  BY <1>0, <1>1, <1>4 DEF Frame, Shape
<1>7. Shape'
  BY <1>0, <1>1, <1>4 DEF Shape, ClientLabels
<1>8. cpc'[c] = "wait" /\ gfd(c)' = gfd(c)
  BY <1>0, <1>1 DEF Shape, gfd
<1>9. ClientOk(c)'
  BY <1>0, <1>1, <1>2, <1>8 DEF ClientOk, Open
<1>10. ASSUME NEW k \in Conns, k = gfd(c)
       PROVE  NameOk(k)' /\ \E v \in Lengths(k) : Adds(k, Wrote(c), MODES, v)
  <2>1. /\ k[1] = c /\ Current(k) /\ NameOk(k)
        /\ todo' = todo /\ fname' = fname /\ child' = child
    BY <1>0, <1>1, <1>10
  <2>2. ASSUME child[k] = "name", stream[k] # << >>
        PROVE  stream'[k] # << >> /\ Head(stream'[k]) = Head(stream[k])
    <3> DEFINE s == stream[k]
    <3>1. s \in Seq(Nat) /\ s # << >> /\ stream'[k] = s \o MODES
      BY <1>0, <1>4, <1>10, <2>2 DEF Shape
    <3> HIDE DEF s
    <3>2. /\ s \o MODES \in Seq(Nat) /\ Len(s \o MODES) = Len(s) + Len(MODES)
          /\ \A j \in 1 .. Len(s) + Len(MODES) : (s \o MODES)[j] = IF j <= Len(s) THEN s[j] ELSE MODES[j - Len(s)]
      BY <1>3, <3>1, ConcatProperties
    <3>3. Len(s) \in Nat /\ Len(s) >= 1
      BY <3>1, EmptySeq
    <3>4. (s \o MODES)[1] = s[1] /\ s \o MODES # << >>
      BY <1>3, <3>2, <3>3
    <3>5. Head(s \o MODES) = (s \o MODES)[1] /\ Head(s) = s[1]
      BY <3>1, <3>2, <3>4
    <3>6. QED
      BY <3>1, <3>4, <3>5 DEF s
  <2>3. NameOk(k)'
    BY <1>0, <1>8, <2>1, <2>2 DEF NameOk, NAME
  <2>4. Wrote(c) = 2 /\ Wrote(c)' = 4
    BY <1>0, <1>8 DEF Wrote
  <2>5. Busy(k)'
    BY <1>8, <1>10, <2>1 DEF Busy, Current, Open
  <2>6. Adds(k, 2, MODES, 4)
    BY <1>3, <2>1, <2>4, <2>5 DEF Adds, Right
  <2>7. QED
    BY <2>3, <2>4, <2>6, LengthsFacts
<1>11. QED
  BY <1>0, <1>1, <1>3, <1>6, <1>7, <1>9, <1>10, WriterKeeps

\* A child that has answered has come past the modes.
LEMMA AnswerFacts ==
    ASSUME IInv, NEW k \in Conns, reply[k] # "none" \/ child[k] = "gone"
    PROVE  child[k] \in Late
<1>1. child[k] \in ChildLabels
  BY DEF IInv, Shape
<1>2. child[k] \notin Early
  BY DEF IInv, ConnInv, ConnOk, Early
<1>3. QED
  BY <1>1, <1>2 DEF ChildLabels, Early, Late

\* The answer to a directory (CAnswer).
LEMMA DirKeeps ==
    ASSUME IInv, NEW c \in Clients, cpc[c] = "wait", reply[gfd(c)] = "OK", Head(todo[c]) = "dir",
           Goto(c, "connect"), Close(c), todo' = [todo EXCEPT ![c] = Tail(@)],
           UNCHANGED <<sent, used, stream, reply, serverVars>>
    PROVE  IInv'
<1>0. /\ Shape /\ ClientOk(c) /\ used[c] > 0 /\ gfd(c) \in Conns
      /\ \A k \in Conns : NameOk(k)
      /\ \A k \in Conns : k = gfd(c) => k[1] = c /\ k[2] = used[c] /\ Current(k)
  BY ClientFacts DEF Open
<1>1. /\ cpc' = [cpc EXCEPT ![c] = "connect"] /\ wopen' = [wopen EXCEPT ![gfd(c)] = FALSE]
      /\ UNCHANGED <<sent, used, stream, reply, child, fname, bytes, offset, whole, disk, opener>>
  BY DEF Goto, Close, serverVars
<1>2. sent[c] = 0 /\ child[gfd(c)] \in Late
  BY <1>0, AnswerFacts DEF ClientOk
<1>3. Frame(c)
  BY <1>0, <1>1 DEF Frame, Shape
<1>4. Shape'
  <2>1. todo' = [d \in Clients |-> todo'[d]]
    BY <1>0 DEF Shape
  <2>2. QED
    BY <1>0, <1>1, <2>1 DEF Shape, ClientLabels
<1>5. cpc'[c] = "connect" /\ wopen'[gfd(c)] = FALSE /\ gfd(c)' = gfd(c)
  BY <1>0, <1>1 DEF Shape, gfd
<1>6. ClientOk(c)'
  BY <1>1, <1>2, <1>5 DEF ClientOk, Open
<1>7. ASSUME NEW k \in Conns, k = gfd(c)
      PROVE  ~wopen'[k] /\ NameOk(k)' /\ ~Failed(k) /\ StreamOk(k)'
  <2>1. k[1] = c /\ child'[k] \in Late /\ fname'[k] = fname[k] /\ ~wopen'[k]
    BY <1>0, <1>1, <1>2, <1>5, <1>7
  <2>2. NameOk(k)' /\ ~Failed(k)
    BY <1>0, <1>5, <2>1 DEF NameOk, Failed
  <2>3. fname[k] # File
    BY <1>0, <1>7 DEF NameOk
  <2>4. StreamOk(k)'
    BY <2>1, <2>3 DEF StreamOk, Late
  <2>5. QED
    BY <2>1, <2>2, <2>4
<1>8. QED
  BY <1>1, <1>3, <1>4, <1>6, <1>7, LeaverKeeps

\* The answer to a file (CAnswer).
LEMMA FileKeeps ==
    ASSUME IInv, NEW c \in Clients, cpc[c] = "wait", reply[gfd(c)] = "OK", Goto(c, "data"),
           UNCHANGED <<todo, sent, used, wopen, stream, reply, serverVars>>
    PROVE  IInv'
<1>0. /\ Shape /\ ClientOk(c) /\ used[c] > 0 /\ gfd(c) \in Conns /\ cpc[c] \in Open
      /\ \A k \in Conns : k = gfd(c) => k[1] = c /\ k[2] = used[c] /\ Current(k)
  BY ClientFacts DEF Open
<1>1. /\ cpc' = [cpc EXCEPT ![c] = "data"]
      /\ UNCHANGED <<todo, sent, used, wopen, stream, reply, child, fname, bytes, offset, whole, disk, opener>>
  BY DEF Goto, serverVars
<1>2. sent[c] = 0 /\ child[gfd(c)] \in Late /\ wopen[gfd(c)] /\ Size(c) \in Nat
  BY <1>0, AnswerFacts, CodeFacts DEF ClientOk
<1>3. Frame(c)
  BY <1>0, <1>1 DEF Frame, Shape
<1>4. Shape'
  BY <1>0, <1>1 DEF Shape, ClientLabels
<1>5. cpc'[c] = "data" /\ gfd(c)' = gfd(c)
  BY <1>0, <1>1 DEF Shape, gfd
<1>6. ClientOk(c)'
  BY <1>0, <1>1, <1>2, <1>5 DEF ClientOk, Open, Size
<1>7. << >> \in Seq(Nat) /\ Write(c, << >>)
  <2>1. stream[gfd(c)] \o << >> = stream[gfd(c)]
    BY <1>0, ConcatEmptySeq DEF Shape
  <2>2. stream = [stream EXCEPT ![gfd(c)] = stream[gfd(c)] \o << >>]
    BY <1>0, <2>1 DEF Shape
  <2>3. QED
    BY <1>1, <2>2 DEF Write
<1>8. ASSUME NEW k \in Conns, k = gfd(c)
      PROVE  NameOk(k)' /\ \E v \in Lengths(k) : Adds(k, Wrote(c), << >>, v)
  <2>1. k[1] = c
    BY <1>0, <1>8
  <2>2. NameOk(k)'
    BY <1>5, <2>1 DEF NameOk
  <2>3. Wrote(c) = 4 /\ Wrote(c)' = 4
    BY <1>0, <1>1, <1>2, <1>5 DEF Wrote
  <2>4. Busy(k)'
    BY <1>5, <1>8, <2>1 DEF Busy, Current, Open
  <2>5. Adds(k, 4, << >>, 4)
    BY <2>1, <2>3, <2>4 DEF Adds, Right
  <2>6. QED
    BY <2>2, <2>3, <2>5, LengthsFacts
<1>9. QED
  BY <1>0, <1>1, <1>3, <1>4, <1>6, <1>7, <1>8, WriterKeeps

\* Contents are written (CData without SIGPIPE).
LEMMA ChunkKeeps ==
    ASSUME IInv, NEW c \in Clients, cpc[c] = "data", Chunk(c) # << >>, Write(c, Chunk(c)),
           sent' = [sent EXCEPT ![c] = @ + Len(Chunk(c))],
           UNCHANGED <<cpc, wopen, todo, used, reply, serverVars>>
    PROVE  IInv'
<1> DEFINE x == Chunk(c)
<1>0. /\ Shape /\ ClientOk(c) /\ used[c] > 0 /\ gfd(c) \in Conns /\ cpc[c] \in Open
      /\ \A k \in Conns : k = gfd(c) => k[1] = c /\ k[2] = used[c] /\ Current(k)
  BY ClientFacts DEF Open
<1>1. UNCHANGED <<cpc, todo, used, wopen, reply, child, fname, bytes, offset, whole, disk, opener>>
  BY DEF serverVars
<1>2. /\ child[gfd(c)] \in Late /\ wopen[gfd(c)] /\ Size(c) \in Nat
      /\ sent[c] \in Nat /\ sent[c] <= Size(c)
  BY <1>0, CodeFacts DEF ClientOk, Shape, Size
<1>3. /\ x \in Seq(Nat) /\ Len(x) \in Nat /\ x # << >>
      /\ Len(x) > 0 => sent[c] + Len(x) <= Size(c)
      /\ \A j \in 1 .. Len(x) : x[j] = Code(c, sent[c] + j)
  BY <1>2, ChunkFacts
<1>4. sent' = [sent EXCEPT ![c] = sent[c] + Len(x)] /\ Write(c, x)
  OBVIOUS
<1> HIDE DEF x
<1>5. Len(x) > 0
  BY <1>3, EmptySeq
<1>6. stream' \in [Conns -> Seq(Nat)] /\ (\A k \in Conns : k # gfd(c) => stream'[k] = stream[k])
  BY <1>0, <1>3, <1>4, WriteFacts
<1>7. sent'[c] = sent[c] + Len(x) /\ sent'[c] \in Nat /\ sent'[c] <= Size(c)
  BY <1>0, <1>2, <1>3, <1>4, <1>5 DEF Shape
<1>8. Frame(c)
  BY <1>0, <1>1, <1>4, <1>6 DEF Frame, Shape
<1>9. Shape'
  <2>1. sent' \in [Clients -> Nat]
    BY <1>0, <1>2, <1>3, <1>4 DEF Shape
  <2>2. QED
    BY <1>0, <1>1, <1>6, <2>1 DEF Shape
<1>10. ClientOk(c)'
  BY <1>0, <1>1, <1>2, <1>7 DEF ClientOk, Open, Size, gfd
<1>11. ASSUME NEW k \in Conns, k = gfd(c)
       PROVE  NameOk(k)' /\ \E v \in Lengths(k) : Adds(k, Wrote(c), x, v)
  <2>1. k[1] = c
    BY <1>0, <1>11
  <2>2. NameOk(k)'
    BY <1>1, <2>1 DEF NameOk
  <2> DEFINE w == 4 + sent[c]
             v == 4 + (sent[c] + Len(x))
  <2>3. Wrote(c) = w /\ Wrote(c)' = v
    BY <1>0, <1>1, <1>7 DEF Wrote
  <2>4. Busy(k)'
    BY <1>1, <1>11, <2>1 DEF Busy, Current, Open, gfd
  <2>5. v \in Lengths(k)
    BY <1>2, <1>3, <1>5, <2>1, LengthsFacts
  <2>6. w \in Nat /\ v \in Nat /\ w <= v /\ w + Len(x) = v
    BY SMTT(30), <1>2, <1>3
  <2>7. ASSUME NEW j \in 1 .. Len(x) PROVE w + j - 4 = sent[c] + j /\ w + j <= v
    BY SMTT(30), <1>2, <1>3
  <2> HIDE DEF w, v
  <2>8. ASSUME NEW j \in 1 .. Len(x) PROVE Right(k, v, w + j, x[j])
    <3> DEFINE n == sent[c]
    <3>1. x[j] = Code(k[1], n + j)
      BY <1>3, <2>1
    <3>2. w + j <= v /\ w \in Nat /\ v \in Nat /\ j \in Nat /\ n \in Nat /\ w = 4 + n
      BY <1>2, <1>3, <2>6, <2>7 DEF w
    <3> HIDE DEF n
    <3>3. QED
      BY <3>1, <3>2, RightByte
  <2>9. Adds(k, w, x, v)
    BY <2>1, <2>3, <2>4, <2>6, <2>8 DEF Adds
  <2>10. QED
    BY <2>2, <2>3, <2>5, <2>9
<1>12. QED
  BY <1>0, <1>1, <1>3, <1>4, <1>8, <1>9, <1>10, <1>11, WriterKeeps

LEMMA EndKeeps ==
    ASSUME IInv, NEW c \in Clients, CEnd(c)
    PROVE  IInv'
<1>0. /\ Shape /\ ClientOk(c) /\ cpc[c] = "data" /\ used[c] > 0 /\ gfd(c) \in Conns
      /\ \A k \in Conns : k = gfd(c) => k[1] = c /\ k[2] = used[c] /\ Current(k)
  BY ClientFacts DEF CEnd, Open
<1>1. /\ cpc' = [cpc EXCEPT ![c] = "done"] \/ cpc' = [cpc EXCEPT ![c] = "connect"]
      /\ wopen' = [wopen EXCEPT ![gfd(c)] = FALSE]
      /\ sent' = [sent EXCEPT ![c] = 0]
      /\ todo' = [todo EXCEPT ![c] = Tail(todo[c])]
      /\ UNCHANGED <<used, stream, reply, child, fname, bytes, offset, whole, disk, opener>>
  BY DEF CEnd, Close, Goto, serverVars
<1>2. /\ child[gfd(c)] \in Late /\ Size(c) \in Nat /\ sent[c] \in Nat
      /\ sent[c] = Size(c)
  <2>1. Size(c) \in Nat /\ sent[c] \in Nat /\ sent[c] <= Size(c) /\ child[gfd(c)] \in Late
    BY <1>0, CodeFacts DEF ClientOk, Shape, Size
  <2>2. Size(c) <= sent[c]
    BY <2>1, ChunkFacts DEF CEnd
  <2>3. QED
    BY <2>1, <2>2
<1>3. Frame(c)
  BY <1>0, <1>1 DEF Frame, Shape
<1>4. Shape'
  <2>1. todo' = [d \in Clients |-> todo'[d]]
    BY <1>0, <1>1 DEF Shape
  <2>2. cpc' \in [Clients -> ClientLabels] /\ sent' \in [Clients -> Nat] /\ wopen' \in [Conns -> BOOLEAN]
    BY <1>0, <1>1 DEF Shape, ClientLabels
  <2>3. QED
    BY <1>0, <1>1, <2>1, <2>2 DEF Shape
<1>5. cpc'[c] \in {"done", "connect"} /\ wopen'[gfd(c)] = FALSE /\ gfd(c)' = gfd(c) /\ sent'[c] = 0
  BY <1>0, <1>1 DEF Shape, gfd
<1>6. ClientOk(c)'
  BY <1>1, <1>2, <1>5 DEF ClientOk, Open
<1>7. ASSUME NEW k \in Conns, k = gfd(c)
      PROVE  /\ ~wopen'[k] /\ NameOk(k)' /\ ~Failed(k)
             /\ \A w \in Lengths(k) : (Busy(k) => w = Wrote(c)) => \E v \in Lengths(k) : Adds(k, w, << >>, v)
  <2>1. k[1] = c /\ ~wopen'[k] /\ Current(k)
    BY <1>0, <1>5, <1>7
  <2>2. NameOk(k)' /\ ~Failed(k) /\ ~Busy(k)' /\ Busy(k)
    BY <1>0, <1>5, <2>1 DEF NameOk, Failed, Busy, Open
  <2>3. Wrote(c) = 4 + Size(c)
    BY <1>0, <1>2 DEF Wrote
  <2>4. 4 + Size(c) \in Nat
    BY <1>2
  <2>5. Adds(k, 4 + Size(c), << >>, 4 + Size(c))
    BY <2>1, <2>2, <2>4 DEF Adds
  <2>6. QED
    BY <2>1, <2>2, <2>3, <2>5
<1>8. QED
  BY <1>1, <1>3, <1>4, <1>6, <1>7, LeaverKeeps

\* Ways for a client to fail; x is what it wrote of its contents before ERR.
Broken(c, x) == x = << >> \/ /\ cpc[c] = "data" /\ Len(x) <= Len(Chunk(c))
                             /\ \A j \in 1 .. Len(x) : x[j] = Chunk(c)[j]

Fails(c) == /\ cpc[c] # "failed"
            /\ cpc' = [cpc EXCEPT ![c] = "failed"]
            /\ UNCHANGED <<todo, sent, used, reply, serverVars>>
            /\ used[c] = 0 => UNCHANGED <<wopen, stream>>
            /\ used[c] > 0 => wopen' = [wopen EXCEPT ![gfd(c)] = FALSE]
            /\ \/ UNCHANGED stream
               \/ cpc[c] \in Open /\ \E x \in Seq(Nat) : Broken(c, x) /\ Write(c, x \o ERR)

LEMMA BrokenAdds ==
    ASSUME IInv, NEW c \in Clients, cpc[c] \in Open, NEW x \in Seq(Nat), Broken(c, x),
           NEW k \in Conns, k = gfd(c), Failed(k)', ~Busy(k)'
    PROVE  \E v \in Lengths(k) : Adds(k, Wrote(c), x \o ERR, v)
<1>0. /\ Shape /\ ClientOk(c) /\ k[1] = c /\ Size(c) \in Nat
  BY ClientFacts, CodeFacts
<1>1. Len(x) \in Nat /\ sent[c] \in Nat
  BY <1>0 DEF Shape
<1> DEFINE w == Wrote(c)
           v == w + Len(x)
<1>2. w \in Nat /\ w \in Lengths(k) /\ (w > 4 => cpc[c] = "data" /\ w = 4 + sent[c])
  <2>1. cpc[c] = "data" => sent[c] <= Size(c)
    BY <1>0 DEF ClientOk, Size
  <2>2. w \in {0, 2, 4} \/ (cpc[c] = "data" /\ w = 4 + sent[c])
    BY <1>0 DEF Wrote
  <2>3. QED
    BY <1>0, <1>1, <2>1, <2>2, LengthsFacts
<1>3. CASE x = << >>
  <2>1. Len(x) = 0 /\ x \o ERR = ERR
    BY <1>3, PieceFacts, ConcatEmptySeq
  <2>2. Len(ERR) = 2 /\ ERR[1] >= Byte /\ ERR[2] >= Byte
    BY PieceFacts
  <2> HIDE DEF w, v
  <2>3. \A j \in 1 .. 2 : ERR[j] >= Byte /\ ~ (w + j <= w)
    BY <1>2, <2>2
  <2>4. \A j \in 1 .. Len(ERR) : Right(k, w, w + j, ERR[j])
    BY <2>2, <2>3 DEF Right
  <2>5. Adds(k, w, ERR, w)
    BY <1>2, <2>2, <2>4 DEF Adds
  <2>6. QED
    BY <1>2, <2>1, <2>5 DEF w
<1>4. CASE x # << >>
  <2>1. /\ cpc[c] = "data" /\ Len(x) <= Len(Chunk(c))
        /\ \A j \in 1 .. Len(x) : x[j] = Chunk(c)[j]
    BY <1>4 DEF Broken
  <2>2. /\ Len(Chunk(c)) \in Nat
        /\ Len(Chunk(c)) > 0 => sent[c] + Len(Chunk(c)) <= Size(c)
        /\ \A j \in 1 .. Len(Chunk(c)) : Chunk(c)[j] = Code(c, sent[c] + j)
    BY <1>1, ChunkFacts
  <2>3. Len(x) > 0
    BY <1>4, EmptySeq
  <2>4. w = 4 + sent[c] /\ sent[c] + Len(x) <= Size(c)
    BY <1>0, <1>1, <2>1, <2>2, <2>3 DEF Wrote
  <2>5. \A j \in 1 .. Len(x) : x[j] = Code(c, sent[c] + j)
    BY <1>1, <2>1, <2>2
  <2>6. /\ Len(x \o ERR) = Len(x) + 2
        /\ \A j \in 1 .. Len(x) + 2 : (x \o ERR)[j] = IF j <= Len(x) THEN x[j] ELSE ERR[j - Len(x)]
    <3>1. /\ Len(x \o ERR) = Len(x) + Len(ERR)
          /\ \A j \in 1 .. Len(x) + Len(ERR) : (x \o ERR)[j] = IF j <= Len(x) THEN x[j] ELSE ERR[j - Len(x)]
      BY ZenonT(60), PieceFacts, ConcatProperties
    <3>2. QED
      BY <3>1, PieceFacts
  <2>7. v \in Nat /\ v \in Lengths(k)
    <3>1. v = 4 + (sent[c] + Len(x)) /\ sent[c] + Len(x) \in Nat
      BY <1>1, <2>4
    <3>2. QED
      BY <1>0, <2>4, <3>1, LengthsFacts
  <2>8. w <= v /\ w + Len(x \o ERR) = v + 2 /\ v = w + Len(x)
    BY <1>1, <1>2, <2>6
  <2> HIDE DEF w, v
  <2>9. ASSUME NEW j \in 1 .. Len(x) + 2 PROVE Right(k, v, w + j, (x \o ERR)[j])
    <3>1. CASE j <= Len(x)
      <4>0. j \in Nat /\ j >= 1
        BY <1>1
      <4>a. j \in 1 .. Len(x)
        BY <1>1, <3>1, <4>0
      <4>b. w + j <= v /\ w + j \in Nat /\ v \in Nat
        BY <1>1, <1>2, <2>7, <2>8, <3>1, <4>0
      <4> DEFINE n == sent[c]
                 y == (x \o ERR)[j]
      <4>c. y = x[j]
        BY <2>6, <3>1
      <4>d. y = Code(k[1], n + j)
        BY <1>0, <2>5, <4>a, <4>c
      <4>e. n \in Nat /\ w = 4 + n /\ w \in Nat /\ j \in Nat
        BY <1>1, <1>2, <2>4, <4>0
      <4> HIDE DEF n, y
      <4>f. Right(k, v, w + j, y)
        BY <4>b, <4>d, <4>e, RightByte
      <4>g. QED
        BY <4>f DEF y
    <3>2. CASE ~ j <= Len(x)
      <4>1. j - Len(x) \in {1, 2} /\ ~ (w + j <= v)
        BY <1>1, <1>2, <2>8, <3>2
      <4>2. (x \o ERR)[j] = ERR[j - Len(x)]
        BY <2>6, <3>2
      <4>3. (x \o ERR)[j] >= Byte
        BY <4>1, <4>2, PieceFacts
      <4>4. QED
        BY ZenonT(30), <4>1, <4>3 DEF Right
    <3>3. QED
      BY <3>1, <3>2
  <2>10. Adds(k, w, x \o ERR, v)
    BY <2>6, <2>8, <2>9 DEF Adds
  <2>11. QED
    BY <2>7, <2>10 DEF w
<1>5. QED
  BY <1>3, <1>4

LEMMA FailsKeeps ==
    ASSUME IInv, NEW c \in Clients, Fails(c)
    PROVE  IInv'
<1>0. /\ Shape /\ ClientOk(c) /\ used[c] \in Nat
      /\ cpc[c] \in Open => used[c] > 0
      /\ used[c] > 0 => gfd(c) \in Conns
      /\ \A k \in Conns : k = gfd(c) => k[1] = c /\ k[2] = used[c] /\ Current(k) /\ used[c] > 0
  BY ClientFacts, GfdFacts, CurrentFacts
<1>1. /\ cpc[c] # "failed" /\ cpc' = [cpc EXCEPT ![c] = "failed"]
      /\ UNCHANGED <<todo, sent, used, reply, child, fname, bytes, offset, whole, disk, opener>>
      /\ used[c] = 0 => UNCHANGED <<wopen, stream>>
      /\ used[c] > 0 => wopen' = [wopen EXCEPT ![gfd(c)] = FALSE]
  BY DEF Fails, serverVars
<1>2. cpc'[c] = "failed" /\ gfd(c)' = gfd(c) /\ (used[c] > 0 => wopen'[gfd(c)] = FALSE)
  BY <1>0, <1>1 DEF Shape, gfd
<1>3. /\ wopen' \in [Conns -> BOOLEAN]
      /\ \A k \in Conns : k # gfd(c) => wopen'[k] = wopen[k]
  <2>1. CASE used[c] = 0
    BY <1>0, <1>1, <2>1 DEF Shape
  <2>2. CASE used[c] > 0
    BY <1>0, <1>1, <2>2 DEF Shape
  <2>3. QED
    BY <1>0, <2>1, <2>2
<1>4. /\ stream' \in [Conns -> Seq(Nat)]
      /\ \A k \in Conns : k # gfd(c) => stream'[k] = stream[k]
  <2>1. CASE UNCHANGED stream
    BY <1>0, <2>1 DEF Shape
  <2>2. CASE cpc[c] \in Open /\ \E x \in Seq(Nat) : Broken(c, x) /\ Write(c, x \o ERR)
    <3>1. PICK x \in Seq(Nat) : Write(c, x \o ERR)
      BY <2>2
    <3> DEFINE y == x \o ERR
    <3>2. y \in Seq(Nat) /\ Write(c, y)
      BY <3>1, PieceFacts, ConcatProperties
    <3> HIDE DEF y
    <3>3. QED
      BY <1>0, <2>2, <3>2, WriteFacts
  <2>3. QED
    BY <2>1, <2>2 DEF Fails
<1>5. Frame(c)
  BY <1>0, <1>1, <1>3, <1>4 DEF Frame, Shape
<1>6. Shape'
  BY <1>0, <1>1, <1>3, <1>4 DEF Shape, ClientLabels
<1>7. ClientOk(c)'
  BY <1>1, <1>2 DEF ClientOk, Open
<1>8. ASSUME NEW k \in Conns, k = gfd(c)
      PROVE  NameOk(k)' /\ ~Failed(k) /\ Failed(k)' /\ ~Busy(k)' /\ ~wopen'[k]
  <2>1. k[1] = c /\ used[c] > 0 /\ k = gfd(c)'
    BY <1>0, <1>2, <1>8
  <2>2. NameOk(k)' /\ ~Failed(k)
    BY <1>1, <1>2, <2>1 DEF NameOk, Failed
  <2>3. Failed(k)' /\ ~Busy(k)' /\ ~wopen'[k]
    BY <1>2, <1>8, <2>1 DEF Failed, Busy, Current, Open
  <2>4. QED
    BY <2>2, <2>3
<1>9. CASE UNCHANGED stream
  <2>1. ASSUME NEW k \in Conns, k = gfd(c), NEW w \in Lengths(k)
        PROVE  \E v \in Lengths(k) : Adds(k, w, << >>, v)
    <3>1. w \in Nat
      BY LengthsFacts
    <3>2. Adds(k, w, << >>, w)
      BY <1>8, <2>1, <3>1 DEF Adds
    <3>3. QED
      BY <3>2
  <2>2. QED
    BY <1>5, <1>6, <1>7, <1>8, <1>9, <2>1, LeaverKeeps
<1>10. CASE cpc[c] \in Open /\ \E x \in Seq(Nat) : Broken(c, x) /\ Write(c, x \o ERR)
  <2>1. PICK x \in Seq(Nat) : Broken(c, x) /\ Write(c, x \o ERR)
    BY <1>10
  <2>2. \A k \in Conns : k = gfd(c) => NameOk(k)' /\ \E v \in Lengths(k) : Adds(k, Wrote(c), x \o ERR, v)
    BY <1>8, <1>10, <2>1, BrokenAdds
  <2> DEFINE y == x \o ERR
  <2>3. y \in Seq(Nat) /\ Write(c, y)
    BY <2>1, PieceFacts, ConcatProperties
  <2>4. \A k \in Conns : k = gfd(c) => NameOk(k)' /\ \E v \in Lengths(k) : Adds(k, Wrote(c), y, v)
    BY <2>2
  <2> HIDE DEF y
  <2>5. QED
    BY <1>5, <1>6, <1>7, <1>10, <2>3, <2>4, WriterKeeps
<1>11. QED
  BY <1>9, <1>10 DEF Fails

(* Who fails: CConnect, CName and CData without success, an answer that is *)
(* not OK, and a client that is interrupted or killed.                     *)
LEMMA Failures ==
    ASSUME IInv, NEW c \in Clients, cpc[c] # "failed", Goto(c, "failed"),
           UNCHANGED <<todo, sent, used, reply, serverVars>>,
           IF used[c] > 0 THEN Close(c) ELSE UNCHANGED <<wopen, stream>>,
           \/ UNCHANGED stream
           \/ cpc[c] \in Open /\ \E x \in Seq(Nat) : Broken(c, x) /\ Write(c, x \o ERR)
    PROVE  IInv'
<1>1. used[c] \in Nat
  BY ClientFacts, GfdFacts
<1>2. Fails(c)
  BY <1>1 DEF Fails, Goto, Close
<1>3. QED
  BY <1>2, FailsKeeps

LEMMA NoConnectKeeps ==
    ASSUME IInv, NEW c \in Clients, cpc[c] = "connect", Goto(c, "failed"),
           UNCHANGED <<todo, sent, used, wopen, stream, reply, serverVars>>
    PROVE  IInv'
<1>1. Shape /\ ClientOk(c) /\ (used[c] > 0 => gfd(c) \in Conns)
  BY ClientFacts
<1>2. used[c] > 0 => wopen[gfd(c)] = FALSE
  BY <1>1 DEF ClientOk, Open, Shape
<1>3. used[c] > 0 => wopen = [wopen EXCEPT ![gfd(c)] = FALSE]
  BY <1>1, <1>2 DEF Shape
<1>4. QED
  BY <1>3, Failures DEF Close

LEMMA BadNameKeeps ==
    ASSUME IInv, NEW c \in Clients, cpc[c] = "name", Write(c, ERR), Close(c), Goto(c, "failed"),
           UNCHANGED <<todo, sent, used, reply, serverVars>>
    PROVE  IInv'
<1>1. cpc[c] \in Open /\ used[c] > 0
  BY ClientFacts DEF Open
<1>2. << >> \in Seq(Nat) /\ Broken(c, << >>) /\ Write(c, << >> \o ERR)
  BY PieceFacts, ConcatEmptySeq DEF Broken
<1>3. QED
  BY <1>1, <1>2, Failures

LEMMA InterruptKeeps ==
    ASSUME IInv, NEW c \in Clients, Interrupt(c)
    PROVE  IInv'
<1>1. /\ cpc[c] # "failed" /\ Goto(c, "failed") /\ Shape /\ ClientOk(c)
      /\ UNCHANGED <<todo, sent, used, reply, serverVars>>
      /\ used[c] > 0 => gfd(c) \in Conns
      /\ used[c] \in Nat /\ sent[c] \in Nat
  BY ClientFacts, GfdFacts DEF Interrupt, Shape
<1>2. CASE used[c] > 0 /\ wopen[gfd(c)]
  <2>1. cpc[c] \in Open /\ Close(c)
    BY <1>1, <1>2 DEF ClientOk, Interrupt
  <2>2. PICK n \in 0 .. (IF cpc[c] = "data" THEN Len(Chunk(c)) ELSE 0) : Write(c, SubSeq(Chunk(c), 1, n) \o ERR)
    BY <1>2 DEF Interrupt
  <2>3. Chunk(c) \in Seq(Nat) /\ Len(Chunk(c)) \in Nat
    BY <1>1, ChunkFacts
  <2> DEFINE x == SubSeq(Chunk(c), 1, n)
  <2>4. n \in Nat /\ (n > 0 => cpc[c] = "data" /\ n <= Len(Chunk(c)))
    BY <2>2, <2>3
  <2>5. x \in Seq(Nat) /\ Len(x) = n /\ \A j \in 1 .. n : x[j] = Chunk(c)[j]
    <3> DEFINE s == Chunk(c)
    <3>1. n = 0 \/ n <= Len(s)
      BY <2>4
    <3>2. s \in Seq(Nat) /\ Len(s) \in Nat
      BY <2>3
    <3> HIDE DEF s
    <3>3. \A j \in 1 .. n : s[j] \in Nat
      BY <2>4, <3>1, <3>2
    <3>4. /\ SubSeq(s, 1, n) \in Seq(Nat)
          /\ Len(SubSeq(s, 1, n)) = IF 1 <= n THEN n - 1 + 1 ELSE 0
          /\ \A j \in 1 .. n - 1 + 1 : SubSeq(s, 1, n)[j] = s[1 + j - 1]
      BY <2>4, <3>3, SubSeqProperties
    <3>5. QED
      BY <2>4, <3>4 DEF s
  <2>6. Write(c, x \o ERR)
    BY <2>2
  <2> HIDE DEF x
  <2>7. x = << >> \/ n > 0
    BY <2>4, <2>5, EmptySeq
  <2>8. Broken(c, x)
    BY <2>4, <2>5, <2>7 DEF Broken
  <2>9. QED
    BY <1>1, <1>2, <2>1, <2>5, <2>6, <2>8, Failures
<1>3. CASE used[c] > 0 /\ ~wopen[gfd(c)]
  <2>1. UNCHANGED <<wopen, stream>>
    BY <1>3 DEF Interrupt
  <2>2. Close(c)
    BY <1>1, <1>3, <2>1 DEF Close, Shape
  <2>3. QED
    BY <1>1, <1>3, <2>1, <2>2, Failures
<1>4. CASE ~ used[c] > 0
  BY <1>1, <1>4, Failures DEF Interrupt
<1>5. QED
  BY <1>2, <1>3, <1>4

LEMMA KillKeeps ==
    ASSUME IInv, NEW c \in Clients, Kill(c)
    PROVE  IInv'
  BY Failures DEF Kill

\* A connection is made (CConnect): the last one becomes an earlier one.
LEMMA ConnectKeeps ==
    ASSUME IInv, NEW c \in Clients, cpc[c] = "connect", used[c] < MaxConns,
           used' = [used EXCEPT ![c] = @ + 1],
           wopen' = [wopen EXCEPT ![gfd(c)'] = TRUE],
           child' = [child EXCEPT ![gfd(c)'] = "name"],
           Goto(c, IF todo[c] = << >> THEN "spare" ELSE "name"),
           UNCHANGED <<todo, sent, stream, reply, fname, bytes, offset, whole, disk, opener>>
    PROVE  IInv'
<1>0. /\ Shape /\ ClientOk(c) /\ FileInv /\ ClientInv
      /\ used[c] \in Nat
      /\ \A k \in Conns : ConnOk(k) /\ NameOk(k) /\ StreamOk(k)
  BY ClientFacts, GfdFacts DEF IInv
<1> DEFINE n == used[c] + 1
           h == <<c, n>>
<1>1. n \in Nat /\ n = used[c] + 1 /\ n <= MaxConns /\ n > 0 /\ MaxConns \in Nat
  BY <1>0, ConstantFacts
<1>2. h \in Conns /\ h[1] = c /\ h[2] = n
  BY <1>1 DEF Conns
<1>3. used' = [used EXCEPT ![c] = n] /\ used'[c] = n
  BY <1>0 DEF Shape
<1>4. gfd(c)' = h
  BY <1>3 DEF gfd
<1>5. /\ wopen' = [wopen EXCEPT ![h] = TRUE] /\ child' = [child EXCEPT ![h] = "name"]
      /\ UNCHANGED <<todo, sent, stream, reply, fname, bytes, offset, whole, disk, opener>>
  BY <1>4
<1>6. \A k \in Conns : k = h <=> k[1] = c /\ k[2] = n
  BY <1>2, ConnFacts
<1> HIDE DEF h, n
<1>7. cpc' \in [Clients -> ClientLabels] /\ cpc'[c] \in {"spare", "name"}
  BY <1>0 DEF Goto, Shape, ClientLabels
<1>8. \A d \in Clients : d # c => cpc'[d] = cpc[d] /\ used'[d] = used[d] /\ gfd(d)' = gfd(d)
  BY <1>0, <1>3 DEF Goto, Shape, gfd
<1>9. /\ wopen'[h] /\ child'[h] = "name"
      /\ \A k \in Conns : k # h => wopen'[k] = wopen[k] /\ child'[k] = child[k]
  BY <1>0, <1>2, <1>5 DEF Shape
<1>10. Shape'
  <2>1. used' \in [Clients -> 0 .. MaxConns]
    BY <1>0, <1>1, <1>3 DEF Shape
  <2>2. child' \in [Conns -> ChildLabels] /\ wopen' \in [Conns -> BOOLEAN]
    BY <1>0, <1>5 DEF Shape, ChildLabels
  <2>3. QED
    BY <1>0, <1>5, <1>7, <2>1, <2>2 DEF Shape
<1>11. child[h] = "none" /\ stream[h] = << >> /\ reply[h] = "none" /\ bytes[h] = 0 /\ fname[h] = Stray
  <2>1. h[2] > used[h[1]]
    BY <1>0, <1>1, <1>2
  <2>2. child[h] = "none" /\ stream[h] = << >>
    BY <1>0, <1>2, <2>1 DEF ConnOk
  <2>3. QED
    BY <1>0, <1>2, <2>2 DEF ConnOk, Early
<1>12. /\ cpc[c] \notin Open /\ cpc[c] # "failed" /\ sent[c] = 0
       /\ used[c] > 0 => ~wopen[gfd(c)] /\ child[gfd(c)] \in Late
  BY <1>0 DEF ClientOk, Open
<1>13. ClientInv'
  <2>1. ASSUME NEW d \in Clients, d # c PROVE ClientOk(d)'
    <3>1. ClientOk(d) /\ (used[d] > 0 => gfd(d) \in Conns /\ gfd(d) # h)
      BY <1>0, <1>2, <2>1, GfdFacts DEF ClientInv
    <3>2. used[d] > 0 => wopen'[gfd(d)] = wopen[gfd(d)] /\ child'[gfd(d)] = child[gfd(d)]
      BY <1>9, <3>1
    <3>3. QED
      BY <1>5, <1>8, <2>1, <3>1, <3>2 DEF ClientOk, Open
  <2>2. ClientOk(c)'
    BY <1>1, <1>3, <1>4, <1>5, <1>7, <1>9, <1>11, <1>12 DEF ClientOk, Open
  <2>3. QED
    BY <2>1, <2>2 DEF ClientInv
<1>14. FileInv'
  <2>1. ASSUME NEW k \in Conns, child'[k] \in {"data", "stored"} PROVE disk'[fname'[k]] \in Seq(Entries)
    BY <1>0, <1>5, <1>9, <2>1 DEF FileInv
  <2>2. ASSUME NEW k \in Conns, opener'[File] = k
        PROVE  /\ child'[k] \in Late /\ disk'[File] \in Seq(Entries)
               /\ child'[k] # "gone" => fname'[k] = File /\ offset'[k] <= Len(disk'[File])
    <3>1. k # h
      BY <1>0, <1>5, <1>11, <2>2 DEF FileInv, Late
    <3>2. QED
      BY <1>0, <1>5, <1>9, <2>2, <3>1 DEF FileInv
  <2>3. QED
    BY <2>1, <2>2 DEF FileInv
<1>15. ASSUME NEW k \in Conns PROVE ConnOk(k)' /\ NameOk(k)' /\ StreamOk(k)'
  <2>0. ConnOk(k) /\ NameOk(k) /\ StreamOk(k) /\ k[1] \in Clients /\ bytes[k] \in Nat
    BY <1>0, ConnFacts DEF Shape
  <2>1. CASE k = h
    <3>1. k[1] = c /\ k[2] = n /\ used'[k[1]] = n
      BY <1>2, <1>3, <2>1
    <3>2. /\ child'[k] = "name" /\ stream'[k] = << >> /\ reply'[k] = "none" /\ bytes'[k] = 0 /\ fname'[k] = Stray
      BY <1>5, <1>9, <1>11, <2>1
    <3>3. ConnOk(k)'
      BY <1>1, <3>1, <3>2 DEF ConnOk, Filing
    <3>4. NameOk(k)'
      BY <1>7, <3>1 DEF NameOk
    <3>5. 0 \in Lengths(k)
      BY LengthsFacts
    <3>6. Under(k, 0, 0)'
      <4>1. Busy(k)'
        BY <1>4, <1>7, <2>1, <3>1 DEF Busy, Current, Open
      <4>2. Wrote(k[1])' = 0
        BY <1>7, <3>1 DEF Wrote
      <4>3. Len(stream'[k]) = 0 /\ 0 \in Lengths(k)'
        BY <3>2, <3>5 DEF Lengths
      <4>4. QED
        BY <3>2, <4>1, <4>2, <4>3 DEF Under
    <3>7. \E w \in Lengths(k) : Under(k, w, 0)'
      BY <3>5, <3>6
    <3>8. StreamOk(k)'
      BY <3>2, <3>7 DEF StreamOk, Filing, Lengths
    <3>9. QED
      BY <3>3, <3>4, <3>8
  <2>2. CASE k # h
    <3>1. wopen'[k] = wopen[k] /\ child'[k] = child[k]
      BY <1>9, <2>2
    <3>2. /\ stream'[k] = stream[k] /\ fname'[k] = fname[k] /\ reply'[k] = reply[k]
          /\ whole'[k] = whole[k] /\ bytes'[k] = bytes[k] /\ todo' = todo
      BY <1>5
    <3>3. \A w \in Lengths(k) : Filed(k, w) => Filed(k, w)'
      BY <1>5 DEF Filed
    <3>4. CASE k[1] = c
      <4>1. k[2] # n /\ k[2] \in Nat
        BY <1>6, <2>2, <3>4, ConnFacts
      <4>2. k[2] = used[c] => k = gfd(c) /\ used[c] > 0
        BY <1>0, <3>4, GfdFacts, ConnFacts
      <4>3. ConnOk(k)'
        <5>1. used[k[1]] = used[c] /\ used'[k[1]] = n
          BY <1>3, <3>4
        <5>2. k[2] > n => k[2] > used[c]
          BY <1>0, <1>1, <4>1
        <5>3. k[2] < n => k[2] < used[c] \/ k[2] = used[c]
          BY <1>0, <1>1, <4>1
        <5>4. k[2] > n => child[k] = "none" /\ stream[k] = << >> /\ ~wopen[k]
          BY <2>0, <5>1, <5>2 DEF ConnOk
        <5>5. k[2] < n => ~wopen[k] /\ child[k] \in Late
          BY <1>12, <2>0, <4>2, <5>1, <5>3 DEF ConnOk
        <5>6. QED
          BY <2>0, <3>1, <3>2, <5>1, <5>4, <5>5 DEF ConnOk, Dry
      <4>4. NameOk(k)'
        BY <1>7, <3>4 DEF NameOk
      <4>5. ~Failed(k) /\ ~Busy(k)
        BY <1>12, <3>4 DEF Failed, Busy
      <4>6. ~Failed(k)' /\ ~Busy(k)'
        BY <1>4, <2>2, <3>4 DEF Failed, Busy, Current
      <4>7. StreamOk(k)'
        BY <2>0, <3>1, <3>2, <3>3, <4>5, <4>6, SameStream
      <4>8. QED
        BY <4>3, <4>4, <4>7
    <3>5. CASE k[1] # c
      <4>1. /\ cpc'[k[1]] = cpc[k[1]] /\ used'[k[1]] = used[k[1]] /\ gfd(k[1])' = gfd(k[1])
            /\ sent' = sent
        BY <1>5, <1>8, <2>0, <3>5
      <4>2. ConnOk(k)'
        BY <2>0, <3>1, <3>2, <4>1 DEF ConnOk, Dry
      <4>3. NameOk(k)'
        BY <2>0, <3>1, <3>2, <4>1 DEF NameOk, Current
      <4>4. (Failed(k)' <=> Failed(k)) /\ (Busy(k)' <=> Busy(k)) /\ Wrote(k[1])' = Wrote(k[1])
        BY <4>1 DEF Failed, Busy, Current, Wrote
      <4>5. StreamOk(k)'
        BY <2>0, <3>1, <3>2, <3>3, <4>4, SameStream
      <4>6. QED
        BY <4>2, <4>3, <4>5
    <3>6. QED
      BY <3>4, <3>5
  <2>3. QED
    BY <2>1, <2>2
<1>16. QED
  BY <1>10, <1>13, <1>14, <1>15 DEF IInv, ConnInv, NameInv, StreamInv

LEMMA ClientStepKeeps ==
    ASSUME IInv, NEW c \in Clients, ClientStep(c) \/ Interrupt(c) \/ Kill(c)
    PROVE  IInv'
<1>0. Shape /\ ClientOk(c) /\ (cpc[c] \in Open => used[c] > 0)
  BY ClientFacts
<1>1. CASE CConnect(c)
  BY <1>1, ConnectKeeps, NoConnectKeeps DEF CConnect, serverVars
<1>2. CASE CSpare(c)
  BY <1>2, SpareKeeps
<1>3. CASE CName(c)
  BY <1>3, NameKeeps, BadNameKeeps DEF CName
<1>4. CASE CModes(c)
  BY <1>4, ModesKeeps
<1>5. CASE CAnswer(c)
  <2>1. CASE reply[gfd(c)] # "OK"
    BY <1>0, <1>5, <2>1, Failures DEF CAnswer, Open
  <2>2. CASE reply[gfd(c)] = "OK"
    BY <1>5, <2>2, DirKeeps, FileKeeps DEF CAnswer
  <2>3. QED
    BY <2>1, <2>2
<1>6. CASE CData(c)
  <2>1. CASE UNCHANGED <<cpc, wopen>> /\ Write(c, Chunk(c)) /\ sent' = [sent EXCEPT ![c] = @ + Len(Chunk(c))]
    BY <1>6, <2>1, ChunkKeeps DEF CData
  <2>2. CASE Goto(c, "failed") /\ Close(c) /\ UNCHANGED <<stream, sent>>
    BY <1>0, <1>6, <2>2, Failures DEF CData, Open
  <2>3. QED
    BY <1>6, <2>1, <2>2 DEF CData
<1>7. CASE CEnd(c)
  BY <1>7, EndKeeps
<1>8. CASE Interrupt(c)
  BY <1>8, InterruptKeeps
<1>9. CASE Kill(c)
  BY <1>9, KillKeeps
<1>10. QED
  BY <1>1, <1>2, <1>3, <1>4, <1>5, <1>6, <1>7, <1>8, <1>9 DEF ClientStep

-----------------------------------------------------------------------------
(* The steps of a child. *)

\* What the child of k leaves alone.
ChildFrame(k) ==
    /\ UNCHANGED <<cpc, todo, sent, used, wopen>>
    /\ \A j \in Conns : j # k => /\ stream'[j] = stream[j] /\ reply'[j] = reply[j] /\ child'[j] = child[j]
                               /\ fname'[j] = fname[j] /\ whole'[j] = whole[j]
                               /\ bytes'[j] = bytes[j] /\ offset'[j] = offset[j]

\* The child leaves its place; places after the modes are not left again.
ChildMoves(k) ==
    /\ child[k] # "none" /\ child'[k] \notin {"none", "name"}
    /\ ~(child[k] = "name" /\ stream[k] = << >> /\ wopen[k])
    /\ child[k] \in Late => child'[k] \in Late
    /\ child'[k] \in Early => reply'[k] = "none" /\ bytes'[k] = 0
    /\ child'[k] = "gone" => fname'[k] = Stray
    /\ child'[k] \in Filing => fname'[k] # "dir"
    /\ child'[k] = "stored" => Dry(k)'
    /\ \/ fname'[k] \in {fname[k], Stray, "dir"}
       \/ Current(k) /\ cpc[k[1]] \in {"modes", "wait"} => Head(todo[k[1]]) # "dir"

LEMMA ChildKeeps ==
    ASSUME IInv, NEW k \in Conns, ChildFrame(k), ChildMoves(k), Shape', FileInv', StreamOk(k)',
           \A j \in Conns : j # k => \A w \in Lengths(j) : Filed(j, w) => Filed(j, w)'
    PROVE  IInv'
<1>0. /\ Shape /\ (\A c \in Clients : ClientOk(c))
      /\ \A j \in Conns : ConnOk(j) /\ NameOk(j) /\ StreamOk(j)
  BY DEF IInv, ClientInv, ConnInv, NameInv, StreamInv
<1>1. UNCHANGED <<cpc, todo, sent, used, wopen>>
  BY DEF ChildFrame
<1>2. \A c : gfd(c)' = gfd(c)
  BY <1>1 DEF gfd
<1>3. ASSUME NEW c \in Clients PROVE ClientOk(c)'
  <2>1. ClientOk(c) /\ (used[c] > 0 => gfd(c) \in Conns)
    BY <1>0, GfdFacts
  <2>2. CASE gfd(c) = k
    <3>1. /\ wopen'[k] = wopen[k]
          /\ cpc[c] \notin {"spare", "name"}
      BY <1>1, <2>1, <2>2 DEF ClientOk, Open, ChildMoves
    <3>2. QED
      BY <1>1, <1>2, <2>1, <2>2, <3>1 DEF ClientOk, ChildMoves
  <2>3. CASE gfd(c) # k
    <3>1. used[c] > 0 => child'[gfd(c)] = child[gfd(c)] /\ stream'[gfd(c)] = stream[gfd(c)]
      BY <2>1, <2>3 DEF ChildFrame
    <3>2. QED
      BY <1>1, <1>2, <2>1, <3>1 DEF ClientOk, Open
  <2>4. QED
    BY <2>2, <2>3
<1>4. ASSUME NEW j \in Conns PROVE ConnOk(j)' /\ NameOk(j)' /\ StreamOk(j)'
  <2>0. ConnOk(j) /\ NameOk(j) /\ StreamOk(j) /\ bytes[j] \in Nat
    BY <1>0 DEF Shape
  <2>1. CASE j = k
    <3>1. k[2] \in Nat /\ used[k[1]] \in Nat
      BY <1>0, CurrentFacts
    <3>2. ~(k[2] > used[k[1]])
      BY <2>0, <2>1 DEF ConnOk, ChildMoves
    <3>3. k[2] < used[k[1]] => ~wopen[k] /\ child'[k] \in Late
      BY <2>0, <2>1 DEF ConnOk, ChildMoves
    <3>4. ConnOk(k)'
      BY <1>1, <3>2, <3>3 DEF ConnOk, ChildMoves
    <3>5. NameOk(k)'
      <4>1. Current(k)' <=> Current(k)
        BY <1>2 DEF Current
      <4>2. ASSUME fname'[k] = File, Current(k), cpc[k[1]] \in {"modes", "wait"}
            PROVE  fname[k] = File \/ Head(todo[k[1]]) # "dir"
        BY <4>2, ConstantFacts DEF ChildMoves
      <4>3. QED
        BY <1>1, <2>0, <2>1, <4>1, <4>2 DEF NameOk, ChildMoves
    <3>6. QED
      BY <2>1, <3>4, <3>5
  <2>2. CASE j # k
    <3>1. /\ stream'[j] = stream[j] /\ reply'[j] = reply[j] /\ child'[j] = child[j] /\ wopen'[j] = wopen[j]
          /\ fname'[j] = fname[j] /\ bytes'[j] = bytes[j] /\ whole'[j] = whole[j]
      BY <1>1, <2>2 DEF ChildFrame
    <3>2. ConnOk(j)'
      BY <1>1, <2>0, <3>1 DEF ConnOk, Dry
    <3>3. Current(j)' <=> Current(j)
      BY <1>2 DEF Current
    <3>4. NameOk(j)'
      BY <1>1, <2>0, <3>1, <3>3 DEF NameOk
    <3>5. (Failed(j)' <=> Failed(j)) /\ (Busy(j)' <=> Busy(j)) /\ Wrote(j[1])' = Wrote(j[1])
      BY <1>1, <3>3 DEF Failed, Busy, Wrote
    <3>6. StreamOk(j)'
      BY <2>0, <2>2, <3>1, <3>5, SameStream
    <3>7. QED
      BY <3>2, <3>4, <3>6
  <2>3. QED
    BY <2>1, <2>2
<1>5. QED
  BY <1>3, <1>4 DEF IInv, ClientInv, ConnInv, NameInv, StreamInv

(* n pieces are read: the others stay where they belong.                   *)
LEMMA ReadUnder ==
    ASSUME Shape, NEW k \in Conns, NEW w \in Lengths(k), NEW off \in Nat, Under(k, w, off),
           NEW n \in Nat, n <= Len(stream[k]), n > 0, UNCHANGED <<cpc, sent, used>>,
           stream'[k] = SubSeq(stream[k], n + 1, Len(stream[k]))
    PROVE  /\ Under(k, w, off + n)'
           /\ off + n + Len(stream'[k]) = w \/ (off + n + Len(stream'[k]) = w + 2 /\ Failed(k))
           /\ Len(stream'[k]) \in Nat /\ w \in Nat
<1> DEFINE s == stream[k]
           t == stream'[k]
<1>0. w \in Nat
  BY LengthsFacts
<1>1. s \in Seq(Nat) /\ Len(s) \in Nat /\ n \in 1 .. Len(s) /\ t = SubSeq(s, n + 1, Len(s))
  BY DEF Shape
<1>2. /\ off + Len(s) = w \/ (off + Len(s) = w + 2 /\ Failed(k))
      /\ \A j \in 1 .. Len(s) : Right(k, w, off + j, s[j])
  BY DEF Under
<1>3. (Failed(k)' <=> Failed(k)) /\ (Busy(k)' <=> Busy(k)) /\ Wrote(k[1])' = Wrote(k[1])
  BY DEF Failed, Busy, Current, Wrote, gfd
<1>4. /\ Busy(k)' => w = Wrote(k[1])'
      /\ ~Busy(k)' /\ ~Failed(k)' => w = 4 + Size(k[1])
  BY <1>3 DEF Under
<1>5. t = stream'[k]
  OBVIOUS
<1> HIDE DEF s, t
<1>6. t \in Seq(Nat) /\ Len(t) = Len(s) - n /\ \A j \in 1 .. Len(s) - n : t[j] = s[n + j]
  BY <1>1, ReadFacts
<1> DEFINE a == Len(s)
           b == Len(t)
<1>a. a \in Nat /\ n <= a /\ b = a - n
  BY <1>1, <1>6
<1> HIDE DEF a, b
<1>b. b \in Nat /\ off + n + b = off + a
  BY <1>a
<1>7. Len(t) \in Nat /\ off + n + Len(t) = off + Len(s)
  BY <1>b DEF a, b
<1>8. ASSUME NEW j \in 1 .. Len(t) PROVE Right(k, w, off + n + j, t[j])
  <2>0. j \in Nat /\ j >= 1 /\ j <= Len(s) - n /\ n \in Nat
    BY <1>1, <1>6, <1>7
  <2>a. t[j] = s[n + j]
    BY <1>1, <1>6, <2>0
  <2>b. n + j \in 1 .. Len(s)
    BY <1>1, <2>0
  <2>c. off + (n + j) = off + n + j
    BY <2>0
  <2>1. n + j \in 1 .. Len(s) /\ off + (n + j) = off + n + j /\ t[j] = s[n + j]
    BY <2>a, <2>b, <2>c
  <2> DEFINE q == n + j
  <2>2. Right(k, w, off + q, s[q])
    BY <1>2, <2>1
  <2>3. off + q = off + n + j /\ t[j] = s[q]
    BY <2>1
  <2> HIDE DEF q
  <2>4. QED
    BY <2>2, <2>3
<1>9. /\ off + n + Len(t) = w \/ (off + n + Len(t) = w + 2 /\ Failed(k))
  BY <1>2, <1>7
<1>10. Under(k, w, off + n)'
  BY <1>3, <1>4, <1>5, <1>8, <1>9 DEF Under, Lengths, Right
<1>11. QED
  BY <1>0, <1>5, <1>7, <1>9, <1>10

\* Steps that leave the files alone.
LEMMA SameFiles ==
    ASSUME IInv, NEW k \in Conns, ChildFrame(k), UNCHANGED <<disk, opener>>,
           child'[k] \in {"data", "stored"} => disk[fname'[k]] \in Seq(Entries),
           child[k] \in Late => child'[k] \in Late,
           child[k] \in Late /\ child'[k] # "gone" =>
               child[k] # "gone" /\ fname'[k] = fname[k] /\ offset'[k] = offset[k]
    PROVE  /\ FileInv'
           /\ \A j \in Conns : j # k => \A w \in Lengths(j) : Filed(j, w) => Filed(j, w)'
<1>1. FileInv
  BY DEF IInv
<1>2. ASSUME NEW j \in Conns, child'[j] \in {"data", "stored"} PROVE disk'[fname'[j]] \in Seq(Entries)
  BY <1>1, <1>2 DEF FileInv, ChildFrame
<1>3. ASSUME NEW j \in Conns, opener'[File] = j
      PROVE  /\ child'[j] \in Late /\ disk'[File] \in Seq(Entries)
             /\ child'[j] # "gone" => fname'[j] = File /\ offset'[j] <= Len(disk'[File])
  <2>1. /\ child[j] \in Late /\ disk[File] \in Seq(Entries)
        /\ child[j] # "gone" => fname[j] = File /\ offset[j] <= Len(disk[File])
    BY <1>1, <1>3 DEF FileInv
  <2>2. CASE j = k
    BY <2>1, <2>2
  <2>3. CASE j # k
    BY <2>1, <2>3 DEF ChildFrame
  <2>4. QED
    BY <2>2, <2>3
<1>4. FileInv'
  BY <1>2, <1>3 DEF FileInv
<1>5. \A j \in Conns : j # k => \A w \in Lengths(j) : Filed(j, w) => Filed(j, w)'
  BY DEF Filed, ChildFrame
<1>6. QED
  BY <1>4, <1>5

LEMMA GoneFacts ==
    ASSUME Shape, NEW k \in Conns, Gone(k), UNCHANGED serverRest, UNCHANGED reply \/ \E r : Answer(k, r)
    PROVE  /\ ChildFrame(k)
           /\ child'[k] = "gone" /\ fname'[k] = Stray
           /\ disk' \in [Files -> Seq(Entries) \cup {Nothing}] /\ opener' \in [Files -> Conns \cup {Nothing}]
              => Shape'
<1>1. /\ UNCHANGED <<cpc, todo, sent, used, wopen>>
      /\ child' = [child EXCEPT ![k] = "gone"] /\ stream' = [stream EXCEPT ![k] = << >>]
      /\ fname' = [fname EXCEPT ![k] = Stray] /\ bytes' = [bytes EXCEPT ![k] = 0]
      /\ whole' = [whole EXCEPT ![k] = TRUE] /\ offset' = [offset EXCEPT ![k] = 0]
  BY DEF Gone, To, serverRest, clientVars
<1>2. /\ reply' = [j \in Conns |-> reply'[j]]
      /\ \A j \in Conns : j # k => reply'[j] = reply[j]
  BY DEF Answer, Shape
<1>3. << >> \in Seq(Nat)
  OBVIOUS
<1>4. /\ child' \in [Conns -> ChildLabels] /\ stream' \in [Conns -> Seq(Nat)]
      /\ fname' \in [Conns -> Files \cup {"dir"}] /\ bytes' \in [Conns -> Nat] /\ whole' \in [Conns -> BOOLEAN]
      /\ offset' \in [Conns -> Nat]
  BY <1>1, <1>3 DEF Shape, ChildLabels, Files
<1>5. child'[k] = "gone" /\ fname'[k] = Stray
  BY <1>1 DEF Shape
<1>6. ChildFrame(k)
  BY <1>1, <1>2 DEF ChildFrame, Shape
<1>7. QED
  BY <1>1, <1>2, <1>4, <1>5, <1>6 DEF Shape

(* A child that ends in one of its steps.                                  *)
LEMMA GoneKeeps ==
    ASSUME IInv, NEW k \in Conns, child[k] \notin {"none", "gone"},
           ~(child[k] = "name" /\ stream[k] = << >> /\ wopen[k]),
           Gone(k), UNCHANGED <<serverRest, disk, opener>>, UNCHANGED reply \/ \E r : Answer(k, r)
    PROVE  IInv'
<1>0. Shape
  BY DEF IInv
<1>1. ChildFrame(k) /\ child'[k] = "gone" /\ fname'[k] = Stray
  BY <1>0, GoneFacts
<1>2. Shape'
  BY <1>0, GoneFacts DEF Shape
<1>3. FileInv' /\ \A j \in Conns : j # k => \A w \in Lengths(j) : Filed(j, w) => Filed(j, w)'
  BY <1>1, SameFiles DEF Late
<1>4. StreamOk(k)'
  BY <1>1, GoneStream
<1>5. ChildMoves(k)
  BY <1>1 DEF ChildMoves, Early, Late, Filing
<1>6. QED
  BY <1>1, <1>2, <1>3, <1>4, <1>5, ChildKeeps

LEMMA SNameKeeps ==
    ASSUME IInv, NEW k \in Conns, SName(k)
    PROVE  IInv'
<1>0. /\ Shape /\ ConnOk(k) /\ NameOk(k) /\ StreamOk(k) /\ child[k] = "name"
      /\ stream[k] \in Seq(Nat) /\ wopen[k] \in BOOLEAN
  BY DEF IInv, ConnInv, NameInv, StreamInv, SName, Shape
<1>1. UNCHANGED <<serverRest, disk, opener>> /\ UNCHANGED <<cpc, todo, sent, used, wopen>>
  BY DEF SName, serverRest, clientVars
<1>2. fname[k] = Stray /\ reply[k] = "none" /\ bytes[k] = 0
  BY <1>0 DEF ConnOk, Early
<1>3. ASSUME stream[k] # << >>, To(k, "modes"), UNCHANGED <<reply, bytes, offset>>,
             NEW n \in 1 .. Len(NAME), Read(k, Len(NAME), n), whole' = [whole EXCEPT ![k] = n = Len(NAME)],
             NEW f \in {File, "dir", Stray}, fname' = [fname EXCEPT ![k] = f],
             f = File => Head(stream[k]) = Head(NAME)
      PROVE  IInv'
  <2>1. n \in Nat /\ n > 0 /\ n <= Len(stream[k]) /\ Len(NAME) = 2
    BY <1>0, <1>3, PieceFacts DEF Read, Least
  <2> DEFINE t == SubSeq(stream[k], n + 1, Len(stream[k]))
  <2>2. t \in Seq(Nat)
    BY <1>0, <2>1, ReadFacts
  <2>3. stream' = [stream EXCEPT ![k] = t]
    BY <1>3 DEF Read
  <2>4. stream'[k] = SubSeq(stream[k], n + 1, Len(stream[k]))
    BY <1>0, <2>3 DEF Shape
  <2> HIDE DEF t
  <2>5. child' = [child EXCEPT ![k] = "modes"] /\ child'[k] = "modes" /\ fname'[k] = f /\ (whole'[k] <=> n = 2)
    BY <1>0, <1>3, <2>1 DEF To, Shape
  <2>6. Shape'
    <3>1. stream' \in [Conns -> Seq(Nat)]
      BY <1>0, <2>2, <2>3 DEF Shape
    <3>2. child' \in [Conns -> ChildLabels]
      BY <1>0, <2>5 DEF Shape, ChildLabels
    <3>3. whole' \in [Conns -> BOOLEAN]
      BY <1>0, <1>3 DEF Shape
    <3>4. fname' \in [Conns -> Files \cup {"dir"}]
      BY <1>0, <1>3 DEF Shape, Files
    <3>5. QED
      BY <1>0, <1>1, <1>3, <3>1, <3>2, <3>3, <3>4 DEF Shape
  <2>7. ChildFrame(k)
    BY <1>0, <1>1, <1>3, <2>3, <2>5 DEF ChildFrame, Shape
  <2>8. FileInv' /\ \A j \in Conns : j # k => \A w \in Lengths(j) : Filed(j, w) => Filed(j, w)'
    BY <1>0, <1>1, <2>5, <2>7, SameFiles DEF Late
  <2>9. ChildMoves(k)
    <3>1. f = File => (Current(k) /\ cpc[k[1]] \in {"modes", "wait"} => Head(todo[k[1]]) # "dir")
      BY <1>0, <1>3 DEF NameOk
    <3>2. f = "dir" \/ f = Stray \/ f = File
      BY <1>3
    <3>4. reply'[k] = "none" /\ bytes'[k] = 0
      BY <1>2, <1>3
    <3>5. QED
      BY <1>0, <1>2, <1>3, <2>5, <3>1, <3>2, <3>4 DEF ChildMoves, Early, Late, Filing
  <2>10. ASSUME fname'[k] = File, whole'[k] PROVE \E w \in Lengths(k) : Under(k, w, 2)'
    <3>1. PICK w \in Lengths(k) : Under(k, w, 0)
      BY <1>0, <1>3 DEF StreamOk, Dry
    <3>2. Under(k, w, 0 + n)'
      BY <1>0, <1>1, <2>1, <2>4, <3>1, ReadUnder
    <3>3. 0 + n = 2
      BY <2>5, <2>10
    <3>4. QED
      BY <3>2, <3>3
  <2>11. StreamOk(k)'
    BY <2>5, <2>10 DEF StreamOk, Filing, Lengths
  <2>12. QED
    BY <2>6, <2>7, <2>8, <2>9, <2>11, ChildKeeps
<1>4. ASSUME AtEnd(k), To(k, "modes"), UNCHANGED <<stream, reply, fname, bytes, offset, whole>>
      PROVE  IInv'
  <2>1. child' = [child EXCEPT ![k] = "modes"] /\ child'[k] = "modes"
    BY <1>0, <1>4 DEF To, Shape
  <2>2. Shape'
    BY <1>0, <1>1, <1>4, <2>1 DEF Shape, ChildLabels
  <2>3. ChildFrame(k)
    BY <1>0, <1>1, <1>4, <2>1 DEF ChildFrame, Shape
  <2>4. FileInv' /\ \A j \in Conns : j # k => \A w \in Lengths(j) : Filed(j, w) => Filed(j, w)'
    BY <1>0, <1>1, <2>1, <2>3, SameFiles DEF Late
  <2>5. ChildMoves(k)
    BY <1>0, <1>2, <1>4, <2>1 DEF ChildMoves, Early, Late, Filing, AtEnd
  <2>6. StreamOk(k)'
    BY <1>2, <1>4, <2>1, ConstantFacts DEF StreamOk, Filing
  <2>7. QED
    BY <2>2, <2>3, <2>4, <2>5, <2>6, ChildKeeps
<1>5. CASE /\ stream[k] # << >> /\ Head(stream[k]) # Head(ERR)
           /\ \E n \in 1 .. Len(NAME) : Read(k, Len(NAME), n) /\ whole' = [whole EXCEPT ![k] = n = Len(NAME)]
           /\ fname' = [fname EXCEPT ![k] = CASE Head(stream[k]) = Head(NAME) -> File
                                              [] Head(stream[k]) = Head(DIR)  -> "dir"
                                              [] OTHER                        -> Stray]
           /\ To(k, "modes") /\ UNCHANGED <<reply, bytes, offset>>
  <2> DEFINE h == Head(stream[k])
             a == Head(NAME)
             b == Head(DIR)
             f == CASE h = a -> File [] h = b  -> "dir" [] OTHER -> Stray
  <2>0. a # b
    BY PieceFacts, ConstantFacts
  <2>1. fname' = [fname EXCEPT ![k] = f]
    BY <1>5
  <2>2. PICK n \in 1 .. Len(NAME) : Read(k, Len(NAME), n) /\ whole' = [whole EXCEPT ![k] = n = Len(NAME)]
    BY <1>5
  <2> HIDE DEF a, b, h
  <2>3. f = IF h = a THEN File ELSE IF h = b THEN "dir" ELSE Stray
    BY <2>0
  <2> HIDE DEF f
  <2>4. f \in {File, "dir", Stray} /\ (f = File => h = a)
    <3>1. CASE h = a
      BY <2>3, <3>1
    <3>2. CASE h # a
      BY <2>3, <3>2, ConstantFacts
    <3>3. QED
      BY <3>1, <3>2
  <2>5. f = File => Head(stream[k]) = Head(NAME)
    BY <2>4 DEF h, a
  <2>6. QED
    BY <1>3, <1>5, <2>1, <2>2, <2>4, <2>5
<1>6. CASE stream[k] # << >> /\ Gone(k) /\ UNCHANGED reply
  BY <1>0, <1>1, <1>6, GoneKeeps
<1>7. CASE AtEnd(k) /\ Answer(k, "NAME_2LONG") /\ Gone(k)
  BY <1>0, <1>1, <1>7, GoneKeeps DEF AtEnd
<1>8. QED
  BY <1>4, <1>5, <1>6, <1>7 DEF SName

\* A client that has failed or is done has closed its connection.
LEMMA OpenFacts ==
    ASSUME IInv, NEW k \in Conns
    PROVE  /\ Busy(k) => wopen[k]
           /\ Failed(k) => ~wopen[k]
<1>1. Shape /\ ClientOk(k[1]) /\ (Current(k) => used[k[1]] > 0)
  BY ConnFacts, CurrentFacts DEF IInv, ClientInv
<1>2. QED
  BY <1>1 DEF Busy, Failed, Current, ClientOk, Open

(* Modes that were not there, or ERR taken for them: the client has failed,*)
(* and the stream is at its end.                                           *)
LEMMA SModesKeeps ==
    ASSUME IInv, NEW k \in Conns, SModes(k)
    PROVE  IInv'
<1> DEFINE l == IF fname[k] = "dir" THEN "mkdir" ELSE "exists"
<1>0. /\ Shape /\ ConnOk(k) /\ StreamOk(k) /\ FileInv /\ child[k] = "modes"
      /\ stream[k] \in Seq(Nat) /\ wopen[k] \in BOOLEAN /\ whole[k] \in BOOLEAN
  BY DEF IInv, ConnInv, StreamInv, SModes, Shape
<1>1. /\ UNCHANGED <<cpc, todo, sent, used, wopen, reply, fname, bytes, offset, disk, opener>>
      /\ child' = [child EXCEPT ![k] = l]
  BY DEF SModes, To, serverRest, clientVars
<1>2. reply[k] = "none" /\ bytes[k] = 0
  BY <1>0 DEF ConnOk, Early
<1>3. l \in {"mkdir", "exists"} /\ (l = "exists" => fname[k] # "dir")
  OBVIOUS
<1> HIDE DEF l
<1>4. opener[File] # k
  BY <1>0 DEF FileInv, Late
<1>5. child'[k] = l
  BY <1>0, <1>1 DEF Shape
<1>6. /\ stream' \in [Conns -> Seq(Nat)] /\ whole' \in [Conns -> BOOLEAN]
      /\ \A j \in Conns : j # k => stream'[j] = stream[j] /\ whole'[j] = whole[j]
  <2>1. ASSUME NEW n \in 1 .. Len(MODES), Read(k, Len(MODES), n), whole' = [whole EXCEPT ![k] = @ /\ n = Len(MODES)]
        PROVE  /\ stream' \in [Conns -> Seq(Nat)] /\ whole' \in [Conns -> BOOLEAN]
               /\ \A j \in Conns : j # k => stream'[j] = stream[j] /\ whole'[j] = whole[j]
    <3>1. n \in 1 .. Len(stream[k])
      BY <1>0, <2>1, PieceFacts DEF Read, Least
    <3> DEFINE t == SubSeq(stream[k], n + 1, Len(stream[k]))
    <3>2. t \in Seq(Nat)
      BY <1>0, <3>1, ReadFacts
    <3>3. stream' = [stream EXCEPT ![k] = t]
      BY <2>1 DEF Read
    <3> HIDE DEF t
    <3>4. QED
      BY <1>0, <2>1, <3>2, <3>3 DEF Shape
  <2>2. QED
    BY <1>0, <2>1 DEF SModes, Shape
<1>7. Shape'
  <2>1. child' \in [Conns -> ChildLabels]
    BY <1>0, <1>1, <1>3 DEF Shape, ChildLabels
  <2>2. QED
    BY <1>0, <1>1, <1>6, <2>1 DEF Shape
<1>8. ChildFrame(k)
  BY <1>0, <1>1, <1>6 DEF ChildFrame, Shape
<1>9. FileInv' /\ \A j \in Conns : j # k => \A w \in Lengths(j) : Filed(j, w) => Filed(j, w)'
  BY <1>0, <1>1, <1>3, <1>5, <1>8, SameFiles DEF Late
<1>10. ChildMoves(k)
  BY <1>0, <1>1, <1>2, <1>3, <1>5 DEF ChildMoves, Early, Late, Filing
<1>11. \A w : Filed(k, w)'
  BY <1>1, <1>4 DEF Filed
<1>12. ASSUME fname'[k] = File, whole'[k]
       PROVE  \/ Dry(k)' /\ Failed(k)' /\ bytes'[k] = 0
              \/ \E w \in Lengths(k) : w >= 4 /\ Under(k, w, 4 + bytes[k])'
  <2>1. (Failed(k)' <=> Failed(k)) /\ bytes'[k] = 0
    BY <1>1, <1>2 DEF Failed, Current, gfd
  <2>2. ASSUME NEW n \in 1 .. Len(MODES), Read(k, Len(MODES), n), whole' = [whole EXCEPT ![k] = @ /\ n = Len(MODES)]
        PROVE  \/ Dry(k)' /\ Failed(k)'
               \/ \E w \in Lengths(k) : w >= 4 /\ Under(k, w, 4)'
    <3>1. whole[k] /\ n = Len(MODES)
      BY <1>0, <1>12, <2>2 DEF Shape
    <3>a. Len(MODES) = 2
      BY PieceFacts
    <3>2. n = 2 /\ n <= Len(stream[k]) /\ 2 \in Nat /\ 2 > 0
      BY <1>0, <2>2, <3>1, <3>a DEF Read, Least
    <3>3. stream' = [stream EXCEPT ![k] = SubSeq(stream[k], 2 + 1, Len(stream[k]))]
      BY <2>2, <3>2 DEF Read
    <3>4. stream'[k] = SubSeq(stream[k], 2 + 1, Len(stream[k])) /\ 2 <= Len(stream[k])
      BY <1>0, <3>2, <3>3 DEF Shape
    <3>5. PICK w \in Lengths(k) : Under(k, w, 2)
      BY <1>0, <1>1, <1>12, <3>1 DEF StreamOk
    <3>6. /\ Under(k, w, 2 + 2)'
          /\ 2 + 2 + Len(stream'[k]) = w \/ (2 + 2 + Len(stream'[k]) = w + 2 /\ Failed(k))
          /\ Len(stream'[k]) \in Nat /\ w \in Nat
      BY <1>0, <1>1, <3>2, <3>4, <3>5, ReadUnder
    <3>7. CASE w >= 4
      BY <3>6, <3>7
    <3>8. CASE ~ w >= 4
      <4>1. w \in {0, 2}
        BY <3>8, CodeFacts, ConnFacts DEF Lengths
      <4>2. Len(stream'[k]) = 0 /\ Failed(k)
        BY <3>6, <4>1
      <4>3. ~wopen[k]
        BY <4>2, OpenFacts
      <4>4. stream'[k] = << >>
        BY <1>6, <4>2, EmptySeq
      <4>5. QED
        BY <1>1, <2>1, <4>2, <4>3, <4>4 DEF Dry
    <3>9. QED
      BY <3>7, <3>8
  <2>3. ASSUME AtEnd(k), UNCHANGED <<stream, whole>>
        PROVE  Dry(k)' /\ Failed(k)'
    <3>1. stream[k] = << >> /\ ~wopen[k] /\ Len(stream[k]) = 0
      BY <2>3 DEF AtEnd
    <3>2. PICK w \in Lengths(k) : Under(k, w, 2)
      BY <1>0, <1>1, <1>12, <2>3 DEF StreamOk
    <3>3. ~Busy(k)
      BY <3>1, OpenFacts
    <3>4. w \in Nat /\ Size(k[1]) \in Nat
      BY LengthsFacts
    <3>5. Failed(k)
      <4>1. SUFFICES ASSUME ~Failed(k) PROVE FALSE
        OBVIOUS
      <4>2. 2 + Len(stream[k]) = w /\ w = 4 + Size(k[1])
        BY <3>2, <3>3, <4>1 DEF Under
      <4>3. QED
        BY <3>1, <3>4, <4>2
    <3>6. QED
      BY <1>1, <2>1, <2>3, <3>1, <3>5 DEF Dry
  <2>4. CASE \E n \in 1 .. Len(MODES) : Read(k, Len(MODES), n) /\ whole' = [whole EXCEPT ![k] = @ /\ n = Len(MODES)]
    <3>1. ASSUME NEW w \in Lengths(k), Under(k, w, 4)' PROVE Under(k, w, 4 + bytes[k])'
      <4>1. 4 + bytes'[k] = 4
        BY <2>1
      <4>2. QED
        BY <3>1, <4>1 DEF Under
    <3>2. \/ Dry(k)' /\ Failed(k)'
          \/ \E w \in Lengths(k) : w >= 4 /\ Under(k, w, 4)'
      BY <2>2, <2>4
    <3>3. QED
      BY <2>1, <3>1, <3>2
  <2>5. CASE AtEnd(k) /\ UNCHANGED <<stream, whole>>
    BY <2>1, <2>3, <2>5
  <2>6. QED
    BY <2>4, <2>5 DEF SModes
<1>13. StreamOk(k)'
  <2>1. CASE fname'[k] = File /\ whole'[k]
    BY <1>3, <1>5, <1>11, <1>12, <2>1 DEF StreamOk, Lengths
  <2>2. CASE ~(fname'[k] = File /\ whole'[k])
    BY <1>3, <1>5, <2>2 DEF StreamOk
  <2>3. QED
    BY <2>1, <2>2
<1>14. QED
  BY <1>7, <1>8, <1>9, <1>10, <1>13, ChildKeeps

LEMMA SMkdirKeeps ==
    ASSUME IInv, NEW k \in Conns, SMkdir(k)
    PROVE  IInv'
<1>1. child[k] = "mkdir" /\ Gone(k) /\ (\E r : Answer(k, r)) /\ UNCHANGED <<serverRest, disk, opener>>
  BY DEF SMkdir
<1>2. QED
  BY <1>1, GoneKeeps

LEMMA SExistsKeeps ==
    ASSUME IInv, NEW k \in Conns, SExists(k)
    PROVE  IInv'
<1>0. /\ Shape /\ ConnOk(k) /\ StreamOk(k) /\ child[k] = "exists"
  BY DEF IInv, ConnInv, StreamInv, SExists
<1>1. UNCHANGED <<serverRest, disk, opener>> /\ UNCHANGED <<cpc, todo, sent, used, wopen>>
  BY DEF SExists, serverRest, clientVars
<1>2. CASE To(k, "create") /\ UNCHANGED <<stream, reply, fname, bytes, offset, whole>>
  <2>1. child' = [child EXCEPT ![k] = "create"] /\ child'[k] = "create"
    BY <1>0, <1>2 DEF To, Shape
  <2>2. Shape'
    BY <1>0, <1>1, <1>2, <2>1 DEF Shape, ChildLabels
  <2>3. ChildFrame(k)
    BY <1>0, <1>1, <1>2, <2>1 DEF ChildFrame, Shape
  <2>4. FileInv' /\ \A j \in Conns : j # k => \A w \in Lengths(j) : Filed(j, w) => Filed(j, w)'
    BY <1>0, <1>1, <2>1, <2>3, SameFiles DEF Late
  <2>5. ChildMoves(k)
    BY <1>0, <1>2, <2>1 DEF ChildMoves, ConnOk, Early, Late, Filing
  <2>6. StreamOk(k)'
    <3>1. ASSUME fname[k] = File, whole[k]
          PROVE  \/ Dry(k)' /\ Failed(k)' /\ bytes'[k] = 0 /\ Filed(k, 4)'
                 \/ \E w \in Lengths(k) : w >= 4 /\ Under(k, w, 4 + bytes[k])' /\ Filed(k, w)'
      <4>1. \/ Dry(k) /\ Failed(k) /\ bytes[k] = 0 /\ Filed(k, 4)
            \/ \E w \in Lengths(k) : w >= 4 /\ Under(k, w, 4 + bytes[k]) /\ Filed(k, w)
        BY <1>0, <3>1 DEF StreamOk, Filing
      <4>2. (Failed(k)' <=> Failed(k)) /\ (Busy(k)' <=> Busy(k)) /\ Wrote(k[1])' = Wrote(k[1])
        BY <1>1 DEF Failed, Busy, Current, Wrote, gfd
      <4>3. \A w : Filed(k, w)' <=> Filed(k, w)
        BY <1>1, <1>2 DEF Filed
      <4>4. stream'[k] = stream[k] /\ bytes'[k] = bytes[k] /\ 4 + bytes[k] \in Nat
        BY <1>0, <1>2 DEF Shape
      <4>5. \A w \in Lengths(k) : Under(k, w, 4 + bytes[k]) => Under(k, w, 4 + bytes[k])'
        BY <4>2, <4>4, SameUnder
      <4>6. Dry(k)' <=> Dry(k)
        BY <1>1, <1>2 DEF Dry
      <4>7. QED
        BY <4>1, <4>2, <4>3, <4>4, <4>5, <4>6
    <3>2. QED
      BY <1>2, <2>1, <3>1 DEF StreamOk, Filing, Lengths, Under
  <2>7. QED
    BY <2>2, <2>3, <2>4, <2>5, <2>6, ChildKeeps
<1>3. CASE Answer(k, "EEXISTS") /\ Gone(k)
  BY <1>0, <1>1, <1>3, GoneKeeps
<1>4. QED
  BY <1>2, <1>3 DEF SExists

\* The child opens f, its file, and empties it.
LEMMA EmptyFiles ==
    ASSUME IInv, NEW k \in Conns, ChildFrame(k), child[k] = "create",
           NEW f \in Files, f = fname[k], child'[k] \in {"data", "gone"},
           child'[k] = "data" => fname'[k] = f /\ offset'[k] = 0,
           disk' = [disk EXCEPT ![f] = << >>], opener' = [opener EXCEPT ![f] = k]
    PROVE  /\ disk' \in [Files -> Seq(Entries) \cup {Nothing}] /\ opener' \in [Files -> Conns \cup {Nothing}]
           /\ FileInv'
           /\ \A j \in Conns : j # k => \A w \in Lengths(j) : Filed(j, w) => Filed(j, w)'
           /\ f = File => disk'[File] = << >>
<1>0. Shape /\ FileInv /\ File \in Files
  BY DEF IInv, Files
<1>1. disk' \in [Files -> Seq(Entries) \cup {Nothing}] /\ opener' \in [Files -> Conns \cup {Nothing}]
  <2>1. << >> \in Seq(Entries)
    OBVIOUS
  <2>2. QED
    BY <1>0, <2>1 DEF Shape
<1>2. /\ disk'[f] = << >> /\ opener'[f] = k
      /\ \A g \in Files : g # f => disk'[g] = disk[g] /\ opener'[g] = opener[g]
  BY <1>0 DEF Shape
<1>3. << >> \in Seq(Entries) /\ Len(<< >>) = 0
  OBVIOUS
<1>4. ASSUME NEW j \in Conns, child'[j] \in {"data", "stored"} PROVE disk'[fname'[j]] \in Seq(Entries)
  <2>1. CASE j = k
    BY <1>2, <1>3, <1>4, <2>1
  <2>2. CASE j # k
    <3>1. disk[fname[j]] \in Seq(Entries) /\ fname'[j] = fname[j] /\ fname[j] # "dir"
      BY <1>0, <1>4, <2>2 DEF FileInv, ChildFrame, IInv, ConnInv, ConnOk, Filing
    <3>2. fname[j] \in Files
      BY <1>0, <3>1 DEF Shape
    <3>3. QED
      BY <1>2, <1>3, <3>1, <3>2
  <2>3. QED
    BY <2>1, <2>2
<1>5. ASSUME NEW j \in Conns, opener'[File] = j
      PROVE  /\ child'[j] \in Late /\ disk'[File] \in Seq(Entries)
             /\ child'[j] # "gone" => fname'[j] = File /\ offset'[j] <= Len(disk'[File])
  <2>1. CASE f = File
    <3>1. j = k /\ disk'[File] = << >>
      BY <1>2, <1>5, <2>1
    <3>2. child'[j] \in Late /\ disk'[File] \in Seq(Entries) /\ Len(disk'[File]) = 0
      BY <1>3, <3>1 DEF Late
    <3>3. child'[j] # "gone" => fname'[j] = File /\ offset'[j] = 0
      BY <2>1, <3>1
    <3>4. QED
      BY <3>2, <3>3
  <2>2. CASE f # File
    <3>1. opener[File] = j /\ disk'[File] = disk[File]
      BY <1>0, <1>2, <1>5, <2>2
    <3>2. j # k
      BY <1>0, <3>1 DEF FileInv, Late
    <3>3. QED
      BY <1>0, <3>1, <3>2 DEF FileInv, ChildFrame
  <2>3. QED
    BY <2>1, <2>2
<1>6. FileInv'
  BY <1>4, <1>5 DEF FileInv
<1>7. ASSUME NEW j \in Conns, j # k, NEW w \in Lengths(j), Filed(j, w) PROVE Filed(j, w)'
  <2>1. CASE f = File
    BY <1>2, <1>7, <2>1 DEF Filed
  <2>2. CASE f # File
    <3>1. opener'[File] = opener[File] /\ disk'[File] = disk[File]
      BY <1>0, <1>2, <2>2
    <3>2. bytes'[j] = bytes[j]
      BY <1>7 DEF ChildFrame
    <3>3. QED
      BY <1>7, <3>1, <3>2 DEF Filed
  <2>3. QED
    BY <2>1, <2>2
<1>8. QED
  BY <1>1, <1>2, <1>6, <1>7

LEMMA SCreateKeeps ==
    ASSUME IInv, OffsetInv, NEW k \in Conns, SCreate(k)
    PROVE  IInv'
<1>0. /\ Shape /\ ConnOk(k) /\ StreamOk(k) /\ child[k] = "create"
      /\ UNCHANGED serverRest /\ UNCHANGED <<cpc, todo, sent, used, wopen>>
  BY DEF IInv, ConnInv, StreamInv, SCreate, serverRest, clientVars
<1> DEFINE f == fname[k]
<1>1. f \in Files /\ f = fname[k] /\ bytes[k] = 0 /\ offset[k] = 0
  BY <1>0 DEF ConnOk, Shape, Filing, Early, OffsetInv, OffsetOk
<1> HIDE DEF f
<1>2. ASSUME disk' = [disk EXCEPT ![f] = << >>], opener' = [opener EXCEPT ![f] = k],
             Answer(k, "OK"), To(k, "data"), UNCHANGED <<stream, fname, bytes, offset, whole>>
      PROVE  IInv'
  <2>1. child' = [child EXCEPT ![k] = "data"] /\ child'[k] = "data"
    BY <1>0, <1>2 DEF To, Shape
  <2>2. ChildFrame(k)
    BY <1>0, <1>2, <2>1 DEF ChildFrame, Shape, Answer
  <2>3. /\ disk' \in [Files -> Seq(Entries) \cup {Nothing}] /\ opener' \in [Files -> Conns \cup {Nothing}]
        /\ FileInv'
        /\ \A j \in Conns : j # k => \A w \in Lengths(j) : Filed(j, w) => Filed(j, w)'
        /\ f = File => disk'[File] = << >>
    BY <1>0, <1>1, <1>2, <2>1, <2>2, EmptyFiles
  <2>4. Shape'
    <3>1. reply' = [j \in Conns |-> reply'[j]]
      BY <1>0, <1>2 DEF Answer, Shape
    <3>2. child' \in [Conns -> ChildLabels]
      BY <1>0, <2>1 DEF Shape, ChildLabels
    <3>3. QED
      BY <1>0, <1>2, <2>3, <3>1, <3>2 DEF Shape
  <2>5. ChildMoves(k)
    BY <1>0, <1>2, <2>1 DEF ChildMoves, ConnOk, Early, Late, Filing
  <2>6. StreamOk(k)'
    <3>1. ASSUME fname[k] = File, whole[k]
          PROVE  \/ Dry(k)' /\ Failed(k)' /\ bytes'[k] = 0 /\ Filed(k, 4)'
                 \/ \E w \in Lengths(k) : w >= 4 /\ Under(k, w, 4 + bytes[k])' /\ Filed(k, w)'
      <4>1. \/ Dry(k) /\ Failed(k) /\ bytes[k] = 0
            \/ \E w \in Lengths(k) : w >= 4 /\ Under(k, w, 4 + bytes[k])
        BY <1>0, <3>1 DEF StreamOk, Filing
      <4>2. (Failed(k)' <=> Failed(k)) /\ (Busy(k)' <=> Busy(k)) /\ Wrote(k[1])' = Wrote(k[1])
        BY <1>0 DEF Failed, Busy, Current, Wrote, gfd
      <4>3. \A w : Filed(k, w)'
        BY <1>1, <2>3, <3>1 DEF Filed
      <4>4. stream'[k] = stream[k] /\ bytes'[k] = bytes[k] /\ 4 + bytes[k] \in Nat
        BY <1>0, <1>2 DEF Shape
      <4>5. \A w \in Lengths(k) : Under(k, w, 4 + bytes[k]) => Under(k, w, 4 + bytes[k])'
        BY <4>2, <4>4, SameUnder
      <4>6. Dry(k)' <=> Dry(k)
        BY <1>0, <1>2 DEF Dry
      <4>7. QED
        BY <4>1, <4>2, <4>3, <4>4, <4>5, <4>6
    <3>2. QED
      BY <1>2, <2>1, <3>1 DEF StreamOk, Filing, Lengths, Under
  <2>7. QED
    BY <2>2, <2>3, <2>4, <2>5, <2>6, ChildKeeps
<1>3. ASSUME disk' = [disk EXCEPT ![f] = << >>], opener' = [opener EXCEPT ![f] = k],
             Gone(k), UNCHANGED reply
      PROVE  IInv'
  <2>1. ChildFrame(k) /\ child'[k] = "gone" /\ fname'[k] = Stray
    BY <1>0, <1>3, GoneFacts
  <2>2. /\ disk' \in [Files -> Seq(Entries) \cup {Nothing}] /\ opener' \in [Files -> Conns \cup {Nothing}]
        /\ FileInv'
        /\ \A j \in Conns : j # k => \A w \in Lengths(j) : Filed(j, w) => Filed(j, w)'
    BY <1>0, <1>1, <1>3, <2>1, EmptyFiles
  <2>3. Shape'
    BY <1>0, <1>3, <2>2, GoneFacts
  <2>4. ChildMoves(k)
    BY <1>0, <2>1 DEF ChildMoves, Early, Late, Filing
  <2>5. QED
    BY <2>1, <2>2, <2>3, <2>4, GoneStream, ChildKeeps
<1>4. ASSUME Answer(k, "CANNT_WRT_OUT"), Gone(k), UNCHANGED <<disk, opener>>
      PROVE  IInv'
  BY <1>0, <1>4, GoneKeeps
<1>5. QED
  BY <1>2, <1>3, <1>4 DEF SCreate, f

LEMMA SEndKeeps ==
    ASSUME IInv, NEW k \in Conns, SEnd(k)
    PROVE  IInv'
<1>0. /\ Shape /\ ConnOk(k) /\ StreamOk(k) /\ FileInv /\ child[k] = "data"
  BY DEF IInv, ConnInv, StreamInv, SEnd
<1>1. /\ UNCHANGED <<cpc, todo, sent, used, wopen, stream, reply, fname, bytes, offset, whole, disk, opener>>
      /\ child' = [child EXCEPT ![k] = "stored"] /\ child'[k] = "stored"
  BY <1>0 DEF SEnd, serverRest, clientVars, To, Shape
<1>2. Shape'
  BY <1>0, <1>1 DEF Shape, ChildLabels
<1>3. ChildFrame(k)
  BY <1>0, <1>1 DEF ChildFrame, Shape
<1>4. FileInv' /\ \A j \in Conns : j # k => \A w \in Lengths(j) : Filed(j, w) => Filed(j, w)'
  BY <1>0, <1>1, <1>3, SameFiles DEF Late, FileInv
<1>5. ChildMoves(k)
  BY <1>0, <1>1 DEF ChildMoves, ConnOk, Early, Late, Filing, SEnd, AtEnd, Dry
<1>6. StreamOk(k)'
  <2>1. ASSUME fname[k] = File, whole[k]
        PROVE  \/ Dry(k)' /\ Failed(k)' /\ bytes'[k] = 0 /\ Filed(k, 4)'
               \/ \E w \in Lengths(k) : w >= 4 /\ Under(k, w, 4 + bytes[k])' /\ Filed(k, w)'
    <3>1. \/ Dry(k) /\ Failed(k) /\ bytes[k] = 0 /\ Filed(k, 4)
          \/ \E w \in Lengths(k) : w >= 4 /\ Under(k, w, 4 + bytes[k]) /\ Filed(k, w)
      BY <1>0, <2>1 DEF StreamOk, Filing
    <3>2. (Failed(k)' <=> Failed(k)) /\ (Busy(k)' <=> Busy(k)) /\ Wrote(k[1])' = Wrote(k[1])
      BY <1>1 DEF Failed, Busy, Current, Wrote, gfd
    <3>3. \A w : Filed(k, w)' <=> Filed(k, w)
      BY <1>1 DEF Filed
    <3>4. stream'[k] = stream[k] /\ bytes'[k] = bytes[k] /\ 4 + bytes[k] \in Nat
      BY <1>0, <1>1 DEF Shape
    <3>5. \A w \in Lengths(k) : Under(k, w, 4 + bytes[k]) => Under(k, w, 4 + bytes[k])'
      BY <3>2, <3>4, SameUnder
    <3>6. Dry(k)' <=> Dry(k)
      BY <1>1 DEF Dry
    <3>7. QED
      BY <3>1, <3>2, <3>3, <3>4, <3>5, <3>6
  <2>2. QED
    BY <1>1, <2>1 DEF StreamOk, Filing, Lengths, Under
<1>7. QED
  BY <1>2, <1>3, <1>4, <1>5, <1>6, ChildKeeps

(* What the child writes: contents decoded, in their places, and garbage   *)
(* for what is not contents.                                               *)
LEMMA DecodeFacts ==
    ASSUME Shape, NEW k \in Conns, NEW w \in Lengths(k), Under(k, w, 4 + bytes[k]),
           NEW n \in Nat, n > 0, n <= Len(stream[k])
    PROVE  \A i \in 1 .. n :
               decode(SubSeq(stream[k], 1, n), bytes[k])[i]
                   = IF bytes[k] + i <= w - 4 THEN Contents[k[1]][bytes[k] + i] ELSE Garbage
<1> DEFINE s == stream[k]
           b == bytes[k]
           c == k[1]
           x == SubSeq(s, 1, n)
<1>0. /\ s \in Seq(Nat) /\ Len(s) \in Nat /\ n <= Len(s) /\ b \in Nat /\ w \in Nat
      /\ c \in Clients /\ Byte \in Nat /\ Size(c) \in Nat
  BY ConnFacts, LengthsFacts, ConstantFacts DEF Shape
<1>1. \A j \in 1 .. Len(s) : Right(k, w, (4 + b) + j, s[j])
  BY DEF Under
<1>2. w <= 4 + Size(c)
  BY <1>0 DEF Lengths
<1>3. c = k[1]
  OBVIOUS
<1>4. x = SubSeq(s, 1, n)
  OBVIOUS
<1> HIDE DEF s, b, c
<1>5. Len(x) = n /\ x \in Seq(Nat) /\ \A j \in 1 .. n : x[j] = s[j]
  <2>1. \A j \in 1 .. n : s[j] \in Nat
    BY <1>0
  <2>2. /\ SubSeq(s, 1, n) \in Seq(Nat)
        /\ Len(SubSeq(s, 1, n)) = IF 1 <= n THEN n - 1 + 1 ELSE 0
        /\ \A j \in 1 .. n - 1 + 1 : SubSeq(s, 1, n)[j] = s[1 + j - 1]
    BY <2>1, SubSeqProperties
  <2>3. QED
    BY <2>2
<1> HIDE DEF x
<1>6. DOMAIN x = 1 .. n
  BY <1>5
<1>7. ASSUME NEW i \in 1 .. n
      PROVE  decode(x, b)[i] = IF b + i <= w - 4 THEN Contents[c][b + i] ELSE Garbage
  <2>0. i \in Nat /\ i >= 1 /\ i \in 1 .. Len(s)
    BY <1>0
  <2> DEFINE p == b + i
             q == 4 + b + i
  <2>1. p \in Nat /\ q \in Nat /\ q = 4 + p /\ p >= 1 /\ i - 1 + b = p - 1
    BY <1>0, <2>0
  <2>2. Right(k, w, q, s[i])
    BY <1>1, <2>0
  <2>3. decode(x, b)[i] = IF s[i] < Byte THEN (s[i] - Key(i - 1 + b)) % Byte ELSE Garbage
    BY <1>5, <1>6 DEF decode
  <2>4. decode(x, b)[i] = IF s[i] < Byte THEN (s[i] - Key(p - 1)) % Byte ELSE Garbage
    BY <2>1, <2>3
  <2>5. s[i] \in Nat
    BY <1>0, <2>0
  <2>6. p = b + i
    OBVIOUS
  <2> HIDE DEF p, q
  <2>7. CASE p <= w - 4
    <3>1. q <= w /\ q > 4 /\ q - 4 = p /\ p \in 1 .. Size(c)
      BY <1>0, <1>2, <2>1, <2>7
    <3>2. s[i] = Code(c, p)
      BY <1>3, <2>2, <3>1 DEF Right
    <3>3. s[i] < Byte /\ (s[i] - Key(p - 1)) % Byte = Contents[c][p]
      <4>1. Code(c, p) \in 0 .. Byte - 1 /\ (Code(c, p) - Key(p - 1)) % Byte = Contents[c][p]
        BY <1>0, <3>1, CodeFacts
      <4>2. s[i] \in 0 .. Byte - 1 /\ (s[i] - Key(p - 1)) % Byte = Contents[c][p]
        BY <3>2, <4>1
      <4>3. QED
        BY <1>0, <4>2
    <3>4. QED
      BY <2>4, <2>6, <2>7, <3>3
  <2>8. CASE ~(p <= w - 4)
    <3>1. ~(q <= w)
      BY <1>0, <2>1, <2>8
    <3>2. s[i] >= Byte
      BY <2>2, <3>1 DEF Right
    <3>3. ~(s[i] < Byte)
      BY <1>0, <2>5, <3>2
    <3>4. QED
      BY <2>4, <2>6, <2>8, <3>3
  <2>9. QED
    BY <2>7, <2>8
<1>8. QED
  BY <1>7 DEF s, b, c, x

LEMMA DecodeRange ==
    ASSUME NEW s \in Seq(Nat), NEW n \in Nat, n > 0, n <= Len(s), NEW b \in Nat
    PROVE  \A i \in 1 .. n : decode(SubSeq(s, 1, n), b)[i] \in 0 .. Byte
<1> DEFINE x == SubSeq(s, 1, n)
<1>1. Len(x) = n /\ x \in Seq(Nat)
  <2>1. \A j \in 1 .. n : s[j] \in Nat
    OBVIOUS
  <2>2. /\ SubSeq(s, 1, n) \in Seq(Nat)
        /\ Len(SubSeq(s, 1, n)) = IF 1 <= n THEN n - 1 + 1 ELSE 0
    BY <2>1, SubSeqProperties
  <2>3. QED
    BY <2>2
<1> HIDE DEF x
<1>2. DOMAIN x = 1 .. n
  BY <1>1
<1>3. ASSUME NEW i \in 1 .. n PROVE decode(x, b)[i] \in 0 .. Byte
  <2>1. decode(x, b)[i] = IF x[i] < Byte THEN (x[i] - Key(i - 1 + b)) % Byte ELSE Garbage
    BY <1>2 DEF decode
  <2>2. i - 1 + b \in Nat /\ x[i] \in Nat
    BY <1>1
  <2>3. x[i] - Key(i - 1 + b) \in Int
    BY SMTT(30), <2>2, KeyInt
  <2> DEFINE m == x[i] - Key(i - 1 + b)
  <2>4. m \in Int
    BY <2>3
  <2> HIDE DEF m
  <2>a. Byte \in Nat \ {0}
    BY ConstantFacts
  <2>5. m % Byte \in 0 .. Byte - 1
    BY <2>4, <2>a, ModRange
  <2>6. m % Byte \in 0 .. Byte /\ Garbage \in 0 .. Byte
    BY <2>5, ConstantFacts DEF Garbage
  <2>7. decode(x, b)[i] = IF x[i] < Byte THEN m % Byte ELSE Garbage
    BY <2>1 DEF m
  <2>8. QED
    BY <2>6, <2>7
<1>4. QED
  BY <1>3 DEF x

LEMMA SDataKeeps ==
    ASSUME IInv, OffsetInv, NEW k \in Conns, SData(k)
    PROVE  IInv'
<1> DEFINE f == fname[k]
           b == bytes[k]
           a == offset[k]
<1>0. /\ Shape /\ ConnOk(k) /\ StreamOk(k) /\ FileInv /\ child[k] = "data"
      /\ UNCHANGED <<serverRest, reply, opener>> /\ UNCHANGED <<cpc, todo, sent, used, wopen>>
  BY DEF IInv, ConnInv, StreamInv, SData, serverRest, clientVars
<1>1. /\ f \in Files /\ f = fname[k] /\ b \in Nat /\ b = bytes[k] /\ a \in Nat /\ a = offset[k]
      /\ disk[f] \in Seq(Entries) /\ stream[k] \in Seq(Nat) /\ Len(stream[k]) \in Nat
  BY <1>0 DEF ConnOk, Shape, Filing, FileInv
<1>2. ASSUME NEW n \in 1 .. BUFS, NEW m \in 1 .. n, Read(k, BUFS, n),
             disk' = [disk EXCEPT ![f] = WriteAt(@, a,
                         [i \in 1 .. m |-> <<decode(SubSeq(stream[k], 1, n), b)[i], k>>])],
             bytes' = [bytes EXCEPT ![k] = @ + n], offset' = [offset EXCEPT ![k] = @ + m],
             whole' = [whole EXCEPT ![k] = @ /\ m = n],
             UNCHANGED <<child, fname>>
      PROVE  IInv'
  <2> DEFINE old == disk[f]
             got == decode(SubSeq(stream[k], 1, n), b)
             new == [i \in 1 .. m |-> <<got[i], k>>]
             file == WriteAt(old, a, new)
             size == IF Len(old) > a + Len(new) THEN Len(old) ELSE a + Len(new)
  <2>1. n \in Nat /\ n > 0 /\ n <= Len(stream[k]) /\ m \in Nat /\ m > 0 /\ m <= n
    BY <1>1, <1>2, ConstantFacts DEF Read, Least
  <2>2. stream' = [stream EXCEPT ![k] = SubSeq(stream[k], n + 1, Len(stream[k]))]
    BY <1>2 DEF Read
  <2>3. SubSeq(stream[k], n + 1, Len(stream[k])) \in Seq(Nat)
    BY <1>1, <2>1, ReadFacts
  <2>4. \A i \in 1 .. n : got[i] \in 0 .. Byte
    BY <1>1, <2>1, DecodeRange
  <2>5. \A w \in Lengths(k) : Under(k, w, 4 + b) =>
            \A i \in 1 .. n : got[i] = IF b + i <= w - 4 THEN Contents[k[1]][b + i] ELSE Garbage
    BY <1>0, <2>1, DecodeFacts
  <2>6. disk' = [disk EXCEPT ![f] = file]
    BY <1>2
  <2>7. new = [i \in 1 .. m |-> <<got[i], k>>]
    OBVIOUS
  <2> HIDE DEF got
  <2>8. new \in Seq(Entries) /\ Len(new) = m /\ \A i \in 1 .. m : new[i][1] = got[i] /\ new[i][2] = k
    BY <2>1, <2>4 DEF Entries
  <2>9. <<0, Nothing>> \in Entries
    BY ConstantFacts DEF Entries
  <2> HIDE DEF new
  <2>10. old \in Seq(Entries) /\ Len(old) \in Nat /\ Len(new) \in Nat
    BY <1>1, <2>1, <2>8
  <2>11. size \in Nat /\ size >= Len(old) /\ size >= a + m
         /\ size = IF Len(old) > a + Len(new) THEN Len(old) ELSE a + Len(new)
    BY <1>1, <2>1, <2>8, <2>10
  <2> HIDE DEF old, f, b, a, size
  <2>12. /\ file \in Seq(Entries) /\ Len(file) = size
         /\ \A j \in 1 .. size : file[j] = IF j > a /\ j <= a + Len(new) THEN new[j - a]
                                       ELSE IF j <= Len(old) THEN old[j] ELSE <<0, Nothing>>
    <3>1. a \in Nat /\ old \in Seq(Entries) /\ new \in Seq(Entries) /\ <<0, Nothing>> \in Entries /\ size \in Nat
      BY <1>1, <2>8, <2>9, <2>10, <2>11
    <3>2. size = IF Len(old) > a + Len(new) THEN Len(old) ELSE a + Len(new)
      BY <2>11
    <3>3. file \in Seq(Entries)
      BY <3>1, <3>2, WriteAtFacts
    <3>5. file = [j \in 1 .. size |-> IF j > a /\ j <= a + Len(new) THEN new[j - a]
                                       ELSE IF j <= Len(old) THEN old[j] ELSE <<0, Nothing>>]
      BY <3>2 DEF WriteAt
    <3> HIDE DEF file
    <3>4. Len(file) = size
      BY <3>1, <3>3, <3>5
    <3>6. QED
      BY <3>4, <3>3, <3>5
  <2>13. old = disk[f]
    BY DEF old
  <2> HIDE DEF file
  \* What the file's entries were.
  <2>14. ASSUME NEW j \in 1 .. Len(file)
         PROVE  \/ j > a /\ j <= a + m /\ j - a \in 1 .. m /\ file[j][1] = got[j - a] /\ file[j][2] = k
                \/ j \in 1 .. Len(old) /\ file[j] = old[j]
                \/ file[j][2] = Nothing
    <3>0. j \in Nat /\ j >= 1 /\ j \in 1 .. size
      BY <2>11, <2>12
    <3>1. CASE j > a /\ j <= a + m
      <4>1. j - a \in 1 .. m /\ file[j] = new[j - a]
        BY SMTT(30), <1>1, <2>1, <2>8, <2>12, <3>0, <3>1
      <4>2. QED
        BY <2>8, <3>1, <4>1
    <3>2. CASE ~(j > a /\ j <= a + m)
      BY <2>8, <2>10, <2>12, <3>0, <3>2
    <3>3. QED
      BY <3>1, <3>2
  <2>15. /\ disk'[f] = file /\ \A g \in Files : g # f => disk'[g] = disk[g]
         /\ bytes'[k] = b + n /\ \A j \in Conns : j # k => bytes'[j] = bytes[j]
         /\ offset'[k] = a + m /\ \A j \in Conns : j # k => offset'[j] = offset[j]
         /\ whole'[k] = (whole[k] /\ m = n) /\ \A j \in Conns : j # k => whole'[j] = whole[j]
    BY <1>0, <1>1, <1>2, <2>6 DEF Shape
  <2>16. Shape'
    <3>1. disk' \in [Files -> Seq(Entries) \cup {Nothing}]
      BY <1>0, <1>1, <2>6, <2>12 DEF Shape
    <3>2. stream' \in [Conns -> Seq(Nat)]
      BY <1>0, <2>2, <2>3 DEF Shape
    <3>3. bytes' \in [Conns -> Nat] /\ offset' \in [Conns -> Nat] /\ whole' \in [Conns -> BOOLEAN]
      BY <1>0, <1>2, <2>1 DEF Shape
    <3>4. QED
      BY <1>0, <1>2, <3>1, <3>2, <3>3 DEF Shape
  <2>17. ChildFrame(k)
    BY <1>0, <1>2, <2>2, <2>15 DEF ChildFrame, Shape
  <2>18. FileInv'
    <3>0. File \in Files
      BY DEF Files
    <3>1. ASSUME NEW j \in Conns, child'[j] \in {"data", "stored"} PROVE disk'[fname'[j]] \in Seq(Entries)
      <4>1. disk[fname[j]] \in Seq(Entries) /\ fname[j] # "dir"
        BY <1>0, <1>2, <3>1 DEF FileInv, IInv, ConnInv, ConnOk, Filing
      <4>2. fname[j] \in Files
        BY <1>0, <4>1 DEF Shape
      <4>3. QED
        BY <1>2, <2>12, <2>15, <4>1, <4>2
    <3>2. ASSUME NEW j \in Conns, opener'[File] = j
          PROVE  /\ child'[j] \in Late /\ disk'[File] \in Seq(Entries)
                 /\ child'[j] # "gone" => fname'[j] = File /\ offset'[j] <= Len(disk'[File])
      <4>1. /\ child[j] \in Late /\ disk[File] \in Seq(Entries)
            /\ child[j] # "gone" => fname[j] = File /\ offset[j] <= Len(disk[File])
        BY <1>0, <3>2 DEF FileInv
      <4>2. CASE f = File
        <5>1. disk'[File] = file /\ old = disk[File]
          BY <2>13, <2>15, <4>2
        <5>2. j = k => offset'[j] <= Len(file)
          BY <1>1, <2>1, <2>11, <2>12, <2>15
        <5>3. offset[j] \in Nat
          BY <1>0 DEF Shape
        <5>4. j # k /\ child[j] # "gone" => offset'[j] <= Len(file)
          BY <2>10, <2>11, <2>12, <2>15, <4>1, <5>1, <5>3
        <5>5. QED
          BY <1>2, <2>12, <4>1, <5>1, <5>2, <5>4
      <4>3. CASE f # File
        <5>1. j # k
          BY <1>0, <1>1, <4>1, <4>3
        <5>2. QED
          BY <1>2, <2>15, <3>0, <4>1, <4>3, <5>1
      <4>4. QED
        BY <4>2, <4>3
    <3>3. QED
      BY <3>1, <3>2 DEF FileInv
  <2>19. ASSUME NEW i \in Conns, i # k, NEW w \in Lengths(i), Filed(i, w) PROVE Filed(i, w)'
    <3>1. opener' = opener /\ bytes'[i] = bytes[i] /\ File \in Files
      BY <1>0, <2>15, <2>19 DEF Files
    <3>2. CASE f = File
      <4>1. disk'[File] = file /\ old = disk[File]
        BY <2>13, <2>15, <3>2
      <4>2. \A j \in 1 .. Len(file) : file[j][2] = i => j \in 1 .. Len(old) /\ file[j] = old[j]
        BY <2>14, <2>19, ConnFacts
      <4>3. QED
        BY <2>19, <3>1, <4>1, <4>2 DEF Filed
    <3>3. CASE f # File
      BY <2>15, <2>19, <3>1, <3>3 DEF Filed
    <3>4. QED
      BY <3>2, <3>3
  <2>20. ChildMoves(k)
    BY <1>0, <1>2 DEF ChildMoves, ConnOk, Early, Late, Filing
  <2>21. StreamOk(k)'
    <3>1. ASSUME fname[k] = File, whole[k], m = n
          PROVE  \E w \in Lengths(k) : w >= 4 /\ Under(k, w, 4 + bytes[k])' /\ Filed(k, w)'
      <4>1. stream[k] # << >>
        <5>1. stream[k] = << >> => Len(stream[k]) = 0
          OBVIOUS
        <5>2. QED
          BY <2>1, <5>1
      <4>2. PICK w \in Lengths(k) : w >= 4 /\ Under(k, w, 4 + b) /\ Filed(k, w)
        BY <1>0, <1>1, <3>1, <4>1 DEF StreamOk, Filing, Dry
      <4> DEFINE t == SubSeq(stream[k], n + 1, Len(stream[k]))
      <4>a. stream' = [stream EXCEPT ![k] = t]
        BY <2>2
      <4>o. PICK o \in Nat : o = 4 + b
        BY <1>1
      <4>b. Under(k, w, o)
        BY <4>2, <4>o
      <4> HIDE DEF t
      <4>c. stream'[k] = t
        BY <1>0, <4>a DEF Shape
      <4>3. stream'[k] = SubSeq(stream[k], n + 1, Len(stream[k]))
        BY <4>c DEF t
      <4>d. 4 + bytes'[k] = o + n
        BY <1>1, <2>1, <2>15, <4>o
      <4>4. Under(k, w, o + n)'
        BY <1>0, <2>1, <4>b, <4>3, ReadUnder
      <4>6. Under(k, w, 4 + bytes[k])'
        BY <4>4, <4>d DEF Under
      <4>7. Filed(k, w)'
        <5>1. SUFFICES ASSUME opener'[File] = k, NEW j \in 1 .. Len(disk'[File]), disk'[File][j][2] = k
                       PROVE  /\ j <= bytes'[k]
                              /\ disk'[File][j][1] = IF j <= w - 4 THEN Contents[k[1]][j] ELSE Garbage
          BY DEF Filed
        <5>0. a = b
          BY <1>0, <1>1, <3>1 DEF OffsetInv, OffsetOk
        <5>2. f = File /\ opener[File] = k
          BY <1>0, <1>1, <3>1, <5>1
        <5>3. disk'[File] = file /\ old = disk[File] /\ bytes'[k] = b + n
          BY <2>13, <2>15, <5>2
        <5>4. j \in 1 .. Len(file) /\ file[j][2] = k /\ j \in Nat
          BY <2>11, <2>12, <5>1, <5>3
        <5>5. CASE j > a /\ j <= a + m /\ j - a \in 1 .. m /\ file[j][1] = got[j - a]
          <6>0. j - b \in 1 .. n /\ file[j][1] = got[j - b]
            BY <3>1, <5>0, <5>5
          <6>1. got[j - b] = IF b + (j - b) <= w - 4 THEN Contents[k[1]][b + (j - b)] ELSE Garbage
            BY <2>5, <4>2, <6>0
          <6>2. b + (j - b) = j
            BY <1>1, <5>4
          <6>3. QED
            BY <3>1, <5>0, <5>3, <5>5, <6>0, <6>1, <6>2
        <5>6. CASE j \in 1 .. Len(old) /\ file[j] = old[j]
          <6>1. j <= b /\ old[j][1] = IF j <= w - 4 THEN Contents[k[1]][j] ELSE Garbage
            BY <1>1, <4>2, <5>2, <5>3, <5>4, <5>6 DEF Filed
          <6>2. j <= b + n
            BY <1>1, <2>1, <5>4, <6>1
          <6>3. QED
            BY <5>3, <5>6, <6>1, <6>2
        <5>7. QED
          BY <2>14, <3>1, <5>0, <5>4, <5>5, <5>6, ConnFacts
      <4>8. QED
        BY <4>2, <4>6, <4>7
    <3>2. QED
      BY <1>0, <1>2, <2>15, <3>1 DEF StreamOk, Filing, Lengths, Under
  <2>22. QED
    BY <2>16, <2>17, <2>18, <2>19, <2>20, <2>21, ChildKeeps
<1>3. CASE stream[k] # << >> /\ Gone(k) /\ UNCHANGED disk
  BY <1>0, <1>3, GoneKeeps
<1>4. QED
  BY <1>2, <1>3 DEF SData

-----------------------------------------------------------------------------
(* The specification. *)

LEMMA InitInv == Init => IInv
<1> SUFFICES ASSUME Init PROVE IInv
  OBVIOUS
<1>0. /\ cpc = [c \in Clients |-> "connect"] /\ sent = [c \in Clients |-> 0] /\ used = [c \in Clients |-> 0]
      /\ stream = [k \in Conns |-> << >>] /\ wopen = [k \in Conns |-> FALSE]
      /\ reply = [k \in Conns |-> "none"] /\ child = [k \in Conns |-> "none"]
      /\ fname = [k \in Conns |-> Stray] /\ bytes = [k \in Conns |-> 0] /\ offset = [k \in Conns |-> 0] /\ whole = [k \in Conns |-> TRUE]
      /\ disk = [f \in Files |-> Nothing] /\ opener = [f \in Files |-> Nothing]
  BY DEF Init, Files
<1>1. todo = [c \in Clients |-> todo[c]]
  BY DEF Init
<1>2. Shape
  <2>1. << >> \in Seq(Nat) /\ 0 \in 0 .. MaxConns
    BY ConstantFacts
  <2>2. /\ sent \in [Clients -> Nat] /\ used \in [Clients -> 0 .. MaxConns]
        /\ bytes \in [Conns -> Nat] /\ offset \in [Conns -> Nat]
    BY <1>0, <2>1
  <2>3. cpc \in [Clients -> ClientLabels] /\ child \in [Conns -> ChildLabels]
    BY <1>0 DEF ClientLabels, ChildLabels
  <2>4. stream \in [Conns -> Seq(Nat)] /\ wopen \in [Conns -> BOOLEAN] /\ whole \in [Conns -> BOOLEAN]
    BY <1>0, <2>1
  <2>5. /\ fname \in [Conns -> Files \cup {"dir"}] /\ disk \in [Files -> Seq(Entries) \cup {Nothing}]
        /\ opener \in [Files -> Conns \cup {Nothing}]
    BY <1>0 DEF Files
  <2>6. QED
    BY <1>0, <1>1, <2>2, <2>3, <2>4, <2>5 DEF Shape
<1>3. ClientInv
  BY <1>0 DEF ClientInv, ClientOk, Open
<1>4. ASSUME NEW k \in Conns PROVE ConnOk(k) /\ NameOk(k) /\ StreamOk(k) /\ opener[File] # k
  <2>1. k[1] \in Clients /\ k[2] \in Nat /\ k[2] >= 1 /\ k # Nothing
    BY ConnFacts
  <2>2. ConnOk(k)
    BY <1>0, <2>1 DEF ConnOk, Filing
  <2>3. NameOk(k) /\ StreamOk(k)
    BY <1>0, <2>1 DEF NameOk, StreamOk, Filing
  <2>4. opener[File] = Nothing
    BY <1>0 DEF Files
  <2>5. QED
    BY <2>1, <2>2, <2>3, <2>4
<1>5. FileInv
  BY <1>0, <1>4 DEF FileInv
<1>6. QED
  BY <1>2, <1>3, <1>4, <1>5 DEF IInv, ConnInv, NameInv, StreamInv

LEMMA StutterKeeps ==
    ASSUME IInv, UNCHANGED vars
    PROVE  IInv'
<1>0. /\ Shape /\ ClientInv /\ ConnInv /\ FileInv /\ NameInv /\ StreamInv
      /\ UNCHANGED <<cpc, todo, sent, used, stream, wopen, reply, child, fname, bytes, offset, whole, disk, opener>>
  BY DEF IInv, vars, clientVars, wires, serverVars
<1>1. Shape' /\ FileInv'
  BY <1>0 DEF Shape, FileInv
<1>2. ClientInv' /\ ConnInv' /\ NameInv'
  BY <1>0 DEF ClientInv, ClientOk, ConnInv, ConnOk, NameInv, NameOk, gfd, Dry, Current
<1>3. ASSUME NEW k \in Conns PROVE StreamOk(k)'
  <2>1. StreamOk(k) /\ bytes[k] \in Nat
    BY <1>0 DEF StreamInv, Shape
  <2>2. (Failed(k)' <=> Failed(k)) /\ (Busy(k)' <=> Busy(k)) /\ Wrote(k[1])' = Wrote(k[1])
    BY <1>0 DEF Failed, Busy, Current, Wrote, gfd
  <2>3. \A w \in Lengths(k) : Filed(k, w) => Filed(k, w)'
    BY <1>0 DEF Filed
  <2>4. QED
    BY <1>0, <2>1, <2>2, <2>3, SameStream
<1>4. QED
  BY <1>1, <1>2, <1>3 DEF IInv, StreamInv

LEMMA ChildStepKeeps ==
    ASSUME IInv, OffsetInv, NEW k \in Conns, ChildStep(k)
    PROVE  IInv'
  BY SNameKeeps, SModesKeeps, SMkdirKeeps, SExistsKeeps, SCreateKeeps, SDataKeeps, SEndKeeps DEF ChildStep

LEMMA StepInv == IInv /\ OffsetInv /\ [Next]_vars => IInv'
<1> SUFFICES ASSUME IInv, OffsetInv, [Next]_vars PROVE IInv'
  OBVIOUS
<1>1. CASE \E c \in Clients : ClientStep(c) \/ Interrupt(c) \/ Kill(c)
  BY <1>1, ClientStepKeeps
<1>2. CASE \E k \in Conns : ChildStep(k)
  BY <1>2, ChildStepKeeps
<1>3. CASE UNCHANGED vars
  BY <1>3, StutterKeeps
<1>4. QED
  BY <1>1, <1>2, <1>3 DEF Next

LEMMA OffsetInit == Init => OffsetInv
  BY DEF Init, OffsetInv, OffsetOk

LEMMA OffsetStep == IInv /\ OffsetInv /\ [Next]_vars => OffsetInv'
<1> SUFFICES ASSUME IInv, OffsetInv, [Next]_vars, NEW h \in Conns PROVE OffsetOk(h)'
  BY DEF OffsetInv
<1>0. /\ Shape /\ OffsetOk(h)
      /\ child[h] \in Early => bytes[h] = 0 /\ offset[h] = 0
  BY DEF IInv, OffsetInv, OffsetOk, ConnInv, ConnOk
<1>a. UNCHANGED <<child, bytes, offset, whole>> => OffsetOk(h)'
  BY <1>0 DEF OffsetOk
<1>1. ASSUME NEW c \in Clients, ClientStep(c) \/ Interrupt(c) \/ Kill(c) PROVE OffsetOk(h)'
  <2>1. CASE CConnect(c)
    <3>1. UNCHANGED <<bytes, offset, whole>> /\ (child' = child \/ child' = [child EXCEPT ![gfd(c)'] = "name"])
      BY <2>1 DEF CConnect
    <3>2. CASE child' = child
      BY <1>a, <3>1, <3>2
    <3>3. CASE child' = [child EXCEPT ![gfd(c)'] = "name"] /\ gfd(c)' # h
      <4>1. child'[h] = child[h]
        BY <1>0, <3>3 DEF Shape
      <4>2. QED
        BY <1>0, <3>1, <4>1 DEF OffsetOk
    <3>4. CASE gfd(c)' = h /\ child' # child
      <4>1. used[c] < MaxConns /\ used' = [used EXCEPT ![c] = @ + 1]
        BY <2>1, <3>4 DEF CConnect
      <4>2. h = <<c, used[c] + 1>> /\ used[c] \in Nat
        BY <1>0, <3>4, <4>1 DEF gfd, Shape
      <4>3. h[2] > used[h[1]]
        BY <4>2
      <4>4. child[h] = "none"
        BY <4>3 DEF IInv, ConnInv, ConnOk
      <4>5. offset[h] = 0 /\ bytes[h] = 0
        BY <1>0, <4>4 DEF Early
      <4>6. QED
        BY <3>1, <4>5 DEF OffsetOk
    <3>5. QED
      BY <3>1, <3>2, <3>3, <3>4
  <2>2. CASE ~CConnect(c)
    BY <1>1, <1>a, <2>2
       DEF ClientStep, CSpare, CName, CModes, CAnswer, CData, CEnd, Interrupt, Kill, serverVars
  <2>3. QED
    BY <2>1, <2>2
<1>2. ASSUME NEW k \in Conns, ChildStep(k) PROVE OffsetOk(h)'
  <2>a. ASSUME Gone(k) PROVE OffsetOk(h)'
    BY <1>0, <2>a DEF Gone, To, Shape, OffsetOk, Early
  <2>b. ASSUME NEW l \in ChildLabels, To(k, l), bytes' = bytes, offset' = offset,
               whole' = whole \/ \E x \in BOOLEAN : whole' = [whole EXCEPT ![k] = x],
               child[k] \in Early \/ (l \notin Early /\ whole' = whole)
        PROVE  OffsetOk(h)'
    BY <1>0, <2>b DEF To, Shape, OffsetOk, Early
  <2>1. CASE SName(k)
    BY <2>1, <2>a, <2>b DEF SName, ChildLabels, Early
  <2>2. CASE SModes(k)
    <3>1. /\ child[k] = "modes" /\ UNCHANGED <<bytes, offset>>
          /\ To(k, "mkdir") \/ To(k, "exists")
          /\ whole' = whole \/ \E x \in BOOLEAN : whole' = [whole EXCEPT ![k] = x]
      <4>1. ASSUME NEW n \in 1 .. Len(MODES), whole' = [whole EXCEPT ![k] = @ /\ n = Len(MODES)]
            PROVE  \E x \in BOOLEAN : whole' = [whole EXCEPT ![k] = x]
        BY <4>1
      <4>2. QED
        BY <2>2, <4>1 DEF SModes
    <3>2. QED
      BY <2>b, <3>1 DEF ChildLabels, Early
  <2>3. CASE SMkdir(k) \/ SExists(k) \/ SCreate(k)
    BY <2>3, <2>a, <2>b DEF SMkdir, SExists, SCreate, ChildLabels, Early
  <2>4. CASE SData(k)
    <3>1. ASSUME NEW n \in 1 .. BUFS, NEW m \in 1 .. n,
                 bytes' = [bytes EXCEPT ![k] = @ + n], offset' = [offset EXCEPT ![k] = @ + m],
                 whole' = [whole EXCEPT ![k] = @ /\ m = n], child' = child
          PROVE  OffsetOk(h)'
      <4>1. CASE h = k
        BY <1>0, <2>4, <3>1, <4>1 DEF Shape, OffsetOk, SData, Early
      <4>2. CASE h # k
        BY <1>0, <3>1, <4>2 DEF Shape, OffsetOk
      <4>3. QED
        BY <4>1, <4>2
    <3>2. QED
      BY <2>4, <2>a, <3>1 DEF SData
  <2>5. CASE SEnd(k)
    BY <2>5, <2>b DEF SEnd, ChildLabels, Early
  <2>6. QED
    BY <1>2, <2>1, <2>2, <2>3, <2>4, <2>5 DEF ChildStep
<1>3. CASE UNCHANGED vars
  BY <1>3, <1>a DEF vars, serverVars
<1>4. QED
  BY <1>1, <1>2, <1>3 DEF Next

\* The first n bytes of a file, and perhaps ERR read as contents.
LEMMA Prefix ==
    ASSUME NEW c \in Clients, NEW n \in 0 .. Size(c), NEW v \in Seq(Nat),
           \A i \in 1 .. Len(v) : v[i] = IF i <= n THEN Contents[c][i] ELSE Garbage
    PROVE  /\ Len(v) = n => v = SubSeq(Contents[c], 1, n)
           /\ Len(v) = n /\ n = Size(c) => v = Contents[c]
           /\ Len(v) = n + 2 => v = SubSeq(Contents[c], 1, n) \o <<Garbage, Garbage>>
<1> DEFINE s == Contents[c]
           p == SubSeq(s, 1, n)
           g == <<Garbage, Garbage>>
<1>0. /\ Size(c) \in Nat /\ n \in Nat /\ n <= Size(c) /\ s \in Seq(0 .. Byte - 1) /\ Len(s) = Size(c)
      /\ \A j \in 1 .. Size(c) : s[j] \in 0 .. Byte - 1
  BY CodeFacts DEF Size
<1>1. \A i \in 1 .. Len(v) : v[i] = IF i <= n THEN s[i] ELSE Garbage
  OBVIOUS
<1> HIDE DEF s
<1>2. Byte \in Nat /\ Garbage \in Nat
  BY ConstantFacts DEF Garbage
<1>3. s \in Seq(Nat)
  BY <1>0, <1>2
<1>4. p \in Seq(Nat) /\ Len(p) = n /\ \A j \in 1 .. n : p[j] = s[j]
  <2>1. \A j \in 1 .. n : s[j] \in Nat
    BY <1>0, <1>3
  <2>2. /\ SubSeq(s, 1, n) \in Seq(Nat)
        /\ Len(SubSeq(s, 1, n)) = IF 1 <= n THEN n - 1 + 1 ELSE 0
        /\ \A j \in 1 .. n - 1 + 1 : SubSeq(s, 1, n)[j] = s[1 + j - 1]
    BY <1>0, <2>1, SubSeqProperties
  <2>3. QED
    BY <1>0, <2>2
<1>5. g \in Seq(Nat) /\ Len(g) = 2 /\ g[1] = Garbage /\ g[2] = Garbage
  BY <1>2
<1> HIDE DEF p, g
<1>6. ASSUME Len(v) = n PROVE v = p
  <2>1. ASSUME NEW i \in 1 .. n PROVE v[i] = p[i]
    <3>1. i <= n /\ i \in 1 .. Len(v)
      BY <1>0, <1>6
    <3>2. v[i] = s[i] /\ p[i] = s[i]
      BY <1>1, <1>4, <3>1
    <3>3. QED
      BY <3>2
  <2>2. QED
    BY <1>4, <1>6, <2>1, SeqEqual
<1>7. ASSUME Len(v) = n, n = Size(c) PROVE v = s
  <2>1. \A i \in 1 .. n : v[i] = s[i]
    BY <1>0, <1>1, <1>7
  <2>2. QED
    BY <1>0, <1>3, <1>7, <2>1, SeqEqual
<1>8. ASSUME Len(v) = n + 2 PROVE v = p \o g
  <2> DEFINE q == p \o g
  <2>1. q \in Seq(Nat) /\ Len(q) = n + 2 /\ \A i \in 1 .. n + 2 : q[i] = IF i <= n THEN p[i] ELSE g[i - n]
    <3>1. /\ p \o g \in Seq(Nat) /\ Len(p \o g) = Len(p) + Len(g)
          /\ \A i \in 1 .. Len(p) + Len(g) : (p \o g)[i] = IF i <= Len(p) THEN p[i] ELSE g[i - Len(p)]
      BY <1>4, <1>5, ConcatProperties
    <3>2. QED
      BY <1>4, <1>5, <3>1
  <2> HIDE DEF q
  <2>2. ASSUME NEW i \in 1 .. n + 2 PROVE v[i] = q[i]
    <3>1. CASE i <= n
      BY <1>0, <1>1, <1>4, <1>8, <2>1, <3>1
    <3>2. CASE ~(i <= n)
      <4>1. i - n = 1 \/ i - n = 2
        BY <1>0, <3>2
      <4>2. q[i] = Garbage
        BY <1>5, <2>1, <3>2, <4>1
      <4>3. QED
        BY <1>1, <1>8, <3>2, <4>2
    <3>3. QED
      BY <3>1, <3>2
  <2>3. v = q
    BY <1>8, <2>1, <2>2, SeqEqual
  <2>4. QED
    BY <2>3 DEF q
<1>9. QED
  BY <1>6, <1>7, <1>8 DEF p, s, g

LEMMA InvStored == IInv /\ OffsetInv => StoredAsSent
<1> DEFINE k == opener[File]
           d == disk[File]
           v == Values(d)
           b == bytes[k]
<1> SUFFICES ASSUME IInv, OffsetInv, k # Nothing, child[k] = "stored", whole[k],
                    \A i \in DOMAIN d : d[i][2] = k
             PROVE  \/ v = Contents[k[1]]
                    \/ /\ cpc[k[1]] = "failed" /\ k = gfd(k[1])
                       /\ \E n \in 0 .. Len(Contents[k[1]]) :
                             v \in {SubSeq(Contents[k[1]], 1, n), SubSeq(Contents[k[1]], 1, n) \o <<Garbage, Garbage>>}
  BY DEF StoredAsSent
<1>0. Shape /\ FileInv /\ k \in Conns
  BY DEF IInv, Shape, Files
<1>1. PICK h \in Conns : h = k
  BY <1>0
<1>2. ConnOk(h) /\ StreamOk(h) /\ child[h] = "stored" /\ whole[h] /\ opener[File] = h
  BY <1>1 DEF IInv, ConnInv, StreamInv
<1>3. d \in Seq(Entries) /\ fname[h] = File /\ bytes[h] <= Len(d) /\ bytes[h] \in Nat /\ Len(d) \in Nat
  BY <1>0, <1>2 DEF FileInv, Shape, OffsetInv, OffsetOk
<1>4. Dry(h) /\ ~Busy(h) /\ Len(stream[h]) = 0
  BY <1>2, OpenFacts DEF ConnOk, Dry
<1> DEFINE c == h[1]
<1>5. c \in Clients /\ Size(c) \in Nat /\ Lengths(h) \subseteq Nat
  BY ConnFacts, LengthsFacts
<1>6. DOMAIN d = 1 .. Len(d) /\ v = [i \in 1 .. Len(d) |-> d[i][1]]
  BY <1>3 DEF Values
<1>7. \A i \in 1 .. Len(d) : d[i][2] = h /\ d[i][1] \in Nat
  <2>1. ASSUME NEW i \in 1 .. Len(d) PROVE d[i][2] = h /\ d[i][1] \in Nat
    <3>1. d[i] \in Entries
      BY <1>3
    <3>2. d[i][1] \in 0 .. Byte
      BY <3>1 DEF Entries
    <3>3. QED
      BY <1>1, <1>6, <3>2, ConstantFacts
  <2>2. QED
    BY <2>1
<1>8. v \in Seq(Nat) /\ Len(v) = Len(d) /\ \A i \in 1 .. Len(d) : v[i] = d[i][1]
  BY <1>3, <1>6, <1>7
<1>9. k[1] = c
  BY <1>1
<1>10. d = disk[File]
  OBVIOUS
<1> HIDE DEF v, d, k, b
\* All of it is the child's own.
<1>11. ASSUME NEW w \in Lengths(h), Filed(h, w)
       PROVE  /\ Len(v) = bytes[h]
              /\ \A i \in 1 .. Len(v) : v[i] = IF i <= w - 4 THEN Contents[c][i] ELSE Garbage
  <2>1. \A i \in 1 .. Len(d) : i <= bytes[h] /\ d[i][1] = IF i <= w - 4 THEN Contents[c][i] ELSE Garbage
    BY <1>2, <1>7, <1>10, <1>11 DEF Filed
  <2>2. Len(d) <= bytes[h]
    BY <1>3, <2>1
  <2>3. QED
    BY <1>3, <1>8, <2>1, <2>2
<1>12. Failed(h) => cpc[c] = "failed" /\ h = gfd(c)
  BY DEF Failed, Current
<1>13. Size(c) = Len(Contents[c])
  BY DEF Size
<1> HIDE DEF c
<1>14. CASE Failed(h) /\ bytes[h] = 0 /\ Filed(h, 4)
  <2>1. /\ Len(v) = 0
        /\ \A i \in 1 .. Len(v) : v[i] = IF i <= 0 THEN Contents[c][i] ELSE Garbage
    BY <1>11, <1>14, LengthsFacts
  <2>2. v = SubSeq(Contents[c], 1, 0) /\ 0 \in 0 .. Size(c)
    BY <1>5, <1>8, <2>1, Prefix
  <2>3. QED
    BY <1>1, <1>9, <1>12, <1>13, <1>14, <2>2
<1>15. CASE \E w \in Lengths(h) : w >= 4 /\ Under(h, w, 4 + bytes[h]) /\ Filed(h, w)
  <2>1. PICK w \in Lengths(h) : w >= 4 /\ Under(h, w, 4 + bytes[h]) /\ Filed(h, w)
    BY <1>15
  <2> DEFINE n == w - 4
  <2>2. n \in 0 .. Size(c) /\ w = 4 + n /\ n \in Nat
    BY <1>5, <2>1 DEF Lengths, c
  <2>3. bytes[h] = n \/ (bytes[h] = n + 2 /\ Failed(h))
    BY <1>3, <1>4, <1>5, <2>1, <2>2 DEF Under
  <2>4. ~Failed(h) => n = Size(c)
    <3>1. ~Failed(h) => w = 4 + Size(c)
      BY <1>4, <2>1 DEF Under, c
    <3>2. QED
      BY <1>5, <2>2, <3>1
  <2>5. Len(v) = bytes[h] /\ \A i \in 1 .. Len(v) : v[i] = IF i <= n THEN Contents[c][i] ELSE Garbage
    BY <1>11, <2>1
  <2> HIDE DEF n
  <2>6. /\ Len(v) = n => v = SubSeq(Contents[c], 1, n)
        /\ Len(v) = n /\ n = Size(c) => v = Contents[c]
        /\ Len(v) = n + 2 => v = SubSeq(Contents[c], 1, n) \o <<Garbage, Garbage>>
    BY ZenonT(60), <1>5, <1>8, <2>2, <2>5, Prefix
  <2>7. CASE Failed(h)
    BY <1>1, <1>9, <1>12, <1>13, <2>2, <2>3, <2>5, <2>6, <2>7
  <2>8. CASE ~Failed(h)
    BY <1>9, <2>3, <2>4, <2>5, <2>6, <2>8
  <2>9. QED
    BY <2>7, <2>8
<1>16. QED
  BY <1>2, <1>3, <1>14, <1>15 DEF StreamOk, Filing

(* What the server has stored when it reports a file that came whole (see  *)
(* oftps.c:128-205) is what the client has, or the beginning of it if the  *)
(* client was interrupted, with "!ERR!" behind it at most: whatever the    *)
(* files, the password and the sizes of the reads and writes.              *)
THEOREM StoredIsSent == Spec => []StoredAsSent
<1>1. Spec => [](IInv /\ OffsetInv)
  BY InitInv, OffsetInit, StepInv, OffsetStep, PTL DEF Spec
<1>2. QED
  BY <1>1, InvStored, PTL

=============================================================================
