------------------------ MODULE MprudPlacementProofs ------------------------
(***************************************************************************)
(* Packets stay where they belong in the server's memory, and the pieces   *)
(* received straight into a message survive every header, for any number   *)
(* of paths, messages and bytes.                                           *)
(*                                                                         *)
(* The proof is about distances.  A piece but the last of its chunk is     *)
(* written between the end of the chunk's last piece and the end of the    *)
(* chunk, its header below it; so the header reaches into the next piece   *)
(* of its own chunk, which comes later, or into the last piece's place,    *)
(* which is not shorter than a header, and never into the chunk below.     *)
(***************************************************************************)
EXTENDS MprudPlacement, MprudSplitProofs

-----------------------------------------------------------------------------
(***************************************************************************)
(* The region.                                                             *)
(***************************************************************************)

(* A product grows with either factor. *)
LEMMA ProductGrows ==
  ASSUME NEW a \in Nat, NEW b \in Nat, NEW n \in Nat, a <= b
  PROVE  n * a <= n * b /\ n * a \in Nat /\ n * b \in Nat
<1>1. PICK d \in Nat : b = a + d
  <2>1. b = a + (b - a) /\ b - a \in Nat
    OBVIOUS
  <2> QED
    BY <2>1
<1>2. n * b = n * a + n * d /\ n * a \in Nat /\ n * d \in Nat
  BY <1>1
<1> QED
  BY ONLY <1>2

(* The buffer of a message holds the longest message and a header. *)
LEMMA BufferSize ==
  /\ BufSize \in Nat
  /\ \A s \in Sizes : s + GRH <= BufSize
<1> DEFINE big == CHOOSE s \in Sizes : \A t \in Sizes : s >= t
<1>1. big \in Sizes /\ \A t \in Sizes : big >= t
  BY PlacementAssumption
<1>2. Sizes \subseteq Nat /\ GRH \in Nat
  BY PlacementAssumption
<1>3. BufSize = big + GRH
  BY DEF BufSize
<1> HIDE DEF big
<1> QED
  BY <1>1, <1>2, <1>3

(* The end of the messages' buffers. *)
AppEnd == BufSize * MaxMsgs

(* The parts of the region lie one behind the other. *)
LEMMA Layout ==
  /\ AppEnd \in Nat
  /\ (MTU + GRH) * NumPath \in Nat
  /\ BufSub = AppEnd + GRH
  /\ BufLast = BufSub + (MTU + GRH) * NumPath
  /\ BufRecv = BufLast + MTU + GRH + Control
  /\ RegionLen = BufRecv + Control + GRH
<1> DEFINE w == MTU + GRH
           s == w * NumPath
<1>1. /\ GRH \in Nat /\ MTU \in Nat /\ Control \in Nat /\ NumPath \in Nat
      /\ MaxMsgs \in Nat
  BY PlacementAssumption, MTUAssumption
<1>2. AppEnd \in Nat /\ w \in Nat /\ s \in Nat
  BY <1>1, BufferSize DEF AppEnd
<1>3. (GRH + MTU) * (NumPath + 1) = s + w
  BY <1>1
<1>4. RegionLen = AppEnd + GRH + (s + w) + Control + (Control + GRH)
  BY <1>3 DEF RegionLen, AppEnd
<1>5. BufRecv = AppEnd + GRH + s + w + Control
  BY ONLY <1>1, <1>2, <1>4 DEF BufRecv
<1>6. BufLast = AppEnd + GRH + s
  BY ONLY <1>1, <1>2, <1>5 DEF BufLast
<1>7. BufSub = AppEnd + GRH
  BY ONLY <1>1, <1>2, <1>6 DEF BufSub
<1>8. RegionLen = BufRecv + Control + GRH
  BY ONLY <1>1, <1>2, <1>4, <1>5
<1> QED
  BY ONLY <1>1, <1>2, <1>5, <1>6, <1>7, <1>8

(* The sizes of the messages are a choice for each. *)
Sized == sizes \in [1 .. MaxMsgs -> Sizes]

(* A message, its pieces and its buffer. *)
LEMMA MessageFacts ==
  ASSUME Sized, NEW m \in Msgs
  PROVE  /\ Size(m) \in Nat
         /\ Pieces(m) \in Nat \ {0}
         /\ Last(m) \in 1 .. MTU
         /\ ChunkSize(Size(m), NumPath) \in Nat
         /\ ChunkSize(Size(m), NumPath) = (Pieces(m) - 1) * MTU + Last(m)
         /\ ChunkSize(Size(m), NumPath) * NumPath <= Size(m)
         /\ Pieces(m) = 1 \/ Last(m) >= GRH
         /\ Addr(m) \in Nat
         /\ Addr(m) + Size(m) + GRH <= AppEnd
         /\ Addr(m) + Size(m) + GRH <= BufSize * (m + 1)
<1>1. /\ NumPath \in Nat \ {0} /\ MaxMsgs \in Nat \ {0} /\ GRH \in Nat
      /\ Sizes \subseteq Nat
  BY PlacementAssumption
<1>2. m \in Nat /\ m + 1 \in 1 .. MaxMsgs
  BY <1>1 DEF Msgs
<1>3. Size(m) \in Sizes
  BY <1>2 DEF Sized, Size
<1>4. Size(m) \in Nat /\ Size(m) >= NumPath
  BY <1>1, <1>3, PlacementAssumption
<1>5. Pieces(m) \in Nat \ {0}
  BY <1>1, <1>4, IterEachPositive DEF Pieces
<1>6. /\ Last(m) \in 1 .. MTU /\ ChunkSize(Size(m), NumPath) \in Nat
      /\ ChunkSize(Size(m), NumPath) = (Pieces(m) - 1) * MTU + Last(m)
  BY <1>1, <1>4, ChunkIsPieces DEF Pieces, Last
<1>7. ChunkSize(Size(m), NumPath) * NumPath <= Size(m)
  <2>1. /\ Size(m) = NumPath * (Size(m) \div NumPath) + (Size(m) % NumPath)
        /\ Size(m) % NumPath \in 0 .. NumPath - 1 /\ Size(m) \div NumPath \in Nat
    BY <1>1, <1>4, DivMod
  <2> QED
    BY <1>1, <2>1 DEF ChunkSize
<1>8. Pieces(m) = 1 \/ Last(m) >= GRH
  BY <1>3, PlacementAssumption DEF Pieces, Last
<1>9. BufSize \in Nat /\ Size(m) + GRH <= BufSize
  BY <1>3, BufferSize
<1>10. /\ Addr(m) \in Nat /\ BufSize * (m + 1) = Addr(m) + BufSize
       /\ BufSize * (m + 1) <= AppEnd /\ AppEnd \in Nat
  <2>1. m + 1 \in Nat /\ m + 1 <= MaxMsgs
    BY <1>1, <1>2
  <2>2. BufSize * (m + 1) <= BufSize * MaxMsgs
    BY <1>1, <1>9, <2>1, ProductGrows
  <2>3. BufSize * (m + 1) = BufSize * m + BufSize /\ BufSize * m \in Nat
    BY <1>2, <1>9
  <2> QED
    BY <2>2, <2>3, Layout DEF Addr, AppEnd
<1>11. Addr(m) + Size(m) + GRH <= BufSize * (m + 1)
       /\ Addr(m) + Size(m) + GRH <= AppEnd
  BY ONLY <1>1, <1>4, <1>9, <1>10
<1> QED
  BY <1>4, <1>5, <1>6, <1>7, <1>8, <1>10, <1>11

(* The buffers of two messages are apart. *)
LEMMA BuffersApart ==
  ASSUME Sized, NEW m \in Msgs, NEW n \in Msgs, m < n
  PROVE  Addr(m) + Size(m) + GRH <= Addr(n)
<1>1. BufSize \in Nat /\ m + 1 \in Nat /\ n \in Nat /\ m + 1 <= n
  BY BufferSize DEF Msgs
<1>2. BufSize * (m + 1) <= Addr(n)
  BY <1>1, ProductGrows DEF Addr
<1>3. /\ Addr(m) + Size(m) + GRH <= BufSize * (m + 1)
      /\ Addr(m) \in Nat /\ Size(m) \in Nat
  BY MessageFacts
<1>4. Addr(n) \in Nat /\ BufSize * (m + 1) \in Nat /\ GRH \in Nat
  BY <1>1, MessageFacts, PlacementAssumption
<1> QED
  BY ONLY <1>2, <1>3, <1>4

-----------------------------------------------------------------------------
(***************************************************************************)
(* A piece that is not the last of its chunk.                              *)
(***************************************************************************)

(* The first byte of piece k of the chunk of path p. *)
From(p, m, k) == PieceOf(Size(m), NumPath, k, p).from

(* It is full, it is received behind the room for the header, and it lies   *)
(* between the last piece of its chunk and the end of the chunk.            *)
LEMMA DirectPiece ==
  ASSUME Sized, NEW p \in Paths, NEW m \in Msgs, NEW k \in 0 .. Pieces(m) - 2
  PROVE  /\ PieceOf(Size(m), NumPath, k, p).len = MTU
         /\ From(p, m, k) \in Nat
         /\ PayloadAddr(p, m, k) = Addr(m) + GRH + From(p, m, k)
         /\ From(p, m, k) = ChunkSize(Size(m), NumPath) * (p + 1) - (k + 1) * MTU
         /\ From(p, m, k) >= ChunkSize(Size(m), NumPath) * p + GRH
         /\ From(p, m, k) + MTU <= ChunkSize(Size(m), NumPath) * (p + 1)
         /\ From(p, m, k) + MTU <= Size(m)
<1> DEFINE ch == ChunkSize(Size(m), NumPath)
           n == Pieces(m)
           f == ch * (p + 1) - (k + 1) * MTU
<1>1. /\ NumPath \in Nat \ {0} /\ GRH \in Nat /\ MTU \in Nat \ {0}
      /\ p \in Nat /\ p + 1 <= NumPath /\ p \in 0 .. NumPath - 1
  BY PlacementAssumption, MTUAssumption DEF Paths
<1>2. /\ Size(m) \in Nat /\ n \in Nat \ {0} /\ Last(m) \in 1 .. MTU /\ ch \in Nat
      /\ ch = (n - 1) * MTU + Last(m) /\ ch * NumPath <= Size(m)
      /\ Addr(m) \in Nat
  BY MessageFacts
<1>3. k \in Nat /\ k + 1 <= n - 1 /\ n - 1 \in Nat /\ n # 1 /\ k # n - 1
      /\ k \in 0 .. n - 1
  BY <1>2
<1>4. Last(m) >= GRH
  BY <1>3, MessageFacts
<1>5. MTU * (k + 1) <= MTU * (n - 1) /\ MTU * (k + 1) \in Nat /\ MTU * (n - 1) \in Nat
      /\ MTU * (k + 1) >= MTU
  <2>1. k + 1 \in Nat /\ MTU \in Nat
    BY <1>1, <1>3
  <2>2. MTU * (k + 1) <= MTU * (n - 1) /\ MTU * (k + 1) \in Nat /\ MTU * (n - 1) \in Nat
    BY ONLY <1>3, <2>1, ProductGrows
  <2>3. MTU * (k + 1) = MTU * k + MTU /\ MTU * k \in Nat
    BY <1>1, <1>3
  <2> QED
    BY ONLY <1>1, <2>2, <2>3
<1>6. ch * (p + 1) = ch * p + ch /\ ch * p \in Nat /\ ch * (p + 1) \in Nat
  BY <1>1, <1>2
<1>7. ch * (p + 1) <= Size(m)
  <2>1. p + 1 \in Nat /\ NumPath \in Nat
    BY <1>1
  <2>2. ch * (p + 1) <= ch * NumPath /\ ch * NumPath \in Nat
    BY ONLY <1>1, <1>2, <2>1, ProductGrows
  <2> QED
    BY ONLY <1>2, <1>6, <2>2
<1>8. (k + 1) * MTU = MTU * (k + 1) /\ (n - 1) * MTU = MTU * (n - 1)
  BY <1>1, <1>3
<1>9. /\ f \in Nat /\ f >= ch * p + GRH /\ f + MTU <= ch * (p + 1)
      /\ f + MTU <= Size(m)
  BY ONLY <1>1, <1>2, <1>4, <1>5, <1>6, <1>7, <1>8
<1>10. PieceOf(Size(m), NumPath, k, p) = [from |-> f, len |-> MTU]
  <2>1. /\ (k * NumPath + p) \div NumPath = k
        /\ ~ LastRound(Size(m), NumPath, k * NumPath + p)
    <3>1. PICK s : s = Size(m)
      OBVIOUS
    <3>2. s \in Nat /\ k \in 0 .. IterEach(s, NumPath) - 1 /\ k # IterEach(s, NumPath) - 1
      BY <1>2, <1>3, <3>1 DEF Pieces
    <3>3. /\ (k * NumPath + p) \div NumPath = k
          /\ ~ LastRound(s, NumPath, k * NumPath + p)
      BY ONLY <1>1, <3>2, PieceNumber
    <3> QED
      BY <3>1, <3>3
  <2> QED
    BY <1>9, <2>1 DEF PieceOf, SendPiece, MsgLength, BaseAddr
<1>11. PayloadAddr(p, m, k) = Addr(m) + GRH + f
  <2>1. PayloadAddr(p, m, k) = Addr(m) + ch * (p + 1) + GRH - (k + 1) * MTU
    BY <1>3 DEF PayloadAddr, BaseAddr
  <2> QED
    BY ONLY <1>1, <1>2, <1>5, <1>6, <1>8, <2>1
<1> QED
  BY <1>9, <1>10, <1>11 DEF From

(* A later piece of the same chunk ends before it. *)
LEMMA PiecesDescend ==
  ASSUME Sized, NEW p \in Paths, NEW m \in Msgs,
         NEW k \in 0 .. Pieces(m) - 2, NEW j \in 0 .. Pieces(m) - 2, k < j
  PROVE  From(p, m, j) + MTU <= From(p, m, k)
<1>1. MTU \in Nat /\ k \in Nat /\ j \in Nat /\ k + 1 <= j
  BY MTUAssumption
<1>2. PICK e : e = ChunkSize(Size(m), NumPath) * (p + 1)
  OBVIOUS
<1>3. From(p, m, k) = e - (k + 1) * MTU /\ From(p, m, j) = e - (j + 1) * MTU
  BY <1>2, DirectPiece
<1>4. e \in Int
  BY <1>2, MessageFacts DEF Paths
<1>5. MTU * (k + 1) <= MTU * j /\ MTU * (k + 1) \in Nat /\ MTU * j \in Nat
  BY <1>1, ProductGrows
<1>6. (j + 1) * MTU = MTU * j + MTU /\ (k + 1) * MTU = MTU * (k + 1)
  BY <1>1
<1> QED
  BY ONLY <1>1, <1>3, <1>4, <1>5, <1>6

-----------------------------------------------------------------------------
(***************************************************************************)
(* What an arrival and a copy do to one byte of the region.                *)
(***************************************************************************)

(* A piece received into the message: its bytes behind its header. *)
LEMMA DirectReceived ==
  ASSUME Sized, NEW p \in Paths, NEW m \in Msgs, NEW k \in 0 .. Pieces(m) - 2,
         NEW c \in Cells,
         NEW a \in Nat, a = Addr(m) + From(p, m, k)
  PROVE  /\ c < a \/ c >= a + GRH + MTU => Received(p, m, k)[c] = mem[c]
         /\ c \in a .. a + GRH - 1 => Received(p, m, k)[c] = Header
         /\ c \in a + GRH .. a + GRH + MTU - 1
              => Received(p, m, k)[c] = Data(m, c - Addr(m) - GRH)
<1>1. /\ PieceOf(Size(m), NumPath, k, p).len = MTU
      /\ PieceOf(Size(m), NumPath, k, p).from = From(p, m, k)
      /\ From(p, m, k) \in Nat
      /\ PayloadAddr(p, m, k) = a + GRH
      /\ Addr(m) \in Nat /\ GRH \in Nat /\ MTU \in Nat
  BY DirectPiece, MessageFacts, PlacementAssumption, MTUAssumption DEF From
<1>2. c \in Int
  BY Layout, PlacementAssumption DEF Cells
<1> DEFINE t == a + GRH
<1>3. Received(p, m, k)[c]
        = IF c \in t - GRH .. t - 1 THEN Header
          ELSE IF c \in t .. t + MTU - 1 THEN Data(m, From(p, m, k) + c - t)
          ELSE mem[c]
  <2>1. PICK x, l, u : /\ x = From(p, m, k) /\ l = MTU /\ u = t
                       /\ PieceOf(Size(m), NumPath, k, p).from = x
                       /\ PieceOf(Size(m), NumPath, k, p).len = l
                       /\ PayloadAddr(p, m, k) = u
    BY <1>1
  <2> HIDE DEF t
  <2>2. Received(p, m, k)[c]
          = IF c \in u - GRH .. u - 1 THEN Header
            ELSE IF c \in u .. u + l - 1 THEN Data(m, x + c - u)
            ELSE mem[c]
    BY <2>1, Zenon DEF Received
  <2> QED
    BY ONLY <2>1, <2>2, Zenon
<1>4. t - GRH = a /\ From(p, m, k) + c - t = c - Addr(m) - GRH
  BY ONLY <1>1, <1>2, a = Addr(m) + From(p, m, k)
<1>5. Received(p, m, k)[c]
        = IF c \in a .. t - 1 THEN Header
          ELSE IF c \in t .. t + MTU - 1 THEN Data(m, c - Addr(m) - GRH)
          ELSE mem[c]
  <2> HIDE DEF t
  <2> QED
    BY ONLY <1>3, <1>4, Zenon
<1> QED
  BY ONLY <1>1, <1>2, <1>5, a \in Nat

(* The last piece of a chunk: it is written into the slot of its path, its  *)
(* header at most into the room below the slots.                            *)
LEMMA LastReceived ==
  ASSUME Sized, NEW p \in Paths, NEW m \in Msgs, NEW c \in Cells
  PROVE  /\ c < AppEnd \/ c >= BufLast
              => Received(p, m, Pieces(m) - 1)[c] = mem[c]
         /\ c < BufSub => Received(p, m, Pieces(m) - 1)[c] \in {Header, mem[c]}
<1> DEFINE k == Pieces(m) - 1
           w == MTU + GRH
           t == BufSub + w * p
<1>1. /\ GRH \in Nat /\ MTU \in Nat \ {0} /\ NumPath \in Nat
      /\ p \in Nat /\ p + 1 \in Nat /\ p + 1 <= NumPath /\ w \in Nat
  BY PlacementAssumption, MTUAssumption DEF Paths
<1>2. /\ AppEnd \in Nat /\ BufSub = AppEnd + GRH /\ w * NumPath \in Nat
      /\ BufLast = BufSub + w * NumPath
  BY Layout
<1>3. w * p \in Nat /\ w * p + w <= w * NumPath
  <2>1. w * (p + 1) <= w * NumPath
    BY ONLY <1>1, ProductGrows
  <2>2. w * (p + 1) = w * p + w /\ w * p \in Nat
    BY <1>1
  <2> QED
    BY ONLY <1>1, <1>2, <2>1, <2>2
<1>4. t - GRH >= AppEnd /\ t + MTU <= BufLast /\ t >= BufSub /\ t \in Nat
  BY ONLY <1>1, <1>2, <1>3
<1>5. PICK l \in 1 .. MTU : l = PieceOf(Size(m), NumPath, k, p).len
  <2>1. Last(m) \in 1 .. MTU /\ MTU \in 1 .. MTU
    BY <1>1, MessageFacts
  <2> QED
    BY <2>1 DEF PieceOf, SendPiece, MsgLength, Last
<1>6. PICK x : x = PieceOf(Size(m), NumPath, k, p).from
  OBVIOUS
<1>7. PayloadAddr(p, m, k) = t
  BY DEF PayloadAddr
<1> HIDE DEF t, w
<1>8. Received(p, m, k)[c]
        = IF c \in t - GRH .. t - 1 THEN Header
          ELSE IF c \in t .. t + l - 1 THEN Data(m, x + c - t)
          ELSE mem[c]
  BY <1>5, <1>6, <1>7, Zenon DEF Received
<1>9. c \in Int
  BY Layout, PlacementAssumption DEF Cells
<1>10. BufSub \in Int /\ BufLast \in Int /\ l <= MTU /\ l \in Nat
  BY <1>1, <1>2, <1>5
<1>11. c < AppEnd \/ c >= BufLast
         => c \notin t - GRH .. t - 1 /\ c \notin t .. t + l - 1
  BY ONLY <1>1, <1>2, <1>4, <1>9, <1>10
<1>12. c < BufSub => c \notin t .. t + l - 1
  BY ONLY <1>1, <1>2, <1>4, <1>9, <1>10
<1> QED
  BY ONLY <1>8, <1>11, <1>12, Zenon

(* The copy of a last piece stays in the buffer of its message, and never   *)
(* reads a byte of a message: it reads above the slots.                     *)
LEMMA CopiedCell ==
  ASSUME Sized, NEW p \in Paths, NEW m \in Msgs, NEW c \in Cells
  PROVE  /\ c \notin CopyRange(p, m) => Copied(p, m)[c] = mem[c]
         /\ c \in CopyRange(p, m)
              => /\ c \in Addr(m) .. Addr(m) + Size(m) + GRH - 1
                 /\ \/ Copied(p, m)[c] = Junk
                    \/ \E d \in Cells : d >= BufLast /\ Copied(p, m)[c] = mem[d]
<1> DEFINE x == (Size(m) + GRH) \div NumPath
           ch == ChunkSize(Size(m), NumPath)
<1>1. /\ GRH \in Nat /\ MTU \in Nat \ {0} /\ NumPath \in Nat \ {0} /\ Control \in Nat
      /\ p \in Nat /\ p + 1 \in Nat /\ p + 1 <= NumPath
  BY PlacementAssumption, MTUAssumption DEF Paths
<1>2. /\ Size(m) \in Nat /\ Last(m) \in 1 .. MTU /\ ch \in Nat /\ Addr(m) \in Nat
      /\ ch * NumPath <= Size(m) /\ Pieces(m) \in Nat \ {0}
      /\ ch = (Pieces(m) - 1) * MTU + Last(m)
  BY MessageFacts
<1>3. Last(m) <= ch
  <2>1. (Pieces(m) - 1) * MTU \in Nat
    <3>1. Pieces(m) - 1 \in Nat
      BY <1>2
    <3> QED
      BY ONLY <1>1, <3>1
  <2> QED
    BY ONLY <1>1, <1>2, <2>1
<1>4. /\ x \in Nat /\ Size(m) + GRH = NumPath * x + ((Size(m) + GRH) % NumPath)
      /\ (Size(m) + GRH) % NumPath \in 0 .. NumPath - 1
  <2>1. Size(m) + GRH \in Nat
    BY <1>1, <1>2
  <2> QED
    BY ONLY <1>1, <2>1, DivMod
<1>5. PICK y \in Nat : y = x
  BY <1>4
<1> HIDE DEF x
<1>6. PICK z \in Nat : z = ch
  BY <1>2
<1>7. z <= y
  <2> SUFFICES ASSUME ~ (z <= y) PROVE FALSE
    OBVIOUS
  <2>1. y + 1 <= z
    OBVIOUS
  <2>2. y + 1 \in Nat /\ NumPath \in Nat
    BY ONLY <1>1
  <2>3. NumPath * (y + 1) <= NumPath * z
    BY ONLY <2>1, <2>2, ProductGrows
  <2>4. NumPath * (y + 1) = NumPath * y + NumPath /\ NumPath * y \in Nat
        /\ NumPath * z = z * NumPath /\ z * NumPath \in Nat
    BY ONLY <1>1
  <2>5. NumPath * y + NumPath > Size(m) + GRH /\ z * NumPath <= Size(m)
    BY <1>1, <1>2, <1>4, <1>5, <1>6, <2>4
  <2> QED
    BY ONLY <1>1, <1>2, <2>3, <2>4, <2>5
<1>8. /\ CopyTo(p, m) \in Nat /\ CopyTo(p, m) >= Addr(m)
      /\ CopyTo(p, m) + Last(m) <= Addr(m) + Size(m) + GRH
  <2>1. y * (p + 1) <= y * NumPath
    <3>1. NumPath \in Nat
      BY <1>1
    <3> QED
      BY ONLY <1>1, <3>1, ProductGrows
  <2>2. y * (p + 1) = y * p + y /\ y * p \in Nat /\ NumPath * y = y * NumPath
        /\ y * NumPath \in Nat
    BY ONLY <1>1
  <2>3. y * NumPath <= Size(m) + GRH
    BY <1>1, <1>2, <1>4, <1>5, <2>2
  <2>4. CopyTo(p, m) = Addr(m) + y * p
    BY <1>5 DEF CopyTo, x
  <2>5. Last(m) <= y
    BY <1>2, <1>3, <1>6, <1>7
  <2> QED
    BY ONLY <1>1, <1>2, <2>1, <2>2, <2>3, <2>4, <2>5
<1>9. CASE c \notin CopyRange(p, m)
  BY <1>9 DEF Copied
<1>10. CASE c \in CopyRange(p, m)
  <2>1. c \in Int /\ c >= CopyTo(p, m) /\ c < CopyTo(p, m) + Last(m)
    BY <1>2, <1>8, <1>10 DEF CopyRange
  <2>2. PICK from : from = CopyFrom(p) + c - CopyTo(p, m)
    OBVIOUS
  <2>3. from \in Int /\ from >= BufLast
    <3>1. /\ BufLast \in Nat /\ BufRecv >= BufLast /\ BufRecv \in Nat
      BY <1>1, Layout
    <3>2. (GRH + MTU) * p \in Nat
      BY <1>1
    <3>3. CopyFrom(p) \in Nat /\ CopyFrom(p) >= BufLast
      BY <1>1, <3>1, <3>2 DEF CopyFrom
    <3> QED
      BY ONLY <1>8, <2>1, <2>2, <3>1, <3>3
  <2>4. Copied(p, m)[c] = IF from \in Cells THEN mem[from] ELSE Junk
    BY <1>10, <2>2, Zenon DEF Copied
  <2>5. c \in Addr(m) .. Addr(m) + Size(m) + GRH - 1
    BY ONLY <1>1, <1>2, <1>8, <2>1
  <2> QED
    BY ONLY <1>10, <2>3, <2>4, <2>5, Zenon
<1> QED
  BY <1>9, <1>10

-----------------------------------------------------------------------------
(***************************************************************************)
(* The cursors of arrival and of polling.                                  *)
(***************************************************************************)

(* A packet of a path, and the end.                                        *)
Cursor == {[msg |-> MaxMsgs, piece |-> 0]}
            \cup UNION {[msg : {m}, piece : 0 .. Pieces(m) - 1] : m \in Msgs}

(* Packet c of a path is before packet d. *)
Before(c, d) == c.msg < d.msg \/ (c.msg = d.msg /\ c.piece < d.piece)

(* TypeOK by name. *)
LEMMA TypeIs ==
  TypeOK <=> /\ Sized
             /\ DOMAIN mem = Cells
             /\ arrived \in [Paths -> Cursor]
             /\ polled \in [Paths -> Cursor]
             /\ done \in 0 .. MaxMsgs
BY DEF TypeOK, Cursor, Sized

(* What a cursor can be. *)
LEMMA CursorFields ==
  ASSUME Sized, NEW c \in Cursor
  PROVE  /\ c.msg \in 0 .. MaxMsgs /\ c.piece \in Nat
         /\ c = [msg |-> c.msg, piece |-> c.piece]
         /\ c.msg \in Msgs => c.piece \in 0 .. Pieces(c.msg) - 1
         /\ c.msg \notin Msgs => c.msg = MaxMsgs /\ c.piece = 0
<1>1. MaxMsgs \in Nat \ {0}
  BY PlacementAssumption
<1>2. CASE c = [msg |-> MaxMsgs, piece |-> 0]
  BY <1>1, <1>2 DEF Msgs
<1>3. CASE c # [msg |-> MaxMsgs, piece |-> 0]
  <2>1. PICK m \in Msgs : c \in [msg : {m}, piece : 0 .. Pieces(m) - 1]
    BY <1>3 DEF Cursor
  <2>2. c.msg = m /\ c.piece \in 0 .. Pieces(m) - 1
        /\ c = [msg |-> c.msg, piece |-> c.piece]
    BY <2>1
  <2>3. Pieces(m) \in Nat /\ m \in 0 .. MaxMsgs
    BY <1>1, MessageFacts DEF Msgs
  <2> QED
    BY <2>2, <2>3
<1> QED
  BY <1>2, <1>3

(* These are all cursors. *)
LEMMA CursorsAre ==
  /\ [msg |-> MaxMsgs, piece |-> 0] \in Cursor
  /\ \A m \in Msgs : \A k \in 0 .. Pieces(m) - 1 : [msg |-> m, piece |-> k] \in Cursor
BY DEF Cursor

(* The first packet of a message is a cursor, and so is the end. *)
LEMMA FirstPacket ==
  ASSUME Sized, NEW m \in 0 .. MaxMsgs
  PROVE  [msg |-> m, piece |-> 0] \in Cursor
<1>1. MaxMsgs \in Nat
  BY PlacementAssumption
<1>2. CASE m = MaxMsgs
  BY <1>2, CursorsAre
<1>3. CASE m # MaxMsgs
  <2>1. m \in Msgs
    BY <1>1, <1>3 DEF Msgs
  <2>2. 0 \in 0 .. Pieces(m) - 1
    BY <2>1, MessageFacts
  <2> QED
    BY <2>1, <2>2, CursorsAre
<1> QED
  BY <1>2, <1>3

(* The packet after one is the next of the same path. *)
LEMMA SuccessorFacts ==
  ASSUME Sized, NEW c \in Cursor, c.msg \in Msgs
  PROVE  /\ Successor(c) \in Cursor
         /\ Before(c, Successor(c))
         /\ \A d \in Cursor : Before(c, d) => d = Successor(c) \/ Before(Successor(c), d)
<1> DEFINE n == Pieces(c.msg)
<1>1. /\ c.msg \in Nat /\ c.piece \in 0 .. n - 1 /\ n \in Nat
      /\ c = [msg |-> c.msg, piece |-> c.piece]
  BY CursorFields, MessageFacts DEF Msgs
<1>2. PICK m \in Nat, k \in Nat : /\ m = c.msg /\ k = c.piece /\ k + 1 <= n
                                  /\ c = [msg |-> m, piece |-> k]
  BY <1>1
<1>3. CASE k + 1 = n
  <2>1. Successor(c) = [msg |-> m + 1, piece |-> 0]
    BY <1>2, <1>3 DEF Successor
  <2>2. m + 1 \in 0 .. MaxMsgs
    BY <1>2, PlacementAssumption DEF Msgs
  <2>3. Successor(c) \in Cursor
    BY <2>1, <2>2, FirstPacket
  <2>4. ASSUME NEW d \in Cursor, Before(c, d)
        PROVE  d = Successor(c) \/ Before(Successor(c), d)
    <3>1. /\ d.msg \in Nat /\ d.piece \in Nat /\ d = [msg |-> d.msg, piece |-> d.piece]
          /\ d.msg = m => d.piece <= n - 1
      BY <1>1, <1>2, CursorFields
    <3>2. d.msg >= m + 1
      BY <1>1, <1>2, <1>3, <2>4, <3>1 DEF Before
    <3>3. CASE d.msg = m + 1 /\ d.piece = 0
      BY <2>1, <3>1, <3>3
    <3>4. CASE ~ (d.msg = m + 1 /\ d.piece = 0)
      BY <2>1, <3>1, <3>2, <3>4 DEF Before
    <3> QED
      BY <3>3, <3>4
  <2> QED
    BY <1>2, <2>1, <2>3, <2>4 DEF Before
<1>4. CASE k + 1 # n
  <2>1. Successor(c) = [msg |-> m, piece |-> k + 1]
    BY <1>2, <1>4 DEF Successor
  <2>2. Successor(c) \in Cursor
    <3>1. m \in Msgs /\ k + 1 \in 0 .. Pieces(m) - 1
      BY <1>1, <1>2, <1>4
    <3> QED
      BY <2>1, <3>1, CursorsAre
  <2>3. ASSUME NEW d \in Cursor, Before(c, d)
        PROVE  d = Successor(c) \/ Before(Successor(c), d)
    <3>1. /\ d.msg \in Nat /\ d.piece \in Nat /\ d = [msg |-> d.msg, piece |-> d.piece]
      BY CursorFields
    <3>2. d.msg > m \/ (d.msg = m /\ d.piece >= k + 1)
      BY <1>2, <2>3, <3>1 DEF Before
    <3>3. CASE d.msg = m /\ d.piece = k + 1
      BY <2>1, <3>1, <3>3
    <3>4. CASE ~ (d.msg = m /\ d.piece = k + 1)
      BY <1>2, <2>1, <3>1, <3>2, <3>4 DEF Before
    <3> QED
      BY <3>3, <3>4
  <2> QED
    BY <1>2, <2>1, <2>2, <2>3 DEF Before
<1> QED
  BY <1>3, <1>4

(* What comes before another cursor is a packet. *)
LEMMA BeforeAnother ==
  ASSUME Sized, NEW c \in Cursor, NEW d \in Cursor, Before(c, d)
  PROVE  c.msg \in Msgs
<1>1. /\ c.msg \in 0 .. MaxMsgs /\ d.msg \in 0 .. MaxMsgs /\ MaxMsgs \in Nat
      /\ d.msg \notin Msgs => d.piece = 0
      /\ c.piece \in Nat
  BY CursorFields, PlacementAssumption
<1> QED
  BY <1>1 DEF Before, Msgs

(* No path is polled further than it has received. *)
Behind == \A p \in Paths : polled[p] = arrived[p] \/ Before(polled[p], arrived[p])

(* So the packet that is polled next is one. *)
LEMMA PolledIsPacket ==
  ASSUME TypeOK, Behind, NEW p \in Paths, Poll(p)
  PROVE  polled[p].msg \in Msgs /\ polled[p].piece \in 0 .. Pieces(polled[p].msg) - 1
<1>1. Sized /\ polled[p] \in Cursor /\ arrived[p] \in Cursor
  BY TypeIs
<1>2. Before(polled[p], arrived[p])
  BY DEF Behind, Poll
<1>3. polled[p].msg \in Msgs
  BY <1>1, <1>2, BeforeAnother
<1> QED
  BY <1>1, <1>3, CursorFields

(* The types, with what keeps them. *)
LEMMA TypeInvariant == Spec => [](TypeOK /\ Behind)
<1>1. Init => TypeOK /\ Behind
  <2> SUFFICES ASSUME Init PROVE TypeOK /\ Behind
    OBVIOUS
  <2>1. Sized /\ 0 \in 0 .. MaxMsgs
    BY PlacementAssumption DEF Init, Sized
  <2>2. [msg |-> 0, piece |-> 0] \in Cursor
    BY <2>1, FirstPacket
  <2>3. arrived \in [Paths -> Cursor] /\ polled \in [Paths -> Cursor] /\ polled = arrived
    BY <2>2 DEF Init
  <2> QED
    BY <2>1, <2>3, TypeIs DEF Init, Behind
<1>2. TypeOK /\ Behind /\ [Next]_vars => (TypeOK /\ Behind)'
  <2> SUFFICES ASSUME TypeOK, Behind, [Next]_vars PROVE (TypeOK /\ Behind)'
    OBVIOUS
  <2>1. /\ Sized /\ DOMAIN mem = Cells /\ done \in 0 .. MaxMsgs
        /\ arrived \in [Paths -> Cursor] /\ polled \in [Paths -> Cursor]
    BY TypeIs
  <2>2. SUFFICES /\ Sized' /\ DOMAIN mem' = Cells /\ done' \in 0 .. MaxMsgs
                 /\ arrived' \in [Paths -> Cursor] /\ polled' \in [Paths -> Cursor]
                 /\ sizes' = sizes
                 /\ Behind'
    <3>1. sizes' = sizes => Cursor' = Cursor
      BY DEF Cursor, Pieces, Size
    <3>2. arrived' \in [Paths -> Cursor'] /\ polled' \in [Paths -> Cursor']
      BY <2>2, <3>1
    <3>3. TypeOK'
      BY <2>2, <3>2 DEF TypeOK, Cursor, Sized
    <3> QED
      BY <2>2, <3>3
  <2>3. CASE Report
    <3>1. done' \in 0 .. MaxMsgs
      <4>1. 0 \in Paths /\ MaxMsgs \in Nat
        BY PlacementAssumption DEF Paths
      <4>2. polled[0].msg \in 0 .. MaxMsgs /\ polled[0].msg > done
        BY <2>1, <2>3, <4>1, CursorFields DEF Report
      <4> QED
        BY <2>1, <2>3, <4>1, <4>2 DEF Report
    <3> QED
      BY <2>1, <2>3, <3>1 DEF Report, Sized, Behind
  <2>4. ASSUME NEW p \in Paths, Arrive(p)
        PROVE  /\ Sized' /\ DOMAIN mem' = Cells /\ done' \in 0 .. MaxMsgs
               /\ arrived' \in [Paths -> Cursor] /\ polled' \in [Paths -> Cursor]
               /\ sizes' = sizes
               /\ Behind'
    <3>1. PICK c \in Cursor : c = arrived[p] /\ c.msg \in Msgs
      BY <2>1, <2>4 DEF Arrive
    <3>2. PICK e \in Cursor : e = Successor(c) /\ Before(c, e)
      BY <2>1, <3>1, SuccessorFacts
    <3>3. arrived' = [arrived EXCEPT ![p] = e]
      BY <2>4, <3>1, <3>2 DEF Arrive
    <3>4. DOMAIN mem' = Cells
      BY <2>4 DEF Arrive, Received
    <3>5. Behind'
      <4> SUFFICES ASSUME NEW q \in Paths
                   PROVE  polled'[q] = arrived'[q] \/ Before(polled'[q], arrived'[q])
        BY DEF Behind
      <4>1. polled'[q] = polled[q]
        BY <2>4 DEF Arrive
      <4>2. CASE q # p
        BY <2>1, <3>3, <4>1, <4>2 DEF Behind
      <4>3. CASE q = p
        <5>1. PICK x \in Cursor : x = polled[q] /\ (x = c \/ Before(x, c))
          BY <2>1, <3>1, <4>3 DEF Behind
        <5>2. arrived'[q] = e
          BY <2>1, <3>3, <4>3
        <5>3. /\ x.msg \in Nat /\ x.piece \in Nat /\ c.msg \in Nat /\ c.piece \in Nat
              /\ e.msg \in Nat /\ e.piece \in Nat
          BY <2>1, CursorFields
        <5>4. Before(x, e)
          BY ONLY <3>2, <5>1, <5>3 DEF Before
        <5> QED
          BY <4>1, <5>1, <5>2, <5>4
      <4> QED
        BY <4>2, <4>3
    <3> QED
      BY <2>1, <2>4, <3>3, <3>4, <3>5 DEF Arrive, Sized
  <2>5. ASSUME NEW p \in Paths, Poll(p)
        PROVE  /\ Sized' /\ DOMAIN mem' = Cells /\ done' \in 0 .. MaxMsgs
               /\ arrived' \in [Paths -> Cursor] /\ polled' \in [Paths -> Cursor]
               /\ sizes' = sizes
               /\ Behind'
    <3>1. PICK c \in Cursor, d \in Cursor : /\ c = polled[p] /\ d = arrived[p]
                                            /\ Before(c, d)
      BY <2>1, <2>5 DEF Poll, Behind
    <3>2. c.msg \in Msgs
      BY <2>1, <3>1, BeforeAnother
    <3>3. PICK e \in Cursor : e = Successor(c) /\ (d = e \/ Before(e, d))
      BY <2>1, <3>1, <3>2, SuccessorFacts
    <3>4. polled' = [polled EXCEPT ![p] = e]
      BY <2>5, <3>1, <3>3 DEF Poll
    <3>5. DOMAIN mem' = Cells
      BY <2>1, <2>5 DEF Poll, Copied
    <3>6. Behind'
      BY <2>1, <2>5, <3>1, <3>3, <3>4 DEF Poll, Behind
    <3> QED
      BY <2>1, <2>5, <3>4, <3>5, <3>6 DEF Poll, Sized
  <2>6. CASE UNCHANGED vars
    BY <2>1, <2>6 DEF vars, Sized, Behind
  <2> QED
    BY <2>3, <2>4, <2>5, <2>6 DEF Next
<1> QED
  BY <1>1, <1>2, PTL DEF Spec

(* The cursors of arrival and of polling are always at a packet or at the   *)
(* end, and no more messages are reported than there are: a report needs    *)
(* every path past the message, and no path is polled past what arrived.    *)
THEOREM PlacementTypes == Spec => []TypeOK
BY TypeInvariant, PTL

-----------------------------------------------------------------------------
(***************************************************************************)
(* Nothing strays.                                                         *)
(***************************************************************************)

(* Value v may be in byte c of the region. *)
Fits(v, c) ==
  /\ c >= BufLast => v = Old
  /\ \A m \in Msgs :
       (\E b \in 0 .. Size(m) - 1 : v = Data(m, b)) =>
          \/ c \in Addr(m) .. Addr(m) + Size(m) + GRH - 1
          \/ c \in BufSub .. BufLast - 1

(* NothingStrays by name. *)
LEMMA StraysIs == NothingStrays <=> \A c \in Cells : Fits(mem[c], c)
BY DEF NothingStrays, Fits

(* The contents of a byte are of one kind, and a byte of one message. *)
LEMMA ContentsDiffer ==
  ASSUME NEW m, NEW b
  PROVE  /\ Data(m, b) # Header /\ Data(m, b) # Old /\ Data(m, b) # Junk
         /\ \A n, d : Data(m, b) = Data(n, d) => m = n /\ b = d
BY DEF Data, Header, Old, Junk

(* What is no byte of a message fits anywhere below buf.last, and anything  *)
(* fits into the slots for last pieces.                                     *)
LEMMA FitsBelow ==
  ASSUME Sized, NEW c \in Cells, c < BufLast, NEW v
  PROVE  /\ (\A m \in Msgs : \A b : v # Data(m, b)) => Fits(v, c)
         /\ c >= BufSub => Fits(v, c)
<1>1. c \in Int /\ BufLast \in Int /\ BufSub \in Int
  BY Layout, PlacementAssumption DEF Cells
<1>2. ~ (c >= BufLast)
  BY <1>1
<1>3. c >= BufSub => c \in BufSub .. BufLast - 1
  BY <1>1
<1> QED
  BY <1>2, <1>3, Zenon DEF Fits

(* A byte of a message fits into its buffer. *)
LEMMA FitsInBuffer ==
  ASSUME Sized, NEW m \in Msgs, NEW b,
         NEW c \in Addr(m) .. Addr(m) + Size(m) + GRH - 1
  PROVE  c < BufLast /\ Fits(Data(m, b), c)
<1>1. /\ Addr(m) \in Nat /\ Size(m) \in Nat /\ GRH \in Nat
      /\ Addr(m) + Size(m) + GRH <= AppEnd /\ AppEnd \in Nat
  BY MessageFacts, Layout, PlacementAssumption
<1>2. BufLast \in Nat /\ AppEnd <= BufLast
  BY <1>1, Layout
<1>3. c < BufLast /\ ~ (c >= BufLast)
  BY ONLY <1>1, <1>2, c \in Addr(m) .. Addr(m) + Size(m) + GRH - 1
<1>4. \A n \in Msgs : (\E d \in 0 .. Size(n) - 1 : Data(m, b) = Data(n, d)) => n = m
  BY ContentsDiffer
<1> QED
  BY <1>3, <1>4, Zenon DEF Fits

(* An arrival puts bytes only where they may be. *)
LEMMA ReceivedFits ==
  ASSUME Sized, NothingStrays, NEW p \in Paths, NEW m \in Msgs,
         NEW k \in 0 .. Pieces(m) - 1, NEW c \in Cells
  PROVE  Fits(Received(p, m, k)[c], c)
<1>1. Fits(mem[c], c)
  BY StraysIs
<1>2. /\ c \in Int /\ BufLast \in Nat /\ BufSub \in Nat /\ AppEnd \in Nat
      /\ AppEnd <= BufSub /\ BufSub <= BufLast
  BY Layout, PlacementAssumption DEF Cells
<1>3. c < BufLast => Fits(Header, c)
  BY FitsBelow, ContentsDiffer
<1>4. CASE k = Pieces(m) - 1
  <2>1. CASE c < AppEnd \/ c >= BufLast
    BY <1>1, <1>4, <2>1, LastReceived
  <2>2. CASE c < BufSub
    <3>1. c < BufLast
      BY <1>2, <2>2
    <3>2. Received(p, m, k)[c] \in {Header, mem[c]}
      BY <1>4, <2>2, LastReceived
    <3> QED
      BY <1>1, <1>3, <3>1, <3>2
  <2>3. CASE c >= BufSub /\ c < BufLast
    BY <2>3, FitsBelow
  <2> QED
    BY <1>2, <2>1, <2>2, <2>3
<1>5. CASE k # Pieces(m) - 1
  <2>1. k \in 0 .. Pieces(m) - 2
    BY <1>5, MessageFacts
  <2>2. /\ Addr(m) \in Nat /\ From(p, m, k) \in Nat /\ Size(m) \in Nat
        /\ From(p, m, k) + MTU <= Size(m) /\ GRH \in Nat /\ MTU \in Nat
    BY <2>1, MessageFacts, DirectPiece, PlacementAssumption, MTUAssumption
  <2>3. PICK a \in Nat : a = Addr(m) + From(p, m, k)
    BY <2>2
  <2>4. /\ c < a \/ c >= a + GRH + MTU => Received(p, m, k)[c] = mem[c]
        /\ c \in a .. a + GRH - 1 => Received(p, m, k)[c] = Header
        /\ c \in a + GRH .. a + GRH + MTU - 1
              => Received(p, m, k)[c] = Data(m, c - Addr(m) - GRH)
    BY <2>1, <2>3, DirectReceived
  <2>5. CASE c < a \/ c >= a + GRH + MTU
    BY <1>1, <2>4, <2>5
  <2>6. CASE c \in a .. a + GRH + MTU - 1
    <3>1. c \in Addr(m) .. Addr(m) + Size(m) + GRH - 1
      BY ONLY <1>2, <2>2, <2>3, <2>6
    <3>2. c < BufLast
      BY <3>1, FitsInBuffer
    <3>3. CASE c \in a .. a + GRH - 1
      BY <1>3, <2>4, <3>2, <3>3
    <3>4. CASE c \in a + GRH .. a + GRH + MTU - 1
      BY <2>4, <3>1, <3>4, FitsInBuffer
    <3>5. c \in a .. a + GRH - 1 \/ c \in a + GRH .. a + GRH + MTU - 1
      BY ONLY <1>2, <2>2, <2>3, <2>6
    <3> QED
      BY <3>3, <3>4, <3>5
  <2>7. (c < a \/ c >= a + GRH + MTU) \/ c \in a .. a + GRH + MTU - 1
    BY ONLY <1>2, <2>2, <2>3
  <2> QED
    BY <2>5, <2>6, <2>7
<1> QED
  BY <1>4, <1>5

(* A copy takes what is above the slots: no byte of a message is there. *)
LEMMA CopiedFits ==
  ASSUME Sized, NothingStrays, NEW p \in Paths, NEW m \in Msgs, NEW c \in Cells
  PROVE  Fits(Copied(p, m)[c], c)
<1>1. \A d \in Cells : Fits(mem[d], d)
  BY StraysIs
<1>2. CASE c \notin CopyRange(p, m)
  BY <1>1, <1>2, CopiedCell
<1>3. CASE c \in CopyRange(p, m)
  <2>1. c \in Addr(m) .. Addr(m) + Size(m) + GRH - 1
    BY <1>3, CopiedCell
  <2>2. c < BufLast
    BY <2>1, FitsInBuffer
  <2>3. Copied(p, m)[c] = Junk \/ Copied(p, m)[c] = Old
    <3>1. \A d \in Cells : d >= BufLast => mem[d] = Old
      BY <1>1 DEF Fits
    <3> QED
      BY <1>3, <3>1, CopiedCell
  <2> QED
    BY <2>2, <2>3, FitsBelow, ContentsDiffer
<1> QED
  BY <1>2, <1>3

(* A byte of a message is only ever in the buffer of that message or in a   *)
(* slot for last pieces, and the buffers of the control messages are never  *)
(* written: whatever the sizes, and in whatever order packets arrive and    *)
(* are polled (mprud_post_recv, mprud_inner_poll).                          *)
THEOREM PacketsStayInPlace == Spec => []NothingStrays
<1>1. Init => NothingStrays
  <2> SUFFICES ASSUME Init, NEW c \in Cells PROVE Fits(mem[c], c)
    BY StraysIs
  <2>1. mem[c] = Old
    BY DEF Init
  <2> QED
    BY <2>1, ContentsDiffer DEF Fits
<1>2. TypeOK /\ Behind /\ NothingStrays /\ [Next]_vars => NothingStrays'
  <2> SUFFICES ASSUME TypeOK, Behind, NothingStrays, [Next]_vars PROVE NothingStrays'
    OBVIOUS
  <2>1. Sized /\ arrived \in [Paths -> Cursor] /\ polled \in [Paths -> Cursor]
    BY TypeIs
  <2>2. sizes' = sizes
    BY DEF Next, Report, Arrive, Poll, vars
  <2>3. SUFFICES \A c \in Cells : Fits(mem'[c], c)
    BY <2>2, <2>3 DEF Fits, Size, NothingStrays
  <2>4. CASE mem' = mem
    BY <2>4, StraysIs
  <2>5. ASSUME NEW p \in Paths, Arrive(p) PROVE \A c \in Cells : Fits(mem'[c], c)
    <3>1. PICK m \in Msgs : m = arrived[p].msg
      BY <2>5 DEF Arrive
    <3>2. PICK k \in 0 .. Pieces(m) - 1 : k = arrived[p].piece
      BY <2>1, <3>1, CursorFields
    <3>3. mem' = Received(p, m, k)
      BY <2>5, <3>1, <3>2 DEF Arrive
    <3> QED
      BY <2>1, <3>3, ReceivedFits
  <2>6. ASSUME NEW p \in Paths, Poll(p)
        PROVE  \A c \in Cells : Fits(mem'[c], c)
    <3>1. PICK m \in Msgs : m = polled[p].msg
      BY <2>6, PolledIsPacket
    <3>2. CASE mem' = Copied(p, m)
      BY <2>1, <3>2, CopiedFits
    <3> QED
      BY <2>4, <2>6, <3>1, <3>2 DEF Poll
  <2> QED
    BY <2>4, <2>5, <2>6 DEF Next, Report, vars
<1> QED
  BY <1>1, <1>2, TypeInvariant, PTL DEF Spec

-----------------------------------------------------------------------------
(***************************************************************************)
(* The pieces received into a message stay.                                *)
(***************************************************************************)

(* Byte c of the region, byte b of message m, is there or under a copy. *)
There(v, c, m, b) ==
  v = Data(m, b) \/ \E q \in Paths : polled[q].msg > m /\ c \in CopyRange(q, m)

(* DirectBytesStay by name: every byte of every piece that has arrived. *)
LEMMA StaysIs ==
  DirectBytesStay <=>
    \A p \in Paths, m \in Msgs : \A k \in 0 .. Pieces(m) - 2 :
      HasArrived(p, m, k) =>
        \A b \in From(p, m, k)
                   .. From(p, m, k) + PieceOf(Size(m), NumPath, k, p).len - 1 :
          There(mem[Addr(m) + GRH + b], Addr(m) + GRH + b, m, b)
BY DEF DirectBytesStay, There, From

(* A byte of a piece is in the region, in the buffer of its message. *)
LEMMA PieceInBuffer ==
  ASSUME Sized, NEW p \in Paths, NEW m \in Msgs, NEW k \in 0 .. Pieces(m) - 2,
         NEW b \in From(p, m, k) .. From(p, m, k) + MTU - 1,
         NEW c, c = Addr(m) + GRH + b
  PROVE  /\ c \in Addr(m) .. Addr(m) + Size(m) + GRH - 1
         /\ c \in Cells
<1>1. /\ From(p, m, k) \in Nat /\ From(p, m, k) + MTU <= Size(m)
      /\ Addr(m) \in Nat /\ Size(m) \in Nat /\ GRH \in Nat /\ MTU \in Nat
      /\ Addr(m) + Size(m) + GRH <= AppEnd
  BY DirectPiece, MessageFacts, PlacementAssumption, MTUAssumption
<1>2. AppEnd \in Nat /\ RegionLen \in Nat /\ AppEnd <= RegionLen
  BY Layout, PlacementAssumption, MTUAssumption
<1>3. b \in Nat /\ b < Size(m)
  BY ONLY <1>1, b \in From(p, m, k) .. From(p, m, k) + MTU - 1
<1> QED
  BY ONLY <1>1, <1>2, <1>3, c = Addr(m) + GRH + b DEF Cells

(* A piece of another chunk of the same message, or a later one of the same *)
(* chunk, is received with its header clear of this piece's bytes.          *)
LEMMA PiecesApart ==
  ASSUME Sized, NEW m \in Msgs,
         NEW p \in Paths, NEW k \in 0 .. Pieces(m) - 2,
         NEW q \in Paths, NEW j \in 0 .. Pieces(m) - 2,
         q # p \/ k < j,
         NEW b \in From(p, m, k) .. From(p, m, k) + MTU - 1
  PROVE  GRH + b < From(q, m, j) \/ b >= From(q, m, j) + MTU
<1>1. PICK f \in Nat, g \in Nat : f = From(p, m, k) /\ g = From(q, m, j)
  BY DirectPiece
<1>2. GRH \in Nat /\ MTU \in Nat /\ p \in Nat /\ q \in Nat
  BY PlacementAssumption, MTUAssumption DEF Paths
<1>3. b \in Nat /\ b >= f /\ b < f + MTU
  BY ONLY <1>1, <1>2, b \in From(p, m, k) .. From(p, m, k) + MTU - 1
<1>4. PICK ch \in Nat : ch = ChunkSize(Size(m), NumPath)
  BY MessageFacts
<1>5. /\ f >= ch * p + GRH /\ f + MTU <= ch * (p + 1)
      /\ g >= ch * q + GRH /\ g + MTU <= ch * (q + 1)
  BY <1>1, <1>4, DirectPiece
<1>6. CASE q = p
  BY <1>1, <1>2, <1>3, <1>6, PiecesDescend
<1>7. CASE q < p
  <2>1. ch * (q + 1) <= ch * p /\ ch * (q + 1) \in Nat /\ ch * p \in Nat
    BY <1>2, <1>7, ProductGrows
  <2> QED
    BY ONLY <1>1, <1>2, <1>3, <1>5, <2>1
<1>8. CASE p < q
  <2>1. ch * (p + 1) <= ch * q /\ ch * (p + 1) \in Nat /\ ch * q \in Nat
    BY <1>2, <1>8, ProductGrows
  <2> QED
    BY ONLY <1>1, <1>2, <1>3, <1>5, <2>1
<1> QED
  BY ONLY <1>2, <1>6, <1>7, <1>8

(* Another packet leaves the bytes of a piece alone. *)
LEMMA OtherPacket ==
  ASSUME Sized, NEW m \in Msgs, NEW p \in Paths, NEW k \in 0 .. Pieces(m) - 2,
         NEW b \in From(p, m, k) .. From(p, m, k) + MTU - 1,
         NEW n \in Msgs, NEW q \in Paths, NEW j \in 0 .. Pieces(n) - 1,
         n # m \/ q # p \/ k < j,
         NEW c, c = Addr(m) + GRH + b
  PROVE  Received(q, n, j)[c] = mem[c]
<1>1. c \in Addr(m) .. Addr(m) + Size(m) + GRH - 1 /\ c \in Cells
  BY PieceInBuffer
<1>2. /\ Addr(m) \in Nat /\ Size(m) \in Nat /\ GRH \in Nat /\ MTU \in Nat
      /\ Addr(n) \in Nat /\ Size(n) \in Nat /\ m \in Nat /\ n \in Nat
      /\ Addr(m) + Size(m) + GRH <= AppEnd /\ AppEnd \in Nat
      /\ From(p, m, k) \in Nat /\ b \in Nat
  <2>1. From(p, m, k) \in Nat /\ MTU \in Nat
    BY DirectPiece, MTUAssumption
  <2>2. b \in Nat
    BY ONLY <2>1, b \in From(p, m, k) .. From(p, m, k) + MTU - 1
  <2> QED
    BY <2>1, <2>2, MessageFacts, Layout, PlacementAssumption DEF Msgs
<1>3. CASE j = Pieces(n) - 1
  <2>1. c < AppEnd
    BY ONLY <1>1, <1>2
  <2> QED
    BY <1>1, <1>3, <2>1, LastReceived
<1>4. CASE j # Pieces(n) - 1
  <2>1. j \in 0 .. Pieces(n) - 2
    BY <1>4, MessageFacts
  <2>2. PICK g \in Nat : g = From(q, n, j) /\ g + MTU <= Size(n)
    BY <2>1, DirectPiece
  <2>3. PICK a \in Nat : a = Addr(n) + g
    BY <1>2
  <2>4. SUFFICES c < a \/ c >= a + GRH + MTU
    BY <1>1, <2>1, <2>2, <2>3, <2>4, DirectReceived
  <2>5. CASE n = m
    <3>1. GRH + b < g \/ b >= g + MTU
      BY <2>1, <2>2, <2>5, PiecesApart
    <3> QED
      BY ONLY <1>2, <2>3, <2>5, <3>1, c = Addr(m) + GRH + b
  <2>6. CASE n < m
    <3>1. Addr(n) + Size(n) + GRH <= Addr(m)
      BY <2>6, BuffersApart
    <3> QED
      BY ONLY <1>1, <1>2, <2>2, <2>3, <3>1
  <2>7. CASE m < n
    <3>1. Addr(m) + Size(m) + GRH <= Addr(n)
      BY <2>7, BuffersApart
    <3> QED
      BY ONLY <1>1, <1>2, <2>2, <2>3, <3>1
  <2> QED
    BY ONLY <1>2, <2>5, <2>6, <2>7
<1> QED
  BY <1>3, <1>4

(* So does the copy of a last piece of another message. *)
LEMMA OtherCopy ==
  ASSUME Sized, NEW m \in Msgs, NEW p \in Paths, NEW k \in 0 .. Pieces(m) - 2,
         NEW b \in From(p, m, k) .. From(p, m, k) + MTU - 1,
         NEW n \in Msgs, NEW q \in Paths, n # m,
         NEW c, c = Addr(m) + GRH + b
  PROVE  c \notin CopyRange(q, n)
<1> SUFFICES ASSUME c \in CopyRange(q, n) PROVE FALSE
  OBVIOUS
<1>1. c \in Addr(m) .. Addr(m) + Size(m) + GRH - 1 /\ c \in Cells
  BY PieceInBuffer
<1>2. c \in Addr(n) .. Addr(n) + Size(n) + GRH - 1
  BY <1>1, CopiedCell
<1>3. /\ Addr(m) \in Nat /\ Size(m) \in Nat /\ GRH \in Nat
      /\ Addr(n) \in Nat /\ Size(n) \in Nat /\ m \in Nat /\ n \in Nat
  BY MessageFacts, PlacementAssumption DEF Msgs
<1>4. CASE n < m
  <2>1. Addr(n) + Size(n) + GRH <= Addr(m)
    BY <1>4, BuffersApart
  <2> QED
    BY ONLY <1>1, <1>2, <1>3, <2>1
<1>5. CASE m < n
  <2>1. Addr(m) + Size(m) + GRH <= Addr(n)
    BY <1>5, BuffersApart
  <2> QED
    BY ONLY <1>1, <1>2, <1>3, <2>1
<1> QED
  BY ONLY <1>3, <1>4, <1>5, n # m

(* An arrival keeps the bytes that are there and adds its own. *)
LEMMA ArrivalStays ==
  ASSUME TypeOK, DirectBytesStay, NEW q \in Paths, Arrive(q)
  PROVE  DirectBytesStay'
<1>1. Sized /\ arrived \in [Paths -> Cursor] /\ sizes' = sizes /\ polled' = polled
  BY TypeIs DEF Arrive
<1>2. PICK n \in Msgs : n = arrived[q].msg
  BY DEF Arrive
<1>3. PICK j \in 0 .. Pieces(n) - 1 : j = arrived[q].piece
  BY <1>1, <1>2, CursorFields
<1>4. mem' = Received(q, n, j) /\ arrived' = [arrived EXCEPT ![q] = Successor(@)]
  BY <1>2, <1>3 DEF Arrive
<1>5. SUFFICES ASSUME NEW p \in Paths, NEW m \in Msgs, NEW k \in 0 .. Pieces(m) - 2,
                      HasArrived(p, m, k)',
                      NEW b \in From(p, m, k) .. From(p, m, k) + MTU - 1
               PROVE  There(mem'[Addr(m) + GRH + b], Addr(m) + GRH + b, m, b)
  <2>1. \A p \in Paths, m \in Msgs : \A k \in 0 .. Pieces(m) - 2 :
          HasArrived(p, m, k)' =>
            \A b \in From(p, m, k)
                       .. From(p, m, k) + PieceOf(Size(m), NumPath, k, p).len - 1 :
              There(mem'[Addr(m) + GRH + b], Addr(m) + GRH + b, m, b)
    BY <1>1, <1>5, DirectPiece
  <2> QED
    BY <1>1, <2>1 DEF DirectBytesStay, There, From, Size, Pieces, CopyRange,
                      CopyTo, Last
<1>6. PICK c : c = Addr(m) + GRH + b
  OBVIOUS
<1>7. c \in Cells
  BY <1>1, <1>6, PieceInBuffer
<1>8. HasArrived(p, m, k) \/ (p = q /\ m = n /\ k = j)
  <2>1. CASE p # q
    BY <1>1, <1>4, <1>5, <2>1 DEF HasArrived
  <2>2. CASE p = q
    <3>1. arrived'[p] = Successor(arrived[p])
      BY <1>1, <1>4, <2>2
    <3>2. m \in Nat /\ n \in Nat /\ k \in Nat /\ j \in Nat /\ Pieces(m) \in Nat
          /\ k < Pieces(m)
      BY <1>1, MessageFacts DEF Msgs
    <3>3. CASE j + 1 = Pieces(n)
      <4>1. arrived'[p].msg = n + 1 /\ arrived'[p].piece = 0
        BY <1>2, <1>3, <2>2, <3>1, <3>3 DEF Successor
      <4>2. m <= n
        BY <1>5, <3>2, <4>1 DEF HasArrived
      <4> QED
        BY <1>2, <1>3, <2>2, <3>2, <3>3, <4>2 DEF HasArrived
    <3>4. CASE j + 1 # Pieces(n)
      <4>1. arrived'[p].msg = n /\ arrived'[p].piece = j + 1
        <5>1. arrived[p] = [msg |-> n, piece |-> j]
          BY <1>1, <1>2, <1>3, <2>2, CursorFields
        <5> QED
          BY <3>1, <3>4, <5>1 DEF Successor
      <4>2. m < n \/ (m = n /\ k < j + 1)
        BY <1>5, <4>1 DEF HasArrived
      <4> QED
        BY <1>2, <1>3, <2>2, <3>2, <4>2 DEF HasArrived
    <3> QED
      BY <3>3, <3>4
  <2> QED
    BY <2>1, <2>2
<1>9. CASE p = q /\ m = n /\ k = j
  <2>1. PICK f \in Nat : f = From(p, m, k)
    BY <1>1, DirectPiece
  <2>2. Addr(m) \in Nat /\ GRH \in Nat /\ MTU \in Nat
    BY <1>1, MessageFacts, PlacementAssumption, MTUAssumption
  <2>3. PICK a \in Nat : a = Addr(m) + f
    BY <2>1, <2>2
  <2>4. b \in f .. f + MTU - 1
    BY <1>5, <2>1
  <2>5. c \in a + GRH .. a + GRH + MTU - 1 /\ c - Addr(m) - GRH = b
    BY ONLY <1>6, <2>2, <2>3, <2>4
  <2>6. Received(p, m, k)[c] = Data(m, c - Addr(m) - GRH)
    BY <1>1, <1>7, <2>1, <2>3, <2>5, DirectReceived
  <2> QED
    BY <1>4, <1>6, <1>9, <2>5, <2>6 DEF There
<1>10. CASE HasArrived(p, m, k)
  <2>1. n # m \/ q # p \/ k < j
    <3>1. m \in Nat /\ n \in Nat
      BY DEF Msgs
    <3> QED
      BY <1>2, <1>3, <1>10, <3>1 DEF HasArrived
  <2>2. Received(q, n, j)[c] = mem[c]
    BY <1>1, <1>6, <2>1, OtherPacket
  <2>3. There(mem[c], c, m, b)
    BY <1>1, <1>6, <1>10, StaysIs, DirectPiece
  <2> QED
    BY <1>4, <1>6, <2>2, <2>3
<1> QED
  BY <1>8, <1>9, <1>10

(* The cursor of a poll moves past a message whose last piece it copies,    *)
(* and never back.                                                          *)
LEMMA PollForward ==
  ASSUME TypeOK, Behind, NEW q \in Paths, Poll(q)
  PROVE  /\ \A r \in Paths : /\ polled[r].msg \in Nat /\ polled'[r].msg \in Nat
                             /\ polled'[r].msg >= polled[r].msg
         /\ polled[q].piece + 1 = Pieces(polled[q].msg)
              => polled'[q].msg > polled[q].msg
<1>1. Sized /\ polled \in [Paths -> Cursor]
  BY TypeIs
<1>2. \A r \in Paths : polled[r].msg \in Nat /\ polled[r].piece \in Nat
  BY <1>1, CursorFields
<1>3. polled' = [polled EXCEPT ![q] = Successor(polled[q])]
  BY DEF Poll
<1>4. \A r \in Paths : r # q => polled'[r] = polled[r]
  BY <1>1, <1>3
<1>5. PICK c \in Cursor : c = polled[q]
  BY <1>1
<1>6. polled'[q] = Successor(c)
  BY <1>1, <1>3, <1>5
<1>7. CASE c.piece + 1 = Pieces(c.msg)
  <2>1. polled'[q].msg = c.msg + 1
    BY <1>6, <1>7 DEF Successor
  <2> QED
    BY <1>2, <1>4, <1>5, <2>1
<1>8. CASE c.piece + 1 # Pieces(c.msg)
  <2>1. c = [msg |-> c.msg, piece |-> c.piece]
    BY <1>1, CursorFields
  <2>2. polled'[q].msg = c.msg
    BY <1>6, <1>8, <2>1 DEF Successor
  <2> QED
    BY <1>2, <1>4, <1>5, <1>8, <2>2
<1> QED
  BY <1>7, <1>8

(* A poll leaves the bytes alone but for those its copy overwrites. *)
LEMMA PollStays ==
  ASSUME TypeOK, Behind, DirectBytesStay, NEW q \in Paths, Poll(q)
  PROVE  DirectBytesStay'
<1>1. Sized /\ sizes' = sizes /\ arrived' = arrived
  BY TypeIs DEF Poll
<1>2. PICK n \in Msgs : n = polled[q].msg
  BY PolledIsPacket
<1>3. SUFFICES ASSUME NEW p \in Paths, NEW m \in Msgs, NEW k \in 0 .. Pieces(m) - 2,
                      HasArrived(p, m, k),
                      NEW b \in From(p, m, k) .. From(p, m, k) + MTU - 1,
                      NEW c, c = Addr(m) + GRH + b
               PROVE  \/ mem'[c] = Data(m, b)
                      \/ \E r \in Paths : polled'[r].msg > m /\ c \in CopyRange(r, m)
  <2>1. \A p \in Paths, m \in Msgs : \A k \in 0 .. Pieces(m) - 2 :
          HasArrived(p, m, k) =>
            \A b \in From(p, m, k)
                       .. From(p, m, k) + PieceOf(Size(m), NumPath, k, p).len - 1 :
              \/ mem'[Addr(m) + GRH + b] = Data(m, b)
              \/ \E r \in Paths : /\ polled'[r].msg > m
                                  /\ Addr(m) + GRH + b \in CopyRange(r, m)
    BY <1>1, <1>3, DirectPiece
  <2> QED
    BY <1>1, <2>1 DEF DirectBytesStay, HasArrived, From, Size, Pieces, CopyRange,
                      CopyTo, Last
<1>4. c \in Cells
  BY <1>1, <1>3, PieceInBuffer
<1>5. There(mem[c], c, m, b)
  BY <1>1, <1>3, StaysIs, DirectPiece
<1>6. CASE \E r \in Paths : polled[r].msg > m /\ c \in CopyRange(r, m)
  <2>1. PICK r \in Paths : polled[r].msg > m /\ c \in CopyRange(r, m)
    BY <1>6
  <2>2. polled'[r].msg > m
    <3>1. /\ polled'[r].msg >= polled[r].msg /\ polled[r].msg \in Nat
          /\ polled'[r].msg \in Nat /\ m \in Nat
      BY PollForward DEF Msgs
    <3> QED
      BY <2>1, <3>1
  <2> QED
    BY <2>1, <2>2
<1>7. CASE mem[c] = Data(m, b)
  <2>1. CASE polled[q].piece + 1 # Pieces(n)
    BY <1>2, <1>7, <2>1 DEF Poll
  <2>2. CASE polled[q].piece + 1 = Pieces(n)
    <3>1. mem' = Copied(q, n)
      BY <1>2, <2>2 DEF Poll
    <3>2. CASE c \notin CopyRange(q, n)
      BY <1>1, <1>4, <1>7, <3>1, <3>2, CopiedCell
    <3>3. CASE c \in CopyRange(q, n)
      <4>1. n = m
        BY <1>1, <1>3, <3>3, OtherCopy
      <4>2. polled'[q].msg > m
        BY <1>2, <2>2, <4>1, PollForward
      <4> QED
        BY <3>3, <4>1, <4>2
    <3> QED
      BY <3>2, <3>3
  <2> QED
    BY <2>1, <2>2
<1> QED
  BY <1>5, <1>6, <1>7 DEF There

(* The reverse order does what it is for, for every number of paths and     *)
(* every size that MPRUD asks for: a byte received straight into the        *)
(* message stays there, whatever headers follow on its own path and on the  *)
(* others, and is lost only where a copy of a last piece is misplaced over  *)
(* it (mprud_post_recv, mprud_inner_poll).                                  *)
THEOREM DirectPiecesStay == Spec => []DirectBytesStay
<1>1. Init => DirectBytesStay
  <2> SUFFICES ASSUME Init, NEW p \in Paths, NEW m \in Msgs,
                      NEW k \in 0 .. Pieces(m) - 2
               PROVE  ~ HasArrived(p, m, k)
    BY StaysIs
  <2>1. Sized /\ arrived[p].msg = 0 /\ arrived[p].piece = 0 /\ m \in Nat
    BY DEF Init, Sized, Msgs
  <2>2. Pieces(m) \in Nat
    BY <2>1, MessageFacts
  <2> QED
    BY <2>1, <2>2 DEF HasArrived
<1>2. TypeOK /\ Behind /\ DirectBytesStay /\ [Next]_vars => DirectBytesStay'
  <2> SUFFICES ASSUME TypeOK, Behind, DirectBytesStay, [Next]_vars
               PROVE  DirectBytesStay'
    OBVIOUS
  <2>1. CASE Report \/ UNCHANGED vars
    <3>1. UNCHANGED <<sizes, mem, arrived, polled>>
      BY <2>1 DEF Report, vars
    <3> QED
      BY <3>1 DEF DirectBytesStay, HasArrived, Size, Pieces, CopyRange, CopyTo, Last
  <2> QED
    BY <2>1, ArrivalStays, PollStays DEF Next
<1> QED
  BY <1>1, <1>2, TypeInvariant, PTL DEF Spec
=============================================================================
