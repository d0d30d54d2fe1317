-------------------------- MODULE MprudSplitProofs --------------------------
(***************************************************************************)
(* The pieces of a chunk tile it, for every size, MTU and number of paths. *)
(***************************************************************************)
EXTENDS MprudSplit, Lemmas, TLAPS

-----------------------------------------------------------------------------
(***************************************************************************)
(* The pieces of a chunk.                                                  *)
(***************************************************************************)

(* Every active path has a packet of a message that has at least a byte for *)
(* each of them.                                                            *)
LEMMA IterEachPositive ==
  ASSUME NEW size \in Nat, NEW active \in Nat \ {0}, size >= active
  PROVE  IterEach(size, active) \in Nat \ {0}
<1> DEFINE c == size \div active
<1>1. size = active * c + (size % active) /\ size % active \in 0 .. active - 1
      /\ c \in Nat
  BY DivMod
<1>2. c # 0
  BY <1>1
<1>3. c = MTU * (c \div MTU) + (c % MTU) /\ c % MTU \in 0 .. MTU - 1
      /\ c \div MTU \in Nat
  BY <1>1, DivMod, MTUAssumption
<1>4. c % MTU # 0 \/ c \div MTU # 0
  BY ONLY <1>1, <1>2, <1>3, MTUAssumption
<1> QED
  BY <1>3, <1>4 DEF IterEach, ChunkSize

(* A chunk is its full pieces and one last piece of 1 to MTU bytes.         *)
LEMMA ChunkIsPieces ==
  ASSUME NEW size \in Nat, NEW active \in Nat \ {0}
  PROVE  /\ ChnkLast(size, active) \in 1 .. MTU
         /\ IterEach(size, active) \in Nat
         /\ ChunkSize(size, active) \in Nat
         /\ ChunkSize(size, active)
              = (IterEach(size, active) - 1) * MTU + ChnkLast(size, active)
<1> DEFINE c == size \div active
<1>1. c \in Nat
  BY DivMod
<1>2. c = MTU * (c \div MTU) + (c % MTU) /\ c % MTU \in 0 .. MTU - 1
      /\ c \div MTU \in Nat
  BY <1>1, DivMod, MTUAssumption
<1> DEFINE q == c \div MTU
<1>3. CASE c % MTU # 0
  <2>1. ChnkLast(size, active) = c % MTU /\ IterEach(size, active) = q + 1
    BY <1>2, <1>3 DEF ChnkLast, IterEach, ChunkSize
  <2>2. (q + 1 - 1) * MTU = MTU * q
    BY <1>2, MTUAssumption
  <2> QED
    BY <1>1, <1>2, <1>3, <2>1, <2>2, MTUAssumption DEF ChunkSize
<1>4. CASE c % MTU = 0
  <2>1. ChnkLast(size, active) = MTU /\ IterEach(size, active) = q
    BY <1>2, <1>4 DEF ChnkLast, IterEach, ChunkSize
  <2>2. (q - 1) * MTU + MTU = MTU * q
    BY <1>2, MTUAssumption
  <2> QED
    BY <1>1, <1>2, <1>4, <2>1, <2>2, MTUAssumption DEF ChunkSize
<1> QED
  BY <1>3, <1>4

(* Packet k * active + turn is piece k of the chunk of path turn, and the   *)
(* last piece of every chunk is posted in the last round.                   *)
LEMMA PieceNumber ==
  ASSUME NEW size \in Nat, NEW active \in Nat \ {0}, NEW turn \in 0 .. active - 1,
         NEW k \in 0 .. IterEach(size, active) - 1
  PROVE  /\ (k * active + turn) \div active = k
         /\ LastRound(size, active, k * active + turn)
              <=> k = IterEach(size, active) - 1
<1> DEFINE n == IterEach(size, active)
<1>1. n \in Nat /\ k \in Nat /\ turn \in Nat
  BY ChunkIsPieces
<1>2. k * active + turn = active * k + turn /\ k * active + turn \in Nat
  BY <1>1
<1>3. (k * active + turn) \div active = k
  BY ONLY <1>1, <1>2, DivModUnique, active \in Nat \ {0}, turn \in 0 .. active - 1, SMTT(30)
<1>4. n * active - (k * active + turn) = (n - k) * active - turn
  BY <1>1
<1>5. CASE k = n - 1
  <2>1. (n - k) * active = active
    BY <1>1, <1>5
  <2> QED
    BY <1>1, <1>3, <1>4, <1>5, <2>1 DEF LastRound, Iter
<1>6. CASE k # n - 1
  <2>1. n - k >= 2
    BY <1>1, <1>6
  <2>2. \A d \in Int : d >= 2 => d * active >= 2 * active
    OBVIOUS
  <2>3. (n - k) * active >= 2 * active
    BY <1>1, <2>1, <2>2
  <2>4. ~ (n * active - (k * active + turn) <= active)
    BY <1>1, <1>4, <2>3
  <2> QED
    BY <1>3, <1>6, <2>4 DEF LastRound, Iter
<1> QED
  BY <1>5, <1>6

(* The pieces mprud_post_send cuts a chunk into tile it: the first ends     *)
(* where the chunk ends, each next one ends where the one before it begins, *)
(* and the last one, the only one shorter than an MTU, begins where the     *)
(* chunk begins.                                                            *)
THEOREM PiecesTileChunk ==
  ASSUME NEW size \in Nat, NEW active \in Nat \ {0}, NEW turn \in 0 .. active - 1,
         size >= active
  PROVE  LET n == IterEach(size, active)
             chunk == ChunkSize(size, active)
             piece(k) == PieceOf(size, active, k, turn)
         IN  /\ piece(0).from + piece(0).len = chunk * (turn + 1)
             /\ \A k \in 1 .. n - 1 :
                  piece(k).from + piece(k).len = piece(k - 1).from
             /\ piece(n - 1).from = chunk * turn
             /\ \A k \in 0 .. n - 2 : piece(k).len = MTU
<1> DEFINE n == IterEach(size, active)
           chunk == ChunkSize(size, active)
           last == ChnkLast(size, active)
           base == chunk * (turn + 1)
           piece(k) == PieceOf(size, active, k, turn)
<1>1. n \in Nat \ {0}
  BY IterEachPositive
<1>2. chunk \in Nat /\ last \in 1 .. MTU /\ chunk = (n - 1) * MTU + last
  BY ChunkIsPieces
<1>3. base \in Nat /\ base = chunk * turn + chunk /\ chunk * turn \in Nat
  BY <1>2
<1>4. \A k \in 0 .. n - 1 :
         /\ (k * active + turn) \div active = k
         /\ LastRound(size, active, k * active + turn) <=> k = n - 1
  BY PieceNumber
<1>5. \A k \in 0 .. n - 2 : piece(k) = [from |-> base - (k + 1) * MTU, len |-> MTU]
  <2> SUFFICES ASSUME NEW k \in 0 .. n - 2
               PROVE  piece(k) = [from |-> base - (k + 1) * MTU, len |-> MTU]
    OBVIOUS
  <2>1. k \in 0 .. n - 1 /\ k # n - 1
    BY <1>1
  <2>2. /\ (k * active + turn) \div active = k
        /\ ~ LastRound(size, active, k * active + turn)
    BY ONLY <2>1, <1>4
  <2>3. (k + 1) * MTU \in Int
    BY MTUAssumption
  <2> QED
    BY <1>3, <2>2, <2>3 DEF PieceOf, SendPiece, MsgLength, BaseAddr
<1>6. piece(n - 1) = [from |-> base - n * MTU + (MTU - last), len |-> last]
  <2>1. n - 1 \in 0 .. n - 1
    BY <1>1
  <2>2. /\ ((n - 1) * active + turn) \div active = n - 1
        /\ LastRound(size, active, (n - 1) * active + turn)
    BY <2>1, PieceNumber, ZenonT(30)
  <2>3. (n - 1) + 1 = n
    BY <1>1
  <2> QED
    BY <2>2, <2>3 DEF PieceOf, SendPiece, MsgLength, BaseAddr
<1>7. n * MTU = (n - 1) * MTU + MTU /\ n * MTU \in Int
  BY <1>1, MTUAssumption
<1>8. piece(n - 1).from = chunk * turn /\ piece(n - 1).len = last
  <2>1. \A P, Q \in Int : /\ chunk = P + last
                          /\ base = Q + chunk
                          => base - (P + MTU) + (MTU - last) = Q
    BY <1>2, <1>3, MTUAssumption
  <2>2. (n - 1) * MTU \in Int /\ chunk * turn \in Int
    BY <1>1, <1>3, MTUAssumption
  <2>3. base - n * MTU + (MTU - last) = chunk * turn
    BY ONLY <1>2, <1>3, <1>7, <2>1, <2>2
  <2> QED
    BY ONLY <1>6, <2>3
<1>9. piece(0).from + piece(0).len = chunk * (turn + 1)
  <2>1. CASE n = 1
    <3>1. n - 1 = 0
      BY <2>1
    <3>2. chunk = last
      BY <1>1, <1>2, <2>1, MTUAssumption
    <3> QED
      BY ONLY <1>2, <1>3, <1>8, <3>1, <3>2
  <2>2. CASE n # 1
    <3>1. 0 \in 0 .. n - 2
      BY <1>1, <2>2
    <3>2. piece(0) = [from |-> base - (0 + 1) * MTU, len |-> MTU]
      BY <1>5, <3>1
    <3> QED
      BY <1>3, <3>2, MTUAssumption
  <2> QED
    BY <2>1, <2>2
<1>10. \A k \in 1 .. n - 1 : piece(k).from + piece(k).len = piece(k - 1).from
  <2> SUFFICES ASSUME NEW k \in 1 .. n - 1
               PROVE  piece(k).from + piece(k).len = piece(k - 1).from
    OBVIOUS
  <2>1. k - 1 \in 0 .. n - 2 /\ (k - 1) + 1 = k
    BY <1>1
  <2>2. piece(k - 1).from = base - k * MTU
    BY <1>5, <2>1
  <2>3. k * MTU \in Int
    BY MTUAssumption
  <2>4. CASE k = n - 1
    BY <1>2, <1>3, <1>8, <2>2, <2>3, <2>4
  <2>5. CASE k # n - 1
    <3>1. k \in 0 .. n - 2
      BY <1>1, <2>5
    <3>2. piece(k) = [from |-> base - (k + 1) * MTU, len |-> MTU]
      BY <1>5, <3>1
    <3>3. (k + 1) * MTU = k * MTU + MTU
      BY MTUAssumption
    <3> QED
      BY <1>3, <2>2, <2>3, <3>2, <3>3, MTUAssumption
  <2> QED
    BY <2>4, <2>5
<1>11. \A k \in 0 .. n - 2 : piece(k).len = MTU
  BY <1>5
<1> QED
  BY <1>8, <1>9, <1>10, <1>11
=============================================================================
