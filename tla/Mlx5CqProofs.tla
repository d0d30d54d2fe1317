---------------------------- MODULE Mlx5CqProofs ----------------------------
(***************************************************************************)
(* The completion queue of Mlx5Cq is a queue: for every set of QPs, every  *)
(* size of ring, every width of its indices and every number of entries a  *)
(* poll takes, whatever the card writes between the steps of a poll, of a  *)
(* sweep and of a resize.                                                  *)
(*                                                                         *)
(* The argument counts from the consumer index: the entry at offset k from *)
(* it is the library's exactly when k is below the number of entries       *)
(* written, because an entry of the round before has the other owner bit.  *)
(***************************************************************************)
EXTENDS Mlx5Cq, Lemmas, SequenceTheorems

EntryType == [op : {"invalid", "done", "resize"}, own : {0, 1},
              cqe : Cqe \cup {Nothing}]

(* The entry of ring b of n entries at index i is the library's.            *)
Owned(b, n, i) == b[i % n].op # "invalid" /\ b[i % n].own = Parity(i, n)

(* A CQE of the card, or one put back by a sweep.                           *)
Done(e) == e.op = "done" /\ e.cqe \in Cqe

(* From index c on, the first w entries of the ring are the library's and   *)
(* no other; the first d of them are CQEs.                                  *)
Ring(b, n, c, w, d) ==
  \A k \in 0 .. n - 1 :
    /\ Owned(b, n, c + k) <=> k < w
    /\ k < d => Done(b[(c + k) % n])

(* The ring of a resize, counted from 0 as the other is.                    *)
NewSize == Len(resize_buf)
NewBuf == [k \in 0 .. NewSize - 1 |-> resize_buf[k + 1]]

(* CQEs the library has not polled: in all, and in the old ring.            *)
Ready == Ahead(card.prod, cq.cons_index)
Old == IF Resizing THEN Ahead(card.resized, cq.cons_index) ELSE Ready

(* Where the loop under the lock is.                                        *)
Reached == Ahead(cq.loop.prod_index, cq.cons_index)

BufInv ==
  /\ Ring(buf, cq.size, cq.cons_index, IF Resizing THEN Old + 1 ELSE Old, Old)
  /\ Old <= cq.size - 1
  /\ Resizing => buf[(cq.cons_index + Old) % cq.size].op = "resize"

(* The card sees no more room than there is.                                *)
RoomInv ==
  /\ Ready <= Ahead(card.prod, dbrec)
  /\ ~Resizing => Ahead(card.prod, dbrec) <= cq.size - 1
  /\ Resizing => Old + 1 <= Ready /\ Ready <= NewSize

LoopInv ==
  /\ Locked("free") => cq.loop = Idle
  /\ cq.loop.pc \in {"free", "copy"} => dbrec = cq.cons_index
  /\ Resizing <=> Locked("copy")
  /\ cq.loop.pc \in {"scan", "sweep"} => cq.loop.rsn \in Rsn
  /\ Locked("scan") => Reached <= Ready /\ cq.loop.nfreed = 0
  /\ Locked("sweep") => Reached + cq.loop.nfreed <= Ready
  /\ Locked("copy") => Reached <= Old

(* The new ring nb of m entries, from the index after c on: the d entries   *)
(* copied from the ring b of n entries, room for those that are not yet,    *)
(* and from offset o on what the card has written.                          *)
Copying(nb, m, c, d, o, w, b, n) ==
  \A k \in 0 .. m - 1 :
    LET e == nb[(c + 1 + k) % m]
    IN  IF k < d
          THEN e = Entry("done", Parity(c + 1 + k, m), b[(c + k) % n].cqe)
        ELSE IF o <= k /\ k < w
          THEN Done(e) /\ e.own = Parity(c + 1 + k, m)
        ELSE e = Invalid

CopyInv ==
  Resizing =>
    /\ NewSize \in RingSizes
    /\ Copying(NewBuf, NewSize, cq.cons_index, Reached, Old, Ready - 1, buf, cq.size)

IndInv ==
  /\ TypeOK
  /\ BufInv
  /\ RoomInv
  /\ LoopInv
  /\ CopyInv
  /\ ResizeCompletes

-----------------------------------------------------------------------------
(***************************************************************************)
(* Indices.                                                                *)
(***************************************************************************)

(* The indices go round every ring an even number of times.                 *)
LEMMA SizeFacts ==
  ASSUME NEW n \in RingSizes
  PROVE  /\ n \in Nat \ {0, 1} /\ n \in Nat \ {0} /\ IndexMod \in Nat \ {0}
         /\ \E q \in Nat : IndexMod = n * (2 * q)
         /\ 2 * n <= IndexMod
<1>1. n \in Nat \ {0, 1} /\ IndexMod \in Nat \ {0} /\ IndexMod % (2 * n) = 0
  BY CqAssumption
<1>2. 2 * n \in Nat \ {0}
  BY <1>1
<1>3. PICK q \in Nat : IndexMod = (2 * n) * q
  <2>1. PICK d : d = 2 * n
    OBVIOUS
  <2>2. IndexMod = d * (IndexMod \div d) + (IndexMod % d) /\ IndexMod \div d \in Nat
    BY <1>1, <1>2, <2>1, DivMod
  <2> QED
    BY <1>1, <2>1, <2>2
<1>4. q # 0
  BY <1>1, <1>3
<1>5. 2 * n <= (2 * n) * q
  <2>1. \A d \in Nat : d <= d * q
    BY <1>4
  <2> QED
    BY <1>1, <2>1
<1>6. (2 * n) * q = n * (2 * q)
  BY <1>1
<1> QED
  BY <1>1, <1>3, <1>5, <1>6

(* How far one index is ahead of another.                                   *)
LEMMA AheadIs ==
  ASSUME NEW i \in Index, NEW j \in Index
  PROVE  /\ Ahead(i, j) = (IF j <= i THEN i - j ELSE i - j + IndexMod)
         /\ Ahead(i, j) \in 0 .. IndexMod - 1
<1> USE CqAssumption DEF Index
<1>1. CASE j <= i
  <2>1. i - j = IndexMod * 0 + (i - j) /\ i - j \in Nat /\ i - j \in 0 .. IndexMod - 1
    BY <1>1
  <2>2. (i - j) % IndexMod = i - j
    BY <2>1, DivModUnique
  <2> QED
    BY <1>1, <2>1, <2>2 DEF Ahead
<1>2. CASE ~ (j <= i)
  <2>1. i - j + IndexMod \in 0 .. IndexMod - 1 /\ i - j < 0 /\ i - j \in Int
    BY <1>2
  <2>2. (i - j) % IndexMod = i - j + IndexMod
    BY <2>1
  <2> QED
    BY <1>2, <2>1, <2>2 DEF Ahead
<1> QED
  BY <1>1, <1>2

(* An index moved on.                                                       *)
LEMMA AddIs ==
  ASSUME NEW i \in Index, NEW k \in 0 .. IndexMod
  PROVE  /\ Add(i, k) = (IF i + k < IndexMod THEN i + k ELSE i + k - IndexMod)
         /\ Add(i, k) \in Index
<1> USE CqAssumption DEF Index
<1>1. CASE i + k < IndexMod
  <2>1. i + k = IndexMod * 0 + (i + k) /\ i + k \in Nat /\ i + k \in 0 .. IndexMod - 1
    BY <1>1
  <2>2. (i + k) % IndexMod = i + k
    BY <2>1, DivModUnique
  <2> QED
    BY <1>1, <2>1, <2>2 DEF Add
<1>2. CASE ~ (i + k < IndexMod)
  <2>1. PICK r \in Int : r = i + k - IndexMod
    OBVIOUS
  <2>2. i + k = IndexMod * 1 + r /\ i + k \in Nat /\ r \in 0 .. IndexMod - 1
    BY <1>2, <2>1
  <2>3. (i + k) % IndexMod = r
    BY <2>2, DivModUnique
  <2> QED
    BY <1>2, <2>1, <2>2, <2>3 DEF Add
<1> QED
  BY <1>1, <1>2

(* An index moved back by one.                                              *)
LEMMA BackIs ==
  ASSUME NEW i \in Index
  PROVE  /\ Add(i, -1) = (IF i = 0 THEN IndexMod - 1 ELSE i - 1)
         /\ Add(i, -1) \in Index
         /\ Add(Add(i, -1), 1) = i
<1> USE CqAssumption DEF Index
<1>1. CASE i = 0
  <2>1. (i + (-1)) % IndexMod = IndexMod - 1
    BY <1>1
  <2>2. Add(i, -1) = IndexMod - 1
    BY <1>1, <2>1 DEF Add
  <2>3. IndexMod - 1 \in Index /\ 1 \in 0 .. IndexMod /\ i \in Index
    OBVIOUS
  <2>4. Add(IndexMod - 1, 1) = 0
    BY <2>3, AddIs
  <2> QED
    BY ONLY <1>1, <2>2, <2>3, <2>4
<1>2. CASE i # 0
  <2>1. i - 1 = IndexMod * 0 + (i - 1) /\ i - 1 \in Nat /\ i - 1 \in 0 .. IndexMod - 1
        /\ i + (-1) = i - 1
    BY <1>2
  <2>2. (i - 1) % IndexMod = i - 1
    BY <2>1, DivModUnique
  <2>3. Add(i, -1) = i - 1
    BY <2>1, <2>2 DEF Add
  <2> QED
    BY <1>2, <2>1, <2>3, AddIs
<1> QED
  BY <1>1, <1>2

(* After one round an index has the same slot and the other owner bit.      *)
LEMMA NextRound ==
  ASSUME NEW n \in RingSizes, NEW a \in Nat
  PROVE  /\ (a + n) % n = a % n /\ Parity(a + n, n) # Parity(a, n)
         /\ Parity(a, n) \in {0, 1} /\ a % n \in 0 .. n - 1
<1>1. n \in Nat \ {0}
  BY SizeFacts
<1>2. PICK q, r : q = a \div n /\ r = a % n
  OBVIOUS
<1>3. a = n * q + r /\ r \in 0 .. n - 1 /\ q \in Nat
  BY <1>1, <1>2, DivMod
<1>4. a + n = n * (q + 1) + r /\ a + n \in Nat /\ q + 1 \in Int
  BY <1>1, <1>3
<1>5. (a + n) % n = r /\ (a + n) \div n = q + 1
  BY ONLY <1>1, <1>3, <1>4, DivModUnique
<1>6. (q + 1) % 2 # q % 2 /\ q % 2 \in {0, 1}
  BY <1>3
<1> QED
  BY <1>2, <1>3, <1>5, <1>6 DEF Parity

(* Slot and owner bit of an index are those of the number it wraps.         *)
LEMMA Wrapped ==
  ASSUME NEW n \in RingSizes, NEW a \in Nat
  PROVE  /\ (a + IndexMod) % n = a % n
         /\ Parity(a + IndexMod, n) = Parity(a, n)
<1>1. n \in Nat \ {0} /\ IndexMod \in Nat
  BY SizeFacts
<1>2. PICK t \in Nat : IndexMod = n * (2 * t)
  BY SizeFacts
<1>3. PICK q, r : q = a \div n /\ r = a % n
  OBVIOUS
<1>4. a = n * q + r /\ r \in 0 .. n - 1 /\ q \in Nat
  BY <1>1, <1>3, DivMod
<1>5. a + IndexMod = n * (q + 2 * t) + r /\ a + IndexMod \in Nat /\ q + 2 * t \in Int
  <2>1. n * (q + 2 * t) = n * q + n * (2 * t)
    BY <1>1, <1>2, <1>4
  <2> QED
    BY <1>1, <1>2, <1>4, <2>1
<1>6. (a + IndexMod) % n = r /\ (a + IndexMod) \div n = q + 2 * t
  BY ONLY <1>1, <1>4, <1>5, DivModUnique
<1>7. (q + 2 * t) % 2 = q % 2
  BY <1>2, <1>4
<1> QED
  BY <1>3, <1>6, <1>7 DEF Parity

(* Counting on from an index moved on.                                      *)
LEMMA SameEntry ==
  ASSUME NEW n \in RingSizes, NEW c \in Index, NEW d \in 0 .. IndexMod, NEW k \in Nat
  PROVE  /\ (Add(c, d) + k) % n = (c + d + k) % n
         /\ Parity(Add(c, d) + k, n) = Parity(c + d + k, n)
<1>1. IndexMod \in Nat \ {0} /\ c \in Nat /\ d \in Nat
  BY SizeFacts DEF Index
<1>2. CASE c + d < IndexMod
  <2>1. Add(c, d) = c + d
    BY <1>2, AddIs
  <2> QED
    BY <2>1
<1>3. CASE ~ (c + d < IndexMod)
  <2>1. PICK a : a = Add(c, d) + k
    OBVIOUS
  <2>2. a \in Nat /\ c + d + k = a + IndexMod
    <3>1. Add(c, d) = c + d - IndexMod
      BY <1>3, AddIs
    <3> QED
      BY ONLY <1>1, <1>3, <2>1, <3>1, k \in Nat
  <2> QED
    BY <2>1, <2>2, Wrapped
<1> QED
  BY <1>2, <1>3

(* Every offset has a slot.                                                 *)
LEMMA SlotOf ==
  ASSUME NEW n \in RingSizes, NEW c \in Nat, NEW k \in Nat
  PROVE  (c + k) % n \in 0 .. n - 1
<1>1. c + k \in Nat
  OBVIOUS
<1> QED
  BY <1>1, NextRound

(* The entries of one round are different ones.                             *)
LEMMA OtherEntry ==
  ASSUME NEW n \in RingSizes, NEW c \in Nat, NEW j \in 0 .. n - 1, NEW k \in 0 .. n - 1,
         (c + j) % n = (c + k) % n
  PROVE  j = k
<1>1. n \in Nat \ {0} /\ c + j \in Nat /\ c + k \in Nat
  BY SizeFacts
<1>2. CASE j <= k
  <2>1. c + j <= c + k /\ (c + k) - (c + j) < n
    BY <1>1, <1>2
  <2>2. c + k = c + j
    BY ONLY <1>1, <2>1, (c + j) % n = (c + k) % n, ModDistinct
  <2> QED
    BY <2>2
<1>3. CASE k <= j
  <2>1. c + k <= c + j /\ (c + j) - (c + k) < n
    BY <1>1, <1>3
  <2>2. c + j = c + k
    BY ONLY <1>1, <2>1, (c + j) % n = (c + k) % n, ModDistinct
  <2> QED
    BY <2>2
<1> QED
  BY <1>1, <1>2, <1>3

-----------------------------------------------------------------------------
(***************************************************************************)
(* A ring.                                                                 *)
(***************************************************************************)

(* An entry is a record of three fields.                                    *)
LEMMA EntryFields ==
  ASSUME NEW op \in {"invalid", "done", "resize"}, NEW own \in {0, 1},
         NEW c \in Cqe \cup {Nothing}
  PROVE  /\ Entry(op, own, c) \in EntryType
         /\ Entry(op, own, c).op = op /\ Entry(op, own, c).own = own
         /\ Entry(op, own, c).cqe = c
  BY DEF Entry, EntryType

(* The entry behind the last one is written, by the card.                   *)
LEMMA RingWritten ==
  ASSUME NEW n \in RingSizes, NEW b \in [0 .. n - 1 -> EntryType], NEW c \in Nat,
         NEW w \in 0 .. n - 1, Ring(b, n, c, w, w),
         NEW e \in EntryType, e.op # "invalid", e.own = Parity(c + w, n),
         NEW b2, b2 = [b EXCEPT ![(c + w) % n] = e], NEW v, v = w + 1
  PROVE  Ring(b2, n, c, v, w)
<1>0. n \in Nat \ {0}
  BY SizeFacts
<1>1. \A k \in 0 .. n - 1 : (c + k) % n \in 0 .. n - 1
  BY <1>0, SlotOf
<1>2. b2 \in [0 .. n - 1 -> EntryType] /\ b2[(c + w) % n] = e
  BY <1>1
<1>3. ASSUME NEW k \in 0 .. n - 1, k # w
      PROVE  b2[(c + k) % n] = b[(c + k) % n]
  <2>1. (c + k) % n # (c + w) % n
    BY <1>3, OtherEntry
  <2> QED
    BY <1>1, <2>1
<1>4. ASSUME NEW k \in 0 .. n - 1
      PROVE  /\ Owned(b2, n, c + k) <=> k < w + 1
             /\ k < w => Done(b2[(c + k) % n])
  <2>1. CASE k = w
    BY <1>0, <1>2, <2>1 DEF Owned
  <2>2. CASE k # w
    <3>1. /\ Owned(b, n, c + k) <=> k < w
          /\ k < w => Done(b[(c + k) % n])
      BY DEF Ring
    <3>2. Owned(b2, n, c + k) <=> Owned(b, n, c + k)
      BY <1>3, <2>2 DEF Owned
    <3>3. k < w <=> k < w + 1
      BY <1>0, <2>2
    <3> QED
      BY <1>3, <2>2, <3>1, <3>2, <3>3
  <2> QED
    BY <2>1, <2>2
<1> QED
  BY <1>2, <1>3, <1>4 DEF Ring

(* That entry is a CQE.                                                     *)
LEMMA RingDone ==
  ASSUME NEW n \in RingSizes, NEW b, NEW c \in Nat, NEW w \in 0 .. n - 1,
         Ring(b, n, c, w + 1, w), Done(b[(c + w) % n])
  PROVE  Ring(b, n, c, w + 1, w + 1)
<1>0. n \in Nat /\ w \in Nat
  BY SizeFacts
<1>1. ASSUME NEW k \in 0 .. n - 1
      PROVE  /\ Owned(b, n, c + k) <=> k < w + 1
             /\ k < w + 1 => Done(b[(c + k) % n])
  <2>1. /\ Owned(b, n, c + k) <=> k < w + 1
        /\ k < w => Done(b[(c + k) % n])
    BY DEF Ring
  <2>2. k < w + 1 => k < w \/ k = w
    BY <1>0
  <2> QED
    BY <2>1, <2>2
<1> QED
  BY <1>1 DEF Ring

(* The consumer index moves over e entries: they are the card's again.      *)
LEMMA RingAdvanced ==
  ASSUME NEW n \in RingSizes, NEW b, NEW c \in Index, NEW w \in 0 .. n,
         NEW d \in 0 .. w, NEW e \in 0 .. d, Ring(b, n, c, w, d)
  PROVE  Ring(b, n, Add(c, e), w - e, d - e)
<1>0. n \in Nat \ {0} /\ c \in Nat /\ e \in 0 .. IndexMod /\ 2 * n <= IndexMod
      /\ IndexMod \in Nat /\ e \in Nat /\ d \in Nat /\ w \in Nat
      /\ e <= d /\ d <= w /\ w <= n
  BY SizeFacts DEF Index
<1>1. ASSUME NEW k \in 0 .. n - 1
      PROVE  /\ Owned(b, n, Add(c, e) + k) <=> k < w - e
             /\ k < d - e => Done(b[(Add(c, e) + k) % n])
  <2>1. /\ (Add(c, e) + k) % n = (c + e + k) % n
        /\ Parity(Add(c, e) + k, n) = Parity(c + e + k, n)
    BY <1>0, SameEntry
  <2>2. CASE e + k < n
    <3>1. PICK j \in 0 .. n - 1 : j = e + k
      BY <1>0, <2>2
    <3>2. c + e + k = c + j
      BY <1>0, <3>1
    <3>3. /\ Owned(b, n, c + j) <=> j < w
          /\ j < d => Done(b[(c + j) % n])
      BY DEF Ring
    <3>4. (j < w <=> k < w - e) /\ (k < d - e => j < d)
      BY <1>0, <3>1
    <3> QED
      BY <2>1, <3>2, <3>3, <3>4 DEF Owned
  <2>3. CASE ~ (e + k < n)
    <3>1. PICK j \in 0 .. n - 1 : j = e + k - n
      BY <1>0, <2>3
    <3>2. c + e + k = (c + j) + n /\ c + j \in Nat
      BY <1>0, <3>1
    <3>3. j < w /\ ~ (k < w - e) /\ ~ (k < d - e)
      BY <1>0, <2>3, <3>1
    <3>4. Owned(b, n, c + j)
      BY <3>3 DEF Ring
    <3>5. /\ (c + e + k) % n = (c + j) % n
          /\ Parity(c + e + k, n) # Parity(c + j, n)
      BY <3>2, NextRound
    <3> QED
      BY <2>1, <3>3, <3>4, <3>5 DEF Owned
  <2> QED
    BY <2>2, <2>3
<1> QED
  BY <1>1 DEF Ring

(* A sweep puts the CQE at offset i on top of the one at offset j, which    *)
(* keeps its owner bit.                                                     *)
LEMMA RingMoved ==
  ASSUME NEW n \in RingSizes, NEW b \in [0 .. n - 1 -> EntryType], NEW c \in Nat,
         NEW w \in 0 .. n, Ring(b, n, c, w, w),
         NEW i \in 0 .. w - 1, NEW j \in 0 .. w - 1,
         NEW b2, b2 = [b EXCEPT ![(c + j) % n] =
                         Entry(b[(c + i) % n].op, b[(c + j) % n].own, b[(c + i) % n].cqe)]
  PROVE  /\ b2 \in [0 .. n - 1 -> EntryType]
         /\ Ring(b2, n, c, w, w)
         /\ b2[(c + j) % n].cqe = b[(c + i) % n].cqe
         /\ \A k \in 0 .. n - 1 : k # j => b2[(c + k) % n] = b[(c + k) % n]
<1>0. n \in Nat \ {0} /\ i \in 0 .. n - 1 /\ j \in 0 .. n - 1
  BY SizeFacts
<1>1. \A k \in 0 .. n - 1 : (c + k) % n \in 0 .. n - 1
  BY <1>0, SlotOf
<1>2. PICK f, g : f = b[(c + i) % n] /\ g = b[(c + j) % n]
  OBVIOUS
<1>3. f \in EntryType /\ g \in EntryType
  BY <1>0, <1>1, <1>2
<1>4. PICK e : e = Entry(f.op, g.own, f.cqe)
  OBVIOUS
<1>5. e \in EntryType /\ e.op = f.op /\ e.own = g.own /\ e.cqe = f.cqe
  <2>1. f.op \in {"invalid", "done", "resize"} /\ g.own \in {0, 1}
        /\ f.cqe \in Cqe \cup {Nothing}
    BY <1>3 DEF EntryType
  <2> QED
    BY <1>4, <2>1, EntryFields
<1>6. b2 = [b EXCEPT ![(c + j) % n] = e]
  BY <1>2, <1>4
<1>7. b2 \in [0 .. n - 1 -> EntryType] /\ b2[(c + j) % n] = e
  BY <1>0, <1>1, <1>5, <1>6
<1>8. ASSUME NEW k \in 0 .. n - 1, k # j
      PROVE  b2[(c + k) % n] = b[(c + k) % n]
  <2>1. (c + k) % n # (c + j) % n
    BY <1>0, <1>8, OtherEntry
  <2> QED
    BY <1>1, <1>6, <2>1
<1>9. ASSUME NEW k \in 0 .. n - 1
      PROVE  /\ Owned(b2, n, c + k) <=> k < w
             /\ k < w => Done(b2[(c + k) % n])
  <2>1. /\ Owned(b, n, c + k) <=> k < w
        /\ k < w => Done(b[(c + k) % n])
    BY DEF Ring
  <2>2. CASE k = j
    <3>1. j < w /\ i < w
      BY SizeFacts
    <3>2. Owned(b, n, c + j) /\ Done(f)
      BY <1>0, <1>2, <3>1 DEF Ring
    <3>3. g.own = Parity(c + j, n) /\ f.op = "done" /\ f.cqe \in Cqe
      BY <1>2, <3>2 DEF Owned, Done
    <3> QED
      BY <1>5, <1>7, <2>2, <3>1, <3>3 DEF Owned, Done
  <2>3. CASE k # j
    <3>1. Owned(b2, n, c + k) <=> Owned(b, n, c + k)
      BY <1>8, <2>3 DEF Owned
    <3> QED
      BY <1>8, <2>1, <2>3, <3>1
  <2> QED
    BY <2>2, <2>3
<1> QED
  BY <1>2, <1>5, <1>7, <1>8, <1>9 DEF Ring

-----------------------------------------------------------------------------
(***************************************************************************)
(* Counting from the consumer index.                                       *)
(***************************************************************************)

(* An index is as far ahead as it was moved on.                             *)
LEMMA AheadAdd ==
  ASSUME NEW c \in Index, NEW w \in 0 .. IndexMod - 1, NEW e \in 0 .. w
  PROVE  Ahead(Add(c, w), Add(c, e)) = w - e
<1>1. IndexMod \in Nat \ {0} /\ w \in 0 .. IndexMod /\ e \in 0 .. IndexMod
      /\ w \in Nat /\ e \in Nat /\ e <= w /\ w < IndexMod /\ c \in 0 .. IndexMod - 1
  BY CqAssumption DEF Index
<1>2. PICK i \in Index, j \in Index : i = Add(c, w) /\ j = Add(c, e)
  BY <1>1, AddIs
<1>3. /\ i = (IF c + w < IndexMod THEN c + w ELSE c + w - IndexMod)
      /\ j = (IF c + e < IndexMod THEN c + e ELSE c + e - IndexMod)
  BY <1>1, <1>2, AddIs
<1>4. Ahead(i, j) = (IF j <= i THEN i - j ELSE i - j + IndexMod)
  BY AheadIs
<1>5. Ahead(i, j) = w - e
  BY ONLY <1>1, <1>3, <1>4
<1> QED
  BY <1>2, <1>5

(* The case of an index that was not moved.                                 *)
LEMMA AheadAddZero ==
  ASSUME NEW c \in Index, NEW w \in 0 .. IndexMod - 1
  PROVE  Ahead(Add(c, w), c) = w /\ Add(c, 0) = c
<1>1. IndexMod \in Nat \ {0} /\ c \in Nat /\ c < IndexMod /\ 0 \in 0 .. IndexMod /\ 0 \in 0 .. w
  BY CqAssumption DEF Index
<1>2. Add(c, 0) = c
  BY <1>1, AddIs
<1>3. Ahead(Add(c, w), Add(c, 0)) = w - 0
  BY <1>1, AheadAdd
<1> QED
  BY <1>2, <1>3

(* Every index is the other one moved on.                                   *)
LEMMA AddAhead ==
  ASSUME NEW i \in Index, NEW j \in Index
  PROVE  Add(j, Ahead(i, j)) = i /\ Ahead(i, j) \in 0 .. IndexMod - 1
<1>1. IndexMod \in Nat \ {0} /\ i \in 0 .. IndexMod - 1 /\ j \in 0 .. IndexMod - 1
  BY CqAssumption DEF Index
<1>2. PICK w \in 0 .. IndexMod - 1 : w = Ahead(i, j)
  BY AheadIs
<1>3. w = (IF j <= i THEN i - j ELSE i - j + IndexMod)
  BY <1>2, AheadIs
<1>4. Add(j, w) = (IF j + w < IndexMod THEN j + w ELSE j + w - IndexMod)
  <2>1. w \in 0 .. IndexMod
    BY <1>1
  <2> QED
    BY <2>1, AddIs
<1>5. Add(j, w) = i
  BY ONLY <1>1, <1>3, <1>4, w \in 0 .. IndexMod - 1
<1> QED
  BY <1>2, <1>5

(* Moved on twice.                                                          *)
LEMMA AddAdd ==
  ASSUME NEW c \in Index, NEW x \in Nat, NEW y \in Nat, x + y <= IndexMod
  PROVE  Add(Add(c, x), y) = Add(c, x + y)
<1>1. IndexMod \in Nat \ {0} /\ x \in 0 .. IndexMod /\ y \in 0 .. IndexMod
      /\ x + y \in 0 .. IndexMod /\ c \in 0 .. IndexMod - 1
  BY CqAssumption DEF Index
<1>2. PICK i \in Index : i = Add(c, x)
  BY <1>1, AddIs
<1>3. /\ i = (IF c + x < IndexMod THEN c + x ELSE c + x - IndexMod)
      /\ Add(i, y) = (IF i + y < IndexMod THEN i + y ELSE i + y - IndexMod)
      /\ Add(c, x + y) = (IF c + (x + y) < IndexMod THEN c + (x + y)
                                                   ELSE c + (x + y) - IndexMod)
  BY <1>1, <1>2, AddIs
<1>4. Add(i, y) = Add(c, x + y)
  <2>1. PICK u, v : u = Add(i, y) /\ v = Add(c, x + y)
    OBVIOUS
  <2>2. u = v
    BY ONLY <1>1, <1>3, <2>1, x + y <= IndexMod
  <2> QED
    BY <2>1, <2>2
<1> QED
  BY <1>2, <1>4

-----------------------------------------------------------------------------
(***************************************************************************)
(* Types.                                                                  *)
(***************************************************************************)

LoopType == [pc : {"free", "poll", "scan", "sweep", "copy", "failed"},
             n : 0 .. Ne, rsn : Rsn \cup {Nothing},
             prod_index : Index, nfreed : Nat]

CqType == [cons_index : Index, size : RingSizes, loop : LoopType]

CardType == [prod : Index, resized : Index]

(* The fields of the records.                                               *)
LEMMA Types ==
  ASSUME IndInv
  PROVE  /\ cq \in CqType /\ card \in CardType /\ cq.loop \in LoopType
         /\ cq.cons_index \in Index /\ cq.size \in RingSizes
         /\ cq.loop.pc \in {"free", "poll", "scan", "sweep", "copy"}
         /\ cq.loop.n \in 0 .. Ne /\ cq.loop.rsn \in Rsn \cup {Nothing}
         /\ cq.loop.prod_index \in Index /\ cq.loop.nfreed \in Nat
         /\ buf \in [0 .. cq.size - 1 -> EntryType]
         /\ resize_buf \in Seq(EntryType)
         /\ dbrec \in Index /\ card.prod \in Index /\ card.resized \in Index
         /\ qp_state \in [Rsn -> {"live", "reset", "clean"}]
         /\ polled \in Cqe \cup {Nothing}
<1>1. TypeOK /\ ResizeCompletes
  BY DEF IndInv
<1>2. /\ cq \in CqType /\ card \in CardType
      /\ buf \in [0 .. cq.size - 1 -> EntryType]
      /\ resize_buf \in Seq(EntryType) /\ dbrec \in Index
      /\ qp_state \in [Rsn -> {"live", "reset", "clean"}]
      /\ polled \in Cqe \cup {Nothing}
  BY <1>1 DEF TypeOK, CqType, CardType, LoopType, EntryType
<1>3. /\ cq.loop \in LoopType /\ cq.cons_index \in Index /\ cq.size \in RingSizes
      /\ card.prod \in Index /\ card.resized \in Index
  BY <1>2 DEF CqType, CardType
<1>4. /\ cq.loop.pc \in {"free", "poll", "scan", "sweep", "copy", "failed"}
      /\ cq.loop.n \in 0 .. Ne /\ cq.loop.rsn \in Rsn \cup {Nothing}
      /\ cq.loop.prod_index \in Index /\ cq.loop.nfreed \in Nat
  BY <1>3 DEF LoopType
<1>5. cq.loop.pc # "failed"
  BY <1>1 DEF ResizeCompletes, Locked
<1> QED
  BY <1>2, <1>3, <1>4, <1>5

(* Types put together again.                                                *)
LEMMA TypesAgain ==
  (/\ cq \in CqType /\ card \in CardType
   /\ buf \in [0 .. cq.size - 1 -> EntryType]
   /\ resize_buf \in Seq(EntryType) /\ dbrec \in Index
   /\ qp_state \in [Rsn -> {"live", "reset", "clean"}]
   /\ polled \in Cqe \cup {Nothing})
  => TypeOK
  BY DEF TypeOK, CqType, CardType, LoopType, EntryType

(* The indices of the card and of the loop, counted from the consumer's.    *)
LEMMA Counted ==
  ASSUME IndInv
  PROVE  /\ Ready \in Nat /\ Old \in Nat /\ Reached \in Nat
         /\ card.prod = Add(cq.cons_index, Ready)
         /\ cq.loop.prod_index = Add(cq.cons_index, Reached)
         /\ Resizing => card.resized = Add(cq.cons_index, Old)
         /\ ~Resizing => Old = Ready
         /\ Old < cq.size /\ 2 * cq.size <= IndexMod /\ cq.size \in Nat
         /\ Reached < IndexMod
         /\ Ready < IndexMod
<1>1. /\ cq.cons_index \in Index /\ cq.size \in RingSizes
      /\ cq.loop.prod_index \in Index /\ card.prod \in Index /\ card.resized \in Index
  BY Types
<1>2. cq.size \in Nat /\ 2 * cq.size <= IndexMod /\ IndexMod \in Nat
  BY <1>1, SizeFacts
<1>3. /\ Ready \in 0 .. IndexMod - 1 /\ Reached \in 0 .. IndexMod - 1
      /\ card.prod = Add(cq.cons_index, Ready)
      /\ cq.loop.prod_index = Add(cq.cons_index, Reached)
  BY <1>1, AddAhead DEF Ready, Reached
<1>4. /\ Ahead(card.resized, cq.cons_index) \in 0 .. IndexMod - 1
      /\ card.resized = Add(cq.cons_index, Ahead(card.resized, cq.cons_index))
  BY <1>1, AddAhead
<1>5. /\ Resizing => Old = Ahead(card.resized, cq.cons_index)
      /\ ~Resizing => Old = Ready
  BY DEF Old
<1>6. Old \in 0 .. IndexMod - 1
  BY <1>3, <1>4, <1>5
<1>7. Old <= cq.size - 1
  BY DEF IndInv, BufInv
<1> QED
  BY <1>2, <1>3, <1>4, <1>5, <1>6, <1>7

(* The state of the loop, in the states the steps lead to.                  *)
LEMMA IdleFacts ==
  /\ Idle \in LoopType /\ Idle.pc = "free" /\ Idle.n = 0 /\ Idle.nfreed = 0
<1>1. 0 \in Index /\ Ne \in Nat
  BY CqAssumption DEF Index
<1> QED
  BY <1>1 DEF Idle, LoopType

(* Nobody resizes but in the copying loop; the ring and the indices of a    *)
(* step that leaves them alone.                                             *)
LEMMA NotResizing ==
  ASSUME IndInv, ~Locked("copy")
  PROVE  /\ ~Resizing /\ Old = Ready
         /\ Ring(buf, cq.size, cq.cons_index, Ready, Ready)
         /\ Ready <= cq.size - 1
         /\ Ahead(card.prod, dbrec) <= cq.size - 1
         /\ Ready <= Ahead(card.prod, dbrec)
<1>1. ~Resizing
  BY DEF IndInv, LoopInv
<1>2. Old = Ready
  BY <1>1 DEF Old
<1> QED
  BY <1>1, <1>2 DEF IndInv, BufInv, RoomInv

(* What the next state has to show when it does not resize.                 *)
Quiet ==
  /\ cq \in CqType /\ card \in CardType /\ buf \in [0 .. cq.size - 1 -> EntryType]
  /\ dbrec \in Index /\ qp_state \in [Rsn -> {"live", "reset", "clean"}]
  /\ polled \in Cqe \cup {Nothing}
  /\ resize_buf = <<>>
  /\ Ring(buf, cq.size, cq.cons_index, Ready, Ready)
  /\ Ready <= cq.size - 1
  /\ Ready <= Ahead(card.prod, dbrec)
  /\ Ahead(card.prod, dbrec) <= cq.size - 1
  /\ Locked("free") => cq.loop = Idle /\ dbrec = cq.cons_index
  /\ cq.loop.pc \in {"free", "poll", "scan", "sweep"}
  /\ cq.loop.pc \in {"scan", "sweep"} => cq.loop.rsn \in Rsn
  /\ Locked("scan") => Reached <= Ready /\ cq.loop.nfreed = 0
  /\ Locked("sweep") => Reached + cq.loop.nfreed <= Ready

(* That is the invariant, of such a state.                                  *)
LEMMA QuietInv == Quiet => IndInv
<1> SUFFICES ASSUME Quiet PROVE IndInv
  OBVIOUS
<1>1. ~Resizing /\ Old = Ready
  BY DEF Quiet, Resizing, Old
<1>2. TypeOK
  <2>1. resize_buf \in Seq(EntryType)
    BY DEF Quiet
  <2> QED
    BY <2>1, TypesAgain DEF Quiet
<1>3. BufInv /\ RoomInv
  BY <1>1 DEF BufInv, RoomInv, Quiet
<1>4. LoopInv
  BY <1>1 DEF LoopInv, Quiet, Locked
<1>5. CopyInv /\ ResizeCompletes
  BY <1>1 DEF CopyInv, ResizeCompletes, Quiet, Locked
<1> QED
  BY <1>2, <1>3, <1>4, <1>5 DEF IndInv

(* And the invariant of a state that does not resize is that.               *)
LEMMA InvQuiet ==
  ASSUME IndInv, ~Locked("copy")
  PROVE  Quiet
<1>1. resize_buf = <<>>
  BY NotResizing DEF Resizing
<1>2. LoopInv
  BY DEF IndInv
<1> QED
  BY <1>1, <1>2, Types, NotResizing DEF Quiet, LoopInv, Locked

-----------------------------------------------------------------------------
(***************************************************************************)
(* The steps.                                                              *)
(***************************************************************************)

(* One call of poll_cq takes an entry.                                      *)
LEMMA PollOneStep == IndInv /\ PollOne => IndInv'
<1> SUFFICES ASSUME IndInv, PollOne PROVE IndInv'
  OBVIOUS
<1> DEFINE c == cq.cons_index  n == cq.size
<1>0. Locked("free") \/ (Locked("poll") /\ cq.loop.n < Ne)
  BY DEF PollOne, Polling
<1>1. ~Locked("copy")
  BY <1>0 DEF Locked
<1>2. Quiet
  BY <1>1, InvQuiet
<1>3. /\ c \in Index /\ n \in RingSizes /\ c \in Nat /\ n \in Nat /\ 1 \in 0 .. IndexMod
      /\ 1 < n /\ 0 \in 0 .. n - 1
  <2>1. c \in Index /\ n \in RingSizes
    BY Types
  <2> HIDE DEF c, n
  <2>2. n \in Nat \ {0, 1} /\ IndexMod \in Nat \ {0}
    BY <2>1, CqAssumption
  <2>3. c \in Nat
    BY <2>1, <2>2 DEF Index
  <2> QED
    BY <2>1, <2>2, <2>3
<1>4. Ready \in Nat /\ Ready < IndexMod /\ card.prod = Add(c, Ready) /\ Ready <= n - 1
  BY <1>2, Counted DEF Quiet
<1>5. 0 < Ready
  <2>1. Owned(buf, n, c + 0)
    BY <1>3 DEF PollOne, SwOwned, Owned
  <2> QED
    BY <1>2, <1>3, <2>1 DEF Quiet, Ring
<1>6. Ring(buf, n, Add(c, 1), Ready - 1, Ready - 1)
  <2>1. Ready \in 0 .. n /\ Ready \in 0 .. Ready /\ 1 \in 0 .. Ready
    BY <1>3, <1>4, <1>5
  <2>2. Ring(buf, n, c, Ready, Ready)
    BY <1>2 DEF Quiet
  <2> HIDE DEF c, n
  <2> QED
    BY <1>3, <2>1, <2>2, RingAdvanced
<1>7. PICK l : l = [cq.loop EXCEPT !.pc = "poll", !.n = @ + 1]
  OBVIOUS
<1>8. l \in LoopType /\ l.pc = "poll" /\ l = [cq.loop EXCEPT !.pc = "poll", !.n = cq.loop.n + 1]
  <2>1. cq.loop.n \in 0 .. Ne - 1
    <3>1. Ne \in Nat \ {0} /\ cq.loop.n \in 0 .. Ne
      BY Types, CqAssumption
    <3>2. Locked("free") => cq.loop.n = 0
      BY <1>2, IdleFacts DEF Quiet
    <3> QED
      BY <1>0, <3>1, <3>2
  <2>2. cq.loop \in LoopType /\ Ne \in Nat
    BY Types, CqAssumption
  <2>3. PICK o, m : o = cq.loop /\ m = o.n + 1
    OBVIOUS
  <2>4. m \in 0 .. Ne
    BY <2>1, <2>2, <2>3
  <2>5. l = [o EXCEPT !.pc = "poll", !.n = m] /\ o \in LoopType
    BY <1>7, <2>2, <2>3
  <2>6. l \in LoopType /\ l.pc = "poll"
    BY <2>4, <2>5 DEF LoopType
  <2> QED
    BY <1>7, <2>6
<1>9. Add(c, 1) \in Index
  BY <1>3, AddIs
<1>10. /\ cq' \in CqType /\ cq'.loop = l /\ cq'.cons_index = Add(c, 1) /\ cq'.size = n
  <2>2. cq \in CqType
    BY Types
  <2>1. cq' = [cq EXCEPT !.cons_index = Add(c, 1), !.loop = l]
    BY <1>7, <2>2 DEF PollOne, CqType
  <2> HIDE DEF c, n
  <2>3. n = cq.size
    BY DEF n
  <2>4. PICK i \in Index : i = Add(c, 1)
    BY <1>9
  <2>5. cq' = [cq EXCEPT !.cons_index = i, !.loop = l]
    BY <2>1, <2>4
  <2>6. /\ cq' \in CqType /\ cq'.loop = l /\ cq'.cons_index = i /\ cq'.size = cq.size
    <3>1. l \in LoopType
      BY <1>8
    <3> QED
      BY ONLY <2>2, <2>4, <2>5, <3>1 DEF CqType
  <2> QED
    BY <2>3, <2>4, <2>6
<1>11. UNCHANGED <<buf, resize_buf, dbrec, card, qp_state>>
  BY DEF PollOne
<1>12. Ready' = Ready - 1
  <2>1. Ready' = Ahead(card.prod, Add(c, 1))
    BY <1>10, <1>11 DEF Ready
  <2>2. Ready \in 0 .. IndexMod - 1 /\ 1 \in 0 .. Ready
    BY <1>4, <1>5, CqAssumption
  <2>3. Ahead(Add(c, Ready), Add(c, 1)) = Ready - 1
    BY <1>3, <2>2, AheadAdd
  <2> QED
    BY <1>4, <2>1, <2>3
<1>13. polled' \in Cqe \cup {Nothing}
  <2>1. polled' = buf[c % n].cqe /\ c % n \in 0 .. n - 1
    BY <1>3, NextRound DEF PollOne
  <2>2. buf[c % n] \in EntryType
    BY <2>1, Types
  <2> QED
    BY <2>1, <2>2 DEF EntryType
<1>14. Quiet'
  <2> HIDE DEF c, n
  <2>1. /\ Ring(buf', cq'.size, cq'.cons_index, Ready', Ready')
    BY <1>6, <1>10, <1>11, <1>12
  <2>2. /\ Ready' <= cq'.size - 1 /\ Ready' <= Ahead(card'.prod, dbrec')
        /\ Ahead(card'.prod, dbrec') <= cq'.size - 1
    <3>1. PICK a : a = Ahead(card.prod, dbrec)
      OBVIOUS
    <3>2. Ready <= a /\ a <= n - 1 /\ a \in Nat
      <4>1. Ready <= a /\ a <= n - 1
        BY <1>2, <3>1 DEF Quiet, n
      <4>2. card.prod \in Index /\ dbrec \in Index
        BY Types
      <4> QED
        BY <3>1, <4>1, <4>2, AddAhead
    <3>3. Ready - 1 <= n - 1 /\ Ready - 1 <= a
      BY <1>3, <1>4, <3>2
    <3> QED
      BY <1>10, <1>11, <1>12, <3>1, <3>2, <3>3
  <2>3. cq'.loop.pc = "poll"
    BY <1>8, <1>10
  <2>4. /\ cq' \in CqType /\ card' \in CardType /\ buf' \in [0 .. cq'.size - 1 -> EntryType]
        /\ dbrec' \in Index /\ qp_state' \in [Rsn -> {"live", "reset", "clean"}]
        /\ resize_buf' = <<>>
    BY <1>2, <1>10, <1>11 DEF Quiet, n
  <2> QED
    BY <1>13, <2>1, <2>2, <2>3, <2>4 DEF Quiet, Locked
<1> QED
  BY <1>14, QuietInv, PTL

(* A step of a loop that leaves ring and indices alone.                     *)
LEMMA RingAlone ==
  ASSUME IndInv, ~Locked("copy"), UNCHANGED <<buf, resize_buf, card>>, cq' \in CqType,
         cq'.cons_index = cq.cons_index, cq'.size = cq.size
  PROVE  /\ Ready' = Ready
         /\ card' \in CardType /\ buf' \in [0 .. cq'.size - 1 -> EntryType]
         /\ resize_buf' = <<>>
         /\ Ring(buf', cq'.size, cq'.cons_index, Ready', Ready')
         /\ Ready' <= cq'.size - 1
<1>1. Ready' = Ready
  BY DEF Ready
<1>2. Quiet
  BY InvQuiet
<1> QED
  BY <1>1, <1>2 DEF Quiet

(* What a loop that ends leaves: the doorbell record is up to date.         *)
LEMMA LoopEnds ==
  ASSUME IndInv, ~Locked("copy"), UNCHANGED <<buf, resize_buf, card>>,
         cq' = [cq EXCEPT !.loop = Idle], dbrec' = cq.cons_index,
         qp_state' \in [Rsn -> {"live", "reset", "clean"}], polled' \in Cqe \cup {Nothing}
  PROVE  Quiet'
<1>1. cq \in CqType /\ Idle \in LoopType /\ cq.cons_index \in Index
  BY Types, IdleFacts
<1>2. /\ cq' \in CqType /\ cq'.loop = Idle
      /\ cq'.cons_index = cq.cons_index /\ cq'.size = cq.size
  BY <1>1 DEF CqType
<1>3. /\ Ready' = Ready
      /\ card' \in CardType /\ buf' \in [0 .. cq'.size - 1 -> EntryType]
      /\ resize_buf' = <<>>
      /\ Ring(buf', cq'.size, cq'.cons_index, Ready', Ready')
      /\ Ready' <= cq'.size - 1
  BY <1>2, RingAlone
<1>4. Ahead(card'.prod, dbrec') = Ready'
  BY <1>2 DEF Ready
<1>5. Ready' <= Ahead(card'.prod, dbrec') /\ Ahead(card'.prod, dbrec') <= cq'.size - 1
  <2>1. Ready \in Nat
    BY Counted
  <2>2. PICK w : w = Ready'
    OBVIOUS
  <2>3. w \in Nat /\ w <= w
    BY <1>3, <2>1, <2>2
  <2> QED
    BY <1>3, <1>4, <2>2, <2>3
<1>6. dbrec' \in Index /\ dbrec' = cq'.cons_index
  BY <1>1, <1>2
<1>7. cq'.loop.pc = "free"
  BY <1>2, IdleFacts
<1> QED
  BY <1>2, <1>3, <1>5, <1>6, <1>7 DEF Quiet, Locked

(* One call of poll_cq finds no entry.                                      *)
LEMMA PollEmptyStep == IndInv /\ PollEmpty => IndInv'
<1> SUFFICES ASSUME IndInv, PollEmpty PROVE IndInv'
  OBVIOUS
<1>1. ~Locked("copy")
  BY DEF PollEmpty, Polling, Locked
<1>2. qp_state' \in [Rsn -> {"live", "reset", "clean"}]
  BY Types DEF PollEmpty
<1>3. Quiet'
  BY <1>1, <1>2, LoopEnds DEF PollEmpty
<1> QED
  BY <1>3, QuietInv, PTL

(* One call of poll_cq has taken all it may.                                *)
LEMMA PollEndStep == IndInv /\ PollEnd => IndInv'
<1> SUFFICES ASSUME IndInv, PollEnd PROVE IndInv'
  OBVIOUS
<1>1. ~Locked("copy")
  BY DEF PollEnd, Locked
<1>2. qp_state' \in [Rsn -> {"live", "reset", "clean"}] /\ polled' \in Cqe \cup {Nothing}
  BY Types DEF PollEnd
<1>3. Quiet'
  BY <1>1, <1>2, LoopEnds DEF PollEnd
<1> QED
  BY <1>3, QuietInv, PTL

(* A QP changes state, or nothing happens.                                  *)
LEMMA QpStep ==
  IndInv /\ (UNCHANGED vars \/ \E r \in Rsn : ResetQp(r) \/ ReviveQp(r)) => IndInv'
<1> SUFFICES ASSUME IndInv, UNCHANGED vars \/ \E r \in Rsn : ResetQp(r) \/ ReviveQp(r)
             PROVE  IndInv'
  OBVIOUS
<1>1. qp_state \in [Rsn -> {"live", "reset", "clean"}]
  BY Types
<1>2. qp_state' \in [Rsn -> {"live", "reset", "clean"}]
      /\ UNCHANGED <<cq, buf, resize_buf, dbrec, card, polled>>
  BY <1>1 DEF vars, ResetQp, ReviveQp
<1>3. TypeOK' /\ BufInv' /\ RoomInv' /\ LoopInv' /\ CopyInv' /\ ResizeCompletes'
  <2>1. TypeOK'
    <3>1. TypeOK
      BY DEF IndInv
    <3> QED
      BY <1>2, <3>1 DEF TypeOK
  <2>2. /\ Ready' = Ready /\ Old' = Old /\ Reached' = Reached /\ NewSize' = NewSize
        /\ NewBuf' = NewBuf /\ Resizing' = Resizing
    BY <1>2 DEF Ready, Old, Reached, NewSize, NewBuf, Resizing
  <2>3. BufInv'
    BY <1>2, <2>2 DEF IndInv, BufInv
  <2>4. RoomInv'
    BY <1>2, <2>2 DEF IndInv, RoomInv
  <2>5. LoopInv' /\ ResizeCompletes'
    BY <1>2, <2>2 DEF IndInv, LoopInv, ResizeCompletes, Locked
  <2>6. CopyInv'
    BY <1>2, <2>2 DEF IndInv, CopyInv
  <2> QED
    BY <2>1, <2>3, <2>4, <2>5, <2>6
<1> QED
  BY <1>3 DEF IndInv

(* A sweep begins.                                                          *)
LEMMA CleanStartStep == ASSUME NEW r \in Rsn PROVE IndInv /\ CleanStart(r) => IndInv'
<1> SUFFICES ASSUME IndInv, CleanStart(r) PROVE IndInv'
  OBVIOUS
<1>1. ~Locked("copy")
  BY DEF CleanStart, Locked
<1>2. Quiet
  BY <1>1, InvQuiet
<1>3. PICK l : l = [Idle EXCEPT !.pc = "scan", !.rsn = r, !.prod_index = cq.cons_index]
  OBVIOUS
<1>4. cq \in CqType /\ cq.cons_index \in Index
  BY Types
<1>5. l \in LoopType /\ l.pc = "scan" /\ l.rsn = r /\ l.prod_index = cq.cons_index
      /\ l.nfreed = 0
  BY <1>3, <1>4, IdleFacts DEF LoopType
<1>6. cq' = [cq EXCEPT !.loop = l]
  BY <1>3 DEF CleanStart
<1>7. /\ cq' \in CqType /\ cq'.loop = l
      /\ cq'.cons_index = cq.cons_index /\ cq'.size = cq.size
  <2>1. l \in LoopType
    BY <1>5
  <2> QED
    BY ONLY <1>4, <1>6, <2>1 DEF CqType
<1>8. UNCHANGED <<buf, resize_buf, dbrec, card, qp_state, polled>>
  BY DEF CleanStart
<1>9. /\ Ready' = Ready
      /\ card' \in CardType /\ buf' \in [0 .. cq'.size - 1 -> EntryType]
      /\ resize_buf' = <<>>
      /\ Ring(buf', cq'.size, cq'.cons_index, Ready', Ready')
      /\ Ready' <= cq'.size - 1
  BY <1>1, <1>7, <1>8, RingAlone
<1>10. /\ dbrec' \in Index /\ qp_state' \in [Rsn -> {"live", "reset", "clean"}]
       /\ polled' \in Cqe \cup {Nothing}
       /\ Ready' <= Ahead(card'.prod, dbrec')
       /\ Ahead(card'.prod, dbrec') <= cq'.size - 1
  BY <1>2, <1>7, <1>8, <1>9 DEF Quiet
<1>11. Reached' <= Ready'
  <2>1. Reached' = 0
    <3>1. Reached' = Ahead(cq.cons_index, cq.cons_index)
      BY <1>5, <1>7 DEF Reached
    <3> QED
      BY <1>4, <3>1, AheadIs DEF Index
  <2>2. Ready' \in Nat
    BY <1>9, Counted
  <2> QED
    BY <2>1, <2>2
<1>12. Quiet'
  BY <1>5, <1>7, <1>9, <1>10, <1>11 DEF Quiet, Locked
<1> QED
  BY <1>12, QuietInv, PTL

(* An index moved on from the consumer's has the slot and the owner bit of  *)
(* its offset, in a ring of any size.                                       *)
LEMMA SlotAt ==
  ASSUME NEW n \in RingSizes, NEW c \in Index, NEW k \in 0 .. IndexMod
  PROVE  /\ Add(c, k) % n = (c + k) % n /\ Parity(Add(c, k), n) = Parity(c + k, n)
         /\ c \in Nat /\ c + k \in Nat /\ k \in Nat /\ (c + k) % n \in 0 .. n - 1
         /\ Add(c, k) \in Index
<1>1. IndexMod \in Nat /\ c \in Nat /\ k \in Nat
  BY CqAssumption DEF Index
<1>2. Add(c, k) \in Index /\ Add(c, k) \in Nat
  BY <1>1, AddIs DEF Index
<1>3. PICK a, b : a = Add(c, k) /\ b = c + k
  OBVIOUS
<1>4. a \in Nat /\ b \in Nat /\ a + 0 = a /\ b + 0 = b
  BY <1>1, <1>2, <1>3
<1>5. (Add(c, k) + 0) % n = (c + k + 0) % n /\ Parity(Add(c, k) + 0, n) = Parity(c + k + 0, n)
  BY <1>1, SameEntry
<1>6. a % n = b % n /\ Parity(a, n) = Parity(b, n)
  BY <1>3, <1>4, <1>5
<1>7. b % n \in 0 .. n - 1
  BY <1>4, NextRound
<1> QED
  BY <1>1, <1>2, <1>3, <1>4, <1>6, <1>7

(* What get_next_cqe finds at an index the loop has reached.                *)
LEMMA SwOwnedAt ==
  ASSUME NEW c, c = cq.cons_index, NEW n, n = cq.size, c \in Index, n \in RingSizes,
         NEW k \in 0 .. IndexMod
  PROVE  /\ SwOwned(Add(c, k)) <=> Owned(buf, n, c + k)
         /\ buf[Add(c, k) % n] = buf[(c + k) % n]
<1>1. Add(c, k) % n = (c + k) % n /\ Parity(Add(c, k), n) = Parity(c + k, n)
  BY SlotAt
<1> QED
  BY <1>1 DEF SwOwned, Owned

(* One step of the search for the end of the queue: it is found where the   *)
(* last entry is.                                                           *)
LEMMA ScanFinds ==
  ASSUME IndInv, Scan
  PROVE  /\ Reached < Ready =>
              /\ cq' = [cq EXCEPT !.loop.prod_index = Add(cq.loop.prod_index, 1)]
              /\ Reached + 1 <= Ready
         /\ ~ (Reached < Ready) =>
              /\ cq' = [cq EXCEPT !.loop.pc = "sweep"]
              /\ Reached = Ready
<1>1. Locked("scan") /\ ~Locked("copy")
  BY DEF Scan, Locked
<1>2. Quiet
  BY <1>1, InvQuiet
<1>3. PICK c, n, p, r : c = cq.cons_index /\ n = cq.size /\ p = cq.loop.prod_index
                        /\ r = Reached
  OBVIOUS
<1>4. /\ c \in Index /\ n \in RingSizes /\ p = Add(c, r) /\ r \in Nat /\ Ready \in Nat
      /\ r < IndexMod /\ r <= Ready /\ Ready <= n - 1 /\ n \in Nat /\ 2 * n <= IndexMod
      /\ Ring(buf, n, c, Ready, Ready) /\ p \in Index
  BY <1>1, <1>2, <1>3, Types, Counted DEF Quiet
<1>5. IndexMod \in Nat /\ r \in 0 .. IndexMod /\ r \in 0 .. n - 1 /\ n - 1 \in 0 .. IndexMod
      /\ n - 1 \in Nat /\ n - 1 < IndexMod /\ n - 1 \in 0 .. IndexMod - 1 /\ r \in 0 .. IndexMod - 1
  BY <1>4, CqAssumption
<1>6. SwOwned(p) <=> r < Ready
  <2>1. SwOwned(p) <=> Owned(buf, n, c + r)
    BY <1>3, <1>4, <1>5, SwOwnedAt
  <2> QED
    BY <1>4, <1>5, <2>1 DEF Ring
<1>7. r < Ready => p # Add(c, n - 1)
  <2>1. Ahead(Add(c, r), c) = r /\ Ahead(Add(c, n - 1), c) = n - 1
    BY <1>4, <1>5, AheadAddZero
  <2> QED
    BY <1>4, <2>1
<1>8. cq' = IF SwOwned(p) /\ p # Add(c, n - 1)
              THEN [cq EXCEPT !.loop.prod_index = Add(p, 1)]
              ELSE [cq EXCEPT !.loop.pc = "sweep"]
  BY <1>3 DEF Scan
<1> QED
  BY <1>3, <1>4, <1>6, <1>7, <1>8

(* One step of the search.                                                  *)
LEMMA ScanStep == IndInv /\ Scan => IndInv'
<1> SUFFICES ASSUME IndInv, Scan PROVE IndInv'
  OBVIOUS
<1>1. Locked("scan") /\ ~Locked("copy")
  BY DEF Scan, Locked
<1>2. Quiet
  BY <1>1, InvQuiet
<1>3. /\ cq \in CqType /\ cq.loop \in LoopType /\ cq.cons_index \in Index
      /\ cq.loop.prod_index \in Index /\ cq.loop.pc = "scan" /\ cq.loop.rsn \in Rsn
      /\ cq.loop.nfreed = 0
  BY <1>1, <1>2, Types DEF Quiet, Locked
<1>4. UNCHANGED <<buf, resize_buf, dbrec, card, qp_state, polled>>
  BY DEF Scan
<1>5. /\ Reached \in Nat /\ Ready \in Nat /\ Reached < IndexMod /\ IndexMod \in Nat
      /\ cq.loop.prod_index = Add(cq.cons_index, Reached) /\ Ready < IndexMod
      /\ Reached <= Ready
  BY <1>1, <1>2, Counted, CqAssumption DEF Quiet
<1>6. /\ cq' \in CqType /\ cq'.cons_index = cq.cons_index /\ cq'.size = cq.size
      /\ cq'.loop.rsn \in Rsn /\ cq'.loop.nfreed = 0
      /\ cq'.loop.pc \in {"scan", "sweep"}
      /\ Reached' \in Nat /\ Reached' <= Ready
  <2>1. CASE Reached < Ready
    <3>1. PICK q : q = Add(cq.loop.prod_index, 1)
      OBVIOUS
    <3>2. q = Add(cq.cons_index, Reached + 1)
      BY <1>3, <1>5, <2>1, <3>1, AddAdd
    <3>3. Reached + 1 \in 0 .. IndexMod - 1 /\ Reached + 1 \in 0 .. IndexMod
      BY <1>5, <2>1
    <3>4. q \in Index /\ Ahead(q, cq.cons_index) = Reached + 1
      BY <1>3, <3>2, <3>3, AddIs, AheadAddZero
    <3>5. cq' = [cq EXCEPT !.loop.prod_index = q]
      BY <2>1, <3>1, ScanFinds
    <3>6. /\ cq' \in CqType /\ cq'.cons_index = cq.cons_index /\ cq'.size = cq.size
          /\ cq'.loop.rsn = cq.loop.rsn /\ cq'.loop.nfreed = cq.loop.nfreed
          /\ cq'.loop.pc = cq.loop.pc /\ cq'.loop.prod_index = q
      BY <1>3, <3>4, <3>5 DEF CqType, LoopType
    <3>7. Reached' = Reached + 1
      BY <3>4, <3>6 DEF Reached
    <3> QED
      BY <1>3, <1>5, <2>1, <3>6, <3>7
  <2>2. CASE ~ (Reached < Ready)
    <3>1. cq' = [cq EXCEPT !.loop.pc = "sweep"]
      BY <2>2, ScanFinds
    <3>2. /\ cq' \in CqType /\ cq'.cons_index = cq.cons_index /\ cq'.size = cq.size
          /\ cq'.loop.rsn = cq.loop.rsn /\ cq'.loop.nfreed = cq.loop.nfreed
          /\ cq'.loop.pc = "sweep" /\ cq'.loop.prod_index = cq.loop.prod_index
      BY <1>3, <3>1 DEF CqType, LoopType
    <3>3. Reached' = Reached
      BY <3>2 DEF Reached
    <3> QED
      BY <1>3, <1>5, <3>2, <3>3
  <2> QED
    BY <2>1, <2>2
<1>7. /\ Ready' = Ready
      /\ card' \in CardType /\ buf' \in [0 .. cq'.size - 1 -> EntryType]
      /\ resize_buf' = <<>>
      /\ Ring(buf', cq'.size, cq'.cons_index, Ready', Ready')
      /\ Ready' <= cq'.size - 1
  BY <1>1, <1>4, <1>6, RingAlone
<1>8. /\ dbrec' \in Index /\ qp_state' \in [Rsn -> {"live", "reset", "clean"}]
      /\ polled' \in Cqe \cup {Nothing}
      /\ Ready' <= Ahead(card'.prod, dbrec')
      /\ Ahead(card'.prod, dbrec') <= cq'.size - 1
  BY <1>2, <1>4, <1>6, <1>7 DEF Quiet
<1>9. Quiet'
  <2>1. Reached' <= Ready' /\ Reached' + cq'.loop.nfreed <= Ready'
    <3>1. PICK x, y : x = Reached' /\ y = cq'.loop.nfreed
      OBVIOUS
    <3>2. x \in Nat /\ y = 0 /\ x <= Ready'
      BY <1>6, <1>7, <3>1
    <3>3. x + y = x
      BY ONLY <3>2
    <3>4. x <= Ready' /\ x + y <= Ready'
      BY <3>2, <3>3
    <3> QED
      BY ONLY <3>1, <3>4, Zenon
  <2>2. cq'.loop.pc # "free"
    BY <1>6
  <2> QED
    BY <1>6, <1>7, <1>8, <2>1, <2>2 DEF Quiet, Locked
<1> QED
  BY <1>9, QuietInv, PTL

(* One step of the sweep, counted from the consumer index: it looks at the  *)
(* CQE below the index reached.                                             *)
LEMMA SweepIs ==
  ASSUME IndInv, Sweep,
         NEW c, c = cq.cons_index, NEW n, n = cq.size, NEW r, r = Reached,
         NEW f, f = cq.loop.nfreed, NEW e, e = buf[(c + (r - 1)) % n]
  PROVE  /\ c \in Index /\ n \in RingSizes /\ r \in Nat /\ f \in Nat /\ 0 < r
         /\ r + f <= Ready /\ Ready <= n - 1 /\ Done(e) /\ e \in EntryType
         /\ cq'.loop.prod_index = Add(c, r - 1) /\ Reached' = r - 1
         /\ cq'.loop.nfreed = (IF e.cqe.rsn = cq.loop.rsn THEN f + 1 ELSE f)
         /\ buf' = IF e.cqe.rsn = cq.loop.rsn \/ f = 0 THEN buf
                   ELSE [buf EXCEPT ![(c + (r - 1 + f)) % n] =
                           Entry(e.op, buf[(c + (r - 1 + f)) % n].own, e.cqe)]
         /\ cq' \in CqType /\ cq'.cons_index = c /\ cq'.size = n
         /\ cq'.loop.pc = "sweep" /\ cq'.loop.rsn = cq.loop.rsn /\ cq.loop.rsn \in Rsn
<1>1. Locked("sweep") /\ ~Locked("copy") /\ cq.loop.pc = "sweep"
  BY DEF Sweep, Locked
<1>2. Quiet
  BY <1>1, InvQuiet
<1>3. /\ cq \in CqType /\ cq.loop \in LoopType /\ c \in Index /\ n \in RingSizes
      /\ cq.loop.prod_index \in Index /\ f \in Nat
      /\ buf \in [0 .. n - 1 -> EntryType]
  BY Types
<1>4. /\ r \in Nat /\ cq.loop.prod_index = Add(c, r) /\ Ready \in Nat /\ Ready < IndexMod
      /\ r + f <= Ready /\ Ready <= n - 1 /\ Ring(buf, n, c, Ready, Ready)
      /\ n \in Nat /\ IndexMod \in Nat /\ cq.loop.rsn \in Rsn
  BY <1>1, <1>2, Counted, CqAssumption DEF Quiet
<1>5. 0 < r
  <2>1. Add(c, 0) = c
    BY <1>3, <1>4, AheadAddZero
  <2>2. Add(c, r) # c
    BY <1>4 DEF Sweep
  <2> QED
    BY <1>4, <2>1, <2>2
<1>6. PICK k \in Nat : k = r - 1
  BY <1>4, <1>5
<1>7. k < Ready /\ k \in 0 .. n - 1 /\ k \in 0 .. IndexMod /\ k \in 0 .. IndexMod - 1
      /\ r = k + 1 /\ r <= IndexMod /\ k + f \in 0 .. IndexMod /\ k + f <= IndexMod
      /\ c \in Nat
  <2>1. PICK w : w = Ready
    OBVIOUS
  <2>2. /\ w \in Nat /\ w < IndexMod /\ r + f <= w /\ w <= n - 1 /\ c \in 0 .. IndexMod - 1
        /\ n \in Nat /\ IndexMod \in Nat
    BY <1>3, <1>4, <2>1 DEF Index
  <2>3. k < w /\ k \in 0 .. n - 1 /\ k \in 0 .. IndexMod /\ k \in 0 .. IndexMod - 1
        /\ r = k + 1 /\ r <= IndexMod /\ k + f \in 0 .. IndexMod /\ k + f <= IndexMod
        /\ c \in Nat
    BY ONLY <1>3, <1>4, <1>5, <1>6, <2>2
  <2> QED
    BY <2>1, <2>3
<1>8. PICK p : p = Add(cq.loop.prod_index, -1)
  OBVIOUS
<1>9. p \in Index /\ Add(p, 1) = Add(c, r)
  BY <1>3, <1>4, <1>8, BackIs
<1>10. p = Add(c, k)
  <2>1. Add(Add(c, k), 1) = Add(c, r)
    BY <1>3, <1>7, AddAdd
  <2>2. Add(c, k) \in Index
    BY <1>3, <1>7, AddIs
  <2>3. PICK q \in Index : q = Add(c, k)
    BY <2>2
  <2>4. Add(q, 1) = Add(p, 1) /\ 1 \in 0 .. IndexMod
    BY <1>4, <1>7, <1>9, <2>1, <2>3
  <2>5. /\ Add(q, 1) = (IF q + 1 < IndexMod THEN q + 1 ELSE q + 1 - IndexMod)
        /\ Add(p, 1) = (IF p + 1 < IndexMod THEN p + 1 ELSE p + 1 - IndexMod)
    BY <1>9, <2>4, AddIs
  <2>6. q \in 0 .. IndexMod - 1 /\ p \in 0 .. IndexMod - 1
    BY <1>9 DEF Index
  <2>7. q = p
    BY ONLY <1>4, <2>4, <2>5, <2>6
  <2> QED
    BY <2>3, <2>7
<1>11. /\ buf[p % n] = e /\ e \in EntryType
       /\ Add(p, f) % n = (c + (k + f)) % n
  <2>1. /\ Add(c, k) % n = (c + k) % n /\ (c + k) % n \in 0 .. n - 1
        /\ Add(c, k + f) % n = (c + (k + f)) % n
    BY <1>3, <1>7, SlotAt
  <2>2. Add(p, f) = Add(c, k + f)
    BY <1>3, <1>7, <1>10, AddAdd
  <2> QED
    BY <1>3, <1>6, <1>10, <2>1, <2>2
<1>12. Done(e)
  BY <1>4, <1>6, <1>7 DEF Ring
<1>13. /\ cq' = [cq EXCEPT !.loop.prod_index = p,
                           !.loop.nfreed = IF e.cqe.rsn = cq.loop.rsn THEN @ + 1 ELSE @]
       /\ buf' = IF e.cqe.rsn = cq.loop.rsn \/ f = 0 THEN buf
                 ELSE [buf EXCEPT ![(c + (k + f)) % n] = Entry(e.op, @.own, e.cqe)]
  BY <1>8, <1>11 DEF Sweep
<1>14. PICK g \in Nat : g = (IF e.cqe.rsn = cq.loop.rsn THEN f + 1 ELSE f)
  BY <1>3
<1>15. cq' = [cq EXCEPT !.loop.prod_index = p, !.loop.nfreed = g]
  BY <1>13, <1>14
<1>16. /\ cq' \in CqType /\ cq'.cons_index = c /\ cq'.size = n
       /\ cq'.loop.pc = "sweep" /\ cq'.loop.rsn = cq.loop.rsn
       /\ cq'.loop.prod_index = p /\ cq'.loop.nfreed = g
  <2>1. /\ cq' \in CqType /\ cq'.cons_index = cq.cons_index /\ cq'.size = cq.size
        /\ cq'.loop.pc = cq.loop.pc /\ cq'.loop.rsn = cq.loop.rsn
        /\ cq'.loop.prod_index = p /\ cq'.loop.nfreed = g
    BY ONLY <1>3, <1>9, <1>14, <1>15 DEF CqType, LoopType
  <2> QED
    BY <1>1, <2>1
<1>17. Reached' = r - 1
  <2>1. Reached' = Ahead(Add(c, k), c)
    BY <1>10, <1>16 DEF Reached
  <2> QED
    BY <1>3, <1>6, <1>7, <2>1, AheadAddZero
<1>18. /\ buf' = IF e.cqe.rsn = cq.loop.rsn \/ f = 0 THEN buf
                 ELSE [buf EXCEPT ![(c + (k + f)) % n] =
                         Entry(e.op, buf[(c + (k + f)) % n].own, e.cqe)]
  BY <1>13
<1> QED
  BY <1>3, <1>4, <1>5, <1>6, <1>10, <1>11, <1>12, <1>14, <1>16, <1>17, <1>18

(* One step of the sweep.                                                   *)
LEMMA SweepStep == IndInv /\ Sweep => IndInv'
<1> SUFFICES ASSUME IndInv, Sweep PROVE IndInv'
  OBVIOUS
<1>1. Locked("sweep") /\ ~Locked("copy")
  BY DEF Sweep, Locked
<1>2. Quiet
  BY <1>1, InvQuiet
<1>3. PICK c, n, r, f : c = cq.cons_index /\ n = cq.size /\ r = Reached
                        /\ f = cq.loop.nfreed
  OBVIOUS
<1>4. PICK e : e = buf[(c + (r - 1)) % n]
  OBVIOUS
<1>5. /\ c \in Index /\ n \in RingSizes /\ r \in Nat /\ f \in Nat /\ 0 < r
      /\ r + f <= Ready /\ Ready <= n - 1
      /\ Reached' = r - 1
      /\ cq'.loop.nfreed = (IF e.cqe.rsn = cq.loop.rsn THEN f + 1 ELSE f)
      /\ buf' = IF e.cqe.rsn = cq.loop.rsn \/ f = 0 THEN buf
                ELSE [buf EXCEPT ![(c + (r - 1 + f)) % n] =
                        Entry(e.op, buf[(c + (r - 1 + f)) % n].own, e.cqe)]
  BY <1>3, <1>4, SweepIs
<1>6. /\ cq' \in CqType /\ cq'.cons_index = c /\ cq'.size = n
      /\ cq'.loop.pc = "sweep" /\ cq'.loop.rsn \in Rsn
  BY <1>3, <1>4, SweepIs
<1>7. UNCHANGED <<resize_buf, dbrec, card, qp_state, polled>>
  BY DEF Sweep
<1>8. Ready' = Ready /\ Ready \in Nat /\ c \in Nat /\ n \in Nat
  BY <1>3, <1>5, <1>6, <1>7, Counted DEF Ready, Index
<1>9. /\ buf' \in [0 .. n - 1 -> EntryType]
      /\ Ring(buf', n, c, Ready, Ready)
  <2>1. buf \in [0 .. n - 1 -> EntryType] /\ Ring(buf, n, c, Ready, Ready)
    BY <1>2, <1>3 DEF Quiet
  <2>2. CASE e.cqe.rsn = cq.loop.rsn \/ f = 0
    BY <1>5, <2>1, <2>2
  <2>3. CASE ~ (e.cqe.rsn = cq.loop.rsn \/ f = 0)
    <3>1. PICK i, j : i = r - 1 /\ j = r - 1 + f
      OBVIOUS
    <3>2. PICK w : w = Ready
      OBVIOUS
    <3>3. w \in 0 .. n /\ i \in 0 .. w - 1 /\ j \in 0 .. w - 1
      BY <1>5, <1>8, <3>1, <3>2
    <3>4. buf' = [buf EXCEPT ![(c + j) % n] =
                    Entry(buf[(c + i) % n].op, buf[(c + j) % n].own, buf[(c + i) % n].cqe)]
      BY <1>4, <1>5, <2>3, <3>1
    <3>5. Ring(buf, n, c, w, w)
      BY <2>1, <3>2
    <3>6. buf' \in [0 .. n - 1 -> EntryType] /\ Ring(buf', n, c, w, w)
      <4>1. n \in RingSizes /\ buf \in [0 .. n - 1 -> EntryType] /\ c \in Nat
        BY <1>5, <1>8, <2>1
      <4> QED
        BY ONLY <4>1, <3>3, <3>4, <3>5, RingMoved
    <3> QED
      BY <3>2, <3>6
  <2> QED
    BY <2>2, <2>3
<1>10. Reached' + cq'.loop.nfreed <= Ready'
  <2>1. PICK g : g = (IF e.cqe.rsn = cq.loop.rsn THEN f + 1 ELSE f)
    OBVIOUS
  <2>2. r - 1 + g <= Ready
    BY <1>5, <1>8, <2>1
  <2> QED
    BY <1>5, <1>8, <2>1, <2>2
<1>11. Quiet'
  <2>1. /\ card' \in CardType /\ resize_buf' = <<>>
        /\ dbrec' \in Index /\ qp_state' \in [Rsn -> {"live", "reset", "clean"}]
        /\ polled' \in Cqe \cup {Nothing}
        /\ Ready' <= Ahead(card'.prod, dbrec')
        /\ Ahead(card'.prod, dbrec') <= cq'.size - 1
    BY <1>2, <1>3, <1>6, <1>7, <1>8 DEF Quiet
  <2>2. /\ buf' \in [0 .. cq'.size - 1 -> EntryType]
        /\ Ring(buf', cq'.size, cq'.cons_index, Ready', Ready')
        /\ Ready' <= cq'.size - 1
    BY <1>5, <1>6, <1>8, <1>9
  <2> QED
    BY <1>6, <1>10, <2>1, <2>2 DEF Quiet, Locked
<1> QED
  BY <1>11, QuietInv, PTL

(* The sweep ends: the consumer index moves over the entries freed.         *)
LEMMA CleanEndStep == IndInv /\ CleanEnd => IndInv'
<1> SUFFICES ASSUME IndInv, CleanEnd PROVE IndInv'
  OBVIOUS
<1>1. Locked("sweep") /\ ~Locked("copy")
  BY DEF CleanEnd, Locked
<1>2. Quiet
  BY <1>1, InvQuiet
<1>3. PICK c, n, w, f : c = cq.cons_index /\ n = cq.size /\ w = Ready
                        /\ f = cq.loop.nfreed
  OBVIOUS
<1>4. /\ c \in Index /\ n \in RingSizes /\ f \in Nat /\ cq \in CqType
      /\ w \in Nat /\ w <= n - 1 /\ Ring(buf, n, c, w, w) /\ n \in Nat
      /\ w < IndexMod /\ IndexMod \in Nat /\ card.prod = Add(c, w) /\ cq.loop.rsn \in Rsn
  BY <1>1, <1>2, <1>3, Types, Counted, CqAssumption DEF Quiet, Locked
<1>5. Reached = 0 /\ f <= w
  <2>1. cq.loop.prod_index = c
    BY <1>3 DEF CleanEnd
  <2>2. Reached = 0
    <3>1. Reached = Ahead(c, c)
      BY <1>3, <2>1 DEF Reached
    <3>2. 0 \in 0 .. IndexMod - 1
      BY CqAssumption
    <3>3. Ahead(Add(c, 0), c) = 0 /\ Add(c, 0) = c
      BY <1>4, <3>2, AheadAddZero
    <3> QED
      BY <3>1, <3>3
  <2>3. Reached + f <= w
    BY <1>1, <1>2, <1>3 DEF Quiet
  <2> QED
    BY <1>4, <2>2, <2>3
<1>6. f \in 0 .. w /\ w \in 0 .. n /\ w \in 0 .. w /\ w \in 0 .. IndexMod - 1 /\ f \in 0 .. IndexMod
  BY <1>4, <1>5
<1>7. Ring(buf, n, Add(c, f), w - f, w - f)
  BY <1>4, <1>6, RingAdvanced
<1>8. PICK i \in Index : i = Add(c, f)
  BY <1>4, <1>6, AddIs
<1>9. cq' = [cq EXCEPT !.cons_index = i, !.loop = Idle]
  BY <1>3, <1>8 DEF CleanEnd
<1>10. /\ cq' \in CqType /\ cq'.loop = Idle /\ cq'.cons_index = i /\ cq'.size = n
  <2>1. Idle \in LoopType
    BY IdleFacts
  <2>2. /\ cq' \in CqType /\ cq'.loop = Idle /\ cq'.cons_index = i /\ cq'.size = cq.size
    BY ONLY <1>4, <1>9, <2>1, i \in Index DEF CqType
  <2> QED
    BY <1>3, <2>2
<1>11. /\ UNCHANGED <<buf, resize_buf, card, polled>> /\ dbrec' = i
       /\ qp_state' \in [Rsn -> {"live", "reset", "clean"}]
  <2>1. qp_state \in [Rsn -> {"live", "reset", "clean"}]
    BY Types
  <2> QED
    BY <1>10, <2>1 DEF CleanEnd
<1>12. Ready' = w - f /\ Ahead(card'.prod, dbrec') = w - f
  <2>1. Ahead(Add(c, w), Add(c, f)) = w - f
    BY <1>4, <1>6, AheadAdd
  <2> QED
    BY <1>4, <1>8, <1>10, <1>11, <2>1 DEF Ready
<1>13. w - f <= n - 1 /\ w - f <= w - f
  BY <1>4, <1>6
<1>14. Quiet'
  <2>1. card \in CardType /\ resize_buf = <<>> /\ polled \in Cqe \cup {Nothing}
        /\ buf \in [0 .. n - 1 -> EntryType]
    BY <1>2, <1>3 DEF Quiet
  <2>2. cq'.loop.pc = "free"
    BY <1>10, IdleFacts
  <2> QED
    BY <1>7, <1>8, <1>10, <1>11, <1>12, <1>13, <2>1, <2>2 DEF Quiet, Locked
<1> QED
  BY <1>14, QuietInv, PTL

(* The invariant of a state that resizes.                                   *)
Busy ==
  /\ cq \in CqType /\ card \in CardType /\ buf \in [0 .. cq.size - 1 -> EntryType]
  /\ dbrec = cq.cons_index /\ qp_state \in [Rsn -> {"live", "reset", "clean"}]
  /\ polled \in Cqe \cup {Nothing}
  /\ resize_buf \in Seq(EntryType) /\ resize_buf # <<>>
  /\ Ring(buf, cq.size, cq.cons_index, Old + 1, Old)
  /\ Old <= cq.size - 1
  /\ buf[(cq.cons_index + Old) % cq.size].op = "resize"
  /\ Old + 1 <= Ready /\ Ready <= NewSize
  /\ Locked("copy") /\ Reached <= Old
  /\ NewSize \in RingSizes
  /\ Copying(NewBuf, NewSize, cq.cons_index, Reached, Old, Ready - 1, buf, cq.size)

(* It is the invariant, of such a state.                                    *)
LEMMA BusyInv == Busy => IndInv
<1> SUFFICES ASSUME Busy PROVE IndInv
  OBVIOUS
<1>1. Resizing
  BY DEF Busy, Resizing
<1>2. TypeOK
  <2>1. dbrec \in Index
    BY DEF Busy, CqType
  <2> QED
    BY <2>1, TypesAgain DEF Busy
<1>3. BufInv
  BY <1>1 DEF BufInv, Busy
<1>4. RoomInv
  <2>1. Ahead(card.prod, dbrec) = Ready /\ Ready \in Nat
    <3>1. cq.cons_index \in Index /\ card.prod \in Index
      BY DEF Busy, CqType, CardType
    <3> QED
      BY <3>1, AddAhead DEF Ready, Busy
  <2> QED
    BY <1>1, <2>1 DEF RoomInv, Busy
<1>5. LoopInv /\ ResizeCompletes
  BY <1>1 DEF LoopInv, Busy, Locked, ResizeCompletes
<1>6. CopyInv
  BY <1>1 DEF CopyInv, Busy
<1> QED
  BY <1>2, <1>3, <1>4, <1>5, <1>6 DEF IndInv

(* And the other way round.                                                 *)
LEMMA InvBusy ==
  ASSUME IndInv, Locked("copy")
  PROVE  Busy /\ Resizing
<1>1. Resizing
  BY DEF IndInv, LoopInv
<1> QED
  BY <1>1, Types DEF IndInv, BufInv, RoomInv, LoopInv, CopyInv, Busy, Locked, Resizing

(* The new ring, counted from 0 as the other is.                            *)
LEMMA NewBufType ==
  ASSUME resize_buf \in Seq(EntryType)
  PROVE  NewSize \in Nat /\ NewBuf \in [0 .. NewSize - 1 -> EntryType]
<1>1. NewSize \in Nat /\ resize_buf \in [1 .. NewSize -> EntryType]
  BY DEF NewSize
<1> QED
  BY <1>1 DEF NewBuf

(* An entry of it is written.                                               *)
LEMMA NewBufWritten ==
  ASSUME resize_buf \in Seq(EntryType), NEW x \in 0 .. NewSize - 1, NEW e \in EntryType,
         resize_buf' = [resize_buf EXCEPT ![1 + x] = e]
  PROVE  /\ resize_buf' \in Seq(EntryType) /\ NewSize' = NewSize
         /\ NewBuf' = [NewBuf EXCEPT ![x] = e]
         /\ resize_buf # <<>> => resize_buf' # <<>>
<1>1. NewSize \in Nat /\ resize_buf \in [1 .. NewSize -> EntryType] /\ 1 + x \in 1 .. NewSize
  BY DEF NewSize
<1>2. resize_buf' \in Seq(EntryType) /\ NewSize' = NewSize
  BY DEF NewSize
<1>3. NewBuf' = [k \in 0 .. NewSize - 1 |-> resize_buf'[k + 1]]
  BY <1>2 DEF NewBuf
<1>4. \A k \in 0 .. NewSize - 1 : resize_buf'[k + 1] = [NewBuf EXCEPT ![x] = e][k]
  <2>1. TAKE k \in 0 .. NewSize - 1
  <2>2. k + 1 \in 1 .. NewSize /\ (k + 1 = 1 + x <=> k = x)
    BY <1>1
  <2>3. resize_buf'[k + 1] = IF k = x THEN e ELSE resize_buf[k + 1]
    BY <1>1, <2>2
  <2> QED
    BY <2>3 DEF NewBuf
<1>5. NewBuf' = [NewBuf EXCEPT ![x] = e]
  BY <1>3, <1>4 DEF NewBuf
<1>6. resize_buf # <<>> => resize_buf' # <<>>
  BY <1>1, <1>2 DEF NewSize
<1> QED
  BY <1>2, <1>5, <1>6

(* The entry at offset j of the new ring is written: the one of the next    *)
(* CQE to copy, or the one behind the last.                                 *)
LEMMA CopyingWritten ==
  ASSUME NEW m \in RingSizes, NEW nb \in [0 .. m - 1 -> EntryType], NEW c \in Nat,
         NEW d \in Nat, NEW o \in Nat, NEW w \in Nat, NEW d2 \in Nat, NEW w2 \in Nat,
         NEW b, NEW n, Copying(nb, m, c, d, o, w, b, n), d <= o, o <= w,
         NEW j \in 0 .. m - 1, NEW e \in EntryType, NEW nb2,
         nb2 = [nb EXCEPT ![(c + 1 + j) % m] = e],
         \/ /\ j = d /\ d < o /\ d2 = d + 1 /\ w2 = w
            /\ e = Entry("done", Parity(c + 1 + j, m), b[(c + j) % n].cqe)
         \/ /\ j = w /\ w2 = w + 1 /\ d2 = d
            /\ Done(e) /\ e.own = Parity(c + 1 + j, m)
  PROVE  Copying(nb2, m, c, d2, o, w2, b, n)
<1>0. c + 1 \in Nat /\ m \in Nat
  BY SizeFacts
<1>1. \A k \in 0 .. m - 1 : (c + 1 + k) % m \in 0 .. m - 1
  <2>1. TAKE k \in 0 .. m - 1
  <2>2. PICK a \in Nat : a = c + 1 + k
    BY <1>0
  <2>3. a % m \in 0 .. m - 1
    BY <2>2, NextRound
  <2> QED
    BY <2>2, <2>3
<1> SUFFICES ASSUME NEW k \in 0 .. m - 1, NEW f, f = nb2[(c + 1 + k) % m]
             PROVE  IF k < d2
                      THEN f = Entry("done", Parity(c + 1 + k, m), b[(c + k) % n].cqe)
                    ELSE IF o <= k /\ k < w2
                      THEN Done(f) /\ f.own = Parity(c + 1 + k, m)
                    ELSE f = Invalid
  BY DEF Copying
<1>2. CASE k = j
  <2>1. f = e
    BY <1>1, <1>2
  <2> QED
    BY <1>2, <2>1
<1>3. CASE k # j
  <2>1. (c + 1 + k) % m # (c + 1 + j) % m
    BY <1>0, <1>3, OtherEntry
  <2>2. f = nb[(c + 1 + k) % m]
    BY <1>1, <2>1
  <2>3. IF k < d
          THEN f = Entry("done", Parity(c + 1 + k, m), b[(c + k) % n].cqe)
        ELSE IF o <= k /\ k < w
          THEN Done(f) /\ f.own = Parity(c + 1 + k, m)
        ELSE f = Invalid
    BY <2>2 DEF Copying
  <2>4. (k < d2 <=> k < d) /\ (k < w2 <=> k < w)
    BY <1>0, <1>3
  <2> QED
    BY <2>3, <2>4
<1> QED
  BY <1>2, <1>3

(* A CQE of the card is an entry of a ring.                                 *)
LEMMA DoneEntry ==
  ASSUME NEW q \in Cqe, NEW i \in Nat, NEW n \in RingSizes,
         NEW e, e = Entry("done", Parity(i, n), q)
  PROVE  e \in EntryType /\ e.op # "invalid" /\ e.own = Parity(i, n) /\ Done(e)
         /\ e.cqe = q
<1>1. Parity(i, n) \in {0, 1}
  BY NextRound
<1>2. e \in EntryType /\ e.op = "done" /\ e.own = Parity(i, n) /\ e.cqe = q
  BY <1>1, EntryFields
<1> QED
  BY <1>2 DEF Done

(* The producer index of the card, one further.                             *)
LEMMA CardWritten ==
  ASSUME IndInv, NEW s, s = [card EXCEPT !.prod = Add(@, 1)], Ready + 1 < IndexMod
  PROVE  /\ s \in CardType /\ s.resized = card.resized
         /\ s.prod = Add(cq.cons_index, Ready + 1)
         /\ Ahead(s.prod, cq.cons_index) = Ready + 1
<1>1. /\ card \in CardType /\ card.prod \in Index /\ cq.cons_index \in Index
      /\ card.prod = Add(cq.cons_index, Ready) /\ Ready \in Nat /\ IndexMod \in Nat
  BY Types, Counted, CqAssumption
<1>2. PICK i : i = Add(card.prod, 1)
  OBVIOUS
<1>3. Ready + 1 \in 0 .. IndexMod - 1 /\ Ready + 1 \in 0 .. IndexMod
  BY <1>1
<1>4. i = Add(cq.cons_index, Ready + 1)
  BY <1>1, <1>2, AddAdd
<1>5. i \in Index
  BY <1>1, <1>3, <1>4, AddIs
<1>6. s = [card EXCEPT !.prod = i]
  BY <1>2
<1>7. s \in CardType /\ s.resized = card.resized /\ s.prod = i
  BY ONLY <1>1, <1>5, <1>6 DEF CardType
<1>8. Ahead(i, cq.cons_index) = Ready + 1
  BY <1>1, <1>3, <1>4, AheadAddZero
<1> QED
  BY <1>4, <1>7, <1>8

(* The card writes a CQE into the ring.                                     *)
LEMMA PutStep ==
  ASSUME NEW q \in Cqe
  PROVE  IndInv /\ ~Resizing /\ Put(q) => IndInv'
<1> SUFFICES ASSUME IndInv, ~Resizing, Put(q) PROVE IndInv'
  OBVIOUS
<1>1. ~Locked("copy")
  BY DEF IndInv, LoopInv
<1>2. Quiet
  BY <1>1, InvQuiet
<1>3. PICK c, n, w, a : c = cq.cons_index /\ n = cq.size /\ w = Ready
                        /\ a = Ahead(card.prod, dbrec)
  OBVIOUS
<1>4. /\ c \in Index /\ n \in RingSizes /\ dbrec \in Index /\ card.prod \in Index
      /\ w \in Nat /\ w <= a /\ a < n - 1 /\ Ring(buf, n, c, w, w) /\ n \in Nat
      /\ 2 * n <= IndexMod /\ IndexMod \in Nat /\ card.prod = Add(c, w)
      /\ buf \in [0 .. n - 1 -> EntryType]
  BY <1>2, <1>3, Types, Counted, CqAssumption DEF Quiet, Put, Room
<1>5. a \in Nat /\ card.prod = Add(dbrec, a)
  BY <1>3, <1>4, AddAhead
<1>6. /\ w + 1 < IndexMod /\ w + 1 <= n - 1 /\ w \in 0 .. n - 1 /\ w \in 0 .. IndexMod
      /\ a + 1 \in 0 .. IndexMod - 1 /\ w + 1 <= a + 1 /\ a + 1 <= n - 1 /\ a + 1 <= IndexMod
      /\ a + 1 \in 0 .. IndexMod
  BY <1>4, <1>5
<1>7. /\ card' \in CardType /\ card'.prod = Add(c, w + 1)
      /\ Ahead(card'.prod, c) = w + 1
  <2>1. card' = [card EXCEPT !.prod = Add(@, 1)]
    BY DEF Put
  <2> QED
    BY <1>3, <1>6, <2>1, CardWritten
<1>8. Ahead(card'.prod, dbrec) = a + 1
  <2>1. card'.prod = Add(card.prod, 1)
    BY Types DEF Put, CardType
  <2>2. Add(Add(dbrec, a), 1) = Add(dbrec, a + 1)
    BY <1>4, <1>5, <1>6, AddAdd
  <2>3. Ahead(Add(dbrec, a + 1), dbrec) = a + 1
    BY <1>4, <1>6, AheadAddZero
  <2> QED
    BY <1>5, <2>1, <2>2, <2>3
<1>9. PICK e : e = Entry("done", Parity(c + w, n), q)
  OBVIOUS
<1>10. /\ c \in Nat /\ c + w \in Nat /\ card.prod % n = (c + w) % n
       /\ Parity(card.prod, n) = Parity(c + w, n)
  BY <1>4, <1>6, SlotAt
<1>11. e \in EntryType /\ e.op # "invalid" /\ e.own = Parity(c + w, n) /\ Done(e)
  BY <1>4, <1>9, <1>10, DoneEntry
<1>12. buf' = [buf EXCEPT ![(c + w) % n] = e]
  BY <1>3, <1>9, <1>10 DEF Put
<1>13. buf' \in [0 .. n - 1 -> EntryType] /\ Ring(buf', n, c, w + 1, w + 1)
  <2>1. PICK v : v = w + 1
    OBVIOUS
  <2>2. Ring(buf', n, c, v, w)
    BY <1>4, <1>6, <1>10, <1>11, <1>12, <2>1, RingWritten
  <2>3. (c + w) % n \in 0 .. n - 1
    BY <1>4, <1>10, NextRound
  <2>4. buf' \in [0 .. n - 1 -> EntryType] /\ buf'[(c + w) % n] = e
    BY <1>4, <1>11, <1>12, <2>3
  <2> QED
    BY <1>4, <1>6, <1>10, <1>11, <2>1, <2>2, <2>4, RingDone
<1>14. UNCHANGED <<cq, resize_buf, dbrec, qp_state, polled>>
  BY DEF Put
<1>15. Ready' = w + 1 /\ Reached' = Reached
  BY <1>3, <1>7, <1>14 DEF Ready, Reached
<1>16. Quiet'
  <2>1. /\ Locked("scan") => Reached <= w + 1 /\ cq.loop.nfreed = 0
        /\ Locked("sweep") => Reached + cq.loop.nfreed <= w + 1
    <3>1. PICK x, y : x = Reached /\ y = cq.loop.nfreed
      OBVIOUS
    <3>2. /\ x \in Nat /\ y \in Nat
          /\ Locked("scan") => x <= w /\ y = 0
          /\ Locked("sweep") => x + y <= w
      BY <1>2, <1>3, <3>1, Types, Counted DEF Quiet
    <3>3. /\ Locked("scan") => x <= w + 1 /\ y = 0
          /\ Locked("sweep") => x + y <= w + 1
      BY ONLY <1>4, <3>2
    <3> QED
      BY <3>1, <3>3
  <2>2. /\ cq \in CqType /\ dbrec \in Index /\ qp_state \in [Rsn -> {"live", "reset", "clean"}]
        /\ polled \in Cqe \cup {Nothing} /\ resize_buf = <<>>
        /\ Locked("free") => cq.loop = Idle /\ dbrec = cq.cons_index
        /\ cq.loop.pc \in {"free", "poll", "scan", "sweep"}
        /\ cq.loop.pc \in {"scan", "sweep"} => cq.loop.rsn \in Rsn
    BY <1>2 DEF Quiet
  <2> QED
    BY <1>3, <1>6, <1>7, <1>8, <1>13, <1>14, <1>15, <2>1, <2>2 DEF Quiet, Locked
<1> QED
  BY <1>16, QuietInv, PTL

(* The card writes a CQE into the new ring.                                 *)
LEMMA PutNewStep ==
  ASSUME NEW q \in Cqe
  PROVE  IndInv /\ Resizing /\ Put(q) => IndInv'
<1> SUFFICES ASSUME IndInv, Resizing, Put(q) PROVE IndInv'
  OBVIOUS
<1>1. Locked("copy")
  BY DEF IndInv, LoopInv
<1>2. Busy
  BY <1>1, InvBusy
<1>3. PICK c, n, m, w : c = cq.cons_index /\ n = cq.size /\ m = NewSize /\ w = Ready
  OBVIOUS
<1>4. /\ c \in Index /\ n \in RingSizes /\ m \in RingSizes /\ m \in Nat
      /\ w \in Nat /\ w < m /\ Old \in Nat /\ Old + 1 <= w /\ Reached \in Nat
      /\ Reached <= Old /\ 2 * m <= IndexMod /\ IndexMod \in Nat
      /\ card.prod = Add(c, w) /\ dbrec = c
      /\ Copying(NewBuf, m, c, Reached, Old, w - 1, buf, n)
      /\ resize_buf \in Seq(EntryType) /\ resize_buf # <<>>
  <2>1. Ahead(card.prod, dbrec) - 1 < NewSize - 1
    BY DEF Put, Room, NewSize
  <2>2. Ready - 1 < NewSize - 1 /\ dbrec = cq.cons_index
    BY <1>2, <2>1 DEF Busy, Ready
  <2>3. m \in RingSizes /\ m \in Nat /\ 2 * m <= IndexMod /\ w \in Nat /\ IndexMod \in Nat
    BY <1>2, <1>3, SizeFacts, Counted DEF Busy
  <2>4. w < m
    BY <1>3, <2>2, <2>3
  <2> QED
    BY <1>2, <1>3, <2>2, <2>3, <2>4, Types, Counted DEF Busy
<1>5. /\ w + 1 < IndexMod /\ w \in 0 .. IndexMod /\ w - 1 \in Nat /\ w - 1 \in 0 .. m - 1
      /\ Old <= w - 1 /\ w + 1 - 1 = (w - 1) + 1
  BY <1>4
<1>6. /\ card' \in CardType /\ card'.resized = card.resized
      /\ card'.prod = Add(c, w + 1) /\ Ahead(card'.prod, c) = w + 1
  <2>1. card' = [card EXCEPT !.prod = Add(@, 1)]
    BY DEF Put
  <2> QED
    BY <1>3, <1>5, <2>1, CardWritten
<1>7. PICK e : e = Entry("done", Parity(c + w, m), q)
  OBVIOUS
<1>8. /\ c \in Nat /\ c + w \in Nat /\ card.prod % m = (c + w) % m
      /\ Parity(card.prod, m) = Parity(c + w, m) /\ (c + w) % m \in 0 .. m - 1
  BY <1>4, <1>5, SlotAt
<1>9. e \in EntryType /\ e.op # "invalid" /\ e.own = Parity(c + w, m) /\ Done(e)
  BY <1>4, <1>7, <1>8, DoneEntry
<1>10. resize_buf' = [resize_buf EXCEPT ![1 + ((c + w) % m)] = e]
  BY <1>3, <1>7, <1>8 DEF Put, NewSize
<1>11. PICK x \in 0 .. m - 1 : x = (c + w) % m
  BY <1>8
<1>12. /\ resize_buf' \in Seq(EntryType) /\ NewSize' = m
       /\ NewBuf' = [NewBuf EXCEPT ![x] = e] /\ resize_buf' # <<>>
  <2>1. resize_buf' = [resize_buf EXCEPT ![1 + x] = e] /\ x \in 0 .. NewSize - 1
    BY <1>3, <1>10, <1>11
  <2> QED
    BY <1>3, <1>4, <1>9, <2>1, NewBufWritten
<1>13. UNCHANGED <<cq, buf, dbrec, qp_state, polled>>
  BY DEF Put
<1>14. Ready' = w + 1 /\ Reached' = Reached
  BY <1>3, <1>6, <1>13 DEF Ready, Reached
<1>15. Old' = Old
  <2>1. Resizing'
    BY <1>12 DEF Resizing
  <2> QED
    BY <1>6, <1>13, <2>1 DEF Old
<1>16. Copying(NewBuf', m, c, Reached, Old, w, buf, n)
  <2>1. c + w = c + 1 + (w - 1)
    BY <1>4, <1>8
  <2>2. PICK j, d, o, nb2 : j = w - 1 /\ d = Reached /\ o = Old /\ nb2 = NewBuf'
    OBVIOUS
  <2>3. nb2 = [NewBuf EXCEPT ![(c + 1 + j) % m] = e] /\ e.own = Parity(c + 1 + j, m)
    BY <1>9, <1>11, <1>12, <2>1, <2>2
  <2>4. NewBuf \in [0 .. m - 1 -> EntryType]
    BY <1>3, <1>4, NewBufType
  <2>5. /\ d \in Nat /\ o \in Nat /\ j \in Nat /\ w \in Nat /\ d <= o /\ o <= j
        /\ j \in 0 .. m - 1 /\ w = j + 1
    BY <1>4, <1>5, <2>2
  <2>6. Copying(NewBuf, m, c, d, o, j, buf, n)
    BY <1>4, <2>2
  <2>7. m \in RingSizes /\ c \in Nat /\ Done(e) /\ e \in EntryType
    BY <1>4, <1>8, <1>9
  <2>8. Copying(nb2, m, c, d, o, w, buf, n)
    BY ONLY <2>3, <2>4, <2>5, <2>6, <2>7, CopyingWritten
  <2> QED
    BY <2>2, <2>8
<1>17. Busy'
  <2>1. w + 1 - 1 = w /\ Old + 1 <= w + 1 /\ w + 1 <= m
    BY <1>4
  <2>2. Copying(NewBuf', NewSize', cq'.cons_index, Reached', Old', Ready' - 1, buf', cq'.size)
    <3>1. Ready' - 1 = w
      <4>1. PICK r : r = Ready'
        OBVIOUS
      <4>2. r - 1 = w
        BY <1>4, <1>14, <4>1
      <4> QED
        BY ONLY <4>1, <4>2, Zenon
    <3>2. /\ NewSize' = m /\ cq'.cons_index = c /\ Reached' = Reached /\ Old' = Old
          /\ buf' = buf /\ cq'.size = n
      BY <1>3, <1>12, <1>13, <1>14, <1>15
    <3> QED
      BY ONLY <1>16, <3>1, <3>2, Zenon
  <2>3. Old' + 1 <= Ready' /\ Ready' <= NewSize' /\ NewSize' \in RingSizes
    BY <1>4, <1>12, <1>14, <1>15, <2>1
  <2>4. /\ cq' \in CqType /\ buf' \in [0 .. cq'.size - 1 -> EntryType]
        /\ dbrec' = cq'.cons_index /\ qp_state' \in [Rsn -> {"live", "reset", "clean"}]
        /\ polled' \in Cqe \cup {Nothing}
        /\ Ring(buf', cq'.size, cq'.cons_index, Old' + 1, Old')
        /\ Old' <= cq'.size - 1
        /\ buf'[(cq'.cons_index + Old') % cq'.size].op = "resize"
        /\ Locked("copy")' /\ Reached' <= Old'
    BY <1>2, <1>13, <1>14, <1>15 DEF Busy, Locked
  <2> QED
    BY <1>6, <1>12, <2>2, <2>3, <2>4 DEF Busy
<1> QED
  BY <1>17, BusyInv, PTL

(* A ring of invalid entries, as the application made it.                   *)
LEMMA NewRingIs ==
  ASSUME NEW n \in RingSizes, NEW r, r = [k \in 1 .. n |-> Invalid]
  PROVE  /\ r \in Seq(EntryType) /\ Len(r) = n /\ r # <<>>
         /\ NewRing(n) \in [0 .. n - 1 -> EntryType]
         /\ \A c \in Nat : Ring(NewRing(n), n, c, 0, 0)
         /\ \A c \in Nat, k \in 0 .. n - 1 : NewRing(n)[(c + k) % n] = Invalid
<1>1. n \in Nat \ {0}
  BY SizeFacts
<1>2. Invalid \in EntryType /\ Invalid.op = "invalid"
  BY DEF Invalid, EntryType
<1>3. r \in Seq(EntryType) /\ Len(r) = n /\ r # <<>>
  BY <1>1, <1>2
<1>4. NewRing(n) \in [0 .. n - 1 -> EntryType]
  BY <1>2 DEF NewRing
<1>5. \A c \in Nat, k \in 0 .. n - 1 : NewRing(n)[(c + k) % n] = Invalid
  <2>1. TAKE c \in Nat, k \in 0 .. n - 1
  <2>2. (c + k) % n \in 0 .. n - 1
    BY <1>1, SlotOf
  <2> QED
    BY <2>2 DEF NewRing
<1>6. \A c \in Nat : Ring(NewRing(n), n, c, 0, 0)
  <2>1. TAKE c \in Nat
  <2>2. ASSUME NEW k \in 0 .. n - 1
        PROVE  ~Owned(NewRing(n), n, c + k) /\ ~ (k < 0)
    <3>1. NewRing(n)[(c + k) % n] = Invalid
      BY <1>5
    <3> QED
      BY <1>1, <1>2, <3>1 DEF Owned
  <2> QED
    BY <2>2 DEF Ring
<1> QED
  BY <1>3, <1>4, <1>5, <1>6

(* The kernel's command: the card has written the RESIZE_CQ entry.          *)
LEMMA ResizeStartStep ==
  ASSUME NEW m \in RingSizes
  PROVE  IndInv /\ ResizeStart(m) => IndInv'
<1> SUFFICES ASSUME IndInv, ResizeStart(m) PROVE IndInv'
  OBVIOUS
<1>1. ~Locked("copy") /\ Locked("free")
  BY DEF ResizeStart, Locked
<1>2. Quiet
  BY <1>1, InvQuiet
<1>3. PICK c, n, w : c = cq.cons_index /\ n = cq.size /\ w = Ready
  OBVIOUS
<1>4. /\ c \in Index /\ n \in RingSizes /\ dbrec = c /\ cq \in CqType
      /\ w \in Nat /\ w <= n - 1 /\ Ring(buf, n, c, w, w) /\ n \in Nat /\ m \in Nat
      /\ 2 * n <= IndexMod /\ IndexMod \in Nat /\ card.prod = Add(c, w)
      /\ buf \in [0 .. n - 1 -> EntryType] /\ w <= m - 1
  <2>1. Ready <= m - 1
    BY DEF ResizeStart, Ready
  <2>2. m \in Nat /\ dbrec = cq.cons_index
    BY <1>1, <1>2, SizeFacts DEF Quiet
  <2> QED
    BY <1>2, <1>3, <2>1, <2>2, Types, Counted, CqAssumption DEF Quiet
<1>5. /\ w + 1 < IndexMod /\ w \in 0 .. n - 1 /\ w \in 0 .. IndexMod
      /\ w \in 0 .. IndexMod - 1 /\ w + 1 \in 0 .. IndexMod - 1 /\ w + 1 \in 0 .. IndexMod
      /\ 0 \in 0 .. IndexMod - 1 /\ w \in {w, w + 1}
  <2>1. n \in Nat \ {0, 1}
    BY <1>4, SizeFacts
  <2> QED
    BY <1>4, <2>1
<1>6. PICK e : e = Entry("resize", Parity(c + w, n), Nothing)
  OBVIOUS
<1>7. /\ c \in Nat /\ c + w \in Nat /\ card.prod % n = (c + w) % n
      /\ Parity(card.prod, n) = Parity(c + w, n)
  BY <1>4, <1>5, SlotAt
<1>8. /\ e \in EntryType /\ e.op # "invalid" /\ e.op = "resize" /\ e.own = Parity(c + w, n)
  <2>1. Parity(c + w, n) \in {0, 1}
    BY <1>4, <1>7, NextRound
  <2> QED
    BY <1>6, <2>1, EntryFields
<1>9. buf' = [buf EXCEPT ![(c + w) % n] = e]
  BY <1>3, <1>6, <1>7 DEF ResizeStart
<1>10. /\ buf' \in [0 .. n - 1 -> EntryType] /\ Ring(buf', n, c, w + 1, w)
       /\ buf'[(c + w) % n] = e
  <2>1. n \in RingSizes /\ buf \in [0 .. n - 1 -> EntryType] /\ c \in Nat
        /\ w \in 0 .. n - 1 /\ Ring(buf, n, c, w, w)
        /\ e \in EntryType /\ e.op # "invalid" /\ e.own = Parity(c + w, n)
    BY <1>4, <1>5, <1>7, <1>8
  <2>2. PICK v : v = w + 1
    OBVIOUS
  <2>3. Ring(buf', n, c, v, w)
    BY ONLY <1>9, <2>1, <2>2, RingWritten
  <2>4. (c + w) % n \in 0 .. n - 1
    BY <1>4, <1>7, NextRound
  <2>5. buf' \in [0 .. n - 1 -> EntryType] /\ buf'[(c + w) % n] = e
    BY <1>4, <1>8, <1>9, <2>4
  <2> QED
    BY <2>2, <2>3, <2>5
<1>11. PICK l : l = [Idle EXCEPT !.pc = "copy", !.prod_index = c]
  OBVIOUS
<1>12. l \in LoopType /\ l.pc = "copy" /\ l.prod_index = c
  BY <1>4, <1>11, IdleFacts DEF LoopType
<1>13. cq' = [cq EXCEPT !.loop = l]
  BY <1>3, <1>11 DEF ResizeStart
<1>14. cq' \in CqType /\ cq'.loop = l /\ cq'.cons_index = c /\ cq'.size = n
  <2>1. l \in LoopType
    BY <1>12
  <2>2. cq' \in CqType /\ cq'.loop = l /\ cq'.cons_index = cq.cons_index /\ cq'.size = cq.size
    BY ONLY <1>4, <1>13, <2>1 DEF CqType
  <2> QED
    BY <1>3, <2>2
<1>15. /\ resize_buf' \in Seq(EntryType) /\ NewSize' = m /\ resize_buf' # <<>>
       /\ NewBuf' = NewRing(m)
  <2>1. resize_buf' = [k \in 1 .. m |-> Invalid]
    BY DEF ResizeStart
  <2>2. resize_buf' \in Seq(EntryType) /\ Len(resize_buf') = m /\ resize_buf' # <<>>
    BY <2>1, NewRingIs
  <2>3. \A k \in 0 .. m - 1 : resize_buf'[k + 1] = Invalid
    BY <1>4, <2>1
  <2>4. NewBuf' = [k \in 0 .. m - 1 |-> resize_buf'[k + 1]]
    BY <2>2 DEF NewBuf, NewSize
  <2> QED
    BY <2>2, <2>3, <2>4 DEF NewSize, NewRing
<1>16. /\ card' \in CardType /\ card'.prod = Add(c, w + 1) /\ card'.resized = Add(c, w)
  <2>1. PICK i : i = Add(c, w + 1)
    OBVIOUS
  <2>2. Add(card.prod, 1) = i
    BY <1>4, <1>5, <2>1, AddAdd
  <2>3. i \in Index /\ Add(c, w) \in Index
    BY <1>4, <1>5, <2>1, AddIs
  <2>4. card' = [prod |-> i, resized |-> Add(c, w)]
    BY <1>4, <2>2 DEF ResizeStart
  <2> QED
    BY <2>1, <2>3, <2>4 DEF CardType
<1>17. UNCHANGED <<dbrec, qp_state, polled>>
  BY DEF ResizeStart
<1>18. Ready' = w + 1 /\ Old' = w /\ Reached' = 0
  <2>1. Resizing'
    BY <1>15 DEF Resizing
  <2>2. Ahead(Add(c, w + 1), c) = w + 1 /\ Ahead(Add(c, w), c) = w /\ Ahead(Add(c, 0), c) = 0
        /\ Add(c, 0) = c
    BY <1>4, <1>5, AheadAddZero
  <2> QED
    BY <1>12, <1>14, <1>16, <2>1, <2>2 DEF Ready, Old, Reached
<1>19. Copying(NewBuf', m, c, 0, w, w, buf', n)
  <2> SUFFICES ASSUME NEW k \in 0 .. m - 1
               PROVE  /\ ~ (k < 0) /\ ~ (w <= k /\ k < w)
                      /\ NewBuf'[(c + 1 + k) % m] = Invalid
    BY DEF Copying
  <2>1. c + 1 \in Nat
    BY <1>7
  <2>2. NewBuf'[(c + 1 + k) % m] = Invalid
    BY <1>15, <2>1, NewRingIs
  <2> QED
    BY <1>4, <2>2
<1>20. Busy'
  <2>1. w + 1 - 1 = w /\ w + 1 <= m /\ 0 <= w /\ w + 1 <= w + 1
    BY <1>4
  <2>2. Copying(NewBuf', NewSize', cq'.cons_index, Reached', Old', Ready' - 1, buf', cq'.size)
    <3>1. Ready' - 1 = w
      <4>1. PICK x : x = Ready'
        OBVIOUS
      <4>2. x - 1 = w
        BY <1>4, <1>18, <4>1
      <4> QED
        BY ONLY <4>1, <4>2, Zenon
    <3>2. NewSize' = m /\ cq'.cons_index = c /\ Reached' = 0 /\ Old' = w /\ cq'.size = n
      BY <1>14, <1>15, <1>18
    <3> QED
      BY ONLY <1>19, <3>1, <3>2, Zenon
  <2>3. /\ Old' + 1 <= Ready' /\ Ready' <= NewSize' /\ NewSize' \in RingSizes
        /\ Reached' <= Old' /\ Old' <= cq'.size - 1
    BY <1>4, <1>14, <1>15, <1>18, <2>1
  <2>4. /\ Ring(buf', cq'.size, cq'.cons_index, Old' + 1, Old')
        /\ buf'[(cq'.cons_index + Old') % cq'.size].op = "resize"
    BY <1>8, <1>10, <1>14, <1>18
  <2>5. /\ dbrec' = cq'.cons_index /\ qp_state' \in [Rsn -> {"live", "reset", "clean"}]
        /\ polled' \in Cqe \cup {Nothing} /\ buf' \in [0 .. cq'.size - 1 -> EntryType]
        /\ Locked("copy")'
    BY <1>2, <1>4, <1>10, <1>12, <1>14, <1>17 DEF Quiet, Locked
  <2> QED
    BY <1>14, <1>15, <1>16, <2>2, <2>3, <2>4, <2>5 DEF Busy
<1> QED
  BY <1>20, BusyInv, PTL

(* What the copying loop knows of its indices.                              *)
BusyAt(c, n, m, r, o, w) ==
  /\ c = cq.cons_index /\ n = cq.size /\ m = NewSize /\ r = Reached /\ o = Old
  /\ w = Ready
  /\ c \in Index /\ c \in Nat /\ n \in RingSizes /\ m \in RingSizes /\ n \in Nat
  /\ m \in Nat /\ cq \in CqType /\ cq.loop \in LoopType
  /\ r \in Nat /\ o \in Nat /\ w \in Nat /\ r <= o /\ o <= n - 1 /\ o + 1 <= w
  /\ w <= m /\ 2 * n <= IndexMod /\ 2 * m <= IndexMod /\ IndexMod \in Nat
  /\ w < IndexMod
  /\ cq.loop.prod_index = Add(c, r) /\ card.prod = Add(c, w)
  /\ card.resized = Add(c, o) /\ buf[(c + o) % n].op = "resize"
  /\ Ring(buf, n, c, o + 1, o) /\ Copying(NewBuf, m, c, r, o, w - 1, buf, n)
  /\ buf \in [0 .. n - 1 -> EntryType] /\ NewBuf \in [0 .. m - 1 -> EntryType]
  /\ resize_buf \in Seq(EntryType) /\ resize_buf # <<>>

(* It knows that whenever it runs.                                          *)
LEMMA BusyFacts ==
  ASSUME IndInv, Locked("copy")
  PROVE  BusyAt(cq.cons_index, cq.size, NewSize, Reached, Old, Ready)
<1>1. Busy /\ Resizing
  BY InvBusy
<1>2. NewSize \in RingSizes /\ NewSize \in Nat /\ 2 * NewSize <= IndexMod /\ IndexMod \in Nat
  BY <1>1, SizeFacts DEF Busy
<1>3. /\ cq.cons_index \in Index /\ cq.cons_index \in Nat /\ cq.size \in RingSizes
      /\ cq \in CqType /\ cq.loop \in LoopType
  BY <1>2, Types DEF Index
<1>4. /\ Reached \in Nat /\ Old \in Nat /\ Ready \in Nat /\ cq.size \in Nat
      /\ 2 * cq.size <= IndexMod /\ Ready < IndexMod
      /\ cq.loop.prod_index = Add(cq.cons_index, Reached)
      /\ card.prod = Add(cq.cons_index, Ready) /\ card.resized = Add(cq.cons_index, Old)
  BY <1>1, Counted
<1>5. NewBuf \in [0 .. NewSize - 1 -> EntryType]
  BY <1>1, NewBufType DEF Busy
<1> QED
  BY <1>1, <1>2, <1>3, <1>4, <1>5 DEF Busy, BusyAt

(* One round of the copying loop: it copies a CQE, and does not give up.    *)
CopyAt(c, n, m, r, e) ==
  /\ r + 1 <= Old /\ Done(e) /\ e \in EntryType
  /\ (c + 1 + r) % m \in 0 .. m - 1 /\ c + 1 + r \in Nat
  /\ resize_buf' = [resize_buf EXCEPT ![1 + ((c + 1 + r) % m)] =
                      Entry("done", Parity(c + 1 + r, m), e.cqe)]
  /\ cq' = [cq EXCEPT !.loop.prod_index = Add(c, r + 1), !.loop.pc = "copy"]

(* It does that in every round.                                             *)
LEMMA CopyIs ==
  ASSUME IndInv, Copy
  PROVE  CopyAt(cq.cons_index, cq.size, NewSize, Reached,
                buf[(cq.cons_index + Reached) % cq.size])
<1> SUFFICES ASSUME NEW c, c = cq.cons_index, NEW n, n = cq.size, NEW m, m = NewSize,
                    NEW r, r = Reached, NEW e, e = buf[(c + r) % n]
             PROVE  CopyAt(c, n, m, r, e)
  OBVIOUS
<1>1. Locked("copy") /\ cq.loop.pc = "copy"
  BY DEF Copy, Locked
<1>2. PICK o, w : o = Old /\ w = Ready
  OBVIOUS
<1>3. /\ c \in Index /\ c \in Nat /\ n \in RingSizes /\ m \in RingSizes /\ n \in Nat
      /\ m \in Nat /\ cq \in CqType /\ cq.loop \in LoopType
      /\ r \in Nat /\ o \in Nat /\ w \in Nat /\ r <= o /\ o <= n - 1 /\ o + 1 <= w
      /\ w <= m /\ 2 * n <= IndexMod /\ 2 * m <= IndexMod /\ IndexMod \in Nat
  BY <1>1, <1>2, BusyFacts DEF BusyAt
<1>4. /\ cq.loop.prod_index = Add(c, r) /\ buf[(c + o) % n].op = "resize"
      /\ Ring(buf, n, c, o + 1, o) /\ buf \in [0 .. n - 1 -> EntryType]
  BY <1>1, <1>2, BusyFacts DEF BusyAt
<1>5. /\ r \in 0 .. n - 1 /\ r \in 0 .. IndexMod /\ r + 1 \in 0 .. IndexMod
      /\ r + 1 <= IndexMod /\ 0 \in 0 .. n - 1 /\ 0 \in 0 .. IndexMod
  BY <1>3
<1>6. PICK i : i = Add(c, r)
  OBVIOUS
<1>7. buf[i % n] = e /\ e \in EntryType
  <2>1. i % n = (c + r) % n /\ (c + r) % n \in 0 .. n - 1
    BY <1>3, <1>5, <1>6, SlotAt
  <2> QED
    BY <1>4, <2>1
<1>8. PICK next : next = Add(i, 1)
  OBVIOUS
<1>9. /\ e.op # "resize"
      /\ resize_buf' = [resize_buf EXCEPT ![1 + (next % m)] =
                          Entry(e.op, Parity(next, m), e.cqe)]
      /\ cq' = [cq EXCEPT !.loop.prod_index = next,
                          !.loop.pc = IF \/ buf[next % n].own # Parity(next, n)
                                         \/ next % n = c % n
                                        THEN "failed" ELSE @]
  BY <1>4, <1>6, <1>7, <1>8 DEF Copy, NewSize
<1>10. r < o
  <2>1. r # o
    BY <1>4, <1>9
  <2> QED
    BY <1>3, <2>1
<1>11. Done(e)
  BY <1>4, <1>5, <1>10 DEF Ring
<1>12. PICK k \in Nat : k = r + 1
  BY <1>3
<1>13. k \in 0 .. n - 1 /\ k \in 0 .. IndexMod /\ k < o + 1 /\ k <= o /\ k # 0
       /\ c + 1 + r = c + k /\ c + k \in Nat
  BY <1>3, <1>5, <1>10, <1>12
<1>14. next = Add(c, k)
  BY <1>3, <1>5, <1>6, <1>8, <1>12, AddAdd
<1>15. /\ next % n = (c + k) % n /\ Parity(next, n) = Parity(c + k, n)
       /\ next % m = (c + k) % m /\ Parity(next, m) = Parity(c + k, m)
       /\ (c + k) % m \in 0 .. m - 1 /\ (c + k) % n \in 0 .. n - 1
  BY <1>3, <1>13, <1>14, SlotAt
<1>16. buf[next % n].own = Parity(next, n)
  <2>1. Owned(buf, n, c + k)
    BY <1>4, <1>13 DEF Ring
  <2> QED
    BY <1>15, <2>1 DEF Owned
<1>17. next % n # c % n
  <2>1. (c + k) % n # (c + 0) % n
    BY <1>3, <1>5, <1>13, OtherEntry
  <2>2. c + 0 = c
    BY <1>3
  <2> QED
    BY <1>15, <2>1, <2>2
<1>18. cq' = [cq EXCEPT !.loop.prod_index = next, !.loop.pc = "copy"]
  BY <1>1, <1>9, <1>16, <1>17
<1>19. e.op = "done"
  BY <1>11 DEF Done
<1>20. r + 1 <= Old
  BY <1>2, <1>12, <1>13
<1> QED
  BY <1>7, <1>9, <1>11, <1>12, <1>13, <1>14, <1>15, <1>18, <1>19, <1>20 DEF CopyAt

(* One round of the copying loop.                                           *)
LEMMA CopyStep == IndInv /\ Copy => IndInv'
<1> SUFFICES ASSUME IndInv, Copy PROVE IndInv'
  OBVIOUS
<1>1. Locked("copy")
  BY DEF Copy
<1>2. Busy
  BY <1>1, InvBusy
<1>3. PICK c, n, m, r, o, w : c = cq.cons_index /\ n = cq.size /\ m = NewSize
                              /\ r = Reached /\ o = Old /\ w = Ready
  OBVIOUS
<1>4. /\ c \in Index /\ c \in Nat /\ n \in RingSizes /\ m \in RingSizes /\ n \in Nat
      /\ m \in Nat /\ cq \in CqType /\ cq.loop \in LoopType
      /\ r \in Nat /\ o \in Nat /\ w \in Nat /\ o <= n - 1 /\ o + 1 <= w
      /\ w <= m /\ 2 * n <= IndexMod /\ IndexMod \in Nat
      /\ Copying(NewBuf, m, c, r, o, w - 1, buf, n)
      /\ resize_buf \in Seq(EntryType) /\ resize_buf # <<>>
      /\ NewBuf \in [0 .. m - 1 -> EntryType]
  BY <1>1, <1>3, BusyFacts DEF BusyAt
<1>5. PICK e, f, x : e = buf[(c + r) % n] /\ f = Entry("done", Parity(c + 1 + r, m), e.cqe)
                     /\ x = (c + 1 + r) % m
  OBVIOUS
<1>6. /\ r + 1 <= o /\ Done(e) /\ x \in 0 .. m - 1 /\ c + 1 + r \in Nat
      /\ resize_buf' = [resize_buf EXCEPT ![1 + x] = f]
      /\ cq' = [cq EXCEPT !.loop.prod_index = Add(c, r + 1), !.loop.pc = "copy"]
  <2>1. CopyAt(c, n, m, r, e)
    BY <1>3, <1>5, CopyIs
  <2> QED
    BY <1>3, <1>5, <2>1 DEF CopyAt
<1>7. f \in EntryType
  <2>1. e.cqe \in Cqe
    BY <1>6 DEF Done
  <2> QED
    BY <1>4, <1>5, <1>6, <2>1, DoneEntry
<1>8. /\ resize_buf' \in Seq(EntryType) /\ NewSize' = m
      /\ NewBuf' = [NewBuf EXCEPT ![x] = f] /\ resize_buf' # <<>>
  BY <1>3, <1>4, <1>6, <1>7, NewBufWritten
<1>9. r + 1 \in 0 .. IndexMod - 1 /\ r + 1 \in 0 .. IndexMod /\ r < o /\ r \in 0 .. m - 1
      /\ w - 1 \in Nat /\ o <= w - 1
  <2>1. r + 1 <= o
    BY <1>6
  <2> QED
    BY ONLY <1>4, <2>1
<1>10. PICK i \in Index : i = Add(c, r + 1)
  BY <1>4, <1>9, AddIs
<1>11. /\ cq' \in CqType /\ cq'.cons_index = c /\ cq'.size = n /\ cq'.loop.pc = "copy"
       /\ cq'.loop.prod_index = i
  <2>1. cq' = [cq EXCEPT !.loop.prod_index = i, !.loop.pc = "copy"]
    BY <1>6, <1>10
  <2>2. /\ cq' \in CqType /\ cq'.cons_index = cq.cons_index /\ cq'.size = cq.size
        /\ cq'.loop.pc = "copy" /\ cq'.loop.prod_index = i
    BY ONLY <1>4, <2>1, i \in Index DEF CqType, LoopType
  <2> QED
    BY <1>3, <2>2
<1>12. UNCHANGED <<buf, dbrec, card, qp_state, polled>>
  BY DEF Copy
<1>13. Ready' = w /\ Reached' = r + 1 /\ Old' = o
  <2>1. Ready' = w
    BY <1>3, <1>11, <1>12 DEF Ready
  <2>2. Reached' = r + 1
    BY <1>4, <1>9, <1>10, <1>11, AheadAddZero DEF Reached
  <2>3. Old' = o
    <3>1. Resizing' /\ Resizing
      BY <1>4, <1>8 DEF Resizing
    <3> QED
      BY <1>3, <1>11, <1>12, <3>1 DEF Old
  <2> QED
    BY <2>1, <2>2, <2>3
<1>14. Copying(NewBuf', m, c, r + 1, o, w - 1, buf, n)
  <2>1. PICK d2, v, nb2 : d2 = r + 1 /\ v = w - 1 /\ nb2 = NewBuf'
    OBVIOUS
  <2>2. nb2 = [NewBuf EXCEPT ![(c + 1 + r) % m] = f]
    BY <1>5, <1>8, <2>1
  <2>3. /\ d2 \in Nat /\ v \in Nat /\ r <= o /\ o <= v /\ r \in 0 .. m - 1 /\ r < o
    BY <1>4, <1>9, <2>1
  <2>4. Copying(NewBuf, m, c, r, o, v, buf, n)
    BY <1>4, <2>1
  <2>5. f = Entry("done", Parity(c + 1 + r, m), buf[(c + r) % n].cqe)
    BY <1>5
  <2>6. m \in RingSizes /\ c \in Nat /\ f \in EntryType /\ r \in Nat /\ o \in Nat
        /\ NewBuf \in [0 .. m - 1 -> EntryType]
    BY <1>4, <1>7
  <2>7. Copying(nb2, m, c, d2, o, v, buf, n)
    BY ONLY <2>1, <2>2, <2>3, <2>4, <2>5, <2>6, CopyingWritten
  <2> QED
    BY <2>1, <2>7
<1>15. Busy'
  <2>1. Copying(NewBuf', NewSize', cq'.cons_index, Reached', Old', Ready' - 1, buf', cq'.size)
    BY <1>8, <1>11, <1>12, <1>13, <1>14
  <2>2. /\ buf' \in [0 .. cq'.size - 1 -> EntryType]
        /\ dbrec' = cq'.cons_index /\ qp_state' \in [Rsn -> {"live", "reset", "clean"}]
        /\ polled' \in Cqe \cup {Nothing} /\ card' \in CardType
        /\ Ring(buf', cq'.size, cq'.cons_index, Old' + 1, Old')
        /\ Old' <= cq'.size - 1
        /\ buf'[(cq'.cons_index + Old') % cq'.size].op = "resize"
        /\ Old' + 1 <= Ready' /\ Ready' <= NewSize' /\ NewSize' \in RingSizes
    BY <1>2, <1>3, <1>8, <1>11, <1>12, <1>13 DEF Busy
  <2>3. Reached' <= Old'
    BY <1>6, <1>13
  <2> QED
    BY <1>8, <1>11, <2>1, <2>2, <2>3 DEF Busy, Locked
<1> QED
  BY <1>15, BusyInv, PTL

(* When all is copied the new ring is a ring, from the index after the      *)
(* RESIZE_CQ entry's on.                                                    *)
LEMMA CopiedRing ==
  ASSUME NEW m \in RingSizes, NEW nb \in [0 .. m - 1 -> EntryType], NEW c \in Index,
         NEW o \in Nat, NEW w \in 0 .. m - 1, o <= w, NEW b, NEW n,
         Copying(nb, m, c, o, o, w, b, n),
         \A k \in 0 .. o - 1 : Done(b[(c + k) % n])
  PROVE  Ring(nb, m, Add(c, 1), w, w)
<1>0. /\ m \in Nat /\ 1 \in 0 .. IndexMod /\ c \in Nat /\ w \in Nat /\ w <= m - 1
      /\ m \in Nat \ {0} /\ c + 1 \in Nat
  BY SizeFacts DEF Index
<1>1. ASSUME NEW k \in 0 .. m - 1
      PROVE  /\ Owned(nb, m, Add(c, 1) + k) <=> k < w
             /\ k < w => Done(nb[(Add(c, 1) + k) % m])
  <2>1. /\ (Add(c, 1) + k) % m = (c + 1 + k) % m
        /\ Parity(Add(c, 1) + k, m) = Parity(c + 1 + k, m)
    <3>1. k \in Nat
      BY <1>0
    <3> QED
      BY <1>0, <3>1, SameEntry
  <2>2. PICK e : e = nb[(c + 1 + k) % m]
    OBVIOUS
  <2>3. IF k < o
          THEN e = Entry("done", Parity(c + 1 + k, m), b[(c + k) % n].cqe)
        ELSE IF o <= k /\ k < w
          THEN Done(e) /\ e.own = Parity(c + 1 + k, m)
        ELSE e = Invalid
    BY <2>2 DEF Copying
  <2>4. k \in Nat /\ c + 1 + k \in Nat
    BY <1>0
  <2>5. CASE k < o
    <3>1. k < w
      BY <1>0, <2>4, <2>5
    <3>2. PICK q : q = b[(c + k) % n].cqe
      OBVIOUS
    <3>3. q \in Cqe
      BY <2>4, <2>5, <3>2 DEF Done
    <3>4. e = Entry("done", Parity(c + 1 + k, m), q)
      BY <2>3, <2>5, <3>2
    <3>5. e.op # "invalid" /\ e.own = Parity(c + 1 + k, m) /\ Done(e)
      BY <2>4, <3>3, <3>4, DoneEntry
    <3> QED
      BY <2>1, <2>2, <3>1, <3>5 DEF Owned
  <2>6. CASE ~ (k < o) /\ k < w
    <3>1. Done(e) /\ e.own = Parity(c + 1 + k, m)
      BY <2>3, <2>4, <2>6
    <3> QED
      BY <2>1, <2>2, <2>6, <3>1 DEF Owned, Done
  <2>7. CASE ~ (k < w)
    <3>1. ~ (k < o)
      BY <1>0, <2>4, <2>7
    <3>2. e.op = "invalid"
      BY <2>3, <2>7, <3>1 DEF Invalid
    <3> QED
      BY <2>1, <2>2, <2>7, <3>2 DEF Owned
  <2> QED
    BY <2>5, <2>6, <2>7
<1> QED
  BY <1>1 DEF Ring

(* The copying loop ends at the RESIZE_CQ entry, everything copied.         *)
LEMMA CopyEnds ==
  ASSUME IndInv, ResizeEnd
  PROVE  Reached = Old
<1>1. Locked("copy")
  BY DEF ResizeEnd
<1>2. PICK c, n, m, r, o, w : BusyAt(c, n, m, r, o, w)
  BY <1>1, BusyFacts
<1>3. /\ c = cq.cons_index /\ n = cq.size /\ r = Reached /\ o = Old
      /\ c \in Index /\ n \in RingSizes /\ n \in Nat /\ r \in Nat /\ o \in Nat /\ r <= o
      /\ o <= n - 1 /\ 2 * n <= IndexMod /\ IndexMod \in Nat
      /\ cq.loop.prod_index = Add(c, r) /\ Ring(buf, n, c, o + 1, o)
  BY <1>2 DEF BusyAt
<1>4. r \in 0 .. IndexMod /\ r \in 0 .. n - 1
  BY <1>3
<1>5. buf[(c + r) % n].op = "resize"
  <2>1. Add(c, r) % n = (c + r) % n
    BY <1>3, <1>4, SlotAt
  <2> QED
    BY <1>3, <2>1 DEF ResizeEnd
<1>6. ~ (r < o)
  BY <1>3, <1>4, <1>5 DEF Ring, Done
<1> QED
  BY <1>3, <1>6

(* The library goes on with the new ring.                                   *)
LEMMA ResizeEndStep == IndInv /\ ResizeEnd => IndInv'
<1> SUFFICES ASSUME IndInv, ResizeEnd PROVE IndInv'
  OBVIOUS
<1>1. Locked("copy")
  BY DEF ResizeEnd
<1>2. Busy
  BY <1>1, InvBusy
<1>3. PICK c, n, m, r, o, w : BusyAt(c, n, m, r, o, w)
  BY <1>1, BusyFacts
<1>4. /\ c = cq.cons_index /\ m = NewSize /\ o = Old /\ w = Ready
      /\ c \in Index /\ c \in Nat /\ m \in RingSizes /\ n \in Nat /\ n \in RingSizes
      /\ m \in Nat /\ o \in Nat /\ w \in Nat /\ o + 1 <= w /\ o <= n - 1
      /\ w <= m /\ 2 * m <= IndexMod /\ IndexMod \in Nat /\ w < IndexMod
      /\ card.prod = Add(c, w) /\ Ring(buf, n, c, o + 1, o)
      /\ NewBuf \in [0 .. m - 1 -> EntryType]
  BY <1>3 DEF BusyAt
<1>5. r = o /\ Copying(NewBuf, m, c, o, o, w - 1, buf, n)
  BY <1>3, CopyEnds DEF BusyAt
<1>6. w - 1 \in 0 .. m - 1 /\ o <= w - 1 /\ w - 1 <= m - 1 /\ w \in 0 .. IndexMod - 1
      /\ 1 \in 0 .. w /\ 1 \in 0 .. IndexMod /\ w - 1 <= w - 1 /\ 0 \in 0 .. IndexMod
  BY <1>4
<1>7. Ring(NewBuf, m, Add(c, 1), w - 1, w - 1)
  <2>1. \A k \in 0 .. o - 1 : Done(buf[(c + k) % n])
    <3>1. TAKE k \in 0 .. o - 1
    <3>2. k \in 0 .. n - 1 /\ k < o
      BY <1>4
    <3> QED
      BY <1>4, <3>2 DEF Ring
  <2>2. PICK v, nb : v = w - 1 /\ nb = NewBuf
    OBVIOUS
  <2>3. v \in 0 .. m - 1 /\ o <= v /\ Copying(nb, m, c, o, o, v, buf, n)
        /\ nb \in [0 .. m - 1 -> EntryType]
    BY <1>4, <1>5, <1>6, <2>2
  <2>4. m \in RingSizes /\ c \in Index /\ o \in Nat
    BY <1>4
  <2>5. Ring(nb, m, Add(c, 1), v, v)
    BY ONLY <2>1, <2>3, <2>4, CopiedRing
  <2> QED
    BY <2>2, <2>5
<1>8. PICK i \in Index : i = Add(c, 1)
  BY <1>4, <1>6, AddIs
<1>9. /\ cq' = [cons_index |-> i, size |-> m, loop |-> Idle]
      /\ buf' = NewBuf /\ resize_buf' = <<>>
      /\ card' = [card EXCEPT !.resized = 0]
      /\ UNCHANGED <<qp_state, polled>>
  BY <1>4, <1>8 DEF ResizeEnd, NewBuf, NewSize
<1>10. /\ cq' \in CqType /\ cq'.loop = Idle /\ cq'.cons_index = i /\ cq'.size = m
       /\ cq'.loop.pc = "free"
  BY <1>4, <1>9, IdleFacts DEF CqType
<1>11. dbrec' = i
  BY <1>10 DEF ResizeEnd
<1>12. card' \in CardType /\ card'.prod = Add(c, w)
  <2>1. card \in CardType /\ 0 \in Index
    BY Types, CqAssumption DEF Index
  <2>2. card' \in CardType /\ card'.prod = card.prod
    BY ONLY <1>9, <2>1 DEF CardType
  <2> QED
    BY <1>4, <2>2
<1>13. Ready' = w - 1 /\ Ahead(card'.prod, dbrec') = w - 1
  <2>1. Ahead(Add(c, w), Add(c, 1)) = w - 1
    BY <1>4, <1>6, AheadAdd
  <2> QED
    BY <1>8, <1>10, <1>11, <1>12, <2>1 DEF Ready
<1>14. Quiet'
  <2>1. qp_state \in [Rsn -> {"live", "reset", "clean"}] /\ polled \in Cqe \cup {Nothing}
    BY Types
  <2>2. /\ buf' \in [0 .. cq'.size - 1 -> EntryType]
        /\ Ring(buf', cq'.size, cq'.cons_index, Ready', Ready')
    BY <1>4, <1>7, <1>8, <1>9, <1>10, <1>13
  <2>3. /\ Ready' <= cq'.size - 1 /\ Ready' <= Ahead(card'.prod, dbrec')
        /\ Ahead(card'.prod, dbrec') <= cq'.size - 1
    BY <1>6, <1>10, <1>13
  <2> QED
    BY <1>8, <1>9, <1>10, <1>11, <1>12, <2>1, <2>2, <2>3 DEF Quiet, Locked
<1> QED
  BY <1>14, QuietInv, PTL

(* The invariant holds at the start.                                        *)
LEMMA CqStart == Init => IndInv
<1> SUFFICES ASSUME Init PROVE Quiet
  BY QuietInv
<1>1. PICK n \in RingSizes :
        /\ cq = [cons_index |-> 0, size |-> n, loop |-> Idle]
        /\ buf = NewRing(n)
  BY DEF Init
<1>2. /\ resize_buf = <<>> /\ dbrec = 0 /\ card = [prod |-> 0, resized |-> 0]
      /\ qp_state = [q \in Rsn |-> "live"] /\ polled = Nothing
  BY DEF Init
<1>3. 0 \in Index /\ 0 \in 0 .. IndexMod - 1 /\ n \in Nat /\ 0 <= n - 1 /\ 0 \in Nat
      /\ IndexMod \in Nat
  <2>1. n \in Nat \ {0} /\ IndexMod \in Nat \ {0}
    BY SizeFacts
  <2> QED
    BY <2>1 DEF Index
<1>4. /\ cq \in CqType /\ cq.cons_index = 0 /\ cq.size = n /\ cq.loop = Idle
      /\ cq.loop.pc = "free" /\ card \in CardType /\ card.prod = 0
  BY <1>1, <1>2, <1>3, IdleFacts DEF CqType, CardType
<1>5. Ahead(0, 0) = 0
  <2>1. Ahead(Add(0, 0), 0) = 0 /\ Add(0, 0) = 0
    BY <1>3, AheadAddZero
  <2> QED
    BY <2>1
<1>6. Ready = 0 /\ Ahead(card.prod, dbrec) = 0
  BY <1>2, <1>4, <1>5 DEF Ready
<1>7. buf \in [0 .. n - 1 -> EntryType] /\ Ring(buf, n, 0, 0, 0)
  BY <1>1, <1>3, NewRingIs
<1> QED
  BY <1>2, <1>3, <1>4, <1>6, <1>7 DEF Quiet, Locked

(* Whatever the card and the library do, the invariant stays.               *)
LEMMA CqInvariant == Spec => []IndInv
<1>1. IndInv /\ [Next]_vars => IndInv'
  <2> SUFFICES ASSUME IndInv, [Next]_vars PROVE IndInv'
    OBVIOUS
  <2>1. CASE \E q \in Cqe : Put(q)
    <3>1. PICK q \in Cqe : Put(q)
      BY <2>1
    <3> QED
      BY <3>1, PutStep, PutNewStep
  <2>2. CASE PollOne \/ PollEmpty \/ PollEnd
    BY <2>2, PollOneStep, PollEmptyStep, PollEndStep
  <2>3. CASE \E r \in Rsn : ResetQp(r) \/ ReviveQp(r)
    BY <2>3, QpStep
  <2>4. CASE \E r \in Rsn : CleanStart(r)
    BY <2>4, CleanStartStep
  <2>5. CASE Scan \/ Sweep \/ CleanEnd
    BY <2>5, ScanStep, SweepStep, CleanEndStep
  <2>6. CASE \E n \in RingSizes : ResizeStart(n)
    BY <2>6, ResizeStartStep
  <2>7. CASE Copy \/ ResizeEnd
    BY <2>7, CopyStep, ResizeEndStep
  <2>8. CASE UNCHANGED vars
    BY <2>8, QpStep
  <2> QED
    BY <2>1, <2>2, <2>3, <2>4, <2>5, <2>6, <2>7, <2>8 DEF Next
<1> QED
  BY <1>1, CqStart, PTL DEF Spec

(* Every variable of the completion queue stays in its type: no index       *)
(* leaves the range of the card's counter, no loop counts further than it   *)
(* may.                                                                     *)
THEOREM CqTypes == Spec => []TypeOK
<1>1. IndInv => TypeOK
  BY DEF IndInv
<1> QED
  BY <1>1, CqInvariant, PTL

(* mlx5_cq_resize_copy_cqes never meets an entry the card still owns, and   *)
(* never comes round to where it began, before it meets the RESIZE_CQ       *)
(* entry, whatever the card writes while it copies.                         *)
THEOREM ResizeNeverGivesUp == Spec => []ResizeCompletes
<1>1. IndInv => ResizeCompletes
  BY DEF IndInv
<1> QED
  BY <1>1, CqInvariant, PTL
-----------------------------------------------------------------------------
(***************************************************************************)
(* The CQEs in a stretch of a ring.                                        *)
(***************************************************************************)

Items(b, n, x, w) == [k \in 1 .. w |-> b[(x + k - 1) % n].cqe]

(* They are CQEs.                                                           *)
AreCqes(b, n, x, w) == \A k \in 0 .. w - 1 : b[(x + k) % n].cqe \in Cqe

(* Two stretches hold the same.                                             *)
SameItems(b, n, x, b2, n2, x2, w) ==
  \A k \in 0 .. w - 1 : b[(x + k) % n].cqe = b2[(x2 + k) % n2].cqe

(* A stretch is a sequence of CQEs.                                         *)
LEMMA ItemsType ==
  ASSUME NEW b, NEW n, NEW x \in Nat, NEW w \in Nat, AreCqes(b, n, x, w)
  PROVE  Items(b, n, x, w) \in Seq(Cqe) /\ Len(Items(b, n, x, w)) = w
<1>1. ASSUME NEW k \in 1 .. w
      PROVE  b[(x + k - 1) % n].cqe \in Cqe
  <2>1. k - 1 \in 0 .. w - 1 /\ x + k - 1 = x + (k - 1)
    OBVIOUS
  <2> QED
    BY <2>1 DEF AreCqes
<1> QED
  BY <1>1 DEF Items

(* Stretches that hold the same are the same sequence.                      *)
LEMMA ItemsSame ==
  ASSUME NEW b, NEW n, NEW x \in Nat, NEW b2, NEW n2, NEW x2 \in Nat, NEW w \in Nat,
         SameItems(b, n, x, b2, n2, x2, w)
  PROVE  Items(b, n, x, w) = Items(b2, n2, x2, w)
<1>1. ASSUME NEW k \in 1 .. w
      PROVE  b[(x + k - 1) % n].cqe = b2[(x2 + k - 1) % n2].cqe
  <2>1. k - 1 \in 0 .. w - 1 /\ x + k - 1 = x + (k - 1) /\ x2 + k - 1 = x2 + (k - 1)
    OBVIOUS
  <2> QED
    BY <2>1 DEF SameItems
<1> QED
  BY <1>1 DEF Items

(* A stretch that begins at an index moved on.                              *)
LEMMA ItemsAt ==
  ASSUME NEW n \in RingSizes, NEW b, NEW c \in Index, NEW d \in 0 .. IndexMod, NEW w \in Nat
  PROVE  Items(b, n, Add(c, d), w) = Items(b, n, c + d, w)
<1>1. Add(c, d) \in Nat /\ c + d \in Nat
  BY SlotAt, CqAssumption DEF Index
<1>2. ASSUME NEW k \in 0 .. w - 1
      PROVE  (Add(c, d) + k) % n = (c + d + k) % n
  <2>1. k \in Nat
    OBVIOUS
  <2> QED
    BY <2>1, SameEntry
<1>3. SameItems(b, n, Add(c, d), b, n, c + d, w)
  BY <1>2 DEF SameItems
<1> QED
  BY <1>1, <1>3, ItemsSame

(* A stretch with one CQE more.                                             *)
Longer(b, n, x, w, v, e) ==
  /\ Items(b, n, x, v) = Append(Items(b, n, x, w), e)
  /\ Items(b, n, x, w) \in Seq(Cqe) /\ e \in Cqe /\ AreCqes(b, n, x, w)

(* It is that one appended.                                                 *)
LEMMA ItemsLast ==
  ASSUME NEW b, NEW n, NEW x \in Nat, NEW w \in Nat, NEW v, v = w + 1, AreCqes(b, n, x, v),
         NEW e, e = b[(x + w) % n].cqe
  PROVE  Longer(b, n, x, w, v, e)
<1>1. AreCqes(b, n, x, w) /\ e \in Cqe /\ v \in Nat
  BY DEF AreCqes
<1>2. PICK s, t : s = Items(b, n, x, w) /\ t = Items(b, n, x, v)
  OBVIOUS
<1>3. s \in Seq(Cqe) /\ Len(s) = w /\ t \in Seq(Cqe) /\ Len(t) = v
  BY <1>1, <1>2, ItemsType
<1>4. t[v] = e
  <2>1. v \in 1 .. v /\ x + v - 1 = x + w
    OBVIOUS
  <2> QED
    BY <1>2, <2>1 DEF Items
<1>5. \A k \in 1 .. w : t[k] = s[k]
  BY <1>2 DEF Items
<1>6. t = Append(s, e)
  BY ONLY <1>1, <1>3, <1>4, <1>5, v = w + 1, w \in Nat
<1> QED
  BY <1>1, <1>2, <1>3, <1>6 DEF Longer

(* Two stretches, one behind the other.                                     *)
Joined(b, n, x, w, y, u, v) ==
  /\ Items(b, n, x, v) = Items(b, n, x, w) \o Items(b, n, y, u)
  /\ AreCqes(b, n, x, w) /\ AreCqes(b, n, y, u)

(* They are a longer stretch.                                               *)
LEMMA ItemsJoin ==
  ASSUME NEW b, NEW n, NEW x \in Nat, NEW w \in Nat, NEW u \in Nat, NEW y, y = x + w,
         NEW v, v = w + u, AreCqes(b, n, x, v)
  PROVE  Joined(b, n, x, w, y, u, v)
<1>1. AreCqes(b, n, x, w) /\ v \in Nat /\ y \in Nat
  BY DEF AreCqes
<1>2. ASSUME NEW k \in 0 .. u - 1
      PROVE  b[(y + k) % n].cqe \in Cqe
  <2>1. w + k \in 0 .. v - 1 /\ y + k = x + (w + k)
    OBVIOUS
  <2> QED
    BY <2>1 DEF AreCqes
<1>3. AreCqes(b, n, y, u)
  BY <1>2 DEF AreCqes
<1>4. PICK s, t, z : s = Items(b, n, x, w) /\ t = Items(b, n, y, u) /\ z = Items(b, n, x, v)
  OBVIOUS
<1>5. /\ s \in Seq(Cqe) /\ Len(s) = w /\ t \in Seq(Cqe) /\ Len(t) = u
      /\ z \in Seq(Cqe) /\ Len(z) = v
  BY <1>1, <1>3, <1>4, ItemsType
<1>6. \A k \in 1 .. w : z[k] = s[k]
  BY <1>4 DEF Items
<1>7. ASSUME NEW k \in 1 .. u
      PROVE  z[w + k] = t[k]
  <2>1. w + k \in 1 .. v /\ x + (w + k) - 1 = y + k - 1
    OBVIOUS
  <2> QED
    BY <1>4, <2>1 DEF Items
<1>8. z = s \o t
  <2>1. PICK q : q = s \o t
    OBVIOUS
  <2>2. /\ q \in Seq(Cqe) /\ Len(q) = w + u
        /\ \A i \in 1 .. w + u : q[i] = IF i <= w THEN s[i] ELSE t[i - w]
    BY <1>5, <2>1, ConcatProperties
  <2>3. \A i \in 1 .. w + u : z[i] = q[i]
    <3>1. TAKE i \in 1 .. w + u
    <3>2. CASE i <= w
      BY <1>6, <2>2, <3>2
    <3>3. CASE ~ (i <= w)
      <4>1. i - w \in 1 .. u /\ w + (i - w) = i
        BY <3>3
      <4> QED
        BY <1>7, <2>2, <3>3, <4>1
    <3> QED
      BY <3>2, <3>3
  <2>4. z = q
    BY ONLY <1>5, <2>2, <2>3, v = w + u, SeqEqual
  <2> QED
    BY <2>1, <2>4
<1> QED
  BY <1>1, <1>3, <1>4, <1>8 DEF Joined

(* A stretch that begins with a CQE.                                        *)
Begins(b, n, x, v, e, y, w) ==
  /\ Items(b, n, x, v) # <<>>
  /\ Head(Items(b, n, x, v)) = e
  /\ Tail(Items(b, n, x, v)) = Items(b, n, y, w)
  /\ Items(b, n, x, v) = <<e>> \o Items(b, n, y, w)
  /\ Items(b, n, y, w) \in Seq(Cqe) /\ e \in Cqe

(* The first of a stretch.                                                  *)
LEMMA ItemsFirst ==
  ASSUME NEW b, NEW n, NEW x \in Nat, NEW w \in Nat, NEW y, y = x + 1,
         NEW v, v = w + 1, AreCqes(b, n, x, v), NEW e, e = b[x % n].cqe
  PROVE  Begins(b, n, x, v, e, y, w)
<1>0. PICK o \in Nat : o = 1
  OBVIOUS
<1>1. v = o + w /\ v \in Nat /\ y \in Nat /\ y = x + o
  BY <1>0
<1>2. PICK s, t, z : s = Items(b, n, x, o) /\ t = Items(b, n, y, w) /\ z = Items(b, n, x, v)
  OBVIOUS
<1>3. z = s \o t /\ AreCqes(b, n, x, o) /\ AreCqes(b, n, y, w)
  <2>1. Joined(b, n, x, o, y, w, v)
    <3>1. x \in Nat /\ o \in Nat /\ w \in Nat /\ AreCqes(b, n, x, v)
      OBVIOUS
    <3> QED
      BY ONLY <1>1, <3>1, ItemsJoin
  <2> QED
    BY <1>2, <2>1 DEF Joined
<1>4. /\ s \in Seq(Cqe) /\ Len(s) = 1 /\ t \in Seq(Cqe) /\ Len(t) = w
      /\ z \in Seq(Cqe) /\ Len(z) = v
  <2>1. s \in Seq(Cqe) /\ Len(s) = o
    BY <1>2, <1>3, ItemsType
  <2>2. t \in Seq(Cqe) /\ Len(t) = w
    BY <1>1, <1>2, <1>3, ItemsType
  <2>3. z \in Seq(Cqe) /\ Len(z) = v
    BY <1>1, <1>2, ItemsType
  <2> QED
    BY <1>0, <2>1, <2>2, <2>3
<1>5. s[1] = e /\ z[1] = e
  <2>1. 1 \in 1 .. 1 /\ 1 \in 1 .. v /\ x + 1 - 1 = x
    OBVIOUS
  <2> QED
    BY <1>0, <1>2, <2>1 DEF Items
<1>6. s = <<e>> /\ e \in Cqe
  BY <1>4, <1>5
<1>7. z # <<>> /\ Head(z) = e
  BY <1>4, <1>5
<1>8. Tail(z) = t
  <2>1. PICK q : q = Tail(z)
    OBVIOUS
  <2>2. q \in Seq(Cqe) /\ Len(q) = w /\ \A i \in 1 .. w : q[i] = z[i + 1]
    BY <1>4, <1>7, <2>1, HeadTailProperties
  <2>3. \A i \in 1 .. w : z[i + 1] = t[i]
    <3>1. TAKE i \in 1 .. w
    <3>2. i + 1 \in 1 .. v /\ x + (i + 1) - 1 = y + i - 1
      OBVIOUS
    <3> QED
      BY <1>2, <3>2 DEF Items
  <2>4. q = t
    BY ONLY <1>4, <2>2, <2>3, SeqEqual
  <2> QED
    BY <2>1, <2>4
<1> QED
  BY <1>2, <1>3, <1>4, <1>6, <1>7, <1>8 DEF Begins

(* A CQE put behind a queue in two parts, and one taken between them.       *)
LEMMA AppendConcat ==
  ASSUME NEW p \in Seq(Cqe), NEW s \in Seq(Cqe), NEW e \in Cqe
  PROVE  /\ p \o Append(s, e) = Append(p \o s, e)
         /\ Append(p, e) \o s = p \o (<<e>> \o s)
<1>1. PICK q \in Seq(Cqe) : q = <<e>>
  <2>1. PICK q : q = Append(<<>>, e)
    OBVIOUS
  <2>2. q \in Seq(Cqe) /\ Len(q) = 1 /\ q[1] = e
    BY <2>1
  <2>3. q = <<e>>
    BY <2>2
  <2> QED
    BY <2>2, <2>3
<1>2. PICK u \in Seq(Cqe) : u = p \o s
  BY ConcatProperties
<1>3. Append(s, e) = s \o q /\ Append(p, e) = p \o q /\ Append(u, e) = u \o q
  BY <1>1, AppendIsConcat
<1>4. (p \o s) \o q = p \o (s \o q) /\ (p \o q) \o s = p \o (q \o s)
  <2>1. \A x, y, z \in Seq(Cqe) : (x \o y) \o z = x \o (y \o z)
    <3>1. TAKE x, y, z \in Seq(Cqe)
    <3> QED
      BY ONLY x \in Seq(Cqe), y \in Seq(Cqe), z \in Seq(Cqe), ConcatAssociative, SMTT(30)
  <2> QED
    BY <1>1, <2>1
<1> QED
  BY <1>1, <1>2, <1>3, <1>4

(* The CQEs of a ring.                                                      *)
LEMMA RingCqes ==
  ASSUME NEW n \in RingSizes, NEW b, NEW c, NEW w, NEW d \in 0 .. n, Ring(b, n, c, w, d)
  PROVE  AreCqes(b, n, c, d)
<1>1. n \in Nat
  BY SizeFacts
<1>2. \A k \in 0 .. d - 1 : k \in 0 .. n - 1 /\ k < d
  BY <1>1
<1> QED
  BY <1>2 DEF AreCqes, Ring, Done

-----------------------------------------------------------------------------
(***************************************************************************)
(* The queue the ring stands for, counted from the consumer index.         *)
(***************************************************************************)

QueueIs ==
  IF Locked("sweep")
    THEN Without(Items(buf, cq.size, cq.cons_index, Reached), cq.loop.rsn)
           \o Items(buf, cq.size, cq.cons_index + (Reached + cq.loop.nfreed),
                    Ready - (Reached + cq.loop.nfreed))
  ELSE IF Resizing
    THEN Items(buf, cq.size, cq.cons_index, Old)
           \o Items(NewBuf, NewSize, cq.cons_index + (Old + 1), Ready - (Old + 1))
  ELSE Items(buf, cq.size, cq.cons_index, Ready)

(* That is the queue.                                                       *)
LEMMA QueueAs == IndInv => Queue = QueueIs
<1> SUFFICES ASSUME IndInv PROVE Queue = QueueIs
  OBVIOUS
<1>1. PICK c, n, w : c = cq.cons_index /\ n = cq.size /\ w = Ready
  OBVIOUS
<1>2. /\ c \in Index /\ n \in RingSizes /\ w \in Nat /\ w < IndexMod /\ IndexMod \in Nat
      /\ card.prod = Add(c, w) /\ cq.loop.prod_index = Add(c, Reached) /\ c \in Nat
      /\ Reached \in Nat /\ Reached < IndexMod /\ cq.loop.nfreed \in Nat
  BY <1>1, Types, Counted, CqAssumption DEF Index
<1>3. /\ Slice(cq.cons_index, card.prod) = Items(buf, n, c, w)
      /\ Slice(cq.cons_index, cq.loop.prod_index) = Items(buf, n, c, Reached)
      /\ Slice(cq.cons_index, card.resized) = Items(buf, n, c, Ahead(card.resized, c))
  BY <1>1 DEF Slice, Items, Ready, Reached
<1>4. CASE Locked("sweep")
  <2>1. Quiet
    BY <1>4, InvQuiet DEF Locked
  <2>2. PICK d \in Nat : d = Reached + cq.loop.nfreed
    BY <1>2
  <2>3. d <= w /\ d \in 0 .. IndexMod /\ w - d \in Nat /\ d \in 0 .. w /\ w \in 0 .. IndexMod - 1
    <3>1. d <= w
      BY <1>1, <1>4, <2>1, <2>2 DEF Quiet
    <3> QED
      BY <1>2, <3>1
  <2>4. Add(cq.loop.prod_index, cq.loop.nfreed) = Add(c, d)
    BY <1>2, <2>2, <2>3, AddAdd
  <2>5. Ahead(card.prod, Add(c, d)) = w - d
    BY <1>2, <2>3, AheadAdd
  <2>6. Slice(Add(c, d), card.prod) = Items(buf, n, Add(c, d), w - d)
    BY <1>1, <2>5 DEF Slice, Items
  <2>7. Items(buf, n, Add(c, d), w - d) = Items(buf, n, c + d, w - d)
    BY <1>2, <2>3, ItemsAt
  <2>8. Queue = Without(Items(buf, n, c, Reached), cq.loop.rsn) \o Items(buf, n, c + d, w - d)
    BY <1>3, <1>4, <2>4, <2>6, <2>7 DEF Queue
  <2> QED
    BY <1>1, <1>4, <2>2, <2>8 DEF QueueIs
<1>5. CASE ~Locked("sweep") /\ Resizing
  <2>1. Locked("copy")
    BY <1>5 DEF IndInv, LoopInv
  <2>2. PICK m, r, o : BusyAt(c, n, m, r, o, w)
    BY <1>1, <2>1, BusyFacts
  <2>3. /\ m = NewSize /\ o = Old /\ o \in Nat /\ o + 1 <= w /\ card.resized = Add(c, o)
        /\ m \in RingSizes /\ m \in Nat /\ w <= m
    BY <2>2 DEF BusyAt
  <2>4. PICK d \in Nat : d = o + 1
    BY <2>3
  <2>5. d <= w /\ d \in 0 .. IndexMod /\ w - d \in Nat /\ d \in 0 .. w
        /\ w \in 0 .. IndexMod - 1 /\ 1 \in Nat /\ o \in 0 .. IndexMod - 1 /\ o + 1 <= IndexMod
    BY <1>2, <2>3, <2>4
  <2>6. Add(card.resized, 1) = Add(c, d)
    BY <1>2, <2>3, <2>4, <2>5, AddAdd
  <2>7. Ahead(card.prod, Add(c, d)) = w - d /\ Ahead(card.resized, c) = o
    BY <1>2, <2>3, <2>5, AheadAdd, AheadAddZero
  <2>8. NewSlice(Add(c, d), card.prod) = Items(NewBuf, m, Add(c, d), w - d)
    <3>1. PICK i \in Nat : i = Add(c, d)
      BY <1>2, <2>5, SlotAt, AddIs DEF Index
    <3>2. \A k \in 1 .. w - d :
            resize_buf[1 + ((i + k - 1) % m)].cqe = NewBuf[(i + k - 1) % m].cqe
      <4>1. TAKE k \in 1 .. w - d
      <4>2. PICK a \in Nat : a = i + k - 1
        OBVIOUS
      <4>3. a % m \in 0 .. m - 1
        BY <2>3, NextRound
      <4>4. PICK x \in 0 .. m - 1 : x = a % m
        BY <4>3
      <4>5. NewBuf[x] = resize_buf[1 + x]
        BY <2>3, <4>4 DEF NewBuf
      <4> QED
        BY <4>2, <4>4, <4>5
    <3>3. NewSlice(i, card.prod)
            = [k \in 1 .. w - d |-> resize_buf[1 + ((i + k - 1) % m)].cqe]
      BY <2>3, <2>7, <3>1 DEF NewSlice, NewSize
    <3> QED
      BY <3>1, <3>2, <3>3 DEF Items
  <2>9. Items(NewBuf, m, Add(c, d), w - d) = Items(NewBuf, m, c + d, w - d)
    BY <1>2, <2>3, <2>5, ItemsAt
  <2>10. Queue = Items(buf, n, c, o) \o Items(NewBuf, m, c + d, w - d)
    BY <1>3, <1>5, <2>6, <2>7, <2>8, <2>9 DEF Queue
  <2> QED
    BY <1>1, <1>5, <2>3, <2>4, <2>10 DEF QueueIs
<1>6. CASE ~Locked("sweep") /\ ~Resizing
  BY <1>1, <1>3, <1>6 DEF Queue, QueueIs
<1> QED
  BY <1>4, <1>5, <1>6

(* Offset j is not one of the l from offset x on.                           *)
Apart(n, j, x, l) == x + l <= n /\ (j < x \/ x + l <= j)

(* Two rings have the same stretch.                                         *)
SameStretch(b2, b, n, y, l) == Items(b2, n, y, l) = Items(b, n, y, l)

(* A stretch that does not hold the entry written is as it was.             *)
LEMMA ItemsWritten ==
  ASSUME NEW n \in RingSizes, NEW b \in [0 .. n - 1 -> EntryType], NEW c \in Nat,
         NEW j \in 0 .. n - 1, NEW e, NEW b2, b2 = [b EXCEPT ![(c + j) % n] = e],
         NEW x \in Nat, NEW l \in Nat, Apart(n, j, x, l), NEW y, y = c + x
  PROVE  SameStretch(b2, b, n, y, l)
<1>0. n \in Nat /\ y \in Nat /\ j \in Nat /\ x + l <= n /\ (j < x \/ x + l <= j)
  BY SizeFacts DEF Apart
<1>1. ASSUME NEW k \in 0 .. l - 1
      PROVE  b2[(y + k) % n].cqe = b[(y + k) % n].cqe
  <2>1. PICK i \in 0 .. n - 1 : i = x + k
    BY <1>0
  <2>2. i # j /\ y + k = c + i
    BY <1>0, <2>1
  <2>3. (c + i) % n # (c + j) % n
    BY <2>2, OtherEntry
  <2>4. (c + i) % n \in 0 .. n - 1
    <3>1. i \in Nat
      BY <1>0, <2>1
    <3> QED
      BY <3>1, SlotOf
  <2> QED
    BY <2>2, <2>3, <2>4
<1>2. SameItems(b2, n, y, b, n, y, l)
  BY <1>1 DEF SameItems
<1> QED
  BY <1>0, <1>2, ItemsSame DEF SameStretch

(* The CQEs of a stretch are those of the entries in the ring.              *)
LEMMA StretchCqes ==
  ASSUME NEW n, NEW b, NEW c \in Nat, NEW w \in Nat, AreCqes(b, n, c, w),
         NEW x \in 0 .. w, NEW y, y = c + x, NEW l \in Nat, x + l <= w
  PROVE  AreCqes(b, n, y, l)
<1>1. ASSUME NEW k \in 0 .. l - 1
      PROVE  b[(y + k) % n].cqe \in Cqe
  <2>1. x + k \in 0 .. w - 1 /\ y + k = c + (x + k)
    OBVIOUS
  <2> QED
    BY <2>1 DEF AreCqes
<1> QED
  BY <1>1 DEF AreCqes

(* A CQE the card writes into the ring is the last of the queue.            *)
LEMMA PutQueue ==
  ASSUME NEW q \in Cqe, IndInv, ~Resizing, Put(q), IndInv'
  PROVE  QueueIs' = Append(QueueIs, q)
<1>1. ~Locked("copy")
  BY DEF IndInv, LoopInv
<1>2. Quiet
  BY <1>1, InvQuiet
<1>3. PICK c, n, w, b, b2 : c = cq.cons_index /\ n = cq.size /\ w = Ready
                            /\ b = buf /\ b2 = buf'
  OBVIOUS
<1>4. /\ c \in Index /\ n \in RingSizes /\ w \in Nat /\ w < n - 1 /\ n \in Nat /\ c \in Nat
      /\ 2 * n <= IndexMod /\ IndexMod \in Nat /\ card.prod = Add(c, w)
      /\ b \in [0 .. n - 1 -> EntryType] /\ Ring(b, n, c, w, w) /\ dbrec \in Index
  <2>1. PICK a : a = Ahead(card.prod, dbrec)
    OBVIOUS
  <2>2. a < n - 1 /\ Ready <= a /\ a \in Nat /\ Ready \in Nat
    <3>1. a < n - 1 /\ Ready <= a
      BY <1>2, <1>3, <2>1 DEF Put, Room, Quiet
    <3>2. card.prod \in Index /\ dbrec \in Index /\ Ready \in Nat
      BY Types, Counted
    <3>3. a \in Nat
      BY <2>1, <3>2, AddAhead
    <3> QED
      BY <3>1, <3>2, <3>3
  <2>3. n \in Nat /\ n \in RingSizes /\ c \in Index /\ c \in Nat
    <3>1. n \in RingSizes /\ c \in Index
      BY <1>3, Types
    <3>2. c \in Nat
      BY <3>1, CqAssumption DEF Index
    <3> QED
      BY <3>1, <3>2, SizeFacts
  <2>4. w < n - 1
    BY <1>3, <2>2, <2>3
  <2> QED
    BY <1>2, <1>3, <2>2, <2>3, <2>4, Types, Counted, CqAssumption DEF Quiet
<1>5. w \in 0 .. IndexMod /\ w \in 0 .. n - 1 /\ w + 1 < IndexMod /\ w \in 0 .. n
  BY <1>4
<1>6. PICK e : e = Entry("done", Parity(c + w, n), q)
  OBVIOUS
<1>7. /\ c + w \in Nat /\ card.prod % n = (c + w) % n /\ (c + w) % n \in 0 .. n - 1
      /\ Parity(card.prod, n) = Parity(c + w, n)
  BY <1>4, <1>5, SlotAt
<1>8. e.cqe = q
  BY <1>4, <1>6, <1>7, DoneEntry
<1>9. b2 = [b EXCEPT ![(c + w) % n] = e]
  BY <1>3, <1>6, <1>7 DEF Put
<1>10. UNCHANGED <<cq, resize_buf>>
  BY DEF Put
<1>11. PICK v \in Nat : v = w + 1
  BY <1>4
<1>12. Ready' = v /\ Reached' = Reached
  <2>1. card' = [card EXCEPT !.prod = Add(@, 1)]
    BY DEF Put
  <2>2. Ahead(card'.prod, c) = w + 1
    BY <1>3, <1>5, <2>1, CardWritten
  <2> QED
    BY <1>3, <1>10, <1>11, <2>2 DEF Ready, Reached
<1>13. AreCqes(b, n, c, w)
  BY <1>4, <1>5, RingCqes
<1>14. b2[(c + w) % n].cqe = q
  BY <1>4, <1>7, <1>8, <1>9
<1>15. AreCqes(b2, n, c, v)
  <2>1. ASSUME NEW k \in 0 .. v - 1
        PROVE  b2[(c + k) % n].cqe \in Cqe
    <3>1. CASE k = w
      BY <1>14, <3>1
    <3>2. CASE k # w
      <4>1. k \in 0 .. w - 1 /\ k \in 0 .. n - 1 /\ k \in Nat
        BY <1>4, <1>11, <3>2
      <4>2. (c + k) % n # (c + w) % n
        BY <1>4, <1>5, <3>2, <4>1, OtherEntry
      <4>3. (c + k) % n \in 0 .. n - 1
        BY <1>4, <4>1, SlotOf
      <4>4. b2[(c + k) % n] = b[(c + k) % n]
        BY <1>4, <1>9, <4>2, <4>3
      <4> QED
        BY <1>13, <4>1, <4>4 DEF AreCqes
    <3> QED
      BY <3>1, <3>2
  <2> QED
    BY <2>1 DEF AreCqes
(* From offset x on.                                                        *)
<1>16. ASSUME NEW x \in 0 .. w, NEW y, y = c + x, NEW l, l = w - x, NEW u, u = v - x
       PROVE  /\ Items(b2, n, y, u) = Append(Items(b, n, y, l), q)
              /\ Items(b, n, y, l) \in Seq(Cqe)
  <2>1. x \in Nat /\ l \in Nat /\ u = l + 1 /\ u \in Nat /\ y \in Nat /\ y + l = c + w
        /\ x + l <= n /\ x + l <= w /\ x \in 0 .. v /\ x + u <= v
    BY <1>4, <1>11, <1>16
  <2>2. Items(b2, n, y, l) = Items(b, n, y, l)
    <3>1. Apart(n, w, x, l)
      BY <2>1 DEF Apart
    <3>2. SameStretch(b2, b, n, y, l)
      BY <1>4, <1>5, <1>9, <1>16, <2>1, <3>1, ItemsWritten
    <3> QED
      BY <3>2 DEF SameStretch
  <2>3. AreCqes(b2, n, y, u)
    BY <1>4, <1>11, <1>15, <1>16, <2>1, StretchCqes
  <2>4. b2[(y + l) % n].cqe = q
    BY <1>14, <2>1
  <2>5. /\ Items(b2, n, y, u) = Append(Items(b2, n, y, l), q)
        /\ Items(b2, n, y, l) \in Seq(Cqe)
    <3>1. Longer(b2, n, y, l, u, q)
      BY <2>1, <2>3, <2>4, ItemsLast
    <3> QED
      BY <3>1 DEF Longer
  <2> QED
    BY <2>2, <2>5
<1>17. CASE Locked("sweep")
  <2>1. PICK r, d : r = Reached /\ d = Reached + cq.loop.nfreed
    OBVIOUS
  <2>2. r \in Nat /\ d \in 0 .. w /\ r <= w
    <3>1. d <= w /\ Reached \in Nat /\ cq.loop.nfreed \in Nat
      BY <1>2, <1>3, <1>17, <2>1, Types, Counted DEF Quiet
    <3> QED
      BY <1>4, <2>1, <3>1
  <2>3. PICK p : p = Without(Items(b, n, c, r), cq.loop.rsn)
    OBVIOUS
  <2>4. p \in Seq(Cqe)
    <3>1. AreCqes(b, n, c, r)
      BY <1>13, <2>2, <1>4 DEF AreCqes
    <3>2. Items(b, n, c, r) \in Seq(Cqe)
      BY <1>4, <2>2, <3>1, ItemsType
    <3> QED
      BY <2>3, <3>2, WithoutFacts
  <2>5. Items(b2, n, c, r) = Items(b, n, c, r)
    <3>1. PICK x \in Nat : x = 0
      OBVIOUS
    <3>2. Apart(n, w, x, r) /\ c = c + x
      BY <1>4, <2>2, <3>1 DEF Apart
    <3>3. SameStretch(b2, b, n, c, r)
      BY <1>4, <1>5, <1>9, <2>2, <3>2, ItemsWritten
    <3> QED
      BY <3>3 DEF SameStretch
  <2>6. PICK s, t : s = Items(b, n, c + d, w - d) /\ t = Items(b2, n, c + d, v - d)
    OBVIOUS
  <2>7. t = Append(s, q) /\ s \in Seq(Cqe)
    BY <1>16, <2>2, <2>6
  <2>8. QueueIs = p \o s
    BY <1>3, <1>17, <2>1, <2>3, <2>6 DEF QueueIs
  <2>9. QueueIs' = p \o t
    BY <1>3, <1>10, <1>12, <1>17, <2>1, <2>3, <2>5, <2>6 DEF QueueIs, Locked
  <2> QED
    BY <2>4, <2>7, <2>8, <2>9, AppendConcat
<1>18. CASE ~Locked("sweep")
  <2>1. QueueIs = Items(b, n, c, w)
    BY <1>3, <1>18 DEF QueueIs
  <2>2. QueueIs' = Items(b2, n, c, v)
    BY <1>3, <1>10, <1>12, <1>18 DEF QueueIs, Locked, Resizing
  <2>3. 0 \in 0 .. w /\ c = c + 0 /\ w = w - 0 /\ v = v - 0
    BY <1>4
  <2>4. Items(b2, n, c, v) = Append(Items(b, n, c, w), q)
    BY <1>16, <2>3
  <2> QED
    BY <2>1, <2>2, <2>4
<1> QED
  BY <1>17, <1>18

(* The CQEs behind the RESIZE_CQ entry, in the new ring: o of them are to   *)
(* be copied, the w from there on are the card's.                           *)
LEMMA NewCqes ==
  ASSUME NEW m \in RingSizes, NEW nb, NEW c \in Nat, NEW d \in Nat, NEW o \in Nat,
         NEW w \in 0 .. m, o + 1 <= w, d <= o, NEW v, v = w - 1, NEW b, NEW n,
         Copying(nb, m, c, d, o, v, b, n), NEW y, y = c + (o + 1), NEW l, l = w - (o + 1)
  PROVE  AreCqes(nb, m, y, l)
<1>0. m \in Nat
  BY SizeFacts
<1>1. ASSUME NEW k \in 0 .. l - 1
      PROVE  nb[(y + k) % m].cqe \in Cqe
  <2>1. PICK i \in 0 .. m - 1 : i = o + k
    BY <1>0
  <2>2. ~ (i < d) /\ o <= i /\ i < v /\ y + k = c + 1 + i
    BY <1>0, <2>1
  <2>3. Done(nb[(c + 1 + i) % m])
    BY <2>2 DEF Copying
  <2> QED
    BY <2>2, <2>3 DEF Done
<1> QED
  BY <1>1 DEF AreCqes

(* A CQE the card writes into the new ring is the last of the queue.        *)
LEMMA PutNewQueue ==
  ASSUME NEW q \in Cqe, IndInv, Resizing, Put(q), IndInv'
  PROVE  QueueIs' = Append(QueueIs, q)
<1>1. Locked("copy") /\ ~Locked("sweep")
  BY DEF IndInv, LoopInv, Locked
<1>2. PICK c, n, m, r, o, w : BusyAt(c, n, m, r, o, w)
  BY <1>1, BusyFacts
<1>3. /\ c = cq.cons_index /\ n = cq.size /\ m = NewSize /\ o = Old /\ w = Ready
      /\ c \in Index /\ c \in Nat /\ n \in RingSizes /\ m \in RingSizes /\ n \in Nat
      /\ m \in Nat /\ r \in Nat /\ o \in Nat /\ w \in Nat /\ r <= o /\ o <= n - 1
      /\ o + 1 <= w /\ w <= m /\ 2 * m <= IndexMod /\ IndexMod \in Nat
      /\ card.prod = Add(c, w) /\ dbrec = c
      /\ Ring(buf, n, c, o + 1, o) /\ Copying(NewBuf, m, c, r, o, w - 1, buf, n)
      /\ NewBuf \in [0 .. m - 1 -> EntryType]
      /\ resize_buf \in Seq(EntryType) /\ resize_buf # <<>>
  BY <1>1, <1>2, InvBusy DEF BusyAt, Busy
<1>4. w < m
  <2>1. Ready - 1 < NewSize - 1
    BY <1>3 DEF Put, Room, NewSize, Ready
  <2> QED
    BY <1>3, <2>1
<1>5. /\ w + 1 < IndexMod /\ w \in 0 .. IndexMod /\ w \in 0 .. m - 1 /\ w \in 0 .. m
  BY <1>3, <1>4
<1>6. PICK v \in Nat : v = w + 1
  BY <1>3
<1>7. PICK e : e = Entry("done", Parity(c + w, m), q)
  OBVIOUS
<1>8. /\ c + w \in Nat /\ card.prod % m = (c + w) % m /\ (c + w) % m \in 0 .. m - 1
      /\ Parity(card.prod, m) = Parity(c + w, m)
  <2>1. m \in RingSizes /\ c \in Index /\ w \in 0 .. IndexMod /\ card.prod = Add(c, w)
    BY <1>3, <1>5
  <2> QED
    BY ONLY <2>1, SlotAt
<1>9. e \in EntryType /\ e.cqe = q
  <2>1. m \in RingSizes /\ c + w \in Nat
    BY <1>3, <1>8
  <2> QED
    BY ONLY <1>7, <2>1, q \in Cqe, DoneEntry
<1>10. PICK b, b2, x : b = NewBuf /\ b2 = NewBuf' /\ x = (c + w) % m
  OBVIOUS
<1>11. /\ NewSize' = m /\ b2 = [b EXCEPT ![(c + w) % m] = e] /\ resize_buf' # <<>>
  <2>1. resize_buf' = [resize_buf EXCEPT ![1 + x] = e] /\ x \in 0 .. NewSize - 1
    BY <1>3, <1>7, <1>8, <1>10 DEF Put, NewSize
  <2>2. NewSize' = m /\ NewBuf' = [NewBuf EXCEPT ![x] = e] /\ resize_buf' # <<>>
    BY <1>3, <1>9, <2>1, NewBufWritten
  <2> QED
    BY <1>10, <2>2
<1>12. UNCHANGED <<cq, buf>>
  BY DEF Put
<1>13. Ready' = v /\ Old' = o /\ Resizing'
  <2>1. card' = [card EXCEPT !.prod = Add(@, 1)]
    BY DEF Put
  <2>2. Ahead(card'.prod, c) = w + 1 /\ card'.resized = card.resized
    BY <1>3, <1>5, <2>1, CardWritten
  <2>3. Resizing'
    BY <1>11 DEF Resizing
  <2> QED
    BY <1>3, <1>6, <1>12, <2>2, <2>3 DEF Ready, Old
<1>14. PICK p, d, y, l, u : p = Items(buf, n, c, o) /\ d = o + 1 /\ y = c + (o + 1)
                            /\ l = w - (o + 1) /\ u = v - (o + 1)
  OBVIOUS
<1>15. /\ l \in Nat /\ u = l + 1 /\ u \in Nat /\ y \in Nat /\ y + l = c + w /\ d \in Nat
       /\ d + l <= w /\ y = c + d
  <2>1. c \in Nat /\ o \in Nat /\ w \in Nat /\ o + 1 <= w
    BY <1>3
  <2>2. d = o + 1 /\ y = c + (o + 1) /\ l = w - (o + 1) /\ u = v - (o + 1)
    BY <1>14
  <2> QED
    BY ONLY <1>6, <2>1, <2>2
<1>16. p \in Seq(Cqe)
  <2>1. AreCqes(buf, n, c, o)
    <3>1. o \in 0 .. n
      BY <1>3
    <3> QED
      BY <1>3, <3>1, RingCqes
  <2> QED
    BY <1>3, <1>14, <2>1, ItemsType
<1>17. AreCqes(b, m, y, l)
  <2>1. PICK z : z = w - 1
    OBVIOUS
  <2>2. Copying(b, m, c, r, o, z, buf, n)
    BY <1>3, <1>10, <2>1
  <2> QED
    BY <1>3, <1>5, <1>14, <2>1, <2>2, NewCqes
<1>18. b2[(c + w) % m].cqe = q
  BY <1>3, <1>8, <1>9, <1>10, <1>11
<1>19. AreCqes(b2, m, y, u)
  <2>1. ASSUME NEW k \in 0 .. u - 1
        PROVE  b2[(y + k) % m].cqe \in Cqe
    <3>1. CASE k = l
      BY <1>15, <1>18, <3>1
    <3>2. CASE k # l
      <4>1. PICK i \in 0 .. m - 1 : i = d + k
        BY <1>3, <1>4, <1>15
      <4>2. k \in 0 .. l - 1 /\ i # w /\ y + k = c + i
        <5>1. c \in Nat /\ w \in Nat /\ o + 1 <= w /\ o \in Nat
          BY <1>3
        <5>2. d = o + 1 /\ l = w - (o + 1)
          BY <1>14
        <5> QED
          BY ONLY <1>15, <3>2, <4>1, <5>1, <5>2, k \in 0 .. u - 1
      <4>3. (c + i) % m # (c + w) % m
        BY <1>3, <1>5, <4>2, OtherEntry
      <4>4. (c + i) % m \in 0 .. m - 1
        <5>1. i \in Nat
          BY <1>3
        <5> QED
          BY <1>3, <5>1, SlotOf
      <4>5. b2[(c + i) % m] = b[(c + i) % m]
        BY <1>3, <1>10, <1>11, <4>3, <4>4
      <4> QED
        BY <1>17, <4>2, <4>5 DEF AreCqes
    <3> QED
      BY <3>1, <3>2
  <2> QED
    BY <2>1 DEF AreCqes
<1>20. Items(b2, m, y, l) = Items(b, m, y, l)
  <2>1. Apart(m, w, d, l)
    BY <1>3, <1>15 DEF Apart
  <2>2. SameStretch(b2, b, m, y, l)
    BY <1>3, <1>5, <1>10, <1>11, <1>15, <2>1, ItemsWritten
  <2> QED
    BY <2>2 DEF SameStretch
<1>21. PICK s, t : s = Items(b, m, y, l) /\ t = Items(b2, m, y, u)
  OBVIOUS
<1>22. t = Append(s, q) /\ s \in Seq(Cqe)
  <2>1. b2[(y + l) % m].cqe = q
    BY <1>15, <1>18
  <2>2. Longer(b2, m, y, l, u, q)
    BY <1>15, <1>19, <2>1, ItemsLast
  <2> QED
    BY <1>20, <1>21, <2>2 DEF Longer
<1>23. QueueIs = p \o s
  BY <1>1, <1>3, <1>10, <1>14, <1>21 DEF QueueIs
<1>24. QueueIs' = p \o t
  BY <1>1, <1>3, <1>10, <1>11, <1>12, <1>13, <1>14, <1>21 DEF QueueIs, Locked
<1> QED
  BY <1>16, <1>22, <1>23, <1>24, AppendConcat

(* One call of poll_cq takes the first CQE of the queue.                    *)
LEMMA PollOneQueue ==
  ASSUME IndInv, PollOne, IndInv'
  PROVE  QueueIs # <<>> /\ polled' = Head(QueueIs) /\ QueueIs' = Tail(QueueIs)
<1>1. ~Locked("copy") /\ ~Locked("sweep")
  BY DEF PollOne, Polling, Locked
<1>2. Quiet /\ ~Resizing
  BY <1>1, InvQuiet, NotResizing
<1>3. PICK c, n, w : c = cq.cons_index /\ n = cq.size /\ w = Ready
  OBVIOUS
<1>4. /\ c \in Index /\ n \in RingSizes /\ w \in Nat /\ w <= n - 1 /\ n \in Nat
      /\ w < IndexMod /\ IndexMod \in Nat /\ card.prod = Add(c, w) /\ c \in Nat
      /\ Ring(buf, n, c, w, w) /\ 0 \in 0 .. n - 1 /\ 1 \in 0 .. IndexMod
  <2>1. c \in Index /\ n \in RingSizes
    BY <1>3, Types
  <2>2. n \in Nat \ {0, 1} /\ IndexMod \in Nat \ {0}
    BY <2>1, CqAssumption
  <2>3. c \in Nat
    BY <2>1, <2>2 DEF Index
  <2> QED
    BY <1>2, <1>3, <2>1, <2>2, <2>3, Counted DEF Quiet
<1>5. 0 < w
  <2>1. Owned(buf, n, c + 0)
    BY <1>3, <1>4 DEF PollOne, SwOwned, Owned
  <2> QED
    BY <1>4, <2>1 DEF Ring
<1>6. /\ cq'.cons_index = Add(c, 1) /\ cq'.size = n /\ cq'.loop.pc = "poll"
      /\ UNCHANGED <<buf, resize_buf, card>>
  <2>1. cq \in CqType
    BY Types
  <2> QED
    BY <1>3, <2>1 DEF PollOne, CqType, LoopType
<1>7. PICK v \in Nat : v = w - 1
  BY <1>4, <1>5
<1>8. Ready' = v
  <2>1. w \in 0 .. IndexMod - 1 /\ 1 \in 0 .. w
    BY <1>4, <1>5
  <2>2. Ahead(Add(c, w), Add(c, 1)) = w - 1
    BY <1>4, <2>1, AheadAdd
  <2> QED
    BY <1>4, <1>6, <1>7, <2>2 DEF Ready
<1>9. PICK y, e : y = c + 1 /\ e = buf[c % n].cqe
  OBVIOUS
<1>10. /\ Items(buf, n, c, w) # <<>> /\ Head(Items(buf, n, c, w)) = e
       /\ Tail(Items(buf, n, c, w)) = Items(buf, n, y, v)
  <2>1. AreCqes(buf, n, c, w)
    <3>1. w \in 0 .. n
      BY <1>4
    <3> QED
      BY <1>4, <3>1, RingCqes
  <2>2. w = v + 1
    BY <1>4, <1>7
  <2>3. Begins(buf, n, c, w, e, y, v)
    BY <1>4, <1>7, <1>9, <2>1, <2>2, ItemsFirst
  <2> QED
    BY <2>3 DEF Begins
<1>11. Items(buf, n, Add(c, 1), v) = Items(buf, n, y, v)
  BY <1>4, <1>7, <1>9, ItemsAt
<1>12. QueueIs = Items(buf, n, c, w)
  BY <1>1, <1>2, <1>3 DEF QueueIs
<1>13. QueueIs' = Items(buf, n, y, v)
  BY <1>2, <1>6, <1>8, <1>11 DEF QueueIs, Locked, Resizing
<1>14. polled' = e
  BY <1>3, <1>9 DEF PollOne
<1> QED
  BY <1>10, <1>12, <1>13, <1>14

(* A call of poll_cq that finds nothing finds the queue empty.              *)
LEMMA PollEmptyQueue ==
  ASSUME IndInv, PollEmpty, IndInv'
  PROVE  QueueIs = <<>> /\ QueueIs' = <<>>
<1>1. ~Locked("copy") /\ ~Locked("sweep")
  BY DEF PollEmpty, Polling, Locked
<1>2. Quiet /\ ~Resizing
  BY <1>1, InvQuiet, NotResizing
<1>3. PICK c, n, w : c = cq.cons_index /\ n = cq.size /\ w = Ready
  OBVIOUS
<1>4. /\ c \in Index /\ n \in RingSizes /\ w \in Nat /\ w <= n - 1 /\ n \in Nat
      /\ c \in Nat /\ Ring(buf, n, c, w, w) /\ 0 \in 0 .. n - 1
  <2>1. c \in Index /\ n \in RingSizes
    BY <1>3, Types
  <2>2. n \in Nat \ {0, 1} /\ IndexMod \in Nat \ {0}
    BY <2>1, CqAssumption
  <2>3. c \in Nat
    BY <2>1, <2>2 DEF Index
  <2> QED
    BY <1>2, <1>3, <2>1, <2>2, <2>3, Counted DEF Quiet
<1>5. w = 0
  <2>1. ~Owned(buf, n, c + 0)
    BY <1>3, <1>4 DEF PollEmpty, SwOwned, Owned
  <2>2. ~ (0 < w)
    BY <1>4, <2>1 DEF Ring
  <2> QED
    BY <1>4, <2>2
<1>6. /\ cq'.cons_index = c /\ cq'.size = n /\ cq'.loop.pc = "free"
      /\ UNCHANGED <<buf, resize_buf, card>>
  <2>1. cq \in CqType /\ Idle.pc = "free"
    BY Types, IdleFacts
  <2> QED
    BY <1>3, <2>1 DEF PollEmpty, CqType
<1>7. Ready' = 0
  BY <1>3, <1>5, <1>6 DEF Ready
<1>8. Items(buf, n, c, 0) = <<>>
  BY DEF Items
<1>9. QueueIs = Items(buf, n, c, 0)
  BY <1>1, <1>2, <1>3, <1>5 DEF QueueIs
<1>10. QueueIs' = Items(buf, n, c, 0)
  BY <1>2, <1>6, <1>7 DEF QueueIs, Locked, Resizing
<1> QED
  BY <1>8, <1>9, <1>10
(* Steps that change nothing of the queue.                                  *)
LEMMA QueueKept ==
  ASSUME UNCHANGED <<buf, resize_buf, card>>, cq'.cons_index = cq.cons_index,
         cq'.size = cq.size,
         \/ cq' = cq
         \/ ~Locked("sweep") /\ ~Locked("sweep")'
  PROVE  QueueIs' = QueueIs
<1>1. /\ Ready' = Ready /\ Resizing' = Resizing /\ Old' = Old
      /\ NewSize' = NewSize /\ NewBuf' = NewBuf
  BY DEF Ready, Resizing, Old, NewSize, NewBuf
<1>2. CASE cq' = cq
  BY <1>1, <1>2 DEF QueueIs, Locked, Reached
<1>3. CASE ~Locked("sweep") /\ ~Locked("sweep")'
  BY <1>1, <1>3 DEF QueueIs
<1> QED
  BY <1>2, <1>3

(* A poll that ends, a QP that changes state and the start of a sweep.      *)
LEMMA OtherQueue ==
  ASSUME IndInv,
         \/ PollEnd
         \/ \E r \in Rsn : ResetQp(r) \/ ReviveQp(r) \/ CleanStart(r)
         \/ UNCHANGED vars
  PROVE  QueueIs' = QueueIs /\ polled' = polled
<1>1. cq \in CqType /\ Idle \in LoopType /\ Idle.pc = "free" /\ cq.cons_index \in Index
  BY Types, IdleFacts
<1>2. CASE PollEnd
  <2>1. cq' = [cq EXCEPT !.loop = Idle] /\ ~Locked("sweep")
    BY <1>2 DEF PollEnd, Locked
  <2>2. /\ cq'.cons_index = cq.cons_index /\ cq'.size = cq.size /\ ~Locked("sweep")'
    BY <1>1, <2>1 DEF CqType, Locked
  <2> QED
    BY <1>2, <2>1, <2>2, QueueKept DEF PollEnd
<1>3. CASE \E r \in Rsn : ResetQp(r) \/ ReviveQp(r)
  BY <1>3, QueueKept DEF ResetQp, ReviveQp
<1>4. CASE \E r \in Rsn : CleanStart(r)
  <2>1. PICK r \in Rsn : CleanStart(r)
    BY <1>4
  <2>2. PICK l : l = [Idle EXCEPT !.pc = "scan", !.rsn = r, !.prod_index = cq.cons_index]
    OBVIOUS
  <2>3. cq' = [cq EXCEPT !.loop = l] /\ ~Locked("sweep")
    BY <2>1, <2>2 DEF CleanStart, Locked
  <2>4. l.pc = "scan"
    BY <1>1, <2>2 DEF LoopType
  <2>5. cq'.cons_index = cq.cons_index /\ cq'.size = cq.size /\ ~Locked("sweep")'
    BY <1>1, <2>3, <2>4 DEF CqType, Locked
  <2> QED
    BY <2>1, <2>3, <2>5, QueueKept DEF CleanStart
<1>5. CASE UNCHANGED vars
  BY <1>5, QueueKept DEF vars
<1> QED
  BY <1>2, <1>3, <1>4, <1>5

(* The end of the queue is found: the sweep takes effect.                   *)
LEMMA ScanQueue ==
  ASSUME IndInv, Scan
  PROVE  \/ QueueIs' = QueueIs
         \/ \E r \in Rsn : QueueIs' = Without(QueueIs, r)
<1>1. Locked("scan") /\ ~Locked("copy") /\ ~Locked("sweep") /\ cq.loop.pc = "scan"
  BY DEF Scan, Locked
<1>2. Quiet /\ ~Resizing
  BY <1>1, InvQuiet, NotResizing
<1>3. cq \in CqType /\ cq.loop \in LoopType
  BY Types
<1>4. UNCHANGED <<buf, resize_buf, card>>
  BY DEF Scan
<1>5. CASE Reached < Ready
  <2>1. cq' = [cq EXCEPT !.loop.prod_index = Add(cq.loop.prod_index, 1)]
    BY <1>5, ScanFinds
  <2>2. cq'.cons_index = cq.cons_index /\ cq'.size = cq.size /\ cq'.loop.pc = cq.loop.pc
    BY <1>3, <2>1 DEF CqType, LoopType
  <2>3. ~Locked("sweep")'
    BY <1>1, <2>2 DEF Locked
  <2> QED
    BY <1>1, <1>4, <2>2, <2>3, QueueKept
<1>6. CASE ~ (Reached < Ready)
  <2>1. cq' = [cq EXCEPT !.loop.pc = "sweep"] /\ Reached = Ready
    BY <1>6, ScanFinds
  <2>2. /\ cq'.cons_index = cq.cons_index /\ cq'.size = cq.size /\ cq'.loop.pc = "sweep"
        /\ cq'.loop.rsn = cq.loop.rsn /\ cq'.loop.nfreed = cq.loop.nfreed
        /\ cq'.loop.prod_index = cq.loop.prod_index
    BY <1>3, <2>1 DEF CqType, LoopType
  <2>3. cq.loop.rsn \in Rsn /\ cq.loop.nfreed = 0
    BY <1>1, <1>2 DEF Quiet, Locked
  <2>4. PICK c, n, w, r : c = cq.cons_index /\ n = cq.size /\ w = Ready /\ r = cq.loop.rsn
    OBVIOUS
  <2>5. /\ c \in Nat /\ n \in RingSizes /\ w \in Nat /\ w + 0 = w /\ w - w = 0
        /\ Ring(buf, n, c, w, w) /\ w \in 0 .. n
    <3>1. c \in Index /\ IndexMod \in Nat /\ n \in Nat /\ w \in Nat /\ w <= n - 1
      BY <1>2, <2>4, Types, Counted, CqAssumption DEF Quiet
    <3>2. n \in RingSizes /\ Ring(buf, n, c, w, w)
      BY <1>2, <2>4, Types DEF Quiet
    <3> QED
      BY <3>1, <3>2 DEF Index
  <2>6. Ready' = w /\ Reached' = w
    BY <1>4, <2>1, <2>2, <2>4 DEF Ready, Reached
  <2>7. PICK s : s = Items(buf, n, c, w)
    OBVIOUS
  <2>8. Without(s, r) \in Seq(Cqe)
    <3>1. AreCqes(buf, n, c, w)
      BY <2>5, RingCqes
    <3>2. s \in Seq(Cqe)
      BY <2>5, <2>7, <3>1, ItemsType
    <3> QED
      BY <3>2, WithoutFacts
  <2>9. Items(buf, n, c + w, 0) = <<>>
    BY DEF Items
  <2>10. QueueIs = s
    BY <1>1, <1>2, <2>4, <2>7 DEF QueueIs
  <2>11. QueueIs' = Without(s, r) \o Items(buf, n, c + (w + 0), w - (w + 0))
    BY <1>4, <2>2, <2>3, <2>4, <2>6, <2>7 DEF QueueIs, Locked
  <2>12. QueueIs' = Without(s, r) \o <<>>
    BY <2>5, <2>9, <2>11
  <2>13. QueueIs' = Without(s, r)
    BY <2>8, <2>12, ConcatEmptySeq
  <2> QED
    BY <2>3, <2>4, <2>10, <2>13
<1> QED
  BY <1>5, <1>6

(* A CQE of another QP that the sweep looks at stays where it stood in the  *)
(* queue: it moves from the part the sweep has not looked at to the other.  *)
LEMMA SweepQueue ==
  ASSUME IndInv, Sweep, IndInv'
  PROVE  QueueIs' = QueueIs
<1>1. Locked("sweep") /\ ~Locked("copy")
  BY DEF Sweep, Locked
<1>2. Quiet
  BY <1>1, InvQuiet
<1>3. PICK c, n, w, r, f, z : c = cq.cons_index /\ n = cq.size /\ w = Ready /\ r = Reached
                              /\ f = cq.loop.nfreed /\ z = cq.loop.rsn
  OBVIOUS
<1>4. PICK e, b, b2 : e = buf[(c + (r - 1)) % n] /\ b = buf /\ b2 = buf'
  OBVIOUS
<1>5. /\ c \in Index /\ n \in RingSizes /\ r \in Nat /\ f \in Nat /\ 0 < r
      /\ r + f <= w /\ w <= n - 1 /\ Done(e)
      /\ Reached' = r - 1
      /\ cq'.loop.nfreed = (IF e.cqe.rsn = z THEN f + 1 ELSE f)
      /\ b2 = IF e.cqe.rsn = z \/ f = 0 THEN b
              ELSE [b EXCEPT ![(c + (r - 1 + f)) % n] =
                      Entry(e.op, b[(c + (r - 1 + f)) % n].own, e.cqe)]
  BY <1>3, <1>4, SweepIs
<1>6. /\ cq'.cons_index = c /\ cq'.size = n
      /\ cq'.loop.pc = "sweep" /\ cq'.loop.rsn = z
  BY <1>3, <1>4, SweepIs
<1>7. UNCHANGED <<resize_buf, card>>
  BY DEF Sweep
<1>8. /\ Ready' = w /\ w \in Nat /\ c \in Nat /\ n \in Nat /\ b \in [0 .. n - 1 -> EntryType]
      /\ Ring(b, n, c, w, w) /\ w \in 0 .. n
  <2>1. w \in Nat /\ c \in Nat /\ n \in Nat
    BY <1>3, <1>5, Counted, SizeFacts, CqAssumption DEF Index
  <2>2. Ready' = w
    BY <1>3, <1>6, <1>7 DEF Ready
  <2>3. b \in [0 .. n - 1 -> EntryType] /\ Ring(b, n, c, w, w)
    BY <1>2, <1>3, <1>4 DEF Quiet
  <2>4. w \in 0 .. n
    BY <1>5, <2>1
  <2> QED
    BY <2>1, <2>2, <2>3, <2>4
<1>9. Ring(b2, n, c, w, w)
  <2>1. ~Locked("copy")' /\ BufInv' /\ (Resizing <=> Locked("copy"))'
    BY <1>6 DEF IndInv, LoopInv, Locked
  <2>2. Old' = w
    BY <1>8, <2>1 DEF Old
  <2> QED
    BY <1>4, <1>6, <2>1, <2>2 DEF BufInv
<1>10. PICK k, j, d, q : k = r - 1 /\ j = r - 1 + f /\ d = r + f /\ q = e.cqe
  OBVIOUS
<1>11. /\ k \in Nat /\ j \in Nat /\ d \in Nat /\ d = j + 1 /\ j = k + f /\ r = k + 1
       /\ d <= w /\ j \in 0 .. n - 1 /\ k <= j /\ d \in 0 .. w /\ j \in 0 .. w /\ r <= w
       /\ w - d \in Nat /\ w - j \in Nat /\ w - j = (w - d) + 1 /\ d + (w - d) <= n
       /\ d + (w - d) <= w /\ j + (w - j) <= w /\ k + (f + 1) = d /\ 0 + k <= n
  <2>1. n \in Nat /\ w \in Nat /\ r \in Nat /\ f \in Nat /\ 0 < r /\ r + f <= w /\ w <= n - 1
    BY <1>5, <1>8
  <2> QED
    BY ONLY <1>10, <2>1
<1>12. AreCqes(b, n, c, w) /\ AreCqes(b2, n, c, w)
  BY <1>5, <1>8, <1>9, RingCqes
<1>13. PICK g, y, x : g = w - d /\ y = c + d /\ x = c + j
  OBVIOUS
<1>14. /\ g \in Nat /\ y \in Nat /\ x \in Nat /\ y = x + 1 /\ w - j = g + 1
  <2>1. c \in Nat /\ w \in Nat /\ j \in Nat /\ d = j + 1 /\ d <= w
    BY <1>8, <1>11
  <2> QED
    BY ONLY <1>13, <2>1
<1>15. PICK s, p, S : s = Items(b, n, c, k) /\ p = Without(s, z) /\ S = Items(b, n, y, g)
  OBVIOUS
<1>16. PICK s2 : s2 = Items(b, n, c, r)
  OBVIOUS
<1>17. s2 = Append(s, q) /\ s \in Seq(Cqe) /\ q \in Cqe
  <2>1. AreCqes(b, n, c, r)
    <3>1. r \in Nat /\ w \in Nat /\ r <= w
      BY <1>5, <1>8, <1>11
    <3> QED
      BY ONLY <1>12, <3>1 DEF AreCqes
  <2>2. q = b[(c + k) % n].cqe
    BY <1>4, <1>10
  <2>3. Longer(b, n, c, k, r, q)
    BY <1>8, <1>11, <2>1, <2>2, ItemsLast
  <2> QED
    BY <1>15, <1>16, <2>3 DEF Longer
<1>18. p \in Seq(Cqe)
  BY <1>15, <1>17, WithoutFacts
<1>19. S \in Seq(Cqe)
  <2>1. AreCqes(b, n, y, g)
    BY <1>8, <1>11, <1>12, <1>13, <1>14, StretchCqes
  <2> QED
    BY <1>14, <1>15, <2>1, ItemsType
<1>20. Without(s2, z) = IF q.rsn = z THEN p ELSE Append(p, q)
  <2>1. EndsWith(s2, s, q, z)
    BY ONLY <1>17, WithoutLast
  <2> QED
    BY <1>15, <2>1 DEF EndsWith
<1>21. QueueIs = Without(s2, z) \o S
  <2>1. QueueIs = Without(Items(b, n, c, r), z) \o Items(b, n, c + (r + f), w - (r + f))
    BY <1>1, <1>3, <1>4 DEF QueueIs
  <2> QED
    BY <1>10, <1>13, <1>15, <1>16, <2>1
<1>22. ASSUME NEW h, h = cq'.loop.nfreed
       PROVE  QueueIs' = Without(Items(b2, n, c, k), z)
                           \o Items(b2, n, c + (k + h), w - (k + h))
  BY <1>4, <1>6, <1>8, <1>5, <1>10, <1>22 DEF QueueIs, Locked
<1>23. CASE q.rsn = z
  <2>1. cq'.loop.nfreed = f + 1 /\ b2 = b
    BY <1>5, <1>10, <1>23
  <2>2. QueueIs' = Without(Items(b, n, c, k), z) \o Items(b, n, c + d, w - d)
    <3>1. PICK h : h = f + 1
      OBVIOUS
    <3>2. k + h = d
      BY <1>11, <3>1
    <3> QED
      BY <1>22, <2>1, <3>1, <3>2
  <2> QED
    BY <1>13, <1>15, <1>20, <1>21, <1>23, <2>2
<1>24. CASE q.rsn # z
  <2>1. cq'.loop.nfreed = f
    BY <1>5, <1>10, <1>24
  <2>2. b2 = IF f = 0 THEN b
             ELSE [b EXCEPT ![(c + j) % n] = Entry(e.op, b[(c + j) % n].own, q)]
    BY <1>5, <1>10, <1>24
  <2>3. b2[(c + j) % n].cqe = q
    <3>1. CASE f = 0
      <4>1. b2 = b /\ j = k
        BY <1>11, <2>2, <3>1
      <4> QED
        BY <1>4, <1>10, <4>1
    <3>2. CASE f # 0
      <4>1. PICK v : v = Entry(e.op, b[(c + j) % n].own, q)
        OBVIOUS
      <4>2. v.cqe = q
        BY <4>1 DEF Entry
      <4>3. (c + j) % n \in 0 .. n - 1
        BY <1>5, <1>8, <1>11, SlotOf
      <4> QED
        BY <1>8, <2>2, <3>2, <4>1, <4>2, <4>3
    <3> QED
      BY <3>1, <3>2
  <2>4. Items(b2, n, c, k) = s /\ Items(b2, n, y, g) = S
    <3>1. CASE f = 0
      BY <1>15, <2>2, <3>1
    <3>2. CASE f # 0
      <4>1. PICK v : v = Entry(e.op, b[(c + j) % n].own, q)
        OBVIOUS
      <4>2. b2 = [b EXCEPT ![(c + j) % n] = v]
        BY <2>2, <3>2, <4>1
      <4>3. PICK o \in Nat : o = 0
        OBVIOUS
      <4>4. Apart(n, j, o, k) /\ c = c + o
        <5>1. c \in Nat /\ k \in Nat /\ j \in Nat /\ n \in Nat /\ k <= j /\ 0 + k <= n
          BY <1>8, <1>11
        <5> QED
          BY ONLY <4>3, <5>1 DEF Apart
      <4>7. Apart(n, j, d, g)
        <5>1. j \in Nat /\ d \in Nat /\ d = j + 1 /\ d + (w - d) <= n
          BY <1>11
        <5> QED
          BY ONLY <1>13, <5>1 DEF Apart
      <4>5. SameStretch(b2, b, n, c, k)
        BY <1>5, <1>8, <1>11, <4>2, <4>4, ItemsWritten
      <4>6. SameStretch(b2, b, n, y, g)
        <5>1. n \in RingSizes /\ c \in Nat /\ j \in 0 .. n - 1 /\ d \in Nat /\ g \in Nat
              /\ b \in [0 .. n - 1 -> EntryType] /\ y = c + d
          BY <1>5, <1>8, <1>11, <1>13, <1>14
        <5> QED
          BY ONLY <4>2, <4>7, <5>1, ItemsWritten
      <4> QED
        BY <1>15, <4>5, <4>6 DEF SameStretch
    <3> QED
      BY <3>1, <3>2
  <2>5. PICK v : v = w - j
    OBVIOUS
  <2>6. Items(b2, n, x, v) = <<q>> \o S
    <3>1. v = g + 1 /\ v \in Nat /\ j + v <= w
      BY <1>11, <1>14, <2>5
    <3>2. AreCqes(b2, n, x, v)
      BY <1>8, <1>11, <1>12, <1>13, <3>1, StretchCqes
    <3>3. q = b2[x % n].cqe
      BY <1>13, <2>3
    <3>4. Begins(b2, n, x, v, q, y, g)
      BY <1>14, <3>1, <3>2, <3>3, ItemsFirst
    <3> QED
      BY <2>4, <3>4 DEF Begins
  <2>7. QueueIs' = p \o (<<q>> \o S)
    <3>1. QueueIs' = Without(Items(b2, n, c, k), z) \o Items(b2, n, c + (k + f), w - (k + f))
      BY <1>22, <2>1
    <3>2. QueueIs' = Without(s, z) \o Items(b2, n, x, v)
      BY <1>11, <1>13, <2>4, <2>5, <3>1
    <3> QED
      BY <1>15, <2>6, <3>2
  <2>8. QueueIs = Append(p, q) \o S
    BY <1>20, <1>21, <1>24
  <2> QED
    BY <1>17, <1>18, <1>19, <2>7, <2>8, AppendConcat
<1> QED
  BY <1>23, <1>24

(* The consumer index moves over what the sweep has freed.                  *)
LEMMA CleanEndQueue ==
  ASSUME IndInv, CleanEnd
  PROVE  QueueIs' = QueueIs
<1>1. Locked("sweep") /\ ~Locked("copy")
  BY DEF CleanEnd, Locked
<1>2. Quiet /\ ~Resizing
  BY <1>1, InvQuiet, NotResizing
<1>3. PICK c, n, w, f, z : c = cq.cons_index /\ n = cq.size /\ w = Ready
                           /\ f = cq.loop.nfreed /\ z = cq.loop.rsn
  OBVIOUS
<1>4. /\ c \in Index /\ n \in RingSizes /\ f \in Nat /\ cq \in CqType
      /\ w \in Nat /\ w <= n - 1 /\ Ring(buf, n, c, w, w) /\ n \in Nat /\ c \in Nat
      /\ w < IndexMod /\ IndexMod \in Nat /\ card.prod = Add(c, w)
  <2>1. c \in Index /\ IndexMod \in Nat \ {0}
    BY <1>3, Types, CqAssumption
  <2>2. c \in Nat
    BY <2>1 DEF Index
  <2> QED
    BY <1>2, <1>3, <2>1, <2>2, Types, Counted DEF Quiet
<1>5. Reached = 0 /\ f <= w
  <2>1. 0 \in 0 .. IndexMod - 1
    BY CqAssumption
  <2>2. Ahead(Add(c, 0), c) = 0 /\ Add(c, 0) = c
    BY <1>4, <2>1, AheadAddZero
  <2>3. Reached = 0
    BY <1>3, <2>2 DEF Reached, CleanEnd
  <2>4. Reached + f <= w
    BY <1>1, <1>2, <1>3 DEF Quiet
  <2> QED
    BY <1>4, <2>3, <2>4
<1>6. f \in 0 .. w /\ w \in 0 .. n /\ w \in 0 .. IndexMod - 1 /\ f \in 0 .. IndexMod
      /\ w - f \in Nat /\ 0 + f = f
  BY <1>4, <1>5
<1>7. PICK i \in Index : i = Add(c, f)
  BY <1>4, <1>6, AddIs
<1>8. /\ cq'.loop.pc = "free" /\ cq'.cons_index = i /\ cq'.size = n
      /\ UNCHANGED <<buf, resize_buf, card>>
  <2>1. cq' = [cq EXCEPT !.cons_index = i, !.loop = Idle] /\ Idle.pc = "free"
    BY <1>3, <1>7, IdleFacts DEF CleanEnd
  <2>2. cq'.loop = Idle /\ cq'.cons_index = i /\ cq'.size = cq.size
    BY <1>4, <2>1 DEF CqType
  <2> QED
    BY <1>3, <2>1, <2>2 DEF CleanEnd
<1>9. Ready' = w - f
  <2>1. Ahead(Add(c, w), Add(c, f)) = w - f
    BY <1>4, <1>6, AheadAdd
  <2> QED
    BY <1>4, <1>7, <1>8, <2>1 DEF Ready
<1>10. PICK u, y : u = w - f /\ y = c + f
  OBVIOUS
<1>11. Items(buf, n, i, u) = Items(buf, n, y, u)
  BY <1>4, <1>6, <1>7, <1>10, ItemsAt
<1>12. Items(buf, n, y, u) \in Seq(Cqe)
  <2>1. AreCqes(buf, n, c, w)
    BY <1>4, <1>6, RingCqes
  <2>2. u \in Nat /\ f + u <= w /\ y \in Nat
    BY <1>4, <1>6, <1>10
  <2>3. AreCqes(buf, n, y, u)
    BY <1>4, <1>6, <1>10, <2>1, <2>2, StretchCqes
  <2> QED
    BY <2>2, <2>3, ItemsType
<1>13. Without(Items(buf, n, c, 0), z) = <<>>
  <2>1. PICK s : s = Items(buf, n, c, 0)
    OBVIOUS
  <2>2. s = <<>>
    BY <2>1 DEF Items
  <2>3. s \in Seq(Cqe)
    BY ONLY <2>2
  <2> QED
    BY <2>1, <2>2, <2>3, WithoutFacts
<1>14. QueueIs = <<>> \o Items(buf, n, y, u)
  <2>1. QueueIs = Without(Items(buf, n, c, 0), z) \o Items(buf, n, c + (0 + f), w - (0 + f))
    BY <1>1, <1>3, <1>5 DEF QueueIs
  <2> QED
    BY <1>6, <1>10, <1>13, <2>1
<1>15. QueueIs = Items(buf, n, y, u)
  BY <1>12, <1>14, ConcatEmptySeq
<1>16. QueueIs' = Items(buf, n, i, u)
  BY <1>2, <1>8, <1>9, <1>10 DEF QueueIs, Locked, Resizing
<1> QED
  BY <1>11, <1>15, <1>16

(* The RESIZE_CQ entry is none of the queue.                                *)
LEMMA ResizeStartQueue ==
  ASSUME NEW m \in RingSizes, IndInv, ResizeStart(m)
  PROVE  QueueIs' = QueueIs
<1>1. ~Locked("copy") /\ ~Locked("sweep")
  BY DEF ResizeStart, Locked
<1>2. Quiet /\ ~Resizing
  BY <1>1, InvQuiet, NotResizing
<1>3. PICK c, n, w, b, b2 : c = cq.cons_index /\ n = cq.size /\ w = Ready /\ b = buf /\ b2 = buf'
  OBVIOUS
<1>4. /\ c \in Index /\ n \in RingSizes /\ cq \in CqType /\ n \in Nat /\ c \in Nat
      /\ w \in Nat /\ w <= n - 1 /\ Ring(b, n, c, w, w)
      /\ 2 * n <= IndexMod /\ IndexMod \in Nat /\ card.prod = Add(c, w)
      /\ b \in [0 .. n - 1 -> EntryType]
  <2>1. c \in Index /\ IndexMod \in Nat \ {0}
    BY <1>3, Types, CqAssumption
  <2>2. c \in Nat
    BY <2>1 DEF Index
  <2> QED
    BY <1>2, <1>3, <2>1, <2>2, Types, Counted DEF Quiet
<1>5. PICK v \in Nat : v = w + 1
  BY <1>4
<1>6. /\ w \in 0 .. n - 1 /\ w \in 0 .. IndexMod /\ w \in 0 .. n
      /\ w \in 0 .. IndexMod - 1 /\ v \in 0 .. IndexMod - 1 /\ v \in 0 .. IndexMod
      /\ 1 \in Nat /\ w + 1 <= IndexMod /\ v - (w + 1) = 0
  <2>1. n \in Nat \ {0, 1}
    BY <1>4, SizeFacts
  <2> QED
    BY <1>4, <1>5, <2>1
<1>7. card.prod % n = (c + w) % n
  BY <1>4, <1>6, SlotAt
<1>8. PICK e : e = Entry("resize", Parity(card.prod, n), Nothing)
  OBVIOUS
<1>9. b2 = [b EXCEPT ![(c + w) % n] = e]
  BY <1>3, <1>7, <1>8 DEF ResizeStart
<1>10. cq'.cons_index = c /\ cq'.size = n /\ ~Locked("sweep")'
  <2>1. PICK l : l = [Idle EXCEPT !.pc = "copy", !.prod_index = c]
    OBVIOUS
  <2>2. l.pc = "copy"
    BY <2>1, IdleFacts DEF LoopType
  <2>3. cq' = [cq EXCEPT !.loop = l]
    BY <1>3, <2>1 DEF ResizeStart
  <2>4. cq'.loop = l /\ cq'.cons_index = cq.cons_index /\ cq'.size = cq.size
    BY <1>4, <2>3 DEF CqType
  <2> QED
    BY <1>3, <2>2, <2>4 DEF Locked
<1>11. Resizing'
  <2>1. PICK r : r = [k \in 1 .. m |-> Invalid]
    OBVIOUS
  <2>2. r # <<>>
    BY <2>1, NewRingIs
  <2> QED
    BY <2>1, <2>2 DEF ResizeStart, Resizing
<1>12. Ready' = v /\ Old' = w
  <2>1. card'.prod = Add(c, v) /\ card'.resized = Add(c, w)
    <3>1. Add(card.prod, 1) = Add(c, v)
      BY <1>4, <1>5, <1>6, AddAdd
    <3> QED
      BY <1>4, <3>1 DEF ResizeStart
  <2>2. Ahead(Add(c, v), c) = v /\ Ahead(Add(c, w), c) = w
    BY <1>4, <1>6, AheadAddZero
  <2> QED
    BY <1>10, <1>11, <2>1, <2>2 DEF Ready, Old
<1>13. Items(b2, n, c, w) = Items(b, n, c, w)
  <2>1. PICK o \in Nat : o = 0
    OBVIOUS
  <2>2. Apart(n, w, o, w) /\ c = c + o
    BY <1>4, <2>1 DEF Apart
  <2>3. SameStretch(b2, b, n, c, w)
    BY <1>4, <1>6, <1>9, <2>2, ItemsWritten
  <2> QED
    BY <2>3 DEF SameStretch
<1>14. Items(b, n, c, w) \in Seq(Cqe)
  <2>1. AreCqes(b, n, c, w)
    BY <1>4, <1>6, RingCqes
  <2> QED
    BY <1>4, <2>1, ItemsType
<1>15. QueueIs = Items(b, n, c, w)
  BY <1>1, <1>2, <1>3 DEF QueueIs
<1>16. QueueIs' = Items(b2, n, c, w) \o <<>>
  <2>1. Items(NewBuf', NewSize', c + (w + 1), 0) = <<>>
    BY DEF Items
  <2>2. QueueIs' = Items(b2, n, c, w) \o Items(NewBuf', NewSize', c + (w + 1), v - (w + 1))
    BY <1>3, <1>10, <1>11, <1>12 DEF QueueIs
  <2> QED
    BY <1>6, <2>1, <2>2
<1> QED
  BY <1>13, <1>14, <1>15, <1>16, ConcatEmptySeq

(* What is copied lands before what the card has written.                   *)
LEMMA CopyQueue ==
  ASSUME IndInv, Copy
  PROVE  QueueIs' = QueueIs
<1>1. Locked("copy") /\ ~Locked("sweep")
  BY DEF Copy, Locked
<1>2. Busy /\ Resizing
  BY <1>1, InvBusy
<1>3. PICK c, n, m, r, o, w : c = cq.cons_index /\ n = cq.size /\ m = NewSize
                              /\ r = Reached /\ o = Old /\ w = Ready
  OBVIOUS
<1>4. /\ c \in Nat /\ m \in RingSizes
      /\ m \in Nat /\ cq \in CqType /\ cq.loop \in LoopType
      /\ r \in Nat /\ o \in Nat /\ w \in Nat /\ o + 1 <= w
      /\ w <= m
      /\ resize_buf \in Seq(EntryType) /\ resize_buf # <<>>
      /\ NewBuf \in [0 .. m - 1 -> EntryType]
  BY <1>1, <1>3, BusyFacts DEF BusyAt
<1>5. PICK e, f, x, i : /\ e = buf[(c + r) % n]
                        /\ f = Entry("done", Parity(c + 1 + r, m), e.cqe)
                        /\ x = (c + 1 + r) % m /\ i = Add(c, r + 1)
  OBVIOUS
<1>6. /\ r + 1 <= o /\ Done(e) /\ x \in 0 .. m - 1 /\ c + 1 + r \in Nat
      /\ resize_buf' = [resize_buf EXCEPT ![1 + x] = f]
      /\ cq' = [cq EXCEPT !.loop.prod_index = i, !.loop.pc = "copy"]
  <2>1. CopyAt(c, n, m, r, e)
    BY <1>3, <1>5, CopyIs
  <2> QED
    BY <1>3, <1>5, <2>1 DEF CopyAt
<1>7. f \in EntryType
  <2>1. e.cqe \in Cqe
    BY <1>6 DEF Done
  <2> QED
    BY <1>4, <1>5, <1>6, <2>1, DoneEntry
<1>8. /\ NewSize' = m /\ NewBuf' = [NewBuf EXCEPT ![x] = f] /\ resize_buf' # <<>>
  BY <1>3, <1>4, <1>6, <1>7, NewBufWritten
<1>9. /\ cq'.cons_index = c /\ cq'.size = n /\ cq'.loop.pc = "copy"
      /\ UNCHANGED <<buf, card>>
  <2>1. cq'.cons_index = cq.cons_index /\ cq'.size = cq.size /\ cq'.loop.pc = "copy"
    BY <1>4, <1>6 DEF CqType, LoopType
  <2> QED
    BY <1>3, <2>1 DEF Copy
<1>10. Ready' = w /\ Old' = o /\ Resizing' /\ ~Locked("sweep")'
  <2>1. Resizing'
    BY <1>8 DEF Resizing
  <2> QED
    BY <1>2, <1>3, <1>9, <2>1 DEF Ready, Old, Locked
<1>11. PICK j, d, l, y, b, b2 : j = r + 1 /\ d = o + 1 /\ l = w - (o + 1) /\ y = c + (o + 1)
                                /\ b = NewBuf /\ b2 = NewBuf'
  OBVIOUS
<1>12. /\ j \in 0 .. m - 1 /\ d \in Nat /\ l \in Nat /\ y = c + d /\ j < d /\ d + l <= m
       /\ c + j = c + 1 + r
  <2>1. c \in Nat /\ r \in Nat /\ o \in Nat /\ w \in Nat /\ m \in Nat /\ r + 1 <= o
        /\ o + 1 <= w /\ w <= m
    BY <1>4, <1>6
  <2> QED
    BY ONLY <1>11, <2>1
<1>13. Items(b2, m, y, l) = Items(b, m, y, l)
  <2>1. Apart(m, j, d, l)
    BY <1>12 DEF Apart
  <2>2. b2 = [b EXCEPT ![(c + j) % m] = f] /\ b \in [0 .. m - 1 -> EntryType]
    BY <1>4, <1>5, <1>8, <1>11, <1>12
  <2>3. SameStretch(b2, b, m, y, l)
    <3>1. m \in RingSizes /\ c \in Nat /\ j \in 0 .. m - 1 /\ d \in Nat /\ l \in Nat
          /\ y = c + d
      BY <1>4, <1>12
    <3> QED
      BY ONLY <2>1, <2>2, <3>1, ItemsWritten
  <2> QED
    BY <2>3 DEF SameStretch
<1>14. QueueIs = Items(buf, n, c, o) \o Items(b, m, y, l)
  BY <1>1, <1>2, <1>3, <1>11 DEF QueueIs
<1>15. QueueIs' = Items(buf, n, c, o) \o Items(b2, m, y, l)
  BY <1>8, <1>9, <1>10, <1>11 DEF QueueIs
<1> QED
  BY <1>13, <1>14, <1>15

(* All is copied: the new ring holds the queue.                             *)
LEMMA ResizeEndQueue ==
  ASSUME IndInv, ResizeEnd
  PROVE  QueueIs' = QueueIs
<1>1. Locked("copy") /\ ~Locked("sweep")
  BY DEF ResizeEnd, Locked
<1>2. Busy /\ Resizing
  BY <1>1, InvBusy
<1>3. PICK c, n, m, r, o, w : BusyAt(c, n, m, r, o, w)
  BY <1>1, BusyFacts
<1>4. /\ c = cq.cons_index /\ n = cq.size /\ m = NewSize /\ o = Old /\ w = Ready
      /\ c \in Index /\ c \in Nat /\ m \in RingSizes /\ n \in Nat /\ n \in RingSizes
      /\ m \in Nat /\ o \in Nat /\ w \in Nat /\ o + 1 <= w /\ o <= n - 1
      /\ w <= m /\ 2 * m <= IndexMod /\ IndexMod \in Nat /\ w < IndexMod
      /\ card.prod = Add(c, w) /\ Ring(buf, n, c, o + 1, o)
  BY <1>3 DEF BusyAt
<1>5. PICK v, b : v = w - 1 /\ b = NewBuf
  OBVIOUS
<1>6. Copying(b, m, c, o, o, v, buf, n)
  <2>1. r = o
    BY <1>3, CopyEnds DEF BusyAt
  <2> QED
    BY <1>3, <1>5, <2>1 DEF BusyAt
<1>7. /\ v \in Nat /\ o <= v /\ v <= m /\ v < m /\ w \in 0 .. IndexMod - 1
      /\ 1 \in 0 .. w /\ 1 \in 0 .. IndexMod /\ o \in 0 .. n
  BY <1>4, <1>5
<1>8. PICK i \in Index : i = Add(c, 1)
  BY <1>4, <1>7, AddIs
<1>9. /\ cq'.loop.pc = "free" /\ cq'.cons_index = i /\ cq'.size = m
      /\ buf' = b /\ resize_buf' = <<>>
  <2>1. /\ cq' = [cons_index |-> i, size |-> m, loop |-> Idle]
        /\ buf' = NewBuf /\ resize_buf' = <<>>
    BY <1>4, <1>8 DEF ResizeEnd, NewBuf, NewSize
  <2> QED
    BY <1>5, <2>1, IdleFacts
<1>10. card'.prod = Add(c, w)
  <2>1. card \in CardType /\ card' = [card EXCEPT !.resized = 0]
    BY Types DEF ResizeEnd
  <2>2. card'.prod = card.prod
    BY ONLY <2>1 DEF CardType
  <2> QED
    BY <1>4, <2>2
<1>11. Ready' = v
  <2>1. Ahead(Add(c, w), Add(c, 1)) = w - 1
    BY <1>4, <1>7, AheadAdd
  <2> QED
    BY <1>5, <1>8, <1>9, <1>10, <2>1 DEF Ready
<1>12. PICK x, y, l : x = c + 1 /\ y = c + (o + 1) /\ l = w - (o + 1)
  OBVIOUS
<1>13. x \in Nat /\ y \in Nat /\ l \in Nat /\ y = x + o /\ v = o + l
  <2>1. c \in Nat /\ o \in Nat /\ w \in Nat /\ o + 1 <= w
    BY <1>4
  <2> QED
    BY ONLY <1>5, <1>12, <2>1
<1>14. AreCqes(buf, n, c, o)
  BY <1>4, <1>7, RingCqes
(* What has been copied is what there was.                                  *)
<1>15. ASSUME NEW k \in 0 .. o - 1
       PROVE  b[(x + k) % m].cqe = buf[(c + k) % n].cqe
  <2>1. k \in 0 .. m - 1 /\ k < o
    <3>1. m \in Nat /\ o \in Nat /\ v \in Nat /\ o <= v /\ v < m
      BY <1>4, <1>7
    <3> QED
      BY ONLY <3>1, k \in 0 .. o - 1
  <2>2. b[(c + 1 + k) % m] = Entry("done", Parity(c + 1 + k, m), buf[(c + k) % n].cqe)
    BY <1>6, <2>1 DEF Copying
  <2> QED
    BY <1>12, <2>2 DEF Entry
<1>16. Items(b, m, x, o) = Items(buf, n, c, o)
  <2>1. SameItems(b, m, x, buf, n, c, o)
    BY <1>15 DEF SameItems
  <2> QED
    BY <1>4, <1>13, <2>1, ItemsSame
<1>17. AreCqes(b, m, x, v)
  <2>1. ASSUME NEW k \in 0 .. v - 1
        PROVE  b[(x + k) % m].cqe \in Cqe
    <3>1. CASE k < o
      <4>1. k \in 0 .. o - 1
        BY <1>4, <3>1
      <4> QED
        BY <1>14, <1>15, <4>1 DEF AreCqes
    <3>2. CASE ~ (k < o)
      <4>1. k \in 0 .. m - 1 /\ o <= k /\ k < v
        <5>1. m \in Nat /\ o \in Nat /\ v \in Nat /\ v < m
          BY <1>4, <1>7
        <5> QED
          BY ONLY <3>2, <5>1, k \in 0 .. v - 1
      <4>2. Done(b[(c + 1 + k) % m])
        BY <1>6, <3>2, <4>1 DEF Copying
      <4> QED
        BY <1>12, <4>2 DEF Done
    <3> QED
      BY <3>1, <3>2
  <2> QED
    BY <2>1 DEF AreCqes
<1>18. Items(b, m, x, v) = Items(b, m, x, o) \o Items(b, m, y, l)
  <2>1. Joined(b, m, x, o, y, l, v)
    BY <1>4, <1>13, <1>17, ItemsJoin
  <2> QED
    BY <2>1 DEF Joined
<1>19. Items(b, m, i, v) = Items(b, m, x, v)
  BY <1>4, <1>7, <1>8, <1>12, ItemsAt
<1>20. QueueIs = Items(buf, n, c, o) \o Items(b, m, y, l)
  BY <1>1, <1>2, <1>4, <1>5, <1>12 DEF QueueIs
<1>21. QueueIs' = Items(b, m, i, v)
  BY <1>9, <1>11 DEF QueueIs, Locked, Resizing
<1> QED
  BY <1>16, <1>18, <1>19, <1>20, <1>21

(* Whatever the card writes between the steps of a poll, of a sweep and of  *)
(* a resize, the completion queue is a queue.                               *)
THEOREM CqIsFifo == Spec => IsFifo
<1>1. ASSUME NEW s, NEW r
      PROVE  Fifo!Without(s, r) = Without(s, r)
  BY DEF Fifo!Without, Without
<1>2. IndInv /\ Init => Fifo!Init
  <2> SUFFICES ASSUME IndInv, Init PROVE Queue = <<>> /\ polled = Nothing
    BY DEF Fifo!Init
  <2>1. cq.loop.pc = "free" /\ card.prod = 0 /\ cq.cons_index = 0 /\ ~Resizing
    BY IdleFacts DEF Init, Resizing
  <2>2. Ready = 0
    <3>1. 0 \in Index /\ 0 \in 0 .. IndexMod - 1
      BY CqAssumption DEF Index
    <3>2. Ahead(Add(0, 0), 0) = 0 /\ Add(0, 0) = 0
      BY <3>1, AheadAddZero
    <3> QED
      BY <2>1, <3>2 DEF Ready
  <2>3. QueueIs = Items(buf, cq.size, cq.cons_index, 0)
    BY <2>1, <2>2 DEF QueueIs, Locked
  <2>4. QueueIs = <<>>
    BY <2>3 DEF Items
  <2> QED
    BY <2>4, QueueAs DEF Init
<1>3. IndInv /\ IndInv' /\ Queue = QueueIs /\ (Queue = QueueIs)' /\ [Next]_vars
        => [Fifo!Next]_(Fifo!vars)
  <2> SUFFICES ASSUME IndInv, IndInv', Queue = QueueIs, Queue' = QueueIs', [Next]_vars
               PROVE  Fifo!Next \/ (Queue' = Queue /\ polled' = polled)
    BY DEF Fifo!vars
  <2>1. CASE \E q \in Cqe : Put(q)
    <3>1. PICK q \in Cqe : Put(q)
      BY <2>1
    <3>2. QueueIs' = Append(QueueIs, q)
      BY <3>1, PutQueue, PutNewQueue
    <3>3. Fifo!Put(q)
      BY <3>1, <3>2 DEF Put, Fifo!Put
    <3> QED
      BY <3>3 DEF Fifo!Next
  <2>2. CASE PollOne
    BY <2>2, PollOneQueue DEF Fifo!Next, Fifo!Poll, Fifo!Take
  <2>3. CASE PollEmpty
    <3>1. QueueIs = <<>> /\ QueueIs' = <<>> /\ polled' = Nothing
      BY <2>3, PollEmptyQueue DEF PollEmpty
    <3> QED
      BY <3>1 DEF Fifo!Next, Fifo!PollEmpty
  <2>4. CASE \/ PollEnd
             \/ \E r \in Rsn : ResetQp(r) \/ ReviveQp(r) \/ CleanStart(r)
             \/ UNCHANGED vars
    BY <2>4, OtherQueue
  <2>5. CASE Scan
    <3>1. polled' = polled
      BY <2>5 DEF Scan
    <3>2. CASE QueueIs' = QueueIs
      BY <3>1, <3>2
    <3>3. CASE \E r \in Rsn : QueueIs' = Without(QueueIs, r)
      <4>1. PICK r \in Rsn : QueueIs' = Without(QueueIs, r)
        BY <3>3
      <4>2. Fifo!Remove(r)
        BY <1>1, <3>1, <4>1 DEF Fifo!Remove
      <4> QED
        BY <4>2 DEF Fifo!Next
    <3> QED
      BY <2>5, <3>2, <3>3, ScanQueue
  <2>6. CASE Sweep
    BY <2>6, SweepQueue DEF Sweep
  <2>7. CASE CleanEnd
    BY <2>7, CleanEndQueue DEF CleanEnd
  <2>8. CASE \E n \in RingSizes : ResizeStart(n)
    BY <2>8, ResizeStartQueue DEF ResizeStart
  <2>9. CASE Copy
    BY <2>9, CopyQueue DEF Copy
  <2>10. CASE ResizeEnd
    BY <2>10, ResizeEndQueue DEF ResizeEnd
  <2> QED
    BY <2>1, <2>2, <2>3, <2>4, <2>5, <2>6, <2>7, <2>8, <2>9, <2>10 DEF Next
<1> QED
  BY <1>2, <1>3, CqInvariant, QueueAs, PTL DEF Spec, IsFifo, Fifo!Spec

=============================================================================
