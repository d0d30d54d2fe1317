-------------------------- MODULE Mlx5QueueProofs --------------------------
(***************************************************************************)
(* The work queues of libmlx5 and their completions: for any number of QPs *)
(* on a CQ and queues of any size, a completion carries the wr_id of the   *)
(* request it is about, no WQE is overwritten before its slots are         *)
(* released, and the room the library counts is the room there is.         *)
(***************************************************************************)
EXTENDS Mlx5Queue, Lemmas

-----------------------------------------------------------------------------
(***************************************************************************)
(* Counters that wrap.                                                     *)
(***************************************************************************)

(* Quotient and remainder of a number that may be negative. *)
LEMMA IntDivMod ==
  ASSUME NEW m \in Int, NEW n \in Nat \ {0}
  PROVE  /\ m = n * (m \div n) + (m % n)
         /\ m % n \in 0 .. n - 1
         /\ m \div n \in Int
  OBVIOUS

(* They are the only ones. *)
LEMMA IntModUnique ==
  ASSUME NEW m \in Int, NEW n \in Nat \ {0}, NEW z \in Int, NEW r \in 0 .. n - 1,
         m = n * z + r
  PROVE  m % n = r
  OBVIOUS

(* A remainder, with something added. *)
LEMMA ModPlus ==
  ASSUME NEW a \in Int, NEW b \in Int, NEW n \in Nat \ {0}
  PROVE  ((a % n) + b) % n = (a + b) % n
<1>1. PICK x \in Int, r \in 0 .. n - 1 : x = a \div n /\ r = a % n /\ a = n * x + r
  <2>1. a = n * (a \div n) + (a % n) /\ a \div n \in Int /\ a % n \in 0 .. n - 1
    BY ONLY IntDivMod, a \in Int, n \in Nat \ {0}
  <2> QED
    BY ONLY <2>1
<1>2. r + b \in Int
  OBVIOUS
<1>3. PICK y \in Int, t \in 0 .. n - 1 :
        y = (r + b) \div n /\ t = (r + b) % n /\ r + b = n * y + t
  <2>1. /\ r + b = n * ((r + b) \div n) + ((r + b) % n)
        /\ (r + b) \div n \in Int /\ (r + b) % n \in 0 .. n - 1
    BY ONLY <1>2, IntDivMod, n \in Nat \ {0}
  <2> QED
    BY ONLY <2>1
<1>4. a + b = n * (x + y) + t /\ x + y \in Int /\ a + b \in Int
  <2>1. n * (x + y) = n * x + n * y /\ n * x \in Int /\ n * y \in Int
    OBVIOUS
  <2> QED
    BY <1>1, <1>3, <2>1
<1>5. (a + b) % n = t
  BY ONLY <1>4, IntModUnique, n \in Nat \ {0}, t \in 0 .. n - 1
<1> QED
  BY <1>1, <1>3, <1>5

(* A counter of a multiple of the ring's size indexes the ring as the       *)
(* number itself does.                                                      *)
LEMMA ModOfMod ==
  ASSUME NEW a \in Int, NEW m \in Nat \ {0}, NEW n \in Nat \ {0}, m % n = 0
  PROVE  (a % m) % n = a % n
<1>1. PICK x \in Int, r \in 0 .. m - 1 : r = a % m /\ a = m * x + r
  <2>1. a = m * (a \div m) + (a % m) /\ a \div m \in Int /\ a % m \in 0 .. m - 1
    BY ONLY IntDivMod, a \in Int, m \in Nat \ {0}
  <2> QED
    BY ONLY <2>1
<1>2. PICK y \in Int : m = n * y
  <2>1. m \in Int /\ n \in Nat \ {0}
    OBVIOUS
  <2>2. m = n * (m \div n) + (m % n) /\ m \div n \in Int
    BY ONLY <2>1, IntDivMod
  <2>3. m = n * (m \div n)
    BY <2>2
  <2> QED
    BY ONLY <2>2, <2>3
<1>3. PICK z \in Int, t \in 0 .. n - 1 : t = r % n /\ r = n * z + t
  <2>1. r \in Int /\ n \in Nat \ {0}
    OBVIOUS
  <2>2. r = n * (r \div n) + (r % n) /\ r \div n \in Int /\ r % n \in 0 .. n - 1
    BY ONLY <2>1, IntDivMod
  <2> QED
    BY ONLY <2>2
<1>4. a = n * (y * x + z) + t /\ y * x + z \in Int
  <2>1. m * x = n * (y * x) /\ y * x \in Int
    BY <1>2
  <2>2. PICK u \in Int : u = y * x
    BY <2>1
  <2>3. n * (u + z) = n * u + n * z /\ n * u \in Int /\ n * z \in Int /\ u + z \in Int
    BY ONLY n \in Nat \ {0}, u \in Int, z \in Int
  <2>4. m * x = n * u
    BY ONLY <2>1, <2>2, Zenon
  <2>5. a = n * (u + z) + t
    <3>1. PICK mx \in Int, nu \in Int, nz \in Int, nw \in Int :
            mx = m * x /\ nu = n * u /\ nz = n * z /\ nw = n * (u + z)
      BY <2>3
    <3>2. a = mx + r /\ r = nz + t /\ mx = nu /\ nw = nu + nz
      BY ONLY <1>1, <1>3, <2>3, <2>4, <3>1, Zenon
    <3>3. r \in Int /\ t \in Int
      OBVIOUS
    <3>4. a = nw + t
      BY ONLY <3>2, <3>3, mx \in Int, nu \in Int, nz \in Int, a \in Int
    <3> QED
      BY ONLY <3>1, <3>4, Zenon
  <2> QED
    BY ONLY <2>2, <2>3, <2>5
<1>5. a % n = t
  BY ONLY <1>4, IntModUnique, n \in Nat \ {0}, t \in 0 .. n - 1, a \in Int
<1> QED
  BY <1>1, <1>3, <1>5

(* Numbers less than a round apart have different remainders. *)
LEMMA ModApart ==
  ASSUME NEW a \in Int, NEW b \in Int, NEW n \in Nat \ {0},
         a % n = b % n, a <= b, b - a < n
  PROVE  a = b
<1>1. PICK x \in Int, r \in 0 .. n - 1 : r = a % n /\ a = n * x + r
  <2>1. a = n * (a \div n) + (a % n) /\ a \div n \in Int /\ a % n \in 0 .. n - 1
    BY ONLY IntDivMod, a \in Int, n \in Nat \ {0}
  <2> QED
    BY ONLY <2>1
<1>2. PICK y \in Int : b = n * y + r
  <2>1. b = n * (b \div n) + (b % n) /\ b \div n \in Int
    BY ONLY IntDivMod, b \in Int, n \in Nat \ {0}
  <2> QED
    BY <1>1, <2>1
<1>3. n * (y - x) = n * y - n * x /\ y - x \in Int /\ n * x \in Int /\ n * y \in Int
  OBVIOUS
<1>4. n * (y - x) >= 0 /\ n * (y - x) < n
  BY ONLY <1>1, <1>2, <1>3, a <= b, b - a < n, a \in Int, b \in Int
<1>5. PICK d \in Int : d = y - x
  BY <1>3
<1>6. d = 0
  <2>1. d >= 1 => n * d >= n
    OBVIOUS
  <2>2. d <= -1 => n * d <= -n
    OBVIOUS
  <2> QED
    BY ONLY <1>4, <1>5, <2>1, <2>2, n \in Nat \ {0}
<1>7. x = y
  BY <1>5, <1>6
<1> QED
  BY <1>1, <1>2, <1>7

(* Counter b is d ahead of counter a. *)
Ahead(b, a, n, d) == (b - a) % n = d

(* The difference of two counters less than a round apart. *)
LEMMA ModDifference ==
  ASSUME NEW a \in Int, NEW d \in Int, NEW b \in Int, NEW n \in Nat \ {0},
         b % n = (a + d) % n, d \in 0 .. n - 1
  PROVE  Ahead(b, a, n, d)
<1>1. ((b % n) + (-a)) % n = (b - a) % n
  <2>1. b + (-a) = b - a /\ -a \in Int
    OBVIOUS
  <2>2. ((b % n) + (-a)) % n = (b + (-a)) % n
    BY ONLY <2>1, ModPlus, b \in Int, n \in Nat \ {0}
  <2> QED
    BY ONLY <2>1, <2>2
<1>2. (((a + d) % n) + (-a)) % n = d % n
  <2>1. a + d + (-a) = d /\ -a \in Int /\ a + d \in Int
    OBVIOUS
  <2>2. (((a + d) % n) + (-a)) % n = (a + d + (-a)) % n
    BY ONLY <2>1, ModPlus, n \in Nat \ {0}
  <2> QED
    BY ONLY <2>1, <2>2
<1>3. d % n = d
  <2>1. d = n * 0 + d
    OBVIOUS
  <2> QED
    BY ONLY <2>1, IntModUnique, d \in 0 .. n - 1, n \in Nat \ {0}, d \in Int, 0 \in Int
<1> QED
  BY ONLY <1>1, <1>2, <1>3, b % n = (a + d) % n DEF Ahead

(* The constants. *)
LEMMA Constants ==
  /\ SqBlocks \in Nat \ {0} /\ SqMaxPost \in Nat \ {0} /\ RqCnt \in Nat \ {0}
  /\ ListMax \in Nat \ {0} /\ CtrMod \in Nat \ {0} /\ NumMod \in Nat \ {0}
  /\ \A z \in WqeBlocks : z \in Nat \ {0} /\ z * SqMaxPost <= SqBlocks
  /\ CtrMod % SqBlocks = 0 /\ CtrMod > SqBlocks
  /\ NumMod % RqCnt = 0 /\ NumMod > RqCnt /\ NumMod > SqMaxPost
<1>1. {SqBlocks, SqMaxPost, RqCnt, ListMax, CtrMod, NumMod} \subseteq Nat \ {0}
  BY QueueAssumption
<1>2. \A z \in WqeBlocks : z \in Nat \ {0} /\ SqMaxPost * z <= SqBlocks
  BY QueueAssumption
<1>3. \A z \in Nat : SqMaxPost * z = z * SqMaxPost
  BY <1>1
<1> QED
  BY <1>1, <1>2, <1>3, QueueAssumption

-----------------------------------------------------------------------------
(***************************************************************************)
(* A send queue.  S is the sequence of its requests whose slots are not    *)
(* released, u its indices and its ring.                                   *)
(***************************************************************************)

Request == [id : Nums, size : WqeBlocks, signaled : BOOLEAN]

(* d blocks are no more than the share of w requests in the ring.           *)
Share(d, w) == d * SqMaxPost <= w * SqBlocks

(* Where each request begins, and the next one will, if blocks are counted  *)
(* without wrapping; the requests take no more than their share of the ring.*)
Places(at, S) ==
  /\ at \in [1 .. Len(S) + 1 -> Nat]
  /\ \A k \in 1 .. Len(S) : at[k + 1] = at[k] + S[k].size
  /\ \A j, k \in 1 .. Len(S) + 1 :
       j < k => /\ at[j] < at[k]
                /\ Share(at[k] - at[j], k - j)

(* The requests are numbered from tail on. *)
Numbered(S, tail) == \A k \in 1 .. Len(S) : S[k].id = Num(tail, k - 1)

(* The ring has a request where it begins: wr_id, wqe_head and its blocks. *)
InRing(u, r, a) ==
  /\ u.wrid[a % SqBlocks] = r.id
  /\ u.wqe_head[a % SqBlocks] = r.id
  /\ \A part \in 0 .. r.size - 1 :
       u.ring[(a + part) % SqBlocks] = [id |-> r.id, part |-> part]

(* It has them all. *)
RingHas(u, S, at) == \A k \in 1 .. Len(S) : InRing(u, S[k], at[k])

(* A CQE about request i. *)
About(e, S, at, i) == e.of = S[i].id /\ e.wqe_counter = at[i] % CtrMod

IsReq(q, e) == e.rsn = q /\ e.op = "req"
IsResp(q, e) == e.rsn = q /\ e.op = "resp"

(* The CQEs of sends of QP q are about requests before c, each about a      *)
(* later one than the CQE before it: the k-th CQE is about request g[k].    *)
Reported(q, f, S, at, c, g) ==
  /\ g \in [1 .. Len(f) -> Nat]
  /\ \A k \in 1 .. Len(f) :
       IsReq(q, f[k]) => g[k] \in 1 .. c - 1 /\ About(f[k], S, at, g[k])
  /\ \A k, l \in 1 .. Len(f) :
       k < l /\ IsReq(q, f[k]) /\ IsReq(q, f[l]) => g[k] < g[l]

(* A request more. *)
LEMMA ShareMore ==
  ASSUME NEW d \in Nat, NEW w \in Nat, Share(d, w),
         NEW z \in Nat, Share(z, 1),
         NEW e, e = d + z, NEW v, v = w + 1
  PROVE  Share(e, v)
<1>1. SqMaxPost \in Nat /\ SqBlocks \in Nat
  BY Constants
<1>2. e * SqMaxPost = d * SqMaxPost + z * SqMaxPost /\ v * SqBlocks = w * SqBlocks + SqBlocks
  BY <1>1
<1>3. PICK dm \in Nat, zm \in Nat, wb \in Nat :
        dm = d * SqMaxPost /\ zm = z * SqMaxPost /\ wb = w * SqBlocks
  BY <1>1
<1>4. dm <= wb /\ zm <= SqBlocks
  BY <1>1, <1>3 DEF Share
<1>5. e * SqMaxPost = dm + zm /\ v * SqBlocks = wb + SqBlocks
  BY ONLY <1>2, <1>3, Zenon
<1>6. PICK p, t : p = e * SqMaxPost /\ t = v * SqBlocks
  OBVIOUS
<1>7. p <= t
  BY ONLY <1>1, <1>3, <1>4, <1>5, <1>6, p = e * SqMaxPost, t = v * SqBlocks
<1> QED
  BY ONLY <1>6, <1>7 DEF Share

(* No two open requests have the same number. *)
LEMMA IdsDiffer ==
  ASSUME NEW S, Len(S) \in Nat, Len(S) <= NumMod, NEW tail \in Nat, Numbered(S, tail),
         NEW i \in 1 .. Len(S), NEW j \in 1 .. Len(S), S[i].id = S[j].id
  PROVE  i = j
<1>1. (tail + (i - 1)) % NumMod = (tail + (j - 1)) % NumMod
  BY DEF Numbered, Num
<1>2. PICK n \in Nat : n = Len(S)
  OBVIOUS
<1>3. i \in Int /\ j \in Int /\ i >= 1 /\ j >= 1 /\ i <= n /\ j <= n /\ n <= NumMod
      /\ NumMod \in Nat \ {0}
  BY <1>2, Constants
<1>4. CASE i <= j
  <2>1. /\ tail + (i - 1) \in Int /\ tail + (j - 1) \in Int
        /\ tail + (i - 1) <= tail + (j - 1)
        /\ (tail + (j - 1)) - (tail + (i - 1)) < NumMod
    BY <1>2, <1>3, <1>4
  <2>2. tail + (i - 1) = tail + (j - 1)
    BY ONLY <1>1, <1>3, <2>1, ModApart
  <2> QED
    BY <1>3, <2>2
<1>5. CASE j <= i
  <2>1. /\ tail + (i - 1) \in Int /\ tail + (j - 1) \in Int
        /\ tail + (j - 1) <= tail + (i - 1)
        /\ (tail + (i - 1)) - (tail + (j - 1)) < NumMod
    BY <1>2, <1>3, <1>5
  <2>2. tail + (j - 1) = tail + (i - 1)
    BY ONLY <1>1, <1>3, <2>1, ModApart
  <2> QED
    BY <1>3, <2>2
<1> QED
  BY <1>3, <1>4, <1>5

(* The first request with a number. *)
IndexOf(S, id) == SelectInSeq(S, LAMBDA wr : wr.id = id)

(* It is the only one. *)
LEMMA FoundAt ==
  ASSUME NEW S, Len(S) \in Nat, Len(S) <= NumMod, NEW tail \in Nat, Numbered(S, tail),
         NEW i \in 1 .. Len(S), NEW id, id = S[i].id
  PROVE  IndexOf(S, id) = i
<1>1. {j \in 1 .. Len(S) : S[j].id = id} = {i}
  BY IdsDiffer
<1>2. Min({i}) = i
  BY DEF Min
<1> QED
  BY <1>1, <1>2 DEF IndexOf, SelectInSeq

(* The requests fit into the ring, with room for what they have not taken.  *)
LEMMA PlacesFit ==
  ASSUME NEW S, Len(S) \in Nat, Len(S) <= SqMaxPost, NEW at, Places(at, S),
         NEW j \in 1 .. Len(S) + 1, NEW k \in 1 .. Len(S) + 1, j <= k
  PROVE  /\ at[j] \in Nat /\ at[k] \in Nat /\ at[j] <= at[k]
         /\ at[k] - at[j] <= SqBlocks
         /\ j < k => at[j] < at[k]
<1>1. at[j] \in Nat /\ at[k] \in Nat
  BY DEF Places
<1>2. CASE j = k
  BY <1>1, <1>2, Constants
<1>3. CASE j < k
  <2>1. at[j] < at[k] /\ (at[k] - at[j]) * SqMaxPost <= (k - j) * SqBlocks
    BY <1>3 DEF Places, Share
  <2>2. PICK d \in Nat, m \in Nat, b \in Nat, w \in Nat :
          d = at[k] - at[j] /\ m = SqMaxPost /\ b = SqBlocks /\ w = k - j
    BY <1>1, <1>3, <2>1, Constants
  <2>3. d * m <= w * b /\ w <= m /\ m > 0
    BY <2>1, <2>2, Constants
  <2>4. w * b <= m * b
    <3>1. PICK y \in Nat : m = w + y
      <4>1. m = w + (m - w) /\ m - w \in Nat
        BY <2>3
      <4> QED
        BY <4>1
    <3>2. m * b = w * b + y * b /\ y * b \in Nat /\ w * b \in Nat
      BY <3>1
    <3> QED
      BY ONLY <3>2
  <2>5. d <= b
    <3> SUFFICES ASSUME ~ (d <= b) PROVE FALSE
      OBVIOUS
    <3>1. PICK y \in Nat : d = b + 1 + y
      <4>1. d = b + 1 + (d - b - 1) /\ d - b - 1 \in Nat
        OBVIOUS
      <4> QED
        BY <4>1
    <3>2. d * m = b * m + m + y * m /\ y * m \in Nat /\ b * m \in Nat /\ b * m = m * b
          /\ d * m \in Nat /\ w * b \in Nat
      BY <3>1
    <3> QED
      BY ONLY <2>3, <2>4, <3>2, m \in Nat
  <2> QED
    BY <1>1, <2>1, <2>2, <2>5
<1> QED
  BY <1>2, <1>3

(* How far a block is ahead of the next free one, as PostSendOne computes it. *)
LEMMA BlockAhead ==
  ASSUME NEW a \in Int, NEW m \in Int, NEW d \in 0 .. SqBlocks - 1,
         NEW z \in Int, a - m = SqBlocks * z + d
  PROVE  ((a % SqBlocks) - (m % CtrMod)) % SqBlocks = d
<1>1. SqBlocks \in Nat \ {0} /\ CtrMod \in Nat \ {0} /\ CtrMod % SqBlocks = 0
  BY Constants
<1>2. PICK x \in Int, s \in Int : s = m % CtrMod /\ m = CtrMod * x + s
  <2>1. /\ m = CtrMod * (m \div CtrMod) + (m % CtrMod) /\ m \div CtrMod \in Int
        /\ m % CtrMod \in 0 .. CtrMod - 1
    BY ONLY <1>1, IntDivMod, m \in Int
  <2> QED
    BY ONLY <1>1, <2>1
<1>3. PICK y \in Int : CtrMod = SqBlocks * y
  <2>1. CtrMod \in Int
    BY <1>1
  <2>2. /\ CtrMod = SqBlocks * (CtrMod \div SqBlocks) + (CtrMod % SqBlocks)
        /\ CtrMod \div SqBlocks \in Int
    BY ONLY <1>1, <2>1, IntDivMod
  <2> QED
    BY ONLY <1>1, <2>2
<1>4. PICK v \in Int, t \in 0 .. SqBlocks - 1 :
        t = a % SqBlocks /\ a = SqBlocks * v + t
  <2>1. /\ a = SqBlocks * (a \div SqBlocks) + (a % SqBlocks) /\ a \div SqBlocks \in Int
        /\ a % SqBlocks \in 0 .. SqBlocks - 1
    BY ONLY <1>1, IntDivMod, a \in Int
  <2> QED
    BY ONLY <2>1
<1>5. PICK w \in Int : w = y * x
  OBVIOUS
<1>6. CtrMod * x = SqBlocks * w
  BY ONLY <1>3, <1>5, <1>1, x \in Int, y \in Int
<1>7. PICK g \in Int : g = z + w - v
  OBVIOUS
<1>8. SqBlocks * g = SqBlocks * z + SqBlocks * w - SqBlocks * v
  BY <1>1, <1>7
<1>9. t - s = SqBlocks * g + d
  <2>1. PICK bz \in Int, bw \in Int, bv \in Int, bg \in Int, cx \in Int :
          /\ bz = SqBlocks * z /\ bw = SqBlocks * w /\ bv = SqBlocks * v
          /\ bg = SqBlocks * g /\ cx = CtrMod * x
    BY <1>1
  <2>2. /\ a - m = bz + d /\ m = cx + s /\ a = bv + t /\ cx = bw
        /\ bg = bz + bw - bv
    BY ONLY <1>2, <1>4, <1>6, <1>8, <2>1, a - m = SqBlocks * z + d, Zenon
  <2>3. t \in Int /\ d \in Int
    BY <1>1
  <2>4. t - s = bg + d
    BY ONLY <2>2, <2>3, bz \in Int, bw \in Int, bv \in Int, s \in Int, a \in Int, m \in Int
  <2> QED
    BY ONLY <2>1, <2>4, Zenon
<1>10. (t - s) % SqBlocks = d
  <2>1. t - s \in Int
    BY <1>1
  <2> QED
    BY ONLY <1>1, <1>9, <2>1, IntModUnique, g \in Int, d \in 0 .. SqBlocks - 1
<1> QED
  BY <1>2, <1>4, <1>10

(* The places with one request more. *)
MorePlaces(at, S, size) ==
  [k \in 1 .. Len(S) + 2 |-> IF k <= Len(S) + 1 THEN at[k] ELSE at[Len(S) + 1] + size]

(* They are those of the longer sequence. *)
LEMMA PlacesAppended ==
  ASSUME NEW S \in Seq(Request), NEW at, Places(at, S), NEW r \in Request,
         NEW T, T = Append(S, r), NEW bt, bt = MorePlaces(at, S, r.size)
  PROVE  Places(bt, T)
<1>1. PICK n \in Nat : n = Len(S)
  OBVIOUS
<1>2. /\ Len(T) = n + 1 /\ T[n + 1] = r /\ \A k \in 1 .. n : T[k] = S[k]
  BY <1>1
<1>3. r.size \in Nat \ {0} /\ r.size * SqMaxPost <= SqBlocks
      /\ SqMaxPost \in Nat /\ SqBlocks \in Nat
  BY Constants DEF Request
<1>4. /\ at \in [1 .. n + 1 -> Nat]
      /\ \A k \in 1 .. n : at[k + 1] = at[k] + S[k].size
      /\ \A j, k \in 1 .. n + 1 :
           j < k => /\ at[j] < at[k]
                    /\ Share(at[k] - at[j], k - j)
  BY <1>1 DEF Places
<1>5. bt = [k \in 1 .. n + 2 |-> IF k <= n + 1 THEN at[k] ELSE at[n + 1] + r.size]
  BY <1>1 DEF MorePlaces
<1>6. /\ \A k \in 1 .. n + 1 : bt[k] = at[k] /\ at[k] \in Nat
      /\ bt[n + 2] = at[n + 1] + r.size
      /\ bt \in [1 .. n + 2 -> Nat]
  <2> QED
    BY ONLY <1>3, <1>4, <1>5, n \in Nat
<1>7. ASSUME NEW k \in 1 .. n + 1 PROVE bt[k + 1] = bt[k] + T[k].size
  <2>1. CASE k = n + 1
    BY <1>2, <1>6, <2>1
  <2>2. CASE k # n + 1
    <3>1. k \in 1 .. n /\ k + 1 \in 1 .. n + 1
      BY <2>2
    <3> QED
      BY <1>2, <1>4, <1>6, <3>1
  <2> QED
    BY <2>1, <2>2
<1>8. ASSUME NEW j \in 1 .. n + 2, NEW k \in 1 .. n + 2, j < k
      PROVE  /\ bt[j] < bt[k]
             /\ Share(bt[k] - bt[j], k - j)
  <2>0. j \in 1 .. n + 1
    BY <1>8
  <2>1. CASE k # n + 2
    <3>1. k \in 1 .. n + 1
      BY <2>1
    <3> QED
      BY <1>4, <1>6, <1>8, <2>0, <3>1
  <2>2. CASE k = n + 2
    <3>0. n + 1 \in 1 .. n + 1
      BY <1>1
    <3>1. PICK x \in Nat, y \in Nat : x = at[j] /\ y = at[n + 1]
      BY <1>6, <2>0, <3>0
    <3>2. x <= y /\ Share(y - x, n + 1 - j)
      <4>1. CASE j = n + 1
        <5>1. y - x = 0 /\ n + 1 - j = 0 /\ x <= y
          BY <3>1, <4>1
        <5>2. Share(0, 0)
          BY <1>3 DEF Share
        <5> QED
          BY ONLY <5>1, <5>2, Zenon
      <4>2. CASE j # n + 1
        <5>1. j < n + 1
          BY <2>0, <4>2
        <5>2. at[j] < at[n + 1] /\ Share(at[n + 1] - at[j], n + 1 - j)
          BY ONLY <1>4, <2>0, <3>0, <5>1
        <5>3. x < y /\ Share(y - x, n + 1 - j)
          BY ONLY <3>1, <5>2, Zenon
        <5> QED
          BY <5>3
      <4> QED
        BY <4>1, <4>2
    <3>3. bt[j] = x /\ bt[k] = y + r.size
      BY <1>6, <2>0, <2>2, <3>1
    <3>4. PICK z \in Nat : z = r.size /\ z > 0 /\ Share(z, 1)
      BY <1>3 DEF Share
    <3>5. Share(bt[k] - bt[j], k - j)
      <4>1. /\ y - x \in Nat /\ n + 1 - j \in Nat /\ z \in Nat
            /\ bt[k] - bt[j] = (y - x) + z /\ k - j = (n + 1 - j) + 1
        BY <2>0, <2>2, <3>2, <3>3, <3>4
      <4> QED
        BY ONLY <3>2, <3>4, <4>1, ShareMore
    <3>6. bt[j] < bt[k]
      BY <3>2, <3>3, <3>4
    <3> QED
      BY <3>5, <3>6
  <2> QED
    BY <2>1, <2>2
<1>9. n + 1 + 1 = n + 2 /\ n \in Nat
  OBVIOUS
<1> QED
  BY ONLY <1>2, <1>6, <1>7, <1>8, <1>9 DEF Places

(* The number of the next request. *)
LEMMA NumberedAppended ==
  ASSUME NEW X, NEW S \in Seq(X), NEW tail, Numbered(S, tail), NEW r,
         r.id = Num(tail, Len(S)), NEW T, T = Append(S, r)
  PROVE  Numbered(T, tail)
<1>1. PICK n \in Nat : n = Len(S)
  OBVIOUS
<1>2. Len(T) = n + 1 /\ T[n + 1] = r /\ \A k \in 1 .. n : T[k] = S[k]
  BY <1>1
<1>3. ASSUME NEW k \in 1 .. n + 1 PROVE T[k].id = Num(tail, k - 1)
  <2>1. CASE k = n + 1
    BY <1>1, <1>2, <2>1
  <2>2. CASE k # n + 1
    BY <1>1, <1>2, <2>2 DEF Numbered
  <2> QED
    BY <2>1, <2>2
<1> QED
  BY <1>2, <1>3 DEF Numbered

(* The blocks, wrid and wqe_head of a queue are functions on the blocks.    *)
RingType(u) ==
  /\ u.wrid \in [Blocks -> Nums] /\ u.wqe_head \in [Blocks -> Nums]
  /\ u.ring \in [Blocks -> [id : Nums, part : Nat]]

(* What mlx5_post_send does to them at place p for request r. *)
Written(w, u, r, p) ==
  /\ w.wrid = [u.wrid EXCEPT ![p % SqBlocks] = r.id]
  /\ w.wqe_head = [u.wqe_head EXCEPT ![p % SqBlocks] = r.id]
  /\ w.ring = [k \in Blocks |->
                 LET part == (k - p) % SqBlocks
                 IN  IF part < r.size THEN [id |-> r.id, part |-> part] ELSE u.ring[k]]

(* A block of the ring. *)
LEMMA BlockIs ==
  ASSUME NEW a \in Int
  PROVE  a % SqBlocks \in Blocks
<1>1. a % SqBlocks \in 0 .. SqBlocks - 1
  BY Constants, IntDivMod
<1> QED
  BY <1>1 DEF Blocks

(* The new request is in the ring. *)
LEMMA NewInRing ==
  ASSUME NEW u, RingType(u), NEW r \in Request, NEW m \in Nat, NEW p, p = m % CtrMod,
         NEW w, Written(w, u, r, p)
  PROVE  InRing(w, r, m)
<1>1. /\ SqBlocks \in Nat \ {0} /\ CtrMod \in Nat \ {0} /\ CtrMod % SqBlocks = 0
      /\ r.size \in Nat \ {0} /\ r.size <= SqBlocks
  <2>1. /\ SqBlocks \in Nat \ {0} /\ CtrMod \in Nat \ {0} /\ CtrMod % SqBlocks = 0
        /\ SqMaxPost \in Nat \ {0}
        /\ r.size \in Nat \ {0} /\ r.size * SqMaxPost <= SqBlocks
    BY Constants DEF Request
  <2>2. r.size * SqMaxPost >= r.size
    <3>1. PICK y \in Nat : SqMaxPost = 1 + y
      <4>1. SqMaxPost = 1 + (SqMaxPost - 1) /\ SqMaxPost - 1 \in Nat
        BY <2>1
      <4> QED
        BY <4>1
    <3>2. PICK x \in Nat : x = r.size
      BY <2>1
    <3>3. x * (1 + y) = x + x * y /\ x * y \in Nat
      OBVIOUS
    <3>4. r.size * SqMaxPost = x * (1 + y)
      BY ONLY <3>1, <3>2, Zenon
    <3> QED
      BY ONLY <3>2, <3>3, <3>4
  <2>3. PICK x \in Nat, z \in Int : x = r.size /\ z = r.size * SqMaxPost
    BY <2>1
  <2>4. z >= x /\ z <= SqBlocks /\ z \in Nat
    BY <2>1, <2>2, <2>3
  <2> QED
    BY <2>1, <2>3, <2>4
<1>2. p % SqBlocks = m % SqBlocks
  <2>1. m \in Int
    OBVIOUS
  <2>2. (m % CtrMod) % SqBlocks = m % SqBlocks
    BY ONLY <1>1, <2>1, ModOfMod
  <2> QED
    BY ONLY <2>2, p = m % CtrMod, Zenon
<1>3. m % SqBlocks \in Blocks
  BY BlockIs
<1>4. w.wrid[m % SqBlocks] = r.id /\ w.wqe_head[m % SqBlocks] = r.id
  BY <1>2, <1>3 DEF Written, RingType
<1>5. ASSUME NEW part \in 0 .. r.size - 1
      PROVE  w.ring[(m + part) % SqBlocks] = [id |-> r.id, part |-> part]
  <2>1. /\ m + part \in Int /\ m \in Int /\ part \in 0 .. SqBlocks - 1
        /\ m + part - m = SqBlocks * 0 + part /\ part < r.size
    BY <1>1
  <2>2. (((m + part) % SqBlocks) - (m % CtrMod)) % SqBlocks = part
    BY ONLY <2>1, BlockAhead, 0 \in Int
  <2>3. PICK k \in Blocks : k = (m + part) % SqBlocks
    BY <2>1, BlockIs
  <2>4. (k - p) % SqBlocks = part
    BY ONLY <2>2, <2>3, p = m % CtrMod, Zenon
  <2>5. w.ring[k] = IF (k - p) % SqBlocks < r.size
                      THEN [id |-> r.id, part |-> (k - p) % SqBlocks] ELSE u.ring[k]
    BY <2>3 DEF Written
  <2> QED
    BY ONLY <2>1, <2>3, <2>4, <2>5
<1> QED
  BY <1>4, <1>5 DEF InRing

(* The requests before it stay: they and it take no more than the ring.     *)
LEMMA OldInRing ==
  ASSUME NEW u, RingType(u), NEW r \in Request, NEW m \in Nat, NEW p, p = m % CtrMod,
         NEW w, Written(w, u, r, p),
         NEW o \in Request, NEW a \in Nat, InRing(u, o, a),
         a + o.size <= m, m + r.size - a <= SqBlocks
  PROVE  InRing(w, o, a)
<1>1. /\ SqBlocks \in Nat \ {0} /\ CtrMod \in Nat \ {0} /\ CtrMod % SqBlocks = 0
      /\ r.size \in Nat \ {0} /\ o.size \in Nat \ {0}
  BY Constants DEF Request
<1>2. p % SqBlocks = m % SqBlocks
  <2>1. m \in Int
    OBVIOUS
  <2>2. (m % CtrMod) % SqBlocks = m % SqBlocks
    BY ONLY <1>1, <2>1, ModOfMod
  <2> QED
    BY ONLY <2>2, p = m % CtrMod, Zenon
<1>3. a % SqBlocks # m % SqBlocks
  <2> SUFFICES ASSUME a % SqBlocks = m % SqBlocks PROVE FALSE
    OBVIOUS
  <2>1. a \in Int /\ m \in Int /\ a <= m /\ m - a < SqBlocks /\ a # m
    BY <1>1
  <2> QED
    BY ONLY <1>1, <2>1, ModApart, a % SqBlocks = m % SqBlocks
<1>4. /\ w.wrid[a % SqBlocks] = u.wrid[a % SqBlocks]
      /\ w.wqe_head[a % SqBlocks] = u.wqe_head[a % SqBlocks]
  <2>1. a % SqBlocks \in Blocks
    BY BlockIs
  <2> QED
    BY <1>2, <1>3, <2>1 DEF Written, RingType
<1>5. ASSUME NEW part \in 0 .. o.size - 1
      PROVE  w.ring[(a + part) % SqBlocks] = u.ring[(a + part) % SqBlocks]
  <2>1. PICK d \in Int : d = a + part - m + SqBlocks
    BY <1>1
  <2>2. /\ a + part \in Int /\ m \in Int /\ d \in 0 .. SqBlocks - 1
        /\ a + part - m = SqBlocks * (-1) + d /\ ~ (d < r.size) /\ -1 \in Int
    BY <1>1, <2>1
  <2>3. (((a + part) % SqBlocks) - (m % CtrMod)) % SqBlocks = d
    BY ONLY <2>2, BlockAhead
  <2>4. PICK k \in Blocks : k = (a + part) % SqBlocks
    BY <2>2, BlockIs
  <2>5. (k - p) % SqBlocks = d
    BY ONLY <2>3, <2>4, p = m % CtrMod, Zenon
  <2>6. w.ring[k] = IF (k - p) % SqBlocks < r.size
                      THEN [id |-> r.id, part |-> (k - p) % SqBlocks] ELSE u.ring[k]
    BY <2>4 DEF Written
  <2> QED
    BY ONLY <2>2, <2>4, <2>5, <2>6
<1> QED
  BY <1>4, <1>5 DEF InRing

(* A request posted is added to those in the ring. *)
LEMMA RingAppended ==
  ASSUME NEW S \in Seq(Request), NEW at, Places(at, S), NEW r \in Request,
         NEW T, T = Append(S, r), NEW bt, bt = MorePlaces(at, S, r.size),
         Len(T) <= SqMaxPost,
         NEW u, RingType(u), RingHas(u, S, at),
         NEW p, p = at[Len(S) + 1] % CtrMod, NEW w, Written(w, u, r, p)
  PROVE  RingHas(w, T, bt)
<1>1. PICK n \in Nat : n = Len(S)
  OBVIOUS
<1>2. /\ Len(T) = n + 1 /\ T[n + 1] = r /\ \A k \in 1 .. n : T[k] = S[k]
      /\ \A k \in 1 .. n : S[k] \in Request
  BY <1>1
<1>3. /\ \A k \in 1 .. n + 1 : bt[k] = at[k] /\ at[k] \in Nat
      /\ bt[n + 2] = at[n + 1] + r.size
      /\ \A k \in 1 .. n : at[k + 1] = at[k] + S[k].size
  <2>1. bt = [k \in 1 .. n + 2 |-> IF k <= n + 1 THEN at[k] ELSE at[n + 1] + r.size]
    BY <1>1 DEF MorePlaces
  <2>2. /\ at \in [1 .. n + 1 -> Nat]
        /\ \A k \in 1 .. n : at[k + 1] = at[k] + S[k].size
    BY <1>1 DEF Places
  <2> QED
    BY ONLY <2>1, <2>2, n \in Nat
<1>4. PICK m \in Nat : m = at[n + 1]
  <2>1. n + 1 \in 1 .. n + 1
    BY <1>1
  <2> QED
    BY <1>3, <2>1
<1>5. InRing(w, r, m)
  BY <1>1, <1>4, NewInRing
<1>6. ASSUME NEW k \in 1 .. n PROVE InRing(w, T[k], bt[k])
  <2>1. k \in 1 .. n + 1 /\ k + 1 \in 1 .. n + 1 /\ k + 1 <= n + 1 /\ n + 1 \in 1 .. n + 1
        /\ k \in 1 .. n + 2 /\ n + 2 \in 1 .. n + 2 /\ k <= n + 2
    BY <1>1
  <2>2. PICK o \in Request, a \in Nat : o = S[k] /\ a = at[k]
    BY <1>2, <1>3, <2>1
  <2>3. InRing(u, o, a)
    BY <1>1, <2>2 DEF RingHas
  <2>4. a + o.size <= m
    <3>1. at[k + 1] = a + o.size /\ at[k + 1] \in Nat
      BY <1>3, <2>1, <2>2
    <3>2. at[k + 1] <= at[n + 1]
      <4>1. k + 1 = n + 1 \/ k + 1 < n + 1
        BY <2>1
      <4>2. k + 1 < n + 1 => at[k + 1] < at[n + 1]
        BY <1>1, <2>1 DEF Places
      <4> QED
        BY <1>3, <2>1, <4>1, <4>2
    <3> QED
      BY <1>4, <3>1, <3>2
  <2>5. m + r.size - a <= SqBlocks
    <3>1. Places(bt, T)
      BY PlacesAppended
    <3>2. Len(T) \in Nat /\ k \in 1 .. Len(T) + 1 /\ n + 2 \in 1 .. Len(T) + 1
      BY <1>2, <2>1
    <3>3. bt[n + 2] - bt[k] <= SqBlocks
      BY <2>1, <3>1, <3>2, PlacesFit
    <3>4. bt[n + 2] = m + r.size /\ bt[k] = a
      BY <1>3, <1>4, <2>1, <2>2
    <3>5. PICK z \in Nat : z = r.size
      BY Constants DEF Request
    <3>6. (m + z) - a <= SqBlocks
      BY ONLY <3>3, <3>4, <3>5
    <3> QED
      BY ONLY <3>5, <3>6, m \in Nat, a \in Nat
  <2>6. InRing(w, o, a)
    BY <1>1, <1>4, <2>3, <2>4, <2>5, OldInRing
  <2>7. T[k] = o /\ bt[k] = a
    BY <1>2, <1>3, <2>1, <2>2
  <2> QED
    BY ONLY <2>6, <2>7, Zenon
<1>7. ASSUME NEW k \in 1 .. n + 1 PROVE InRing(w, T[k], bt[k])
  <2>1. CASE k = n + 1
    BY <1>2, <1>3, <1>4, <1>5, <2>1
  <2>2. CASE k # n + 1
    <3>1. k \in 1 .. n
      BY <2>2
    <3> QED
      BY <1>6, <3>1
  <2> QED
    BY <2>1, <2>2
<1> QED
  BY <1>2, <1>7 DEF RingHas

(* The requests before c are the same, and in the same places. *)
SameBelow(S, at, T, bt, c) == \A i \in 1 .. c - 1 : T[i] = S[i] /\ bt[i] = at[i]

(* Then the CQEs are still about them. *)
LEMMA ReportedSame ==
  ASSUME NEW q, NEW f, NEW S, NEW at, NEW T, NEW bt, NEW c, NEW g,
         SameBelow(S, at, T, bt, c), Reported(q, f, S, at, c, g)
  PROVE  Reported(q, f, T, bt, c, g)
<1>1. \A e : \A i \in 1 .. c - 1 : About(e, T, bt, i) <=> About(e, S, at, i)
  BY DEF About, SameBelow
<1> QED
  BY <1>1 DEF Reported

-----------------------------------------------------------------------------
(***************************************************************************)
(* The books of a send queue: u is its indices and its ring, S its open    *)
(* requests, f the CQ, n the requests of the call in progress, d the       *)
(* doorbell, k the card's counter; at has the places of the requests, c is *)
(* the one the card is at, and g the requests the CQEs are about.  When    *)
(* the QP is stopped (not live) the card's counter means nothing.          *)
(***************************************************************************)

SqType == [head : Nums, tail : Nums, scur_post : Ctrs,
           wqe_head : [Blocks -> Nums], wrid : [Blocks -> Nums],
           ring : [Blocks -> [id : Nums, part : Nat]]]

SendBook(q, u, S, f, n, d, k, live, at, c, g) ==
  /\ Len(S) <= SqMaxPost
  /\ n \in 0 .. Len(S)
  /\ Places(at, S)
  /\ u.scur_post = at[Len(S) + 1] % CtrMod
  /\ Numbered(S, u.tail)
  /\ Num(u.head, n) = Num(u.tail, Len(S))
  /\ RingHas(u, S, at)
  /\ c \in 1 .. Len(S) + 1 - n
  /\ Reported(q, f, S, at, c, g)
  /\ live => /\ d = at[Len(S) + 1 - n] % CtrMod
             /\ k = at[c] % CtrMod

(* Request numbers add up as numbers do. *)
LEMMA NumNum ==
  ASSUME NEW a \in Int, NEW x \in Int, NEW y \in Int, NEW z, z = x + y
  PROVE  Num(Num(a, x), y) = Num(a, z)
<1>1. (((a + x) % NumMod) + y) % NumMod = (a + x + y) % NumMod
  <2>1. a + x \in Int /\ NumMod \in Nat \ {0}
    BY Constants
  <2> QED
    BY ONLY <2>1, ModPlus, y \in Int
<1>2. a + x + y = a + z
  OBVIOUS
<1> QED
  BY <1>1, <1>2 DEF Num

(* A number is one, and wraps to itself when it is in range. *)
LEMMA NumType ==
  /\ \A a, x \in Int : Num(a, x) \in Nums
  /\ \A a \in Nums : Num(a, 0) = a /\ a \in Int
<1>1. NumMod \in Nat \ {0}
  BY Constants
<1>2. ASSUME NEW a \in Int, NEW x \in Int PROVE Num(a, x) \in Nums
  <2>1. a + x \in Int
    OBVIOUS
  <2>2. (a + x) % NumMod \in 0 .. NumMod - 1
    BY ONLY <1>1, <2>1, IntDivMod
  <2> QED
    BY <2>2 DEF Num, Nums
<1>3. ASSUME NEW a \in Nums PROVE Num(a, 0) = a /\ a \in Int
  <2>1. a \in 0 .. NumMod - 1
    BY DEF Nums
  <2>2. a + 0 \in Int /\ 0 \in Int /\ a + 0 = NumMod * 0 + a
    BY <1>1, <2>1
  <2>3. (a + 0) % NumMod = a
    BY ONLY <1>1, <2>1, <2>2, IntModUnique
  <2> QED
    BY <2>1, <2>3 DEF Num
<1> QED
  BY <1>2, <1>3

(* Fields of a send queue. *)
LEMMA SqFields ==
  ASSUME NEW u \in SqType
  PROVE  /\ RingType(u)
         /\ u.head \in Nat /\ u.tail \in Nat /\ u.scur_post \in Nat
         /\ u.head \in Nums /\ u.tail \in Nums /\ u.scur_post \in Ctrs
BY Constants DEF SqType, RingType, Nums, Ctrs

(* The requests a send queue has room for, as mlx5_wq_overflow counts. *)
LEMMA SendRoom ==
  ASSUME NEW u \in SqType, NEW S \in Seq(Request), NEW n \in Nat,
         Num(u.head, n) = Num(u.tail, Len(S)), Len(S) <= SqMaxPost
  PROVE  (u.head - u.tail + n) % NumMod = Len(S)
<1>1. PICK L \in Nat, h \in Nat, t \in Nat : L = Len(S) /\ h = u.head /\ t = u.tail
  BY SqFields
<1>2. NumMod \in Nat \ {0} /\ L \in 0 .. NumMod - 1 /\ L \in Int /\ t \in Int /\ h + n \in Int
  BY <1>1, Constants
<1>3. (h + n) % NumMod = (t + L) % NumMod
  BY <1>1 DEF Num
<1>4. ((h + n) - t) % NumMod = L
  <2>1. PICK b \in Int : b = h + n
    BY <1>2
  <2>2. b % NumMod = (t + L) % NumMod
    BY ONLY <1>3, <2>1, Zenon
  <2>3. NumMod \in Nat \ {0} /\ L \in Int /\ t \in Int /\ L \in 0 .. NumMod - 1
    BY ONLY <1>2
  <2>4. (b - t) % NumMod = L
    <3>1. Ahead(b, t, NumMod, L)
      BY ONLY <2>2, <2>3, ModDifference, b \in Int
    <3> QED
      BY ONLY <3>1, Zenon DEF Ahead
  <2> QED
    BY ONLY <2>1, <2>4, Zenon
<1>5. (h + n) - t = h - t + n
  OBVIOUS
<1> QED
  BY ONLY <1>1, <1>4, <1>5, Zenon

(* A request is posted. *)
LEMMA BookPosted ==
  ASSUME NEW q, NEW u \in SqType, NEW S \in Seq(Request), NEW f, NEW n, NEW d, NEW k,
         NEW live, NEW at, NEW c, NEW g, SendBook(q, u, S, f, n, d, k, live, at, c, g),
         ~ Overflow(u, n, SqMaxPost),
         NEW r \in Request, r.id = Num(u.head, n),
         NEW w, Written(w, u, r, u.scur_post), w.head = u.head, w.tail = u.tail,
         w.scur_post = Add(u.scur_post, r.size),
         NEW T, T = Append(S, r), NEW m, m = n + 1, NEW bt, bt = MorePlaces(at, S, r.size)
  PROVE  SendBook(q, w, T, f, m, d, k, live, bt, c, g)
<1>1. PICK L \in Nat, h \in Nat, t \in Nat, z \in Nat :
        L = Len(S) /\ h = u.head /\ t = u.tail /\ z = r.size
  BY SqFields, Constants DEF Request
<1>2. /\ L <= SqMaxPost /\ n \in 0 .. L /\ c \in 1 .. L + 1 - n
      /\ Places(at, S) /\ u.scur_post = at[L + 1] % CtrMod
      /\ Numbered(S, t) /\ Num(h, n) = Num(t, L) /\ RingHas(u, S, at)
      /\ Reported(q, f, S, at, c, g)
      /\ live => d = at[L + 1 - n] % CtrMod /\ k = at[c] % CtrMod
  BY <1>1 DEF SendBook
<1>3. L < SqMaxPost
  <2>1. n \in Nat
    BY <1>2
  <2>2. (u.head - u.tail + n) % NumMod = Len(S)
    BY <1>1, <1>2, <2>1, SendRoom
  <2>3. ~ (L >= SqMaxPost)
    BY <1>1, <2>2 DEF Overflow
  <2> QED
    BY <2>3, Constants
<1>4. Len(T) = L + 1
  BY <1>1
<1>5. Places(bt, T)
  BY <1>2, PlacesAppended
<1>6. bt = [i \in 1 .. L + 2 |-> IF i <= L + 1 THEN at[i] ELSE at[L + 1] + z]
  BY <1>1 DEF MorePlaces
<1>7. w.scur_post = bt[L + 2] % CtrMod
  <2>1. PICK a \in Int : a = at[L + 1]
    <3>1. L + 1 \in 1 .. L + 1
      OBVIOUS
    <3>2. at \in [1 .. L + 1 -> Nat]
      BY <1>1, <1>2 DEF Places
    <3> QED
      BY ONLY <3>1, <3>2
  <2>2. z \in Int /\ CtrMod \in Nat \ {0}
    BY Constants
  <2>3. ((a % CtrMod) + z) % CtrMod = (a + z) % CtrMod
    BY ONLY <2>1, <2>2, ModPlus
  <2>4. w.scur_post = ((a % CtrMod) + z) % CtrMod
    BY <1>1, <1>2, <2>1 DEF Add
  <2>5. bt[L + 2] = a + z
    BY ONLY <1>6, <2>1, L \in Nat
  <2> QED
    BY ONLY <2>3, <2>4, <2>5, Zenon
<1>8. Numbered(T, t)
  <2>1. r.id = Num(t, Len(S))
    BY <1>1, <1>2
  <2> QED
    BY <1>2, <2>1, NumberedAppended
<1>9. Num(h, m) = Num(t, L + 1)
  <2>1. h \in Int /\ n \in Int /\ 1 \in Int /\ t \in Int /\ L \in Int
    BY <1>2
  <2>2. Num(Num(h, n), 1) = Num(h, m)
    BY ONLY <2>1, NumNum, m = n + 1
  <2>3. Num(Num(t, L), 1) = Num(t, L + 1)
    BY ONLY <2>1, NumNum
  <2> QED
    BY ONLY <1>2, <2>2, <2>3, Zenon
<1>10. RingHas(w, T, bt)
  <2>1. RingType(u) /\ Len(T) <= SqMaxPost
    BY <1>3, <1>4, SqFields, Constants
  <2>2. u.scur_post = at[Len(S) + 1] % CtrMod
    BY <1>1, <1>2
  <2> QED
    BY <1>2, <2>1, <2>2, RingAppended
<1>11. Reported(q, f, T, bt, c, g)
  <2>1. ASSUME NEW i \in 1 .. c - 1 PROVE T[i] = S[i] /\ bt[i] = at[i]
    <3>1. i \in 1 .. L /\ i \in 1 .. L + 2 /\ i <= L + 1
      BY <1>2
    <3> QED
      BY <1>1, <1>6, <3>1
  <2>2. SameBelow(S, at, T, bt, c)
    BY <2>1 DEF SameBelow
  <2> QED
    BY <1>2, <2>2, ReportedSame
<1>12. /\ m \in 0 .. L + 1 /\ c \in 1 .. (L + 1) + 1 - m /\ L + 1 <= SqMaxPost
       /\ (L + 1) + 1 = L + 2 /\ (L + 1) + 1 - m = L + 1 - n
  <2>1. n \in 0 .. L /\ c \in 1 .. L + 1 - n
    BY <1>2
  <2>2. SqMaxPost \in Int
    BY Constants
  <2> QED
    BY ONLY <1>3, <2>1, <2>2, L \in Nat, m = n + 1
<1>13. live => d = bt[L + 1 - n] % CtrMod /\ k = bt[c] % CtrMod
  <2>1. L + 1 - n \in 1 .. L + 1 /\ c \in 1 .. L + 1
    BY <1>2
  <2>2. bt[L + 1 - n] = at[L + 1 - n] /\ bt[c] = at[c]
    BY ONLY <1>6, <2>1, L \in Nat
  <2> QED
    BY <1>2, <2>2
<1>14. w.tail = t /\ w.head = h
  BY <1>1
<1> QED
  BY ONLY <1>4, <1>5, <1>7, <1>8, <1>9, <1>10, <1>11, <1>12, <1>13, <1>14 DEF SendBook

(* The call ends: head and the doorbell. *)
LEMMA BookRung ==
  ASSUME NEW q, NEW u \in SqType, NEW S \in Seq(Request), NEW f, NEW n, NEW d, NEW k,
         NEW live, NEW at, NEW c, NEW g, SendBook(q, u, S, f, n, d, k, live, at, c, g),
         NEW w, w = [u EXCEPT !.head = Num(u.head, n)], NEW e, e = u.scur_post
  PROVE  SendBook(q, w, S, f, 0, e, k, live, at, c, g)
<1>1. PICK L \in Nat : L = Len(S)
  OBVIOUS
<1>2. /\ L <= SqMaxPost /\ n \in 0 .. L /\ c \in 1 .. L + 1 - n
      /\ Places(at, S) /\ u.scur_post = at[L + 1] % CtrMod
      /\ Numbered(S, u.tail) /\ Num(u.head, n) = Num(u.tail, L) /\ RingHas(u, S, at)
      /\ Reported(q, f, S, at, c, g)
      /\ live => d = at[L + 1 - n] % CtrMod /\ k = at[c] % CtrMod
  BY <1>1 DEF SendBook
<1>3. /\ w.head = Num(u.head, n) /\ w.tail = u.tail /\ w.scur_post = u.scur_post
      /\ w.wrid = u.wrid /\ w.wqe_head = u.wqe_head /\ w.ring = u.ring
  BY DEF SqType
<1>4. RingHas(w, S, at)
  BY <1>2, <1>3 DEF RingHas, InRing
<1>5. Num(w.head, 0) = Num(u.tail, L)
  <2>1. PICK h \in Int : h = u.head
    BY SqFields
  <2>2. n \in Int
    BY <1>2
  <2>3. Num(h, n) \in Nums
    BY ONLY <2>1, <2>2, NumType
  <2>4. Num(Num(h, n), 0) = Num(h, n)
    BY ONLY <2>3, NumType
  <2> QED
    BY ONLY <1>2, <1>3, <2>1, <2>4, Zenon
<1>6. 0 \in 0 .. L /\ c \in 1 .. L + 1 - 0 /\ L + 1 - 0 = L + 1
  BY <1>2
<1> QED
  BY ONLY <1>1, <1>2, <1>3, <1>4, <1>5, <1>6, e = u.scur_post DEF SendBook

-----------------------------------------------------------------------------
(***************************************************************************)
(* The card and the CQ.                                                    *)
(***************************************************************************)

(* The CQEs are about requests before a later one, too. *)
LEMMA ReportedLater ==
  ASSUME NEW q, NEW f, NEW S, NEW at, NEW c \in Nat, NEW g, Reported(q, f, S, at, c, g),
         NEW v \in Nat, c <= v
  PROVE  Reported(q, f, S, at, v, g)
<1>1. \A i \in 1 .. c - 1 : i \in 1 .. v - 1
  OBVIOUS
<1> QED
  BY <1>1 DEF Reported

(* What the CQEs are about, with one CQE more. *)
Longer(g, f, i) == [k \in 1 .. Len(f) + 1 |-> IF k <= Len(f) THEN g[k] ELSE i]

(* A CQE is added: about the request the card is at, if it is one of QP q.  *)
LEMMA ReportedPut ==
  ASSUME NEW q, NEW f \in Seq(Cqe), NEW S, NEW at, NEW c \in Nat, NEW g,
         Reported(q, f, S, at, c, g), NEW e,
         IsReq(q, e) => c >= 1 /\ About(e, S, at, c),
         NEW w, w = Append(f, e), NEW v, v = c + 1, NEW h, h = Longer(g, f, c)
  PROVE  Reported(q, w, S, at, v, h)
<1>1. PICK n \in Nat : n = Len(f)
  OBVIOUS
<1>2. Len(w) = n + 1 /\ w[n + 1] = e /\ \A k \in 1 .. n : w[k] = f[k]
  BY <1>1
<1>3. h = [k \in 1 .. n + 1 |-> IF k <= n THEN g[k] ELSE c]
  BY <1>1 DEF Longer
<1>4. /\ g \in [1 .. n -> Nat]
      /\ \A k \in 1 .. n : IsReq(q, f[k]) => g[k] \in 1 .. c - 1 /\ About(f[k], S, at, g[k])
      /\ \A k, l \in 1 .. n : k < l /\ IsReq(q, f[k]) /\ IsReq(q, f[l]) => g[k] < g[l]
  BY <1>1 DEF Reported
<1>5. /\ h \in [1 .. n + 1 -> Nat] /\ h[n + 1] = c
      /\ \A k \in 1 .. n : h[k] = g[k]
  BY ONLY <1>3, <1>4, n \in Nat, c \in Nat
<1>6. ASSUME NEW k \in 1 .. n + 1, IsReq(q, w[k])
      PROVE  h[k] \in 1 .. v - 1 /\ About(w[k], S, at, h[k])
  <2>1. CASE k = n + 1
    BY <1>2, <1>5, <1>6, <2>1
  <2>2. CASE k # n + 1
    <3>1. k \in 1 .. n
      BY <2>2
    <3> QED
      BY <1>2, <1>4, <1>5, <1>6, <3>1
  <2> QED
    BY <2>1, <2>2
<1>7. ASSUME NEW k \in 1 .. n + 1, NEW l \in 1 .. n + 1, k < l,
             IsReq(q, w[k]), IsReq(q, w[l])
      PROVE  h[k] < h[l]
  <2>1. k \in 1 .. n
    BY <1>7
  <2>2. h[k] = g[k] /\ g[k] \in 1 .. c - 1 /\ IsReq(q, f[k])
    BY <1>2, <1>4, <1>5, <1>7, <2>1
  <2>3. CASE l = n + 1
    BY <1>5, <2>2, <2>3
  <2>4. CASE l # n + 1
    <3>1. l \in 1 .. n
      BY <2>4
    <3> QED
      BY <1>2, <1>4, <1>5, <1>7, <2>1, <2>2, <3>1
  <2> QED
    BY <2>3, <2>4
<1> QED
  BY ONLY <1>2, <1>5, <1>6, <1>7 DEF Reported

(* A CQE that is not about a send of QP q changes nothing. *)
LEMMA ReportedPutOther ==
  ASSUME NEW q, NEW f \in Seq(Cqe), NEW S, NEW at, NEW c \in Nat, NEW g,
         Reported(q, f, S, at, c, g), NEW e, ~ IsReq(q, e),
         NEW w, w = Append(f, e), NEW h, h = Longer(g, f, c)
  PROVE  Reported(q, w, S, at, c, h)
<1>1. PICK n \in Nat : n = Len(f)
  OBVIOUS
<1>2. Len(w) = n + 1 /\ w[n + 1] = e /\ \A k \in 1 .. n : w[k] = f[k]
  BY <1>1
<1>3. h = [k \in 1 .. n + 1 |-> IF k <= n THEN g[k] ELSE c]
  BY <1>1 DEF Longer
<1>4. /\ g \in [1 .. n -> Nat]
      /\ \A k \in 1 .. n : IsReq(q, f[k]) => g[k] \in 1 .. c - 1 /\ About(f[k], S, at, g[k])
      /\ \A k, l \in 1 .. n : k < l /\ IsReq(q, f[k]) /\ IsReq(q, f[l]) => g[k] < g[l]
  BY <1>1 DEF Reported
<1>5. /\ h \in [1 .. n + 1 -> Nat] /\ \A k \in 1 .. n : h[k] = g[k]
  BY ONLY <1>3, <1>4, n \in Nat, c \in Nat
<1>6. \A k \in 1 .. n + 1 : IsReq(q, w[k]) => k \in 1 .. n
  BY <1>2
<1>7. \A k \in 1 .. n + 1 : IsReq(q, w[k]) =>
        h[k] \in 1 .. c - 1 /\ About(w[k], S, at, h[k])
  BY ONLY <1>2, <1>4, <1>5, <1>6
<1>8. \A k, l \in 1 .. n + 1 : k < l /\ IsReq(q, w[k]) /\ IsReq(q, w[l]) => h[k] < h[l]
  BY ONLY <1>2, <1>4, <1>5, <1>6
<1> QED
  BY ONLY <1>2, <1>5, <1>7, <1>8 DEF Reported

(* w is part of f, in order: its k-th CQE is the e[k]-th of f. *)
PartOf(w, f, e) ==
  /\ e \in [1 .. Len(w) -> 1 .. Len(f)]
  /\ \A k \in 1 .. Len(w) : w[k] = f[e[k]]
  /\ \A k, l \in 1 .. Len(w) : k < l => e[k] < e[l]

(* What holds of the CQEs of f holds of those of w. *)
LEMMA ReportedPart ==
  ASSUME NEW q, NEW f, NEW S, NEW at, NEW c, NEW g, Reported(q, f, S, at, c, g),
         NEW w, NEW e, PartOf(w, f, e), NEW h, h = [k \in 1 .. Len(w) |-> g[e[k]]]
  PROVE  Reported(q, w, S, at, c, h)
BY DEF Reported, PartOf

(* The tail of f is part of it. *)
LEMMA TailPart ==
  ASSUME NEW f \in Seq(Cqe), f # <<>>, NEW e, e = [k \in 1 .. Len(f) - 1 |-> k + 1]
  PROVE  PartOf(Tail(f), f, e)
<1>1. Len(Tail(f)) = Len(f) - 1 /\ Len(f) \in Nat
      /\ \A k \in 1 .. Len(f) - 1 : Tail(f)[k] = f[k + 1]
  OBVIOUS
<1> QED
  BY <1>1 DEF PartOf

(* The books of the send queue follow the CQ. *)
LEMMA BookCq ==
  ASSUME NEW q, NEW u, NEW S, NEW f, NEW n, NEW d, NEW k,
         NEW live, NEW at, NEW c, NEW g, SendBook(q, u, S, f, n, d, k, live, at, c, g),
         NEW w, NEW h, Reported(q, w, S, at, c, h)
  PROVE  SendBook(q, u, S, w, n, d, k, live, at, c, h)
BY DEF SendBook

(* The card finds the request it is at. *)
LEMMA CardFinds ==
  ASSUME NEW q, NEW u \in SqType, NEW S \in Seq(Request), NEW f, NEW n, NEW d, NEW k,
         NEW at, NEW c, NEW g, SendBook(q, u, S, f, n, d, k, TRUE, at, c, g), k # d
  PROVE  /\ c \in 1 .. Len(S) - n
         /\ IndexOf(S, u.ring[k % SqBlocks].id) = c
<1>1. PICK L \in Nat, t \in Nat : L = Len(S) /\ t = u.tail
  BY SqFields
<1>2. /\ L <= SqMaxPost /\ n \in 0 .. L /\ c \in 1 .. L + 1 - n
      /\ Places(at, S) /\ Numbered(S, t) /\ RingHas(u, S, at)
      /\ d = at[L + 1 - n] % CtrMod /\ k = at[c] % CtrMod
  BY <1>1 DEF SendBook
<1>3. c \in 1 .. L - n /\ c \in 1 .. L /\ c \in 1 .. L + 1
  <2>1. c # L + 1 - n
    BY <1>2
  <2> QED
    BY <1>2, <2>1
<1>4. PICK a \in Nat : a = at[c]
  <2>1. at \in [1 .. L + 1 -> Nat]
    BY <1>1, <1>2 DEF Places
  <2> QED
    BY ONLY <1>3, <2>1
<1>5. k % SqBlocks = a % SqBlocks
  <2>1. a \in Int /\ SqBlocks \in Nat \ {0} /\ CtrMod \in Nat \ {0} /\ CtrMod % SqBlocks = 0
    BY Constants
  <2>2. (a % CtrMod) % SqBlocks = a % SqBlocks
    BY ONLY <2>1, ModOfMod
  <2> QED
    BY ONLY <1>2, <1>4, <2>2, Zenon
<1>6. u.ring[a % SqBlocks].id = S[c].id
  <2>1. InRing(u, S[c], a)
    BY <1>1, <1>2, <1>3, <1>4 DEF RingHas
  <2>2. 0 \in 0 .. S[c].size - 1 /\ a + 0 = a
    <3>1. S[c] \in Request
      BY <1>1, <1>3
    <3> QED
      BY <3>1, Constants DEF Request
  <2>3. u.ring[(a + 0) % SqBlocks] = [id |-> S[c].id, part |-> 0]
    BY ONLY <2>1, <2>2 DEF InRing
  <2> QED
    BY ONLY <2>2, <2>3
<1>7. PICK id : id = u.ring[k % SqBlocks].id
  OBVIOUS
<1>8. id = S[c].id
  BY ONLY <1>5, <1>6, <1>7, Zenon
<1>9. IndexOf(S, id) = c
  <2>1. Len(S) \in Nat /\ Len(S) <= NumMod /\ c \in 1 .. Len(S)
    BY <1>1, <1>2, <1>3, Constants
  <2> QED
    BY ONLY <1>2, <1>8, <2>1, FoundAt, t \in Nat
<1> QED
  BY ONLY <1>1, <1>3, <1>7, <1>9

(* The card's counter after request c. *)
Executed(S, c, k, x) == x = Add(k, S[c].size)

(* The card executes it. *)
LEMMA BookSent ==
  ASSUME NEW q, NEW u \in SqType, NEW S \in Seq(Request), NEW f, NEW n, NEW d, NEW k,
         NEW at, NEW c, NEW g, SendBook(q, u, S, f, n, d, k, TRUE, at, c, g), k # d,
         NEW x, Executed(S, c, k, x), NEW v, v = c + 1,
         NEW w, NEW h, Reported(q, w, S, at, v, h)
  PROVE  SendBook(q, u, S, w, n, d, x, TRUE, at, v, h)
<1>1. PICK L \in Nat : L = Len(S)
  OBVIOUS
<1>2. /\ L <= SqMaxPost /\ n \in 0 .. L /\ c \in 1 .. L + 1 - n
      /\ Places(at, S) /\ u.scur_post = at[L + 1] % CtrMod
      /\ Numbered(S, u.tail) /\ Num(u.head, n) = Num(u.tail, L) /\ RingHas(u, S, at)
      /\ d = at[L + 1 - n] % CtrMod /\ k = at[c] % CtrMod
  BY <1>1 DEF SendBook
<1>3. c \in 1 .. L - n /\ c \in 1 .. L /\ c \in 1 .. L + 1 /\ v \in 1 .. L + 1 - n
  <2>1. c # L + 1 - n
    BY <1>2
  <2> QED
    BY <1>2, <2>1
<1>4. x = at[v] % CtrMod
  <2>1. at \in [1 .. L + 1 -> Nat] /\ at[c + 1] = at[c] + S[c].size /\ S[c] \in Request
    BY <1>1, <1>2, <1>3 DEF Places
  <2>2. PICK a \in Int, z \in Int : a = at[c] /\ z = S[c].size
    <3>1. at[c] \in Nat
      BY ONLY <1>3, <2>1
    <3> QED
      BY <2>1, <3>1, Constants DEF Request
  <2>3. ((a % CtrMod) + z) % CtrMod = (a + z) % CtrMod
    BY ONLY Constants, ModPlus, a \in Int, z \in Int
  <2>4. x = ((a % CtrMod) + z) % CtrMod /\ at[v] = a + z
    BY <1>2, <2>1, <2>2 DEF Add, Executed
  <2> QED
    BY ONLY <2>3, <2>4, Zenon
<1> QED
  BY ONLY <1>1, <1>2, <1>3, <1>4, Reported(q, w, S, at, v, h) DEF SendBook

(* The QP is stopped. *)
LEMMA BookStopped ==
  ASSUME NEW q, NEW u, NEW S, NEW f, NEW n, NEW d, NEW k,
         NEW live, NEW at, NEW c, NEW g, SendBook(q, u, S, f, n, d, k, live, at, c, g),
         NEW x
  PROVE  SendBook(q, u, S, f, n, d, x, FALSE, at, c, g)
BY DEF SendBook

(* The QP starts again: nothing is open, and no CQE is about it. *)
LEMMA BookStarted ==
  ASSUME NEW q, NEW u, u.head = 0, u.tail = 0, u.scur_post = 0,
         NEW f \in Seq(Cqe), \A j \in 1 .. Len(f) : f[j].rsn # q,
         NEW at, at = [i \in {1} |-> 0], NEW g, g = [j \in 1 .. Len(f) |-> 0]
  PROVE  SendBook(q, u, << >>, f, 0, 0, 0, TRUE, at, 1, g)
<1>1. 0 % CtrMod = 0
  <2>1. 0 = CtrMod * 0 + 0 /\ CtrMod \in Nat \ {0} /\ 0 \in 0 .. CtrMod - 1 /\ 0 \in Int
    BY Constants
  <2> QED
    BY ONLY <2>1, IntModUnique
<1>2. at[1] = 0 /\ at \in [1 .. 1 -> Nat]
  OBVIOUS
<1>3. Places(at, << >>)
  <2>1. Len(<< >>) = 0 /\ 1 .. 0 = {}
    OBVIOUS
  <2>2. \A j, k \in 1 .. 1 : ~ (j < k)
    OBVIOUS
  <2> QED
    BY <1>2, <2>1, <2>2 DEF Places
<1>4. Numbered(<< >>, 0) /\ RingHas(u, << >>, at)
  BY DEF Numbered, RingHas
<1>5. Reported(q, f, << >>, at, 1, g)
  <2>1. g \in [1 .. Len(f) -> Nat]
    OBVIOUS
  <2>2. \A j \in 1 .. Len(f) : ~ IsReq(q, f[j])
    BY DEF IsReq
  <2> QED
    BY ONLY <2>1, <2>2 DEF Reported
<1>6. Len(<< >>) = 0 /\ 0 <= SqMaxPost /\ 0 \in 0 .. 0 /\ 1 \in 1 .. 0 + 1 - 0
      /\ 0 + 1 = 1 /\ 0 + 1 - 0 = 1
  BY Constants
<1> QED
  BY <1>1, <1>2, <1>3, <1>4, <1>5, <1>6 DEF SendBook

-----------------------------------------------------------------------------
(***************************************************************************)
(* A CQE of a send is polled: the requests up to the one it is about are   *)
(* released.                                                               *)
(***************************************************************************)

(* The places of the requests after the first i. *)
LaterPlaces(at, S, i) == [k \in 1 .. Len(S) - i + 1 |-> at[k + i]]

(* They are those of the rest. *)
LEMMA PlacesReleased ==
  ASSUME NEW S \in Seq(Request), NEW at, Places(at, S), NEW i \in 1 .. Len(S),
         NEW T, T = SubSeq(S, i + 1, Len(S)), NEW bt, bt = LaterPlaces(at, S, i)
  PROVE  Places(bt, T)
<1>1. PICK n \in Nat, m \in Nat : n = Len(S) /\ m = n - i
  OBVIOUS
<1>2. Len(T) = m /\ \A k \in 1 .. m : T[k] = S[k + i]
  BY <1>1
<1>3. /\ at \in [1 .. n + 1 -> Nat]
      /\ \A k \in 1 .. n : at[k + 1] = at[k] + S[k].size
      /\ \A j, k \in 1 .. n + 1 :
           j < k => /\ at[j] < at[k]
                    /\ Share(at[k] - at[j], k - j)
  BY <1>1 DEF Places
<1>4. bt = [k \in 1 .. m + 1 |-> at[k + i]]
  BY <1>1 DEF LaterPlaces
<1>5. bt \in [1 .. m + 1 -> Nat] /\ \A k \in 1 .. m + 1 : bt[k] = at[k + i]
  BY <1>1, <1>3, <1>4
<1>6. ASSUME NEW k \in 1 .. m PROVE bt[k + 1] = bt[k] + T[k].size
  <2>1. k + i \in 1 .. n /\ k \in 1 .. m + 1 /\ k + 1 \in 1 .. m + 1 /\ k + 1 + i = k + i + 1
    BY <1>1
  <2>2. at[k + i + 1] = at[k + i] + S[k + i].size
    BY <1>3, <2>1
  <2> QED
    BY <1>2, <1>5, <2>1, <2>2
<1>7. ASSUME NEW j \in 1 .. m + 1, NEW k \in 1 .. m + 1, j < k
      PROVE  bt[j] < bt[k] /\ Share(bt[k] - bt[j], k - j)
  <2>1. j + i \in 1 .. n + 1 /\ k + i \in 1 .. n + 1 /\ j + i < k + i
        /\ (k + i) - (j + i) = k - j
    BY <1>1, <1>7
  <2>2. at[j + i] < at[k + i] /\ Share(at[k + i] - at[j + i], (k + i) - (j + i))
    BY ONLY <1>3, <2>1
  <2>3. bt[j] = at[j + i] /\ bt[k] = at[k + i]
    BY ONLY <1>5, <1>7
  <2> QED
    BY ONLY <2>1, <2>2, <2>3
<1> QED
  BY ONLY <1>2, <1>5, <1>6, <1>7 DEF Places

(* The rest is numbered from the next number on. *)
LEMMA NumberedReleased ==
  ASSUME NEW X, NEW S \in Seq(X), NEW tail \in Int, Numbered(S, tail), NEW i \in 1 .. Len(S),
         NEW T, T = SubSeq(S, i + 1, Len(S)), NEW t, t = Num(tail, i)
  PROVE  Numbered(T, t)
<1>1. PICK n \in Nat, m \in Nat : n = Len(S) /\ m = n - i
  OBVIOUS
<1>2. Len(T) = m /\ \A k \in 1 .. m : T[k] = S[k + i]
  BY <1>1
<1>3. ASSUME NEW k \in 1 .. m PROVE T[k].id = Num(t, k - 1)
  <2>1. PICK j \in Int, y \in Int, z \in Int : j = k + i /\ y = k - 1 /\ z = i + y
    OBVIOUS
  <2>2. j \in 1 .. n /\ j - 1 = z
    BY <1>1, <2>1
  <2>3. S[j].id = Num(tail, z)
    BY <1>1, <2>2 DEF Numbered
  <2>4. Num(Num(tail, i), y) = Num(tail, z)
    BY ONLY <2>1, NumNum, tail \in Int, i \in Int, y \in Int
  <2>5. T[k] = S[j]
    BY <1>2, <2>1
  <2> QED
    BY ONLY <2>1, <2>3, <2>4, <2>5, t = Num(tail, i), Zenon
<1> QED
  BY <1>2, <1>3 DEF Numbered

(* What the CQEs are about, after the first one, in the rest. *)
Shifted(g, f, i) ==
  [k \in 1 .. Len(f) - 1 |-> IF g[k + 1] >= i THEN g[k + 1] - i ELSE 0]

(* The CQEs that follow are about the rest. *)
LEMMA ReportedReleased ==
  ASSUME NEW q, NEW f \in Seq(Cqe), f # << >>, NEW S \in Seq(Request), NEW at, NEW c \in Nat,
         NEW g, Reported(q, f, S, at, c, g), IsReq(q, f[1]), c <= Len(S) + 1,
         NEW i \in Nat, i = g[1], NEW T, T = SubSeq(S, i + 1, Len(S)),
         NEW bt, bt = LaterPlaces(at, S, i), NEW v, v = c - i,
         NEW h, h = Shifted(g, f, i)
  PROVE  Reported(q, Tail(f), T, bt, v, h)
<1>1. PICK n \in Nat, l \in Nat : n = Len(S) /\ l = Len(f) /\ l >= 1
  OBVIOUS
<1>2. /\ g \in [1 .. l -> Nat]
      /\ \A k \in 1 .. l : IsReq(q, f[k]) => g[k] \in 1 .. c - 1 /\ About(f[k], S, at, g[k])
      /\ \A k, j \in 1 .. l : k < j /\ IsReq(q, f[k]) /\ IsReq(q, f[j]) => g[k] < g[j]
  BY <1>1 DEF Reported
<1>3. i \in 1 .. c - 1 /\ i \in 1 .. n
  BY <1>1, <1>2
<1>4. Len(Tail(f)) = l - 1 /\ \A k \in 1 .. l - 1 : Tail(f)[k] = f[k + 1]
  BY <1>1
<1>5. \A j \in 1 .. n - i : T[j] = S[j + i] /\ bt[j] = at[j + i]
  BY ONLY <1>1, <1>3, n \in Nat, S \in Seq(Request), T = SubSeq(S, i + 1, Len(S)),
          bt = LaterPlaces(at, S, i), i \in Nat DEF LaterPlaces
<1>6. h \in [1 .. l - 1 -> Nat]
      /\ \A k \in 1 .. l - 1 : h[k] = IF g[k + 1] >= i THEN g[k + 1] - i ELSE 0
  <2>1. h = [k \in 1 .. l - 1 |-> IF g[k + 1] >= i THEN g[k + 1] - i ELSE 0]
    BY <1>1 DEF Shifted
  <2> QED
    BY ONLY <1>2, <1>3, <2>1, l \in Nat, i \in Nat
<1>7. ASSUME NEW k \in 1 .. l - 1, IsReq(q, Tail(f)[k])
      PROVE  /\ g[k + 1] \in Nat /\ h[k] = g[k + 1] - i /\ h[k] \in 1 .. v - 1
             /\ About(Tail(f)[k], T, bt, h[k])
  <2>1. k + 1 \in 1 .. l /\ 1 \in 1 .. l /\ 1 < k + 1 /\ Tail(f)[k] = f[k + 1]
    BY <1>1, <1>4
  <2>2. g[k + 1] \in 1 .. c - 1 /\ About(f[k + 1], S, at, g[k + 1]) /\ i < g[k + 1]
    BY <1>2, <1>7, <2>1
  <2>3. PICK j \in Int : j = g[k + 1] - i /\ j \in 1 .. v - 1 /\ j \in 1 .. n - i
                         /\ j + i = g[k + 1]
    BY ONLY <1>1, <1>3, <2>2, n \in Nat, i \in Nat, c \in Nat, v = c - i, c <= Len(S) + 1
  <2>4. h[k] = j
    BY ONLY <1>6, <2>2, <2>3, i \in Nat, c \in Nat, k \in 1 .. l - 1
  <2>5. T[j] = S[g[k + 1]] /\ bt[j] = at[g[k + 1]]
    BY ONLY <1>5, <2>3
  <2>6. About(Tail(f)[k], T, bt, j)
    BY ONLY <2>1, <2>2, <2>5 DEF About
  <2>7. g[k + 1] \in Nat
    BY ONLY <2>2, c \in Nat
  <2>8. h[k] = g[k + 1] - i /\ h[k] \in 1 .. v - 1
    BY ONLY <2>3, <2>4, Zenon
  <2>9. About(Tail(f)[k], T, bt, h[k])
    BY ONLY <2>4, <2>6, Zenon
  <2> QED
    BY ONLY <2>7, <2>8, <2>9
<1>8. ASSUME NEW k \in 1 .. l - 1, NEW j \in 1 .. l - 1, k < j,
             IsReq(q, Tail(f)[k]), IsReq(q, Tail(f)[j])
      PROVE  h[k] < h[j]
  <2>1. k + 1 \in 1 .. l /\ j + 1 \in 1 .. l /\ k + 1 < j + 1
        /\ Tail(f)[k] = f[k + 1] /\ Tail(f)[j] = f[j + 1]
    BY <1>1, <1>4, <1>8
  <2>2. g[k + 1] < g[j + 1]
    BY <1>2, <1>8, <2>1
  <2>3. h[k] = g[k + 1] - i /\ h[j] = g[j + 1] - i /\ g[k + 1] \in Nat /\ g[j + 1] \in Nat
    BY ONLY <1>7, <1>8
  <2> QED
    BY ONLY <1>3, <2>2, <2>3
<1> QED
  BY ONLY <1>4, <1>6, <1>7, <1>8 DEF Reported

(* The first CQE of f leads to request i. *)
FoundSend(u, S, f, c, i) ==
  /\ i \in 1 .. Len(S) /\ i \in 1 .. c - 1
  /\ IndexOf(S, f[1].of) = i
  /\ u.wqe_head[f[1].wqe_counter % SqBlocks] = Num(u.tail, i - 1)

(* The CQE polled is about request g[1], which is found by its number.      *)
LEMMA PollFinds ==
  ASSUME NEW q, NEW u \in SqType, NEW S \in Seq(Request), NEW f \in Seq(Cqe), f # << >>,
         NEW n, NEW d, NEW k,
         NEW live, NEW at, NEW c, NEW g, SendBook(q, u, S, f, n, d, k, live, at, c, g),
         IsReq(q, f[1]), NEW i \in Nat, i = g[1]
  PROVE  FoundSend(u, S, f, c, i)
<1>1. PICK L \in Nat, t \in Nat, l \in Nat : L = Len(S) /\ t = u.tail /\ l = Len(f) /\ l >= 1
  BY SqFields
<1>2. /\ L <= SqMaxPost /\ n \in 0 .. L /\ c \in 1 .. L + 1 - n
      /\ Places(at, S) /\ Numbered(S, t) /\ RingHas(u, S, at)
      /\ Reported(q, f, S, at, c, g)
  BY <1>1 DEF SendBook
<1>3. i \in 1 .. c - 1 /\ About(f[1], S, at, i)
  BY <1>1, <1>2 DEF Reported
<1>4. i \in 1 .. L /\ i \in 1 .. L + 1
  BY <1>2, <1>3
<1>5. PICK a \in Nat : a = at[i]
  <2>1. at \in [1 .. L + 1 -> Nat]
    BY <1>1, <1>2 DEF Places
  <2> QED
    BY ONLY <1>4, <2>1
<1>6. f[1].of = S[i].id /\ f[1].wqe_counter = a % CtrMod
  BY <1>3, <1>5 DEF About
<1>7. f[1].wqe_counter % SqBlocks = a % SqBlocks
  <2>1. a \in Int /\ SqBlocks \in Nat \ {0} /\ CtrMod \in Nat \ {0} /\ CtrMod % SqBlocks = 0
    BY Constants
  <2>2. (a % CtrMod) % SqBlocks = a % SqBlocks
    BY ONLY <2>1, ModOfMod
  <2> QED
    BY ONLY <1>6, <2>2, Zenon
<1>8. InRing(u, S[i], a)
  BY <1>1, <1>2, <1>4, <1>5 DEF RingHas
<1>9. u.wqe_head[a % SqBlocks] = S[i].id /\ u.wrid[a % SqBlocks] = S[i].id
  BY ONLY <1>8 DEF InRing
<1>10. S[i].id = Num(t, i - 1)
  BY <1>1, <1>2, <1>4 DEF Numbered
<1>11. IndexOf(S, f[1].of) = i
  <2>1. Len(S) \in Nat /\ Len(S) <= NumMod /\ i \in 1 .. Len(S)
    BY <1>1, <1>2, <1>4, Constants
  <2>2. PICK id : id = f[1].of
    OBVIOUS
  <2>3. id = S[i].id
    BY ONLY <1>6, <2>2, Zenon
  <2>4. IndexOf(S, id) = i
    BY ONLY <1>2, <2>1, <2>3, FoundAt, t \in Nat
  <2> QED
    BY ONLY <2>2, <2>4, Zenon
<1> QED
  BY ONLY <1>1, <1>3, <1>4, <1>6, <1>7, <1>9, <1>10, <1>11 DEF FoundSend

(* The books after it. *)
LEMMA BookPolled ==
  ASSUME NEW q, NEW u \in SqType, NEW S \in Seq(Request), NEW f \in Seq(Cqe), f # << >>,
         NEW n, NEW d, NEW k,
         NEW live, NEW at, NEW c \in Nat, NEW g, SendBook(q, u, S, f, n, d, k, live, at, c, g),
         IsReq(q, f[1]), NEW i \in Nat, i = g[1],
         NEW z, z = Num(u.tail, i), NEW x, x = [u EXCEPT !.tail = z],
         NEW T, T = SubSeq(S, i + 1, Len(S)),
         NEW bt, bt = LaterPlaces(at, S, i), NEW v, v = c - i,
         NEW h, h = Shifted(g, f, i)
  PROVE  SendBook(q, x, T, Tail(f), n, d, k, live, bt, v, h)
<1>1. PICK L \in Nat, t \in Nat, m \in Int : L = Len(S) /\ t = u.tail /\ m = L - i
  <2>1. u.tail \in Nat
    BY SqFields
  <2> QED
    BY ONLY <2>1, S \in Seq(Request), i \in Nat
<1>2. /\ L <= SqMaxPost /\ n \in 0 .. L /\ c \in 1 .. L + 1 - n
      /\ Places(at, S) /\ u.scur_post = at[L + 1] % CtrMod
      /\ Numbered(S, t) /\ Num(u.head, n) = Num(t, L) /\ RingHas(u, S, at)
      /\ Reported(q, f, S, at, c, g)
      /\ live => d = at[L + 1 - n] % CtrMod /\ k = at[c] % CtrMod
  BY <1>1 DEF SendBook
<1>3. i \in 1 .. L /\ i \in 1 .. c - 1
  <2>1. FoundSend(u, S, f, c, i)
    BY PollFinds
  <2> QED
    BY ONLY <1>1, <2>1 DEF FoundSend
<1>4. /\ x.tail = z /\ x.head = u.head /\ x.scur_post = u.scur_post
      /\ x.wrid = u.wrid /\ x.wqe_head = u.wqe_head /\ x.ring = u.ring
  BY DEF SqType
<1>5. Len(T) = m /\ \A j \in 1 .. m : T[j] = S[j + i]
  BY ONLY <1>1, <1>3, L \in Nat, m \in Int, i \in Nat, S \in Seq(Request),
          T = SubSeq(S, i + 1, Len(S))
<1>6. \A j \in 1 .. m + 1 : bt[j] = at[j + i]
  BY ONLY <1>1, <1>3, L \in Nat, m \in Int, i \in Nat, bt = LaterPlaces(at, S, i)
     DEF LaterPlaces
<1>7. Places(bt, T)
  BY <1>1, <1>2, <1>3, PlacesReleased
<1>8. Numbered(T, z)
  <2>1. t \in Int /\ i \in 1 .. Len(S) /\ z = Num(t, i)
    BY <1>1, <1>3
  <2> QED
    BY <1>2, <2>1, NumberedReleased
<1>9. Num(x.head, n) = Num(z, m)
  <2>1. t \in Int /\ i \in Int /\ m \in Int /\ L = i + m /\ z = Num(t, i)
    BY ONLY <1>1, L \in Nat, t \in Nat, m \in Int, i \in Nat, z = Num(u.tail, i)
  <2>2. Num(Num(t, i), m) = Num(t, L)
    BY ONLY <2>1, NumNum
  <2> QED
    BY ONLY <1>2, <1>4, <2>1, <2>2, Zenon
<1>10. RingHas(x, T, bt)
  <2>1. ASSUME NEW j \in 1 .. m PROVE InRing(x, T[j], bt[j])
    <3>1. j + i \in 1 .. L /\ j \in 1 .. m + 1
      BY ONLY <1>1, <1>3, L \in Nat, m \in Int, i \in Nat, j \in 1 .. m
    <3>2. InRing(u, S[j + i], at[j + i])
      BY <1>1, <1>2, <3>1 DEF RingHas
    <3>3. InRing(u, T[j], bt[j])
      BY ONLY <1>5, <1>6, <3>1, <3>2
    <3> QED
      BY ONLY <1>4, <3>3 DEF InRing
  <2> QED
    BY ONLY <1>5, <2>1 DEF RingHas
<1>11. Reported(q, Tail(f), T, bt, v, h)
  <2>1. c \in Nat /\ c <= Len(S) + 1
    BY <1>1, <1>2
  <2> QED
    BY <1>2, <2>1, ReportedReleased
<1>12. /\ m <= SqMaxPost /\ n \in 0 .. m /\ v \in 1 .. m + 1 - n
       /\ m + 1 \in 1 .. m + 1 /\ m + 1 + i = L + 1
       /\ m + 1 - n \in 1 .. m + 1 /\ (m + 1 - n) + i = L + 1 - n
       /\ v \in 1 .. m + 1 /\ v + i = c
  BY ONLY <1>1, <1>2, <1>3, Constants, L \in Nat, m \in Int, i \in Nat, c \in Nat,
          v = c - i
<1>13. x.scur_post = bt[m + 1] % CtrMod
  BY ONLY <1>2, <1>4, <1>6, <1>12
<1>14. live => d = bt[m + 1 - n] % CtrMod /\ k = bt[v] % CtrMod
  <2>1. bt[m + 1 - n] = at[L + 1 - n] /\ bt[v] = at[c]
    BY ONLY <1>6, <1>12
  <2> QED
    BY ONLY <1>2, <2>1
<1> QED
  BY ONLY <1>4, <1>5, <1>7, <1>8, <1>9, <1>10, <1>11, <1>12, <1>13, <1>14 DEF SendBook

-----------------------------------------------------------------------------
(***************************************************************************)
(* The CQEs of receives, which are counted.                                *)
(***************************************************************************)

(* The CQEs of receives of QP q before place k of f. *)
Resps(q, f, k) == Cardinality({j \in 1 .. k - 1 : IsResp(q, f[j])})

(* Counting one place further. *)
OneFurther(q, f, k, v) ==
  Resps(q, f, v) = IF IsResp(q, f[k]) THEN Resps(q, f, k) + 1 ELSE Resps(q, f, k)

(* This is how it goes. *)
LEMMA RespsNext ==
  ASSUME NEW q, NEW f, NEW k \in Nat \ {0}, NEW v, v = k + 1
  PROVE  Resps(q, f, k) \in Nat /\ OneFurther(q, f, k, v)
<1> DEFINE A == {j \in 1 .. k - 1 : IsResp(q, f[j])}
           B == {j \in 1 .. v - 1 : IsResp(q, f[j])}
<1>1. IsFiniteSet(A) /\ Cardinality(A) \in Nat
  <2>1. IsFiniteSet(1 .. k - 1)
    BY FS_Interval
  <2>2. A \in SUBSET (1 .. k - 1)
    OBVIOUS
  <2>3. IsFiniteSet(A)
    BY <2>1, <2>2, FS_Subset
  <2> QED
    BY <2>3, FS_CardinalityType
<1>2. CASE IsResp(q, f[k])
  <2>1. B = A \cup {k} /\ k \notin A
    BY <1>2
  <2>2. Cardinality(B) = Cardinality(A) + 1
    BY <1>1, <2>1, FS_AddElement
  <2> QED
    BY <1>1, <1>2, <2>2 DEF Resps, OneFurther
<1>3. CASE ~ IsResp(q, f[k])
  <2>1. B = A
    BY <1>3
  <2> QED
    BY <1>1, <1>3, <2>1 DEF Resps, OneFurther
<1> QED
  BY <1>2, <1>3

(* There are none before the first place. *)
LEMMA RespsFirst ==
  ASSUME NEW q, NEW f
  PROVE  Resps(q, f, 1) = 0
<1>1. {j \in 1 .. 1 - 1 : IsResp(q, f[j])} = {}
  OBVIOUS
<1> QED
  BY <1>1, FS_EmptySet DEF Resps

(* The count depends on what is before only. *)
LEMMA RespsSame ==
  ASSUME NEW q, NEW f, NEW w, NEW k \in Nat, \A j \in 1 .. k - 1 : f[j] = w[j]
  PROVE  Resps(q, f, k) = Resps(q, w, k)
<1>1. {j \in 1 .. k - 1 : IsResp(q, f[j])} = {j \in 1 .. k - 1 : IsResp(q, w[j])}
  OBVIOUS
<1> QED
  BY <1>1 DEF Resps

(* Without its first CQE, a queue has one less before each place, if that   *)
(* is one of them.                                                          *)
LessOne(q, f, k) ==
  Resps(q, f, k + 1) =
    IF IsResp(q, f[1]) THEN Resps(q, Tail(f), k) + 1 ELSE Resps(q, Tail(f), k)

(* At every place. *)
LEMMA RespsTail ==
  ASSUME NEW q, NEW f \in Seq(Cqe), f # << >>, NEW k \in 1 .. Len(f)
  PROVE  LessOne(q, f, k)
<1> DEFINE Good == {m \in Nat : m + 1 <= Len(f) => LessOne(q, f, m + 1)}
<1>1. ASSUME NEW m \in Nat, \A j \in 0 .. m - 1 : j \in Good, m + 1 <= Len(f)
      PROVE  LessOne(q, f, m + 1)
  <2>1. CASE m = 0
    <3>1. Resps(q, f, 1) = 0 /\ Resps(q, Tail(f), 1) = 0
      BY RespsFirst
    <3>2. OneFurther(q, f, 1, 1 + 1)
      BY RespsNext
    <3> QED
      BY <2>1, <3>1, <3>2 DEF OneFurther, LessOne
  <2>2. CASE m # 0
    <3>1. PICK l \in Nat \ {0}, k1 \in Nat, k2 \in Nat : l = m /\ k1 = m + 1 /\ k2 = m + 2
      BY <2>2
    <3>2. LessOne(q, f, l)
      <4>1. m - 1 \in Good
        BY <1>1, <2>2
      <4>2. m - 1 + 1 = l /\ m - 1 + 1 <= Len(f)
        BY <1>1, <3>1
      <4> QED
        BY <4>1, <4>2
    <3>3. Tail(f)[l] = f[k1]
      BY <1>1, <3>1
    <3>4. OneFurther(q, f, k1, k2)
      <4>1. k1 \in Nat \ {0} /\ k2 = k1 + 1
        BY <3>1
      <4> QED
        BY ONLY <4>1, RespsNext
    <3>5. OneFurther(q, Tail(f), l, k1)
      <4>1. l \in Nat \ {0} /\ k1 = l + 1
        BY <3>1
      <4> QED
        BY ONLY <4>1, RespsNext
    <3>6. Resps(q, Tail(f), l) \in Nat
      BY RespsNext
    <3>7. PICK a, b, c, d, e : /\ a = Resps(q, f, k1) /\ b = Resps(q, f, k2)
                               /\ c = Resps(q, Tail(f), l) /\ d = Resps(q, Tail(f), k1)
                               /\ e = IsResp(q, f[1])
      OBVIOUS
    <3>8. a = IF e THEN c + 1 ELSE c
      <4>1. l + 1 = k1
        BY <3>1
      <4> QED
        BY ONLY <3>2, <3>7, <4>1 DEF LessOne
    <3>9. /\ b = IF IsResp(q, f[k1]) THEN a + 1 ELSE a
          /\ d = IF IsResp(q, f[k1]) THEN c + 1 ELSE c
      BY ONLY <3>3, <3>4, <3>5, <3>7 DEF OneFurther
    <3>10. b = IF e THEN d + 1 ELSE d
      BY ONLY <3>6, <3>7, <3>8, <3>9
    <3> QED
      <4>1. (m + 1) + 1 = k2 /\ m + 1 = k1
        BY <3>1
      <4> QED
        BY ONLY <3>7, <3>10, <4>1 DEF LessOne
  <2> QED
    BY <2>1, <2>2
<1>2. \A m \in Nat : m \in Good
  <2>1. \A m \in Nat : (\A j \in 0 .. m - 1 : j \in Good) => m \in Good
    BY <1>1
  <2> HIDE DEF Good
  <2> QED
    BY <2>1, AllNumbers
<1>3. PICK m \in Nat : m = k - 1 /\ m + 1 = k /\ m + 1 <= Len(f)
  OBVIOUS
<1>4. m \in Good
  BY <1>2
<1>5. LessOne(q, f, m + 1)
  BY <1>3, <1>4
<1> QED
  BY ONLY <1>3, <1>5

(* w is what is left of f without the CQEs of QP r: its CQEs are in f, in    *)
(* order, and at each place there are as many receives of another QP before *)
(* it as in f.                                                              *)
Left(w, f, r, e) ==
  /\ e \in [1 .. Len(w) + 1 -> Nat]
  /\ e[Len(w) + 1] = Len(f) + 1
  /\ \A k \in 1 .. Len(w) : e[k] \in 1 .. Len(f) /\ w[k] = f[e[k]] /\ w[k].rsn # r
  /\ \A k, l \in 1 .. Len(w) + 1 : k < l => e[k] < e[l]
  /\ \A q \in Qps \ {r} : \A k \in 1 .. Len(w) + 1 : Resps(q, w, k) = Resps(q, f, e[k])

(* A CQE of the QP is dropped. *)
LEMMA LeftDropped ==
  ASSUME NEW w \in Seq(Cqe), NEW f \in Seq(Cqe), NEW r, NEW e, Left(w, f, r, e),
         NEW x \in Cqe, x.rsn = r, NEW t, t = Append(f, x)
  PROVE  \E h : Left(w, t, r, h)
<1>1. PICK m \in Nat, n \in Nat : m = Len(w) /\ n = Len(f)
  OBVIOUS
<1>2. Len(t) = n + 1 /\ t[n + 1] = x /\ \A j \in 1 .. n : t[j] = f[j]
  BY <1>1
<1>3. /\ e \in [1 .. m + 1 -> Nat]
      /\ e[m + 1] = n + 1
      /\ \A k \in 1 .. m : e[k] \in 1 .. n /\ w[k] = f[e[k]] /\ w[k].rsn # r
      /\ \A k, l \in 1 .. m + 1 : k < l => e[k] < e[l]
      /\ \A q \in Qps \ {r} : \A k \in 1 .. m + 1 : Resps(q, w, k) = Resps(q, f, e[k])
  BY <1>1 DEF Left
<1> DEFINE h == [k \in 1 .. m + 1 |-> IF k <= m THEN e[k] ELSE n + 2]
<1>4. /\ h \in [1 .. m + 1 -> Nat] /\ h[m + 1] = n + 2
      /\ \A k \in 1 .. m : h[k] = e[k]
  BY <1>3
<1> HIDE DEF h
<1>5. ASSUME NEW k \in 1 .. m
      PROVE  h[k] \in 1 .. n + 1 /\ w[k] = t[h[k]] /\ w[k].rsn # r
  <2>1. h[k] = e[k] /\ e[k] \in 1 .. n /\ w[k] = f[e[k]] /\ w[k].rsn # r
    BY ONLY <1>3, <1>4, k \in 1 .. m
  <2> QED
    BY ONLY <1>2, <2>1, n \in Nat
<1>6. ASSUME NEW k \in 1 .. m + 1, NEW l \in 1 .. m + 1, k < l PROVE h[k] < h[l]
  <2>1. k \in 1 .. m
    BY <1>6
  <2>2. h[k] = e[k] /\ e[k] \in 1 .. n
    BY <1>3, <1>4, <2>1
  <2>3. CASE l = m + 1
    BY <1>4, <2>2, <2>3
  <2>4. CASE l # m + 1
    <3>1. l \in 1 .. m
      BY <2>4
    <3> QED
      BY <1>3, <1>4, <1>6, <2>2, <3>1
  <2> QED
    BY <2>3, <2>4
<1>7. ASSUME NEW q \in Qps \ {r}, NEW k \in 1 .. m + 1
      PROVE  Resps(q, w, k) = Resps(q, t, h[k])
  <2>1. ASSUME NEW i \in 1 .. n + 1 PROVE Resps(q, f, i) = Resps(q, t, i)
    <3>1. i \in Nat /\ \A j \in 1 .. i - 1 : f[j] = t[j]
      BY <1>2
    <3> QED
      BY ONLY <3>1, RespsSame
  <2>2. CASE k = m + 1
    <3>1. PICK i \in Nat \ {0}, v \in Nat : i = n + 1 /\ v = i + 1 /\ v = n + 2
      OBVIOUS
    <3>2. OneFurther(q, t, i, v)
      BY <3>1, RespsNext
    <3>3. ~ IsResp(q, t[i])
      BY <1>2, <3>1 DEF IsResp
    <3>4. Resps(q, t, v) = Resps(q, t, i)
      BY ONLY <3>2, <3>3 DEF OneFurther
    <3>5. Resps(q, w, k) = Resps(q, f, i) /\ i \in 1 .. n + 1 /\ h[k] = v
      BY <1>3, <1>4, <2>2, <3>1
    <3> QED
      BY ONLY <2>1, <3>4, <3>5
  <2>3. CASE k # m + 1
    <3>1. k \in 1 .. m
      BY <2>3
    <3>2. h[k] = e[k] /\ e[k] \in 1 .. n + 1 /\ Resps(q, w, k) = Resps(q, f, e[k])
      BY <1>3, <1>4, <3>1
    <3> QED
      BY ONLY <2>1, <3>2
  <2> QED
    BY <2>2, <2>3
<1>8. (n + 1) + 1 = n + 2
  OBVIOUS
<1>9. Left(w, t, r, h)
  BY ONLY <1>1, <1>2, <1>4, <1>5, <1>6, <1>7, <1>8 DEF Left
<1> QED
  BY <1>9

(* Another one is kept. *)
LEMMA LeftKept ==
  ASSUME NEW w \in Seq(Cqe), NEW f \in Seq(Cqe), NEW r, NEW e, Left(w, f, r, e),
         NEW x \in Cqe, x.rsn # r, NEW t, t = Append(f, x), NEW v, v = Append(w, x)
  PROVE  \E h : Left(v, t, r, h)
<1>1. PICK m \in Nat, n \in Nat : m = Len(w) /\ n = Len(f)
  OBVIOUS
<1>2. /\ Len(t) = n + 1 /\ t[n + 1] = x /\ \A j \in 1 .. n : t[j] = f[j]
      /\ Len(v) = m + 1 /\ v[m + 1] = x /\ \A j \in 1 .. m : v[j] = w[j]
  BY <1>1
<1>3. /\ e \in [1 .. m + 1 -> Nat]
      /\ e[m + 1] = n + 1
      /\ \A k \in 1 .. m : e[k] \in 1 .. n /\ w[k] = f[e[k]] /\ w[k].rsn # r
      /\ \A k, l \in 1 .. m + 1 : k < l => e[k] < e[l]
      /\ \A q \in Qps \ {r} : \A k \in 1 .. m + 1 : Resps(q, w, k) = Resps(q, f, e[k])
  BY <1>1 DEF Left
<1> DEFINE h == [k \in 1 .. m + 2 |-> IF k <= m + 1 THEN e[k] ELSE n + 2]
<1>4. /\ h \in [1 .. m + 2 -> Nat] /\ h[m + 2] = n + 2
      /\ \A k \in 1 .. m + 1 : h[k] = e[k]
  BY <1>3
<1> HIDE DEF h
<1>5. ASSUME NEW k \in 1 .. m + 1
      PROVE  h[k] \in 1 .. n + 1 /\ v[k] = t[h[k]] /\ v[k].rsn # r
  <2>1. CASE k = m + 1
    BY <1>2, <1>3, <1>4, <2>1
  <2>2. CASE k # m + 1
    <3>1. k \in 1 .. m
      BY <2>2
    <3>2. h[k] = e[k] /\ e[k] \in 1 .. n /\ w[k] = f[e[k]] /\ w[k].rsn # r /\ v[k] = w[k]
      BY ONLY <1>2, <1>3, <1>4, <3>1, k \in 1 .. m + 1
    <3> QED
      BY ONLY <1>2, <3>2, n \in Nat
  <2> QED
    BY <2>1, <2>2
<1>6. ASSUME NEW k \in 1 .. m + 2, NEW l \in 1 .. m + 2, k < l PROVE h[k] < h[l]
  <2>1. k \in 1 .. m + 1
    BY <1>6
  <2>2. h[k] = e[k] /\ h[k] \in 1 .. n + 1
    BY ONLY <1>4, <1>5, <2>1
  <2>3. CASE l = m + 2
    BY <1>4, <2>2, <2>3
  <2>4. CASE l # m + 2
    <3>1. l \in 1 .. m + 1
      BY <2>4
    <3> QED
      BY <1>3, <1>4, <1>6, <2>1, <2>2, <3>1
  <2> QED
    BY <2>3, <2>4
<1>7. ASSUME NEW q \in Qps \ {r}, NEW k \in 1 .. m + 2
      PROVE  Resps(q, v, k) = Resps(q, t, h[k])
  <2>1. ASSUME NEW i \in 1 .. n + 1 PROVE Resps(q, f, i) = Resps(q, t, i)
    <3>1. i \in Nat /\ \A j \in 1 .. i - 1 : f[j] = t[j]
      BY <1>2
    <3> QED
      BY ONLY <3>1, RespsSame
  <2>2. ASSUME NEW i \in 1 .. m + 1 PROVE Resps(q, v, i) = Resps(q, t, h[i])
    <3>1. i \in Nat /\ \A j \in 1 .. i - 1 : w[j] = v[j]
      BY <1>2
    <3>2. Resps(q, w, i) = Resps(q, v, i)
      BY ONLY <3>1, RespsSame
    <3>3. h[i] = e[i] /\ h[i] \in 1 .. n + 1 /\ Resps(q, w, i) = Resps(q, f, e[i])
      BY <1>3, <1>4, <1>5
    <3> QED
      BY ONLY <2>1, <3>2, <3>3
  <2>3. CASE k = m + 2
    <3>1. PICK i \in Nat \ {0}, i2 \in Nat, j \in Nat \ {0}, j2 \in Nat :
            /\ i = n + 1 /\ i2 = i + 1 /\ i2 = n + 2
            /\ j = m + 1 /\ j2 = j + 1 /\ j2 = m + 2
      OBVIOUS
    <3>2. OneFurther(q, t, i, i2) /\ OneFurther(q, v, j, j2)
      BY <3>1, RespsNext
    <3>3. t[i] = x /\ v[j] = x
      BY <1>2, <3>1
    <3>4. Resps(q, v, j) = Resps(q, t, i)
      <4>1. j \in 1 .. m + 1 /\ h[j] = i
        BY <1>3, <1>4, <3>1
      <4> QED
        BY ONLY <2>2, <4>1
    <3>5. Resps(q, v, j2) = Resps(q, t, i2)
      BY ONLY <3>2, <3>3, <3>4 DEF OneFurther
    <3>6. k = j2 /\ h[k] = i2
      BY <1>4, <2>3, <3>1
    <3> QED
      BY ONLY <3>5, <3>6
  <2>4. CASE k # m + 2
    <3>1. k \in 1 .. m + 1
      BY <2>4
    <3> QED
      BY <2>2, <3>1
  <2> QED
    BY <2>3, <2>4
<1>8. (n + 1) + 1 = n + 2 /\ (m + 1) + 1 = m + 2
  OBVIOUS
<1>9. Left(v, t, r, h)
  BY ONLY <1>2, <1>4, <1>5, <1>6, <1>7, <1>8 DEF Left
<1> QED
  BY <1>9

(* A sweep leaves this. *)
LEMMA SweptIs ==
  ASSUME NEW f \in Seq(Cqe), NEW r
  PROVE  Without(f, r) \in Seq(Cqe) /\ \E e : Left(Without(f, r), f, r, e)
<1>0. ASSUME NEW s \in Seq(Cqe) PROVE Without(s, r) \in Seq(Cqe)
  BY WithoutFacts
<1> DEFINE Good == {m \in Nat : \A s \in Seq(Cqe) : Len(s) = m =>
                                   \E e : Left(Without(s, r), s, r, e)}
<1>1. ASSUME NEW m \in Nat, \A j \in 0 .. m - 1 : j \in Good,
             NEW s \in Seq(Cqe), Len(s) = m
      PROVE  \E e : Left(Without(s, r), s, r, e)
  <2>1. CASE m = 0
    <3>1. s = << >> /\ Without(s, r) = << >>
      <4>1. s = << >>
        BY <1>1, <2>1
      <4> QED
        BY <4>1, WithoutFacts
    <3> DEFINE e == [k \in {1} |-> 1]
    <3>2. e \in [1 .. 0 + 1 -> Nat] /\ e[0 + 1] = 0 + 1
      OBVIOUS
    <3> HIDE DEF e
    <3>3. Len(<< >>) = 0 /\ 1 .. 0 = {} /\ \A k, l \in 1 .. 0 + 1 : ~ (k < l)
      OBVIOUS
    <3>4. ASSUME NEW q \in Qps \ {r}, NEW k \in 1 .. 0 + 1
          PROVE  Resps(q, << >>, k) = Resps(q, << >>, e[k])
      <4>1. k = 1 /\ e[k] = 1
        BY <3>2
      <4> QED
        BY ONLY <4>1
    <3>5. Left(<< >>, << >>, r, e)
      BY ONLY <3>2, <3>3, <3>4 DEF Left
    <3> QED
      BY <3>1, <3>5
  <2>2. CASE m # 0
    <3>1. PICK p \in Seq(Cqe), x \in Cqe : s = Append(p, x) /\ Len(p) = m - 1
      <4>1. /\ SubSeq(s, 1, m - 1) \in Seq(Cqe) /\ s[m] \in Cqe
            /\ s = Append(SubSeq(s, 1, m - 1), s[m]) /\ Len(SubSeq(s, 1, m - 1)) = m - 1
        BY <1>1, <2>2
      <4> QED
        BY ONLY <4>1
    <3>2. PICK e : Left(Without(p, r), p, r, e)
      <4>1. m - 1 \in Good
        BY <1>1, <2>2
      <4> QED
        BY <3>1, <4>1
    <3>3. EndsWith(s, p, x, r)
      BY <3>1, WithoutLast
    <3>4. CASE x.rsn = r
      <4>1. Without(s, r) = Without(p, r)
        BY ONLY <3>3, <3>4 DEF EndsWith
      <4>2. \E h : Left(Without(p, r), s, r, h)
        BY <1>0, <3>1, <3>2, <3>4, LeftDropped
      <4> QED
        BY ONLY <4>1, <4>2
    <3>5. CASE x.rsn # r
      <4>1. Without(s, r) = Append(Without(p, r), x)
        BY ONLY <3>3, <3>5 DEF EndsWith
      <4>2. \E h : Left(Without(s, r), s, r, h)
        BY <1>0, <3>1, <3>2, <3>5, <4>1, LeftKept
      <4> QED
        BY ONLY <4>2
    <3> QED
      BY <3>4, <3>5
  <2> QED
    BY <2>1, <2>2
<1>2. \A m \in Nat : m \in Good
  <2>1. \A m \in Nat : (\A j \in 0 .. m - 1 : j \in Good) => m \in Good
    BY <1>1
  <2> HIDE DEF Good
  <2> QED
    BY <2>1, AllNumbers
<1>3. Len(f) \in Good
  BY <1>2
<1> QED
  BY <1>0, <1>3

-----------------------------------------------------------------------------
(***************************************************************************)
(* The books of a receive queue: v is its indices and wr_ids, R its open   *)
(* receives, f the CQ, k the card's counter, d the doorbell.               *)
(***************************************************************************)

Receive == [id : Nums]

RqType == [head : Nums, tail : Nums, wrid : [Slots -> Nums]]

(* The CQEs of receives of QP q are about those numbered from tail on, n of *)
(* them at most.                                                            *)
Filled(q, f, tail, n) ==
  \A j \in 1 .. Len(f) :
    IsResp(q, f[j]) => f[j].of = Num(tail, Resps(q, f, j)) /\ Resps(q, f, j) < n

(* The wr_id of each receive is where its number says. *)
Listed(v, R) == \A j \in 1 .. Len(R) : v.wrid[R[j].id % RqCnt] = R[j].id

RecvBook(q, v, R, f, k, d, live) ==
  /\ Len(R) <= RqCnt
  /\ Numbered(R, v.tail)
  /\ Listed(v, R)
  /\ v.head = Num(v.tail, Len(R))
  /\ Filled(q, f, v.tail, Len(R))
  /\ Resps(q, f, Len(f) + 1) <= Len(R)
  /\ live => k = Num(v.tail, Resps(q, f, Len(f) + 1)) /\ d = v.head

(* Fields of a receive queue. *)
LEMMA RqFields ==
  ASSUME NEW v \in RqType
  PROVE  /\ v.head \in Nat /\ v.tail \in Nat
         /\ v.head \in Nums /\ v.tail \in Nums
         /\ v.wrid \in [Slots -> Nums]
BY Constants DEF RqType, Nums

(* The slot of a number. *)
LEMMA SlotIs ==
  ASSUME NEW t \in Nat, NEW j \in Nat
  PROVE  /\ Num(t, j) % RqCnt = (t + j) % RqCnt
         /\ Num(t, j) % RqCnt \in Slots
<1>1. t + j \in Int /\ RqCnt \in Nat \ {0} /\ NumMod \in Nat \ {0} /\ NumMod % RqCnt = 0
  BY Constants
<1>2. ((t + j) % NumMod) % RqCnt = (t + j) % RqCnt
  BY ONLY <1>1, ModOfMod
<1>3. (t + j) % RqCnt \in 0 .. RqCnt - 1
  BY ONLY <1>1, IntDivMod
<1> QED
  BY ONLY <1>2, <1>3 DEF Num, Slots

(* The open receives, as mlx5_wq_overflow counts. *)
LEMMA RecvRoom ==
  ASSUME NEW v \in RqType, NEW R \in Seq(Receive), v.head = Num(v.tail, Len(R)),
         Len(R) <= RqCnt
  PROVE  (v.head - v.tail) % NumMod = Len(R)
<1>1. PICK L \in Nat, h \in Nat, t \in Nat : L = Len(R) /\ h = v.head /\ t = v.tail
  BY RqFields
<1>2. NumMod \in Nat \ {0} /\ L \in 0 .. NumMod - 1 /\ L \in Int /\ t \in Int /\ h \in Int
  BY <1>1, Constants
<1>3. h % NumMod = (t + L) % NumMod
  <2>1. h \in Nums
    BY <1>1, RqFields
  <2>2. Num(h, 0) = h
    BY <2>1, NumType
  <2>3. h + 0 = h
    OBVIOUS
  <2> QED
    BY ONLY <1>1, <2>2, <2>3, v.head = Num(v.tail, Len(R)) DEF Num
<1>4. (h - t) % NumMod = L
  <2>1. NumMod \in Nat \ {0} /\ L \in Int /\ t \in Int /\ L \in 0 .. NumMod - 1 /\ h \in Int
    BY ONLY <1>2
  <2>2. Ahead(h, t, NumMod, L)
    BY ONLY <1>3, <2>1, ModDifference
  <2> QED
    BY ONLY <2>2, Zenon DEF Ahead
<1> QED
  BY ONLY <1>1, <1>4, Zenon

(* A receive is posted. *)
LEMMA RecvPosted ==
  ASSUME NEW q, NEW v \in RqType, NEW R \in Seq(Receive), NEW f \in Seq(Cqe),
         NEW k, NEW d, RecvBook(q, v, R, f, k, d, TRUE), ~ Overflow(v, 0, RqCnt),
         NEW w, w.wrid = [v.wrid EXCEPT ![v.head % RqCnt] = v.head],
         w.head = Num(v.head, 1), w.tail = v.tail,
         NEW x, x = [id |-> v.head], NEW T, T = Append(R, x), NEW e, e = w.head
  PROVE  RecvBook(q, w, T, f, k, e, TRUE)
<1>1. PICK L \in Nat, h \in Nat, t \in Nat : L = Len(R) /\ h = v.head /\ t = v.tail
  BY RqFields
<1>2. /\ L <= RqCnt /\ Numbered(R, t) /\ Listed(v, R) /\ h = Num(t, L)
      /\ Filled(q, f, t, L) /\ Resps(q, f, Len(f) + 1) <= L
      /\ k = Num(t, Resps(q, f, Len(f) + 1))
  BY <1>1 DEF RecvBook
<1>3. L < RqCnt
  <2>1. (v.head - v.tail) % NumMod = L
    BY <1>1, <1>2, RecvRoom
  <2>2. (h - t) % NumMod = L /\ h - t + 0 = h - t
    BY ONLY <1>1, <2>1, h \in Nat, t \in Nat
  <2>3. ~ ((h - t + 0) % NumMod >= RqCnt)
    BY ONLY <1>1, ~ Overflow(v, 0, RqCnt) DEF Overflow
  <2> QED
    BY ONLY <2>2, <2>3, Constants, L \in Nat
<1>4. Len(T) = L + 1 /\ T[L + 1] = x /\ \A j \in 1 .. L : T[j] = R[j]
  BY <1>1
<1>5. Numbered(T, t)
  <2>1. x.id = Num(t, Len(R))
    BY <1>1, <1>2
  <2> QED
    BY <1>2, <2>1, NumberedAppended
<1>6. ASSUME NEW j \in 1 .. L + 1 PROVE w.wrid[T[j].id % RqCnt] = T[j].id
  <2>0. v.wrid \in [Slots -> Nums] /\ h % RqCnt = (t + L) % RqCnt /\ h % RqCnt \in Slots
    <3>1. Num(t, L) % RqCnt = (t + L) % RqCnt /\ Num(t, L) % RqCnt \in Slots
      BY ONLY SlotIs, t \in Nat, L \in Nat
    <3>2. v.wrid \in [Slots -> Nums]
      BY RqFields
    <3> QED
      BY ONLY <1>2, <3>1, <3>2
  <2>1. CASE j = L + 1
    <3>1. T[j].id = h
      BY <1>1, <1>4, <2>1
    <3>2. w.wrid[h % RqCnt] = h
      BY <1>1, <2>0
    <3> QED
      BY ONLY <3>1, <3>2
  <2>2. CASE j # L + 1
    <3>1. PICK i \in Nat : i = j - 1 /\ j \in 1 .. L /\ i < L
      BY <2>2
    <3>2. R[j].id = Num(t, i)
      BY <1>1, <1>2, <3>1 DEF Numbered
    <3>3. R[j].id % RqCnt = (t + i) % RqCnt /\ R[j].id % RqCnt \in Slots
      BY <3>2, SlotIs
    <3>4. (t + i) % RqCnt # (t + L) % RqCnt
      <4> SUFFICES ASSUME (t + i) % RqCnt = (t + L) % RqCnt PROVE FALSE
        OBVIOUS
      <4>1. /\ t + i \in Int /\ t + L \in Int /\ t + i <= t + L /\ (t + L) - (t + i) < RqCnt
            /\ RqCnt \in Nat \ {0} /\ t + i # t + L
        BY <1>3, <3>1, Constants
      <4> QED
        BY ONLY <4>1, ModApart, (t + i) % RqCnt = (t + L) % RqCnt
    <3>5. v.wrid[R[j].id % RqCnt] = R[j].id
      BY <1>1, <1>2, <3>1 DEF Listed
    <3>6. T[j] = R[j]
      BY <1>4, <3>1
    <3>7. w.wrid = [v.wrid EXCEPT ![h % RqCnt] = h]
      BY <1>1
    <3> QED
      BY ONLY <2>0, <3>3, <3>4, <3>5, <3>6, <3>7
  <2> QED
    BY <2>1, <2>2
<1>7. w.head = Num(t, L + 1) /\ w.tail = t
  <2>1. t \in Int /\ L \in Int /\ 1 \in Int
    OBVIOUS
  <2>2. Num(Num(t, L), 1) = Num(t, L + 1)
    BY ONLY <2>1, NumNum
  <2> QED
    BY <1>1, <1>2, <2>2
<1>8. Filled(q, f, t, L + 1)
  <2>1. \A j \in 1 .. Len(f) : IsResp(q, f[j]) => Resps(q, f, j) < L + 1
    <3>1. ASSUME NEW j \in 1 .. Len(f), IsResp(q, f[j]) PROVE Resps(q, f, j) < L + 1
      <4>1. Resps(q, f, j) < L
        BY <1>2, <3>1 DEF Filled
      <4>2. Resps(q, f, j) \in Nat
        <5>1. j \in Nat \ {0}
          OBVIOUS
        <5> QED
          BY <5>1, RespsNext
      <4> QED
        BY ONLY <4>1, <4>2, L \in Nat
    <3> QED
      BY <3>1
  <2> QED
    BY <1>2, <2>1 DEF Filled
<1>9. Resps(q, f, Len(f) + 1) <= L + 1 /\ L + 1 <= RqCnt
  <2>1. PICK z : z = Resps(q, f, Len(f) + 1)
    OBVIOUS
  <2>2. z <= L /\ L + 1 <= RqCnt
    BY <1>2, <1>3, <2>1, Constants
  <2>3. z \in Nat
    <3>1. Len(f) + 1 \in Nat \ {0}
      OBVIOUS
    <3> QED
      BY <2>1, <3>1, RespsNext
  <2> QED
    BY ONLY <2>1, <2>2, <2>3, L \in Nat
<1> QED
  BY ONLY <1>2, <1>4, <1>5, <1>6, <1>7, <1>8, <1>9, e = w.head DEF RecvBook, Listed

(* The card's counter leads to the receive z places after the tail. *)
Fills(v, R, k, z) == z \in 0 .. Len(R) - 1 /\ v.wrid[k % RqCnt] = Num(v.tail, z)

(* The receive the card fills is the next one. *)
LEMMA RecvNext ==
  ASSUME NEW q, NEW v \in RqType, NEW R \in Seq(Receive), NEW f \in Seq(Cqe),
         NEW k, NEW d, RecvBook(q, v, R, f, k, d, TRUE), k # d,
         NEW z, z = Resps(q, f, Len(f) + 1)
  PROVE  Fills(v, R, k, z)
<1>1. PICK L \in Nat, t \in Nat, n \in Nat : L = Len(R) /\ t = v.tail /\ n = Len(f)
  BY RqFields
<1>2. /\ Numbered(R, t) /\ Listed(v, R) /\ v.head = Num(t, L) /\ z <= L
      /\ k = Num(t, z) /\ d = v.head
  BY <1>1 DEF RecvBook
<1>3. z \in Nat
  <2>1. n + 1 \in Nat \ {0}
    OBVIOUS
  <2> QED
    BY <1>1, <2>1, RespsNext
<1>4. z < L
  BY ONLY <1>2, <1>3, L \in Nat, k # d
<1>5. PICK j \in Nat : j = z + 1 /\ j - 1 = z /\ j \in 1 .. L
  BY ONLY <1>3, <1>4, L \in Nat
<1>6. R[j].id = Num(t, z)
  BY <1>1, <1>2, <1>5 DEF Numbered
<1>7. v.wrid[R[j].id % RqCnt] = R[j].id
  BY <1>1, <1>2, <1>5 DEF Listed
<1>8. v.wrid[k % RqCnt] = Num(t, z)
  BY ONLY <1>2, <1>6, <1>7
<1> QED
  BY ONLY <1>1, <1>3, <1>4, <1>8, L \in Nat DEF Fills

(* The card fills it. *)
LEMMA RecvFilled ==
  ASSUME NEW q, NEW v \in RqType, NEW R \in Seq(Receive), NEW f \in Seq(Cqe),
         NEW k, NEW d, RecvBook(q, v, R, f, k, d, TRUE), k # d,
         NEW e \in Cqe, IsResp(q, e), e.of = v.wrid[k % RqCnt],
         NEW w, w = Append(f, e), NEW x, x = Num(k, 1)
  PROVE  RecvBook(q, v, R, w, x, d, TRUE)
<1>1. PICK L \in Nat, t \in Nat, n \in Nat, m \in Nat \ {0}, m2 \in Nat :
        L = Len(R) /\ t = v.tail /\ n = Len(f) /\ m = n + 1 /\ m2 = m + 1
  <2>1. v.tail \in Nat
    BY RqFields
  <2>2. Len(R) \in Nat /\ Len(f) \in Nat /\ Len(f) + 1 \in Nat \ {0}
    OBVIOUS
  <2> QED
    BY ONLY <2>1, <2>2
<1>2. PICK z \in Nat : z = Resps(q, f, m) /\ z < L /\ v.wrid[k % RqCnt] = Num(t, z)
  <2>1. PICK z : z = Resps(q, f, Len(f) + 1)
    OBVIOUS
  <2>2. Fills(v, R, k, z)
    BY ONLY <2>1, RecvNext, v \in RqType, R \in Seq(Receive), f \in Seq(Cqe),
            RecvBook(q, v, R, f, k, d, TRUE), k # d
  <2>3. z \in Nat /\ z < L
    BY ONLY <1>1, <2>2, L \in Nat DEF Fills
  <2> QED
    BY ONLY <1>1, <2>1, <2>2, <2>3 DEF Fills
<1>3. /\ L <= RqCnt /\ Numbered(R, t) /\ Listed(v, R) /\ v.head = Num(t, L)
      /\ Filled(q, f, t, L)
      /\ k = Num(t, z) /\ d = v.head
  BY <1>1, <1>2 DEF RecvBook
<1>4. Len(w) = m /\ w[m] = e /\ \A j \in 1 .. n : w[j] = f[j]
  BY <1>1
<1>5. \A j \in 1 .. m : Resps(q, w, j) = Resps(q, f, j)
  <2>1. ASSUME NEW j \in 1 .. m PROVE Resps(q, w, j) = Resps(q, f, j)
    <3>1. j \in Nat /\ \A i \in 1 .. j - 1 : w[i] = f[i]
      BY <1>1, <1>4
    <3> QED
      BY ONLY <3>1, RespsSame
  <2> QED
    BY <2>1
<1>6. Resps(q, w, m2) = z + 1
  <2>1. OneFurther(q, w, m, m2)
    BY <1>1, RespsNext
  <2>2. IsResp(q, w[m]) /\ m \in 1 .. m
    BY <1>4
  <2> QED
    BY ONLY <1>2, <1>5, <2>1, <2>2 DEF OneFurther
<1>7. Filled(q, w, t, L)
  <2>1. ASSUME NEW j \in 1 .. m, IsResp(q, w[j])
        PROVE  w[j].of = Num(t, Resps(q, w, j)) /\ Resps(q, w, j) < L
    <3>1. CASE j = m
      <4>1. Resps(q, w, j) = z
        BY <1>2, <1>5, <3>1
      <4>2. w[j].of = Num(t, z)
        BY <1>2, <1>4, <3>1
      <4> QED
        BY ONLY <1>2, <4>1, <4>2
    <3>2. CASE j # m
      <4>1. j \in 1 .. n
        BY <1>1, <3>2
      <4>2. IsResp(q, f[j]) /\ w[j] = f[j]
        BY <1>4, <2>1, <4>1
      <4>3. f[j].of = Num(t, Resps(q, f, j)) /\ Resps(q, f, j) < L
        BY <1>1, <1>3, <4>1, <4>2 DEF Filled
      <4> QED
        BY ONLY <1>5, <4>2, <4>3, j \in 1 .. m
    <3> QED
      BY <3>1, <3>2
  <2> QED
    BY ONLY <1>4, <2>1 DEF Filled
<1>8. x = Num(t, z + 1)
  <2>1. t \in Int /\ z \in Int /\ 1 \in Int
    OBVIOUS
  <2>2. Num(Num(t, z), 1) = Num(t, z + 1)
    BY ONLY <2>1, NumNum
  <2> QED
    BY ONLY <1>3, <2>2, x = Num(k, 1)
<1>9. z + 1 <= L
  BY <1>2
<1> QED
  BY ONLY <1>1, <1>3, <1>4, <1>6, <1>7, <1>8, <1>9 DEF RecvBook

(* A CQE that is not about a receive of QP q changes nothing. *)
LEMMA RecvPutOther ==
  ASSUME NEW q, NEW v \in RqType, NEW R \in Seq(Receive), NEW f \in Seq(Cqe),
         NEW k, NEW d, NEW live, RecvBook(q, v, R, f, k, d, live),
         NEW e \in Cqe, ~ IsResp(q, e), NEW w, w = Append(f, e)
  PROVE  RecvBook(q, v, R, w, k, d, live)
<1>1. PICK n \in Nat, m \in Nat \ {0}, m2 \in Nat : n = Len(f) /\ m = n + 1 /\ m2 = m + 1
  OBVIOUS
<1>2. Len(w) = m /\ w[m] = e /\ \A j \in 1 .. n : w[j] = f[j]
  BY <1>1
<1>3. \A j \in 1 .. m : Resps(q, w, j) = Resps(q, f, j)
  <2>1. ASSUME NEW j \in 1 .. m PROVE Resps(q, w, j) = Resps(q, f, j)
    <3>1. j \in Nat /\ \A i \in 1 .. j - 1 : w[i] = f[i]
      BY <1>1, <1>2
    <3> QED
      BY ONLY <3>1, RespsSame
  <2> QED
    BY <2>1
<1>4. Resps(q, w, m2) = Resps(q, f, m)
  <2>1. OneFurther(q, w, m, m2)
    BY <1>1, RespsNext
  <2>2. ~ IsResp(q, w[m]) /\ m \in 1 .. m
    BY <1>2
  <2> QED
    BY ONLY <1>3, <2>1, <2>2 DEF OneFurther
<1>5. ASSUME NEW t, NEW L, Filled(q, f, t, L) PROVE Filled(q, w, t, L)
  <2>1. ASSUME NEW j \in 1 .. m, IsResp(q, w[j])
        PROVE  w[j].of = Num(t, Resps(q, w, j)) /\ Resps(q, w, j) < L
    <3>1. j \in 1 .. n
      <4>1. j # m
        BY <1>2, <2>1
      <4> QED
        BY <1>1, <4>1
    <3>2. IsResp(q, f[j]) /\ w[j] = f[j]
      BY <1>2, <2>1, <3>1
    <3>3. f[j].of = Num(t, Resps(q, f, j)) /\ Resps(q, f, j) < L
      BY <1>1, <1>5, <3>1, <3>2 DEF Filled
    <3> QED
      BY ONLY <1>3, <3>2, <3>3, j \in 1 .. m
  <2> QED
    BY ONLY <1>2, <2>1 DEF Filled
<1> QED
  BY ONLY <1>1, <1>2, <1>4, <1>5, RecvBook(q, v, R, f, k, d, live) DEF RecvBook

(* The first CQE is polled, and is not about a receive of QP q. *)
LEMMA RecvTail ==
  ASSUME NEW q, NEW v \in RqType, NEW R \in Seq(Receive), NEW f \in Seq(Cqe), f # << >>,
         NEW k, NEW d, NEW live, RecvBook(q, v, R, f, k, d, live), ~ IsResp(q, f[1]),
         NEW w, w = Tail(f)
  PROVE  RecvBook(q, v, R, w, k, d, live)
<1>1. PICK n \in Nat \ {0} : n = Len(f)
  OBVIOUS
<1>2. Len(w) = n - 1 /\ \A j \in 1 .. n - 1 : w[j] = f[j + 1]
  BY <1>1
<1>3. \A j \in 1 .. n : Resps(q, w, j) = Resps(q, f, j + 1)
  <2>1. ASSUME NEW j \in 1 .. n PROVE Resps(q, w, j) = Resps(q, f, j + 1)
    <3>1. LessOne(q, f, j)
      BY <1>1, RespsTail
    <3> QED
      BY ONLY <3>1, ~ IsResp(q, f[1]), w = Tail(f) DEF LessOne
  <2> QED
    BY <2>1
<1>4. ASSUME NEW t, NEW L, Filled(q, f, t, L) PROVE Filled(q, w, t, L)
  <2>1. ASSUME NEW j \in 1 .. n - 1, IsResp(q, w[j])
        PROVE  w[j].of = Num(t, Resps(q, w, j)) /\ Resps(q, w, j) < L
    <3>1. j \in 1 .. n /\ j + 1 \in 1 .. n
      OBVIOUS
    <3>2. IsResp(q, f[j + 1]) /\ w[j] = f[j + 1]
      BY <1>2, <2>1
    <3>3. f[j + 1].of = Num(t, Resps(q, f, j + 1)) /\ Resps(q, f, j + 1) < L
      BY <1>1, <1>4, <3>1, <3>2 DEF Filled
    <3> QED
      BY ONLY <1>3, <3>1, <3>2, <3>3
  <2> QED
    BY ONLY <1>2, <2>1 DEF Filled
<1>5. Resps(q, w, (n - 1) + 1) = Resps(q, f, n + 1)
  <2>1. n \in 1 .. n /\ (n - 1) + 1 = n
    OBVIOUS
  <2> QED
    BY ONLY <1>3, <2>1
<1> QED
  BY ONLY <1>1, <1>2, <1>4, <1>5, RecvBook(q, v, R, f, k, d, live) DEF RecvBook

(* The first CQE of f leads to the oldest receive, and leaves the others.   *)
ReceiveGone(q, x, R, T, f, w, k, d, live) ==
  RecvBook(q, x, T, w, k, d, live) /\ IndexOf(R, f[1].of) = 1

(* It is about the oldest receive of QP q, which is released. *)
LEMMA RecvPolled ==
  ASSUME NEW q, NEW v \in RqType, NEW R \in Seq(Receive), NEW f \in Seq(Cqe), f # << >>,
         NEW k, NEW d, NEW live, RecvBook(q, v, R, f, k, d, live), IsResp(q, f[1]),
         NEW w, w = Tail(f), NEW z, z = Num(v.tail, 1),
         NEW x, x = [v EXCEPT !.tail = z], NEW T, T = SubSeq(R, 2, Len(R))
  PROVE  ReceiveGone(q, x, R, T, f, w, k, d, live)
<1>1. PICK n \in Nat \ {0}, L \in Nat, t \in Nat :
        n = Len(f) /\ L = Len(R) /\ t = v.tail
  <2>1. v.tail \in Nat
    BY RqFields
  <2> QED
    BY ONLY <2>1, R \in Seq(Receive), f \in Seq(Cqe), f # << >>
<1>2. /\ L <= RqCnt /\ Numbered(R, t) /\ Listed(v, R) /\ v.head = Num(t, L)
      /\ Filled(q, f, t, L) /\ Resps(q, f, n + 1) <= L
      /\ live => k = Num(t, Resps(q, f, n + 1)) /\ d = v.head
  BY <1>1 DEF RecvBook
<1>3. L >= 1 /\ f[1].of = Num(t, 0)
  <2>1. 1 \in 1 .. n
    OBVIOUS
  <2>2. Resps(q, f, 1) = 0
    BY RespsFirst
  <2> QED
    BY <1>1, <1>2, <2>1, <2>2 DEF Filled
<1>4. Len(w) = n - 1 /\ \A j \in 1 .. n - 1 : w[j] = f[j + 1]
  BY <1>1
<1>5. \A j \in 1 .. n : Resps(q, f, j + 1) = Resps(q, w, j) + 1 /\ Resps(q, w, j) \in Nat
  <2>1. ASSUME NEW j \in 1 .. n
        PROVE  Resps(q, f, j + 1) = Resps(q, w, j) + 1 /\ Resps(q, w, j) \in Nat
    <3>1. LessOne(q, f, j)
      BY <1>1, RespsTail
    <3>2. Resps(q, w, j) \in Nat
      BY RespsNext
    <3> QED
      BY ONLY <3>1, <3>2, IsResp(q, f[1]), w = Tail(f) DEF LessOne
  <2> QED
    BY <2>1
<1>6. Len(T) = L - 1 /\ \A j \in 1 .. L - 1 : T[j] = R[j + 1]
  BY <1>1, <1>3
<1>7. Numbered(T, z)
  <2>1. PICK i \in Nat : i = 1
    OBVIOUS
  <2>2. t \in Int /\ i \in 1 .. Len(R) /\ z = Num(t, i) /\ T = SubSeq(R, i + 1, Len(R))
    BY <1>1, <1>3, <2>1
  <2> QED
    BY ONLY <1>2, <2>2, NumberedReleased, R \in Seq(Receive)
<1>8. ASSUME NEW a \in Nat, NEW b, b = a + 1 PROVE Num(z, a) = Num(t, b)
  <2>1. t \in Int /\ a \in Int /\ 1 \in Int /\ b = 1 + a
    BY <1>8
  <2>2. Num(Num(t, 1), a) = Num(t, b)
    BY ONLY <2>1, NumNum
  <2> QED
    BY <1>1, <2>2
<1>9. x.tail = z /\ x.head = v.head /\ x.wrid = v.wrid
  BY DEF RqType
<1>10. Listed(x, T)
  <2>1. ASSUME NEW j \in 1 .. L - 1 PROVE x.wrid[T[j].id % RqCnt] = T[j].id
    <3>1. j + 1 \in 1 .. L
      OBVIOUS
    <3> QED
      BY <1>1, <1>2, <1>6, <1>9, <3>1 DEF Listed
  <2> QED
    BY ONLY <1>6, <2>1 DEF Listed
<1>11. x.head = Num(z, L - 1)
  <2>1. L - 1 \in Nat /\ L = (L - 1) + 1
    BY <1>3
  <2>2. Num(z, L - 1) = Num(t, L)
    BY ONLY <1>8, <2>1
  <2> QED
    BY ONLY <1>2, <1>9, <2>2
<1>12. Filled(q, w, z, L - 1)
  <2>1. ASSUME NEW j \in 1 .. n - 1, IsResp(q, w[j])
        PROVE  w[j].of = Num(z, Resps(q, w, j)) /\ Resps(q, w, j) < L - 1
    <3>1. j \in 1 .. n /\ j + 1 \in 1 .. n
      OBVIOUS
    <3>2. IsResp(q, f[j + 1]) /\ w[j] = f[j + 1]
      BY <1>4, <2>1
    <3>3. f[j + 1].of = Num(t, Resps(q, f, j + 1)) /\ Resps(q, f, j + 1) < L
      BY <1>1, <1>2, <3>1, <3>2 DEF Filled
    <3>4. PICK a \in Nat, b \in Nat : /\ a = Resps(q, w, j) /\ b = Resps(q, f, j + 1)
                                      /\ b = a + 1
      BY ONLY <1>5, <3>1
    <3>5. Num(z, a) = Num(t, b)
      BY ONLY <1>8, <3>4, a \in Nat
    <3>6. a < L - 1
      BY ONLY <3>3, <3>4, L \in Nat
    <3> QED
      BY ONLY <3>2, <3>3, <3>4, <3>5, <3>6
  <2> QED
    BY ONLY <1>4, <2>1 DEF Filled
<1>13. PICK a \in Nat, b \in Nat :
         a = Resps(q, w, (n - 1) + 1) /\ b = Resps(q, f, n + 1) /\ b = a + 1
  <2>1. n \in 1 .. n /\ (n - 1) + 1 = n
    OBVIOUS
  <2>2. Resps(q, f, n + 1) = Resps(q, w, n) + 1 /\ Resps(q, w, n) \in Nat
    BY ONLY <1>5, <2>1
  <2> QED
    BY ONLY <2>1, <2>2
<1>14. a <= L - 1 /\ L - 1 <= RqCnt
  BY ONLY <1>2, <1>3, <1>13, Constants, L \in Nat, a \in Nat, b \in Nat
<1>15. live => k = Num(z, a) /\ d = x.head
  <2>1. Num(z, a) = Num(t, b)
    BY ONLY <1>8, <1>13, a \in Nat
  <2> QED
    BY ONLY <1>2, <1>9, <1>13, <2>1
<1>16. RecvBook(q, x, T, w, k, d, live)
  BY ONLY <1>4, <1>6, <1>7, <1>9, <1>10, <1>11, <1>12, <1>13, <1>14, <1>15 DEF RecvBook
<1>17. IndexOf(R, f[1].of) = 1
  <2>1. PICK i \in Nat, id \in {f[1].of} : i = 1 /\ id = f[1].of
    OBVIOUS
  <2>2. i \in 1 .. Len(R) /\ Len(R) \in Nat /\ Len(R) <= NumMod
    BY <1>1, <1>2, <1>3, <2>1, Constants
  <2>3. id = R[i].id
    <3>1. i - 1 = 0
      BY <2>1
    <3>2. R[i].id = Num(t, i - 1)
      BY ONLY <1>2, <2>2 DEF Numbered
    <3> QED
      BY ONLY <1>3, <2>1, <3>1, <3>2
  <2>4. IndexOf(R, id) = i
    BY ONLY <1>2, <2>2, <2>3, FoundAt, t \in Nat
  <2> QED
    BY ONLY <2>1, <2>4
<1> QED
  BY <1>16, <1>17 DEF ReceiveGone

(* The CQEs of another QP are swept out. *)
LEMMA RecvSwept ==
  ASSUME NEW r, NEW q \in Qps \ {r}, NEW v, NEW R, NEW f \in Seq(Cqe),
         NEW k, NEW d, NEW live, RecvBook(q, v, R, f, k, d, live),
         NEW w \in Seq(Cqe), NEW e, Left(w, f, r, e)
  PROVE  RecvBook(q, v, R, w, k, d, live)
<1>1. PICK m \in Nat, n \in Nat : m = Len(w) /\ n = Len(f)
  OBVIOUS
<1>2. /\ e[m + 1] = n + 1
      /\ \A j \in 1 .. m : e[j] \in 1 .. n /\ w[j] = f[e[j]]
      /\ \A j \in 1 .. m + 1 : Resps(q, w, j) = Resps(q, f, e[j])
  BY <1>1 DEF Left
<1>3. ASSUME NEW t, NEW L, Filled(q, f, t, L) PROVE Filled(q, w, t, L)
  <2>1. ASSUME NEW j \in 1 .. m, IsResp(q, w[j])
        PROVE  w[j].of = Num(t, Resps(q, w, j)) /\ Resps(q, w, j) < L
    <3>1. j \in 1 .. m + 1
      OBVIOUS
    <3>2. e[j] \in 1 .. Len(f) /\ w[j] = f[e[j]] /\ Resps(q, w, j) = Resps(q, f, e[j])
      BY <1>1, <1>2, <3>1
    <3> QED
      BY ONLY <1>3, <2>1, <3>2 DEF Filled
  <2> QED
    BY ONLY <1>1, <2>1 DEF Filled
<1>4. Resps(q, w, m + 1) = Resps(q, f, n + 1)
  <2>1. m + 1 \in 1 .. m + 1
    OBVIOUS
  <2> QED
    BY ONLY <1>2, <2>1
<1> QED
  BY ONLY <1>1, <1>3, <1>4, RecvBook(q, v, R, f, k, d, live) DEF RecvBook

(* The QP is stopped. *)
LEMMA RecvStopped ==
  ASSUME NEW q, NEW v, NEW R, NEW f, NEW k, NEW d, NEW live,
         RecvBook(q, v, R, f, k, d, live), NEW x
  PROVE  RecvBook(q, v, R, f, x, d, FALSE)
BY DEF RecvBook

(* The QP starts again. *)
LEMMA RecvStarted ==
  ASSUME NEW q, NEW v, v.head = 0, v.tail = 0,
         NEW f \in Seq(Cqe), \A j \in 1 .. Len(f) : f[j].rsn # q
  PROVE  RecvBook(q, v, << >>, f, 0, 0, TRUE)
<1>1. Num(0, 0) = 0
  <2>1. 0 \in Nums
    BY Constants DEF Nums
  <2> QED
    BY ONLY <2>1, NumType
<1>2. \A j \in 1 .. Len(f) : ~ IsResp(q, f[j])
  BY DEF IsResp
<1>3. Resps(q, f, Len(f) + 1) = 0
  <2>1. PICK n \in Nat, m \in Nat : n = Len(f) /\ m = n + 1
    OBVIOUS
  <2>2. {j \in 1 .. m - 1 : IsResp(q, f[j])} = {}
    <3>1. m - 1 = n
      BY <2>1
    <3>2. \A j \in 1 .. m - 1 : ~ IsResp(q, f[j])
      BY ONLY <1>2, <2>1, <3>1
    <3> QED
      BY ONLY <3>2, Zenon
  <2>3. Cardinality({}) = 0
    BY FS_EmptySet
  <2>4. Resps(q, f, m) = 0
    BY ONLY <2>2, <2>3 DEF Resps
  <2> QED
    BY ONLY <2>1, <2>4
<1>4. /\ Numbered(<< >>, 0) /\ Listed(v, << >>) /\ Filled(q, f, 0, 0)
  BY <1>2 DEF Numbered, Listed, Filled
<1>5. Len(<< >>) = 0 /\ 0 <= RqCnt
  BY Constants
<1> QED
  BY ONLY <1>1, <1>3, <1>4, <1>5, v.head = 0, v.tail = 0 DEF RecvBook

-----------------------------------------------------------------------------
(***************************************************************************)
(* The inductive invariant.  The histories have their types; the books of  *)
(* each QP are right, unless its CQEs have been swept out and its indices  *)
(* not yet started again; and of a QP that is stopped nothing is being     *)
(* posted, nor is anything with the card.                                  *)
(***************************************************************************)

QueueTypes ==
  /\ sq \in [Qps -> SqType]
  /\ rq \in [Qps -> RqType]
  /\ nreq \in [Qps -> 0 .. ListMax]
  /\ db \in [Qps -> [snd : Ctrs, rcv : Nums]]
  /\ card \in [Qps -> [sent : Ctrs, received : Nums, error : BOOLEAN]]
  /\ reset \in [Qps -> {"no", "stopped", "clean"}]
  /\ fifo \in Seq(Cqe)
  /\ sends \in [Qps -> Seq(Request)]
  /\ recvs \in [Qps -> Seq(Receive)]

Booked(q, u, S, f, n, d, k, live) ==
  \E at, g, c : c \in Nat /\ SendBook(q, u, S, f, n, d, k, live, at, c, g)

SendsBooked(q) ==
  reset[q] # "clean" =>
    Booked(q, sq[q], sends[q], fifo, nreq[q], db[q].snd, card[q].sent, reset[q] = "no")

RecvsBooked(q) ==
  reset[q] # "clean" =>
    RecvBook(q, rq[q], recvs[q], fifo, card[q].received, db[q].rcv, reset[q] = "no")

Halted(q) ==
  /\ reset[q] # "no" => nreq[q] = 0 /\ card[q] = NewCard
  /\ reset[q] = "clean" => \A j \in 1 .. Len(fifo) : fifo[j].rsn # q

QpInv(q) == SendsBooked(q) /\ RecvsBooked(q) /\ Halted(q)

QueueInv == QueueTypes /\ \A q \in Qps : QpInv(q)

(* The types of the state, for one QP. *)
LEMMA QpTypes ==
  ASSUME QueueTypes, NEW q \in Qps
  PROVE  /\ sq[q] \in SqType /\ rq[q] \in RqType /\ nreq[q] \in 0 .. ListMax
         /\ nreq[q] \in Nat /\ db[q] \in [snd : Ctrs, rcv : Nums]
         /\ card[q] \in [sent : Ctrs, received : Nums, error : BOOLEAN]
         /\ reset[q] \in {"no", "stopped", "clean"}
         /\ sends[q] \in Seq(Request) /\ recvs[q] \in Seq(Receive)
BY Constants DEF QueueTypes

(* A counter of blocks wraps. *)
LEMMA AddType ==
  ASSUME NEW a \in Int, NEW b \in Int
  PROVE  Add(a, b) \in Ctrs
<1>1. a + b \in Int /\ CtrMod \in Nat \ {0}
  BY Constants
<1>2. (a + b) % CtrMod \in 0 .. CtrMod - 1
  BY ONLY <1>1, IntDivMod
<1> QED
  BY ONLY <1>2 DEF Add, Ctrs

(* A QP of which nothing changes. *)
LEMMA Untouched ==
  ASSUME NEW q, QpInv(q), sq'[q] = sq[q], rq'[q] = rq[q], nreq'[q] = nreq[q],
         db'[q] = db[q], card'[q] = card[q], reset'[q] = reset[q],
         sends'[q] = sends[q], recvs'[q] = recvs[q], fifo' = fifo
  PROVE  QpInv(q)'
<1>1. SendsBooked(q)'
  BY DEF QpInv, SendsBooked
<1>2. RecvsBooked(q)'
  BY DEF QpInv, RecvsBooked
<1>3. Halted(q)'
  BY DEF QpInv, Halted
<1> QED
  BY <1>1, <1>2, <1>3 DEF QpInv

(* The books of a QP that works. *)
LEMMA BooksOpen ==
  ASSUME NEW q, QpInv(q), reset[q] = "no"
  PROVE  /\ Booked(q, sq[q], sends[q], fifo, nreq[q], db[q].snd, card[q].sent, TRUE)
         /\ RecvBook(q, rq[q], recvs[q], fifo, card[q].received, db[q].rcv, TRUE)
<1>1. RecvBook(q, rq[q], recvs[q], fifo, card[q].received, db[q].rcv, TRUE)
  BY DEF QpInv, RecvsBooked, RecvBook
<1>2. PICK at, g, c : c \in Nat /\
        SendBook(q, sq[q], sends[q], fifo, nreq[q], db[q].snd, card[q].sent,
                 reset[q] = "no", at, c, g)
  BY DEF QpInv, SendsBooked, Booked
<1>3. SendBook(q, sq[q], sends[q], fifo, nreq[q], db[q].snd, card[q].sent, TRUE, at, c, g)
  BY <1>2 DEF SendBook
<1> QED
  BY <1>1, <1>2, <1>3 DEF Booked

(* They are the invariant of it. *)
LEMMA BooksKept ==
  ASSUME NEW q, reset'[q] = "no",
         Booked(q, sq'[q], sends'[q], fifo', nreq'[q], db'[q].snd, card'[q].sent, TRUE),
         RecvBook(q, rq'[q], recvs'[q], fifo', card'[q].received, db'[q].rcv, TRUE)
  PROVE  QpInv(q)'
<1>1. PICK at, g, c : c \in Nat /\
        SendBook(q, sq'[q], sends'[q], fifo', nreq'[q], db'[q].snd, card'[q].sent, TRUE,
                 at, c, g)
  BY DEF Booked
<1>2. SendBook(q, sq'[q], sends'[q], fifo', nreq'[q], db'[q].snd, card'[q].sent,
               reset'[q] = "no", at, c, g)
  BY <1>1 DEF SendBook
<1>3. SendsBooked(q)'
  BY <1>2 DEF SendsBooked, Booked
<1>4. RecvsBooked(q)'
  BY DEF RecvsBooked, RecvBook
<1>5. Halted(q)'
  BY DEF Halted
<1> QED
  BY <1>3, <1>4, <1>5 DEF QpInv

-----------------------------------------------------------------------------
(***************************************************************************)
(* Posting.                                                                *)
(***************************************************************************)

(* PostSendOne keeps the invariant. *)
LEMMA PostSendOneInv ==
  ASSUME QueueInv, NEW r \in Qps, NEW size \in WqeBlocks, NEW signaled \in BOOLEAN,
         PostSendOne(r, size, signaled)
  PROVE  QueueInv'
<1>1. QueueTypes /\ QpInv(r)
  BY DEF QueueInv
<1>2. PICK u, S, n, p, id : u = sq[r] /\ S = sends[r] /\ n = nreq[r]
                            /\ p = sq[r].scur_post /\ id = Num(u.head, n)
  OBVIOUS
<1>3. u \in SqType /\ S \in Seq(Request) /\ n \in Nat /\ p \in Ctrs /\ id \in Nums /\ p \in Nat
  <2>1. u \in SqType /\ S \in Seq(Request) /\ n \in Nat
    BY <1>1, <1>2, QpTypes
  <2>2. u.head \in Int /\ n \in Int /\ p \in Ctrs /\ p \in Nat
    BY <1>2, <2>1, SqFields
  <2> QED
    BY ONLY <1>2, <2>1, <2>2, NumType
<1>4. PICK wr : wr = [id |-> id, size |-> size, signaled |-> signaled]
  OBVIOUS
<1>5. wr \in Request /\ wr.id = id /\ wr.size = size /\ size \in Nat \ {0}
  BY <1>3, <1>4, Constants DEF Request
<1>6. PICK w, i, R : /\ i = p % SqBlocks
                     /\ R = [k \in Blocks |->
                               LET part == (k - p) % SqBlocks
                               IN  IF part < size THEN [id |-> id, part |-> part]
                                                  ELSE u.ring[k]]
                     /\ w = [u EXCEPT !.ring = R, !.wrid[i] = id, !.wqe_head[i] = id,
                                      !.scur_post = Add(p, size)]
  OBVIOUS
<1>7. /\ reset[r] = "no" /\ nreq[r] < ListMax /\ ~ Overflow(u, n, SqMaxPost)
      /\ sq' = [sq EXCEPT ![r] = w]
      /\ sends' = [sends EXCEPT ![r] = Append(S, wr)]
      /\ nreq' = [nreq EXCEPT ![r] = n + 1]
      /\ UNCHANGED <<rq, db, card, reset, fifo, recvs>>
  <2>1. /\ reset[r] = "no" /\ nreq[r] < ListMax /\ ~ Overflow(u, n, SqMaxPost)
        /\ UNCHANGED <<rq, db, card, reset, fifo, recvs>>
    BY <1>2 DEF PostSendOne
  <2>2. sends' = [sends EXCEPT ![r] = Append(S, wr)]
    BY <1>1, <1>2, <1>4 DEF PostSendOne, QueueTypes
  <2>3. nreq' = [nreq EXCEPT ![r] = n + 1]
    BY <1>1, <1>2 DEF PostSendOne, QueueTypes
  <2>4. sq' = [sq EXCEPT ![r] = w]
    <3>1. PICK y : /\ y = [u EXCEPT !.ring = R, !.wrid[i] = id, !.wqe_head[i] = id,
                                     !.scur_post = Add(@, size)]
      OBVIOUS
    <3>2. sq' = [sq EXCEPT ![r].ring = R, ![r].wrid[i] = id, ![r].wqe_head[i] = id,
                           ![r].scur_post = Add(@, size)]
      BY <1>2, <1>6 DEF PostSendOne
    <3>3. sq' = [sq EXCEPT ![r] = y]
      <4>1. sq \in [Qps -> SqType]
        BY <1>1 DEF QueueTypes
      <4> QED
        BY ONLY <1>2, <3>1, <3>2, <4>1, r \in Qps DEF SqType
    <3>4. y = w
      BY ONLY <1>2, <1>3, <1>6, <3>1 DEF SqType
    <3> QED
      BY <3>3, <3>4
  <2> QED
    BY ONLY <2>1, <2>2, <2>3, <2>4
<1>8. /\ Written(w, u, wr, p) /\ w.head = u.head /\ w.tail = u.tail
      /\ w.scur_post = Add(p, size)
  BY <1>3, <1>5, <1>6 DEF Written, SqType
<1>9. w \in SqType
  <2>1. R \in [Blocks -> [id : Nums, part : Nat]]
    <3>1. ASSUME NEW k \in Blocks PROVE (k - p) % SqBlocks \in Nat
      <4>1. k - p \in Int /\ SqBlocks \in Nat \ {0}
        BY <1>3, Constants DEF Blocks
      <4>2. (k - p) % SqBlocks \in 0 .. SqBlocks - 1
        BY ONLY <4>1, IntDivMod
      <4> QED
        BY <4>1, <4>2
    <3> QED
      BY <1>3, <1>6, <3>1 DEF SqType
  <2>2. Add(p, size) \in Ctrs
    BY <1>3, <1>5, AddType
  <2> QED
    BY ONLY <1>3, <1>6, <2>1, <2>2 DEF SqType
<1>10. QueueTypes'
  <2>1. sq' \in [Qps -> SqType]
    BY <1>1, <1>7, <1>9 DEF QueueTypes
  <2>2. sends' \in [Qps -> Seq(Request)]
    BY <1>1, <1>3, <1>5, <1>7 DEF QueueTypes
  <2>3. nreq' \in [Qps -> 0 .. ListMax]
    <3>1. n + 1 \in 0 .. ListMax
      BY <1>2, <1>3, <1>7, Constants
    <3> QED
      BY <1>1, <1>7, <3>1 DEF QueueTypes
  <2> QED
    BY <1>1, <1>7, <2>1, <2>2, <2>3 DEF QueueTypes
<1>11. QpInv(r)'
  <2>1. PICK at, g, c : c \in Nat /\
          SendBook(r, u, S, fifo, n, db[r].snd, card[r].sent, TRUE, at, c, g)
    BY <1>1, <1>2, <1>7, BooksOpen DEF Booked
  <2>2. PICK T, m, bt, d, k : /\ T = Append(S, wr) /\ m = n + 1
                              /\ bt = MorePlaces(at, S, wr.size)
                              /\ d = db[r].snd /\ k = card[r].sent
    OBVIOUS
  <2>3. SendBook(r, w, T, fifo, m, d, k, TRUE, bt, c, g)
    <3>1. SendBook(r, u, S, fifo, n, d, k, TRUE, at, c, g)
      BY ONLY <2>1, <2>2
    <3>2. /\ Written(w, u, wr, u.scur_post) /\ w.scur_post = Add(u.scur_post, wr.size)
          /\ wr.id = Num(u.head, n)
      BY ONLY <1>2, <1>5, <1>8
    <3> QED
      BY ONLY <1>3, <1>5, <1>7, <1>8, <2>2, <3>1, <3>2, BookPosted
  <2>4. Booked(r, sq'[r], sends'[r], fifo', nreq'[r], db'[r].snd, card'[r].sent, TRUE)
    <3>1. sq'[r] = w /\ sends'[r] = T /\ nreq'[r] = m
      BY <1>1, <1>7, <2>2 DEF QueueTypes
    <3>2. fifo' = fifo /\ db' = db /\ card' = card
      BY <1>7
    <3>3. Booked(r, w, T, fifo, m, d, k, TRUE)
      BY ONLY <2>1, <2>3 DEF Booked
    <3> QED
      BY ONLY <2>2, <3>1, <3>2, <3>3
  <2>5. RecvBook(r, rq'[r], recvs'[r], fifo', card'[r].received, db'[r].rcv, TRUE)
    BY <1>1, <1>7, BooksOpen
  <2>6. reset'[r] = "no"
    BY <1>7
  <2> QED
    BY ONLY <2>4, <2>5, <2>6, BooksKept
<1>12. ASSUME NEW q \in Qps, q # r PROVE QpInv(q)'
  <2>1. QpInv(q)
    BY DEF QueueInv
  <2>2. /\ sq'[q] = sq[q] /\ rq'[q] = rq[q] /\ nreq'[q] = nreq[q]
        /\ db'[q] = db[q] /\ card'[q] = card[q] /\ reset'[q] = reset[q]
        /\ sends'[q] = sends[q] /\ recvs'[q] = recvs[q] /\ fifo' = fifo
    BY <1>1, <1>7, <1>12 DEF QueueTypes
  <2> QED
    BY ONLY <2>1, <2>2, Untouched
<1> QED
  BY <1>10, <1>11, <1>12 DEF QueueInv

(* PostSendEnd keeps the invariant. *)
LEMMA PostSendEndInv ==
  ASSUME QueueInv, NEW r \in Qps, PostSendEnd(r)
  PROVE  QueueInv'
<1>1. QueueTypes /\ QpInv(r)
  BY DEF QueueInv
<1>2. PICK u, S, n, z, w : u = sq[r] /\ S = sends[r] /\ n = nreq[r] /\ z = Num(u.head, n)
                           /\ w = [u EXCEPT !.head = z]
  OBVIOUS
<1>3. u \in SqType /\ S \in Seq(Request) /\ n \in Nat /\ z \in Nums /\ u.scur_post \in Ctrs
  <2>1. u \in SqType /\ S \in Seq(Request) /\ n \in Nat
    BY <1>1, <1>2, QpTypes
  <2>2. u.head \in Int /\ n \in Int /\ u.scur_post \in Ctrs
    BY <2>1, SqFields
  <2> QED
    BY ONLY <1>2, <2>1, <2>2, NumType
<1>4. /\ n > 0
      /\ sq' = [sq EXCEPT ![r] = w]
      /\ db' = [db EXCEPT ![r].snd = u.scur_post]
      /\ nreq' = [nreq EXCEPT ![r] = 0]
      /\ UNCHANGED <<rq, card, reset, fifo, sends, recvs>>
  BY <1>1, <1>2 DEF PostSendEnd, QueueTypes
<1>5. reset[r] = "no"
  BY <1>1, <1>2, <1>4 DEF QpInv, Halted
<1>6. w \in SqType
  BY <1>2, <1>3 DEF SqType
<1>7. db'[r].snd = u.scur_post /\ db'[r].rcv = db[r].rcv
      /\ db' \in [Qps -> [snd : Ctrs, rcv : Nums]]
  <2>1. PICK y \in [snd : Ctrs, rcv : Nums] : y = [db[r] EXCEPT !.snd = u.scur_post]
    BY <1>1, <1>3, QpTypes
  <2>2. db' = [db EXCEPT ![r] = y] /\ db \in [Qps -> [snd : Ctrs, rcv : Nums]]
    BY <1>1, <1>4, <2>1 DEF QueueTypes
  <2> QED
    BY ONLY <2>1, <2>2, r \in Qps
<1>8. QueueTypes'
  <2>1. 0 \in 0 .. ListMax
    BY Constants
  <2> QED
    BY <1>1, <1>4, <1>6, <1>7, <2>1 DEF QueueTypes
<1>9. QpInv(r)'
  <2>1. PICK at, g, c : c \in Nat /\
          SendBook(r, u, S, fifo, n, db[r].snd, card[r].sent, TRUE, at, c, g)
    BY <1>1, <1>2, <1>5, BooksOpen DEF Booked
  <2>2. PICK d, e, k : d = db[r].snd /\ k = card[r].sent /\ e = u.scur_post
    OBVIOUS
  <2>3. SendBook(r, w, S, fifo, 0, e, k, TRUE, at, c, g)
    <3>1. SendBook(r, u, S, fifo, n, d, k, TRUE, at, c, g)
      BY ONLY <2>1, <2>2
    <3>2. w = [u EXCEPT !.head = Num(u.head, n)] /\ e = u.scur_post
      BY ONLY <1>2, <2>2
    <3> QED
      BY ONLY <1>3, <3>1, <3>2, BookRung
  <2>4. Booked(r, sq'[r], sends'[r], fifo', nreq'[r], db'[r].snd, card'[r].sent, TRUE)
    <3>1. sq'[r] = w /\ sends'[r] = S /\ nreq'[r] = 0 /\ db'[r].snd = e
      BY <1>1, <1>2, <1>4, <1>7, <2>2 DEF QueueTypes
    <3>2. fifo' = fifo /\ card' = card
      BY <1>4
    <3>3. Booked(r, w, S, fifo, 0, e, k, TRUE)
      BY ONLY <2>1, <2>3 DEF Booked
    <3> QED
      BY ONLY <2>2, <3>1, <3>2, <3>3
  <2>5. RecvBook(r, rq'[r], recvs'[r], fifo', card'[r].received, db'[r].rcv, TRUE)
    BY <1>1, <1>4, <1>5, <1>7, BooksOpen
  <2>6. reset'[r] = "no"
    BY <1>4, <1>5
  <2> QED
    BY ONLY <2>4, <2>5, <2>6, BooksKept
<1>10. ASSUME NEW q \in Qps, q # r PROVE QpInv(q)'
  <2>1. QpInv(q)
    BY DEF QueueInv
  <2>2. /\ sq'[q] = sq[q] /\ rq'[q] = rq[q] /\ nreq'[q] = nreq[q]
        /\ db'[q] = db[q] /\ card'[q] = card[q] /\ reset'[q] = reset[q]
        /\ sends'[q] = sends[q] /\ recvs'[q] = recvs[q] /\ fifo' = fifo
    BY <1>1, <1>4, <1>10 DEF QueueTypes
  <2> QED
    BY ONLY <2>1, <2>2, Untouched
<1> QED
  BY <1>8, <1>9, <1>10 DEF QueueInv

(* PostRecv keeps the invariant. *)
LEMMA PostRecvInv ==
  ASSUME QueueInv, NEW r \in Qps, PostRecv(r)
  PROVE  QueueInv'
<1>1. QueueTypes /\ QpInv(r)
  BY DEF QueueInv
<1>2. PICK v, R, h, i, z, x : /\ v = rq[r] /\ R = recvs[r] /\ h = v.head /\ i = h % RqCnt
                              /\ z = Num(h, 1) /\ x = [id |-> h]
  OBVIOUS
<1>3. v \in RqType /\ R \in Seq(Receive) /\ h \in Nums /\ h \in Nat /\ z \in Nums
      /\ x \in Receive
  <2>1. v \in RqType /\ R \in Seq(Receive)
    BY <1>1, <1>2, QpTypes
  <2>2. h \in Nums /\ h \in Int /\ 1 \in Int /\ h \in Nat
    BY <1>2, <2>1, RqFields
  <2>3. z \in Nums
    BY ONLY <1>2, <2>2, NumType
  <2> QED
    BY ONLY <1>2, <2>1, <2>2, <2>3 DEF Receive
<1>4. PICK w : w = [v EXCEPT !.wrid[i] = h, !.head = z]
  OBVIOUS
<1>5. w \in RqType /\ w.wrid = [v.wrid EXCEPT ![i] = h] /\ w.head = z /\ w.tail = v.tail
  BY ONLY <1>3, <1>4 DEF RqType
<1>6. /\ reset[r] = "no" /\ ~ Overflow(v, 0, RqCnt)
      /\ rq' = [rq EXCEPT ![r] = w]
      /\ db' = [db EXCEPT ![r].rcv = z]
      /\ recvs' = [recvs EXCEPT ![r] = Append(R, x)]
      /\ UNCHANGED <<sq, nreq, card, reset, fifo, sends>>
  <2>1. /\ reset[r] = "no" /\ ~ Overflow(v, 0, RqCnt)
        /\ UNCHANGED <<sq, nreq, card, reset, fifo, sends>>
    BY <1>2 DEF PostRecv
  <2>2. recvs' = [recvs EXCEPT ![r] = Append(R, x)]
    BY <1>1, <1>2 DEF PostRecv, QueueTypes
  <2>3. db' = [db EXCEPT ![r].rcv = z]
    BY <1>2 DEF PostRecv
  <2>4. rq' = [rq EXCEPT ![r] = w]
    <3>1. PICK y : y = [v EXCEPT !.wrid[i] = h, !.head = Num(@, 1)]
      OBVIOUS
    <3>2. rq' = [rq EXCEPT ![r].wrid[i] = h, ![r].head = Num(@, 1)]
      BY <1>2 DEF PostRecv
    <3>3. rq' = [rq EXCEPT ![r] = y]
      <4>1. rq \in [Qps -> RqType]
        BY <1>1 DEF QueueTypes
      <4> QED
        BY ONLY <1>2, <3>1, <3>2, <4>1, r \in Qps DEF RqType
    <3>4. y = w
      BY ONLY <1>2, <1>3, <1>4, <3>1 DEF RqType
    <3> QED
      BY <3>3, <3>4
  <2> QED
    BY ONLY <2>1, <2>2, <2>3, <2>4
<1>7. db'[r].rcv = z /\ db'[r].snd = db[r].snd
      /\ db' \in [Qps -> [snd : Ctrs, rcv : Nums]]
  <2>1. PICK y \in [snd : Ctrs, rcv : Nums] : y = [db[r] EXCEPT !.rcv = z]
    BY <1>1, <1>3, QpTypes
  <2>2. db' = [db EXCEPT ![r] = y] /\ db \in [Qps -> [snd : Ctrs, rcv : Nums]]
    BY <1>1, <1>6, <2>1 DEF QueueTypes
  <2> QED
    BY ONLY <1>1, <2>1, <2>2, r \in Qps, QpTypes
<1>8. QueueTypes'
  <2>1. rq' \in [Qps -> RqType]
    BY <1>1, <1>5, <1>6 DEF QueueTypes
  <2>2. recvs' \in [Qps -> Seq(Receive)]
    BY <1>1, <1>3, <1>6 DEF QueueTypes
  <2> QED
    BY <1>1, <1>6, <1>7, <2>1, <2>2 DEF QueueTypes
<1>9. QpInv(r)'
  <2>1. RecvBook(r, v, R, fifo, card[r].received, db[r].rcv, TRUE)
    BY <1>1, <1>2, <1>6, BooksOpen
  <2>2. PICK T, k, d, e : /\ T = Append(R, x) /\ k = card[r].received
                          /\ d = db[r].rcv /\ e = w.head
    OBVIOUS
  <2>3. RecvBook(r, w, T, fifo, k, e, TRUE)
    <3>1. RecvBook(r, v, R, fifo, k, d, TRUE)
      BY ONLY <2>1, <2>2
    <3>2. /\ w.wrid = [v.wrid EXCEPT ![v.head % RqCnt] = v.head]
          /\ w.head = Num(v.head, 1) /\ x = [id |-> v.head]
      BY ONLY <1>2, <1>5
    <3>3. fifo \in Seq(Cqe)
      BY <1>1 DEF QueueTypes
    <3> QED
      BY ONLY <1>3, <1>5, <1>6, <2>2, <3>1, <3>2, <3>3, RecvPosted
  <2>4. RecvBook(r, rq'[r], recvs'[r], fifo', card'[r].received, db'[r].rcv, TRUE)
    <3>1. rq'[r] = w /\ recvs'[r] = T /\ db'[r].rcv = e
      BY <1>1, <1>5, <1>6, <1>7, <2>2 DEF QueueTypes
    <3>2. fifo' = fifo /\ card' = card
      BY <1>6
    <3> QED
      BY ONLY <2>2, <2>3, <3>1, <3>2
  <2>5. Booked(r, sq'[r], sends'[r], fifo', nreq'[r], db'[r].snd, card'[r].sent, TRUE)
    BY <1>1, <1>6, <1>7, BooksOpen
  <2>6. reset'[r] = "no"
    BY <1>6
  <2> QED
    BY ONLY <2>4, <2>5, <2>6, BooksKept
<1>10. ASSUME NEW q \in Qps, q # r PROVE QpInv(q)'
  <2>1. QpInv(q)
    BY DEF QueueInv
  <2>2. /\ sq'[q] = sq[q] /\ rq'[q] = rq[q] /\ nreq'[q] = nreq[q]
        /\ db'[q] = db[q] /\ card'[q] = card[q] /\ reset'[q] = reset[q]
        /\ sends'[q] = sends[q] /\ recvs'[q] = recvs[q] /\ fifo' = fifo
    BY <1>1, <1>6, <1>10 DEF QueueTypes
  <2> QED
    BY ONLY <2>1, <2>2, Untouched
<1> QED
  BY <1>8, <1>9, <1>10 DEF QueueInv

-----------------------------------------------------------------------------
(***************************************************************************)
(* The card.                                                               *)
(***************************************************************************)

(* A CQE that is not about a send of QP q leaves the books of its sends. *)
LEMMA BookedPut ==
  ASSUME NEW q, NEW u, NEW S, NEW f \in Seq(Cqe), NEW n, NEW d, NEW k, NEW live,
         Booked(q, u, S, f, n, d, k, live), NEW e, ~ IsReq(q, e), NEW w, w = Append(f, e)
  PROVE  Booked(q, u, S, w, n, d, k, live)
<1>1. PICK at, g, c : c \in Nat /\ SendBook(q, u, S, f, n, d, k, live, at, c, g)
  BY DEF Booked
<1>2. Reported(q, f, S, at, c, g)
  BY <1>1 DEF SendBook
<1>3. PICK h : h = Longer(g, f, c)
  OBVIOUS
<1>4. Reported(q, w, S, at, c, h)
  BY ONLY <1>1, <1>2, <1>3, ReportedPutOther, f \in Seq(Cqe), ~ IsReq(q, e), w = Append(f, e)
<1>5. SendBook(q, u, S, w, n, d, k, live, at, c, h)
  BY ONLY <1>1, <1>4, BookCq
<1> QED
  BY <1>1, <1>5 DEF Booked

(* Part of the CQ does too. *)
LEMMA BookedPart ==
  ASSUME NEW q, NEW u, NEW S, NEW f, NEW n, NEW d, NEW k, NEW live,
         Booked(q, u, S, f, n, d, k, live), NEW w, NEW e, PartOf(w, f, e)
  PROVE  Booked(q, u, S, w, n, d, k, live)
<1>1. PICK at, g, c : c \in Nat /\ SendBook(q, u, S, f, n, d, k, live, at, c, g)
  BY DEF Booked
<1>2. Reported(q, f, S, at, c, g)
  BY <1>1 DEF SendBook
<1>3. PICK h : h = [i \in 1 .. Len(w) |-> g[e[i]]]
  OBVIOUS
<1>4. Reported(q, w, S, at, c, h)
  BY ONLY <1>2, <1>3, ReportedPart, PartOf(w, f, e)
<1>5. SendBook(q, u, S, w, n, d, k, live, at, c, h)
  BY ONLY <1>1, <1>4, BookCq
<1> QED
  BY <1>1, <1>5 DEF Booked

(* A QP of which only the CQ changes. *)
CqOnly(q) ==
  /\ sq'[q] = sq[q] /\ rq'[q] = rq[q] /\ nreq'[q] = nreq[q] /\ db'[q] = db[q]
  /\ card'[q] = card[q] /\ reset'[q] = reset[q]
  /\ sends'[q] = sends[q] /\ recvs'[q] = recvs[q]

(* A CQE of another QP. *)
LEMMA PutElsewhere ==
  ASSUME QueueTypes, NEW q \in Qps, QpInv(q), CqOnly(q),
         NEW e \in Cqe, e.rsn # q, fifo' = Append(fifo, e)
  PROVE  QpInv(q)'
<1>1. PICK live, f : live = (reset[q] = "no") /\ f = fifo'
  OBVIOUS
<1>2. ~ IsReq(q, e) /\ ~ IsResp(q, e)
  BY DEF IsReq, IsResp
<1>3. fifo \in Seq(Cqe) /\ rq[q] \in RqType /\ recvs[q] \in Seq(Receive)
  BY QpTypes DEF QueueTypes
<1>4. SendsBooked(q)'
  <2>1. ASSUME reset[q] # "clean"
        PROVE  Booked(q, sq[q], sends[q], f, nreq[q], db[q].snd, card[q].sent, live)
    <3>1. Booked(q, sq[q], sends[q], fifo, nreq[q], db[q].snd, card[q].sent, live)
      BY <1>1, <2>1 DEF QpInv, SendsBooked
    <3> QED
      BY ONLY <1>1, <1>2, <1>3, <3>1, fifo' = Append(fifo, e), BookedPut
  <2> QED
    BY <1>1, <2>1 DEF SendsBooked, CqOnly
<1>5. RecvsBooked(q)'
  <2>1. ASSUME reset[q] # "clean"
        PROVE  RecvBook(q, rq[q], recvs[q], f, card[q].received, db[q].rcv, live)
    <3>1. RecvBook(q, rq[q], recvs[q], fifo, card[q].received, db[q].rcv, live)
      BY <1>1, <2>1 DEF QpInv, RecvsBooked
    <3> QED
      BY ONLY <1>1, <1>2, <1>3, <3>1, fifo' = Append(fifo, e), e \in Cqe, RecvPutOther
  <2> QED
    BY <1>1, <2>1 DEF RecvsBooked, CqOnly
<1>6. Halted(q)'
  <2>1. ASSUME \A j \in 1 .. Len(fifo) : fifo[j].rsn # q
        PROVE  \A j \in 1 .. Len(fifo') : fifo'[j].rsn # q
    BY <1>3, <2>1
  <2> QED
    BY <2>1 DEF QpInv, Halted, CqOnly
<1> QED
  BY <1>4, <1>5, <1>6 DEF QpInv

(* CardReceives keeps the invariant. *)
LEMMA CardReceivesInv ==
  ASSUME QueueInv, NEW r \in Qps, CardReceives(r)
  PROVE  QueueInv'
<1>1. QueueTypes /\ QpInv(r)
  BY DEF QueueInv
<1>2. PICK v, R, k, d, x, e :
        /\ v = rq[r] /\ R = recvs[r] /\ k = card[r].received /\ d = db[r].rcv
        /\ x = Num(k, 1)
        /\ e = [rsn |-> r, op |-> "resp", wqe_counter |-> 0, of |-> v.wrid[k % RqCnt]]
  OBVIOUS
<1>3. v \in RqType /\ R \in Seq(Receive) /\ k \in Nums /\ k \in Nat /\ x \in Nums
      /\ fifo \in Seq(Cqe)
  <2>1. v \in RqType /\ R \in Seq(Receive) /\ k \in Nums /\ k \in Nat /\ fifo \in Seq(Cqe)
    BY <1>1, <1>2, QpTypes, Constants DEF Nums, QueueTypes
  <2>2. x \in Nums
    BY <1>2, <2>1, NumType
  <2> QED
    BY ONLY <2>1, <2>2
<1>4. e \in Cqe
  <2>1. k % RqCnt \in Slots
    <3>1. k \in Int /\ RqCnt \in Nat \ {0}
      BY <1>3, Constants
    <3>2. k % RqCnt \in 0 .. RqCnt - 1
      BY ONLY <3>1, IntDivMod
    <3> QED
      BY ONLY <3>2 DEF Slots
  <2>2. v.wrid[k % RqCnt] \in Nums
    BY <1>3, <2>1, RqFields
  <2>3. 0 \in Ctrs
    BY Constants DEF Ctrs
  <2> QED
    BY <1>2, <2>2, <2>3 DEF Cqe
<1>5. /\ reset[r] = "no" /\ k # d
      /\ card' = [card EXCEPT ![r].received = x]
      /\ fifo' = Append(fifo, e)
      /\ UNCHANGED <<sq, rq, nreq, db, reset, sends, recvs>>
  BY <1>2 DEF CardReceives, Cq!Put
<1>6. /\ card'[r].received = x /\ card'[r].sent = card[r].sent
      /\ card' \in [Qps -> [sent : Ctrs, received : Nums, error : BOOLEAN]]
  <2>1. PICK y \in [sent : Ctrs, received : Nums, error : BOOLEAN] :
          y = [card[r] EXCEPT !.received = x]
    BY <1>1, <1>3, QpTypes
  <2>2. /\ card' = [card EXCEPT ![r] = y]
        /\ card \in [Qps -> [sent : Ctrs, received : Nums, error : BOOLEAN]]
    BY <1>1, <1>5, <2>1 DEF QueueTypes
  <2> QED
    BY ONLY <1>1, <2>1, <2>2, r \in Qps, QpTypes
<1>7. QueueTypes'
  BY <1>1, <1>3, <1>4, <1>5, <1>6 DEF QueueTypes
<1>8. QpInv(r)'
  <2>1. PICK f, n, b, s : f = fifo' /\ n = nreq[r] /\ b = db[r].snd /\ s = card[r].sent
    OBVIOUS
  <2>2. /\ Booked(r, sq[r], sends[r], fifo, n, b, s, TRUE)
        /\ RecvBook(r, v, R, fifo, k, d, TRUE)
    BY <1>1, <1>2, <1>5, <2>1, BooksOpen
  <2>3. ~ IsReq(r, e) /\ IsResp(r, e) /\ e.of = v.wrid[k % RqCnt] /\ f = Append(fifo, e)
    BY <1>2, <1>5, <2>1 DEF IsReq, IsResp
  <2>4. Booked(r, sq[r], sends[r], f, n, b, s, TRUE)
    BY ONLY <1>3, <2>2, <2>3, BookedPut
  <2>5. RecvBook(r, v, R, f, x, d, TRUE)
    BY ONLY <1>2, <1>3, <1>4, <1>5, <2>2, <2>3, RecvFilled
  <2>6. Booked(r, sq'[r], sends'[r], fifo', nreq'[r], db'[r].snd, card'[r].sent, TRUE)
    BY <1>5, <1>6, <2>1, <2>4
  <2>7. RecvBook(r, rq'[r], recvs'[r], fifo', card'[r].received, db'[r].rcv, TRUE)
    BY <1>2, <1>5, <1>6, <2>1, <2>5
  <2>8. reset'[r] = "no"
    BY <1>5
  <2> QED
    BY ONLY <2>6, <2>7, <2>8, BooksKept
<1>9. ASSUME NEW q \in Qps, q # r PROVE QpInv(q)'
  <2>1. QpInv(q) /\ e.rsn # q
    BY <1>2, <1>9 DEF QueueInv
  <2>2. CqOnly(q)
    BY <1>1, <1>5, <1>9 DEF QueueTypes, CqOnly
  <2> QED
    BY ONLY <1>1, <1>4, <1>5, <2>1, <2>2, PutElsewhere, q \in Qps
<1> QED
  BY <1>7, <1>8, <1>9 DEF QueueInv

(* A request that is executed without a CQE. *)
LEMMA SentSilently ==
  ASSUME NEW q, NEW u \in SqType, NEW S \in Seq(Request), NEW f, NEW n, NEW d, NEW k,
         NEW at, NEW c \in Nat, NEW g, SendBook(q, u, S, f, n, d, k, TRUE, at, c, g), k # d,
         NEW x, x = Add(k, S[c].size)
  PROVE  Booked(q, u, S, f, n, d, x, TRUE)
<1>1. PICK v \in Nat : v = c + 1 /\ c <= v
  OBVIOUS
<1>2. Reported(q, f, S, at, c, g)
  BY DEF SendBook
<1>3. Reported(q, f, S, at, v, g)
  BY ONLY <1>1, <1>2, ReportedLater, c \in Nat
<1>4. SendBook(q, u, S, f, n, d, x, TRUE, at, v, g)
  <2>1. Executed(S, c, k, x)
    BY DEF Executed
  <2> QED
    BY ONLY <1>1, <1>3, <2>1, BookSent, u \in SqType, S \in Seq(Request), k # d,
            SendBook(q, u, S, f, n, d, k, TRUE, at, c, g)
<1> QED
  BY <1>4 DEF Booked

(* One that is reported. *)
LEMMA SentReported ==
  ASSUME NEW q, NEW u \in SqType, NEW S \in Seq(Request), NEW f \in Seq(Cqe),
         NEW n, NEW d, NEW k,
         NEW at, NEW c \in Nat, NEW g, SendBook(q, u, S, f, n, d, k, TRUE, at, c, g), k # d,
         NEW x, x = Add(k, S[c].size),
         NEW e, e.of = S[c].id, e.wqe_counter = k, NEW w, w = Append(f, e)
  PROVE  Booked(q, u, S, w, n, d, x, TRUE)
<1>1. PICK v \in Nat, h \in {Longer(g, f, c)} : v = c + 1 /\ h = Longer(g, f, c)
  OBVIOUS
<1>2. Reported(q, f, S, at, c, g) /\ k = at[c] % CtrMod /\ c >= 1
  BY DEF SendBook
<1>3. About(e, S, at, c)
  BY <1>2 DEF About
<1>4. Reported(q, w, S, at, v, h)
  <2>1. IsReq(q, e) => c >= 1 /\ About(e, S, at, c)
    BY <1>2, <1>3
  <2> QED
    BY ONLY <1>1, <1>2, <2>1, ReportedPut, c \in Nat, f \in Seq(Cqe), w = Append(f, e)
<1>5. SendBook(q, u, S, w, n, d, x, TRUE, at, v, h)
  <2>1. Executed(S, c, k, x)
    BY DEF Executed
  <2> QED
    BY ONLY <1>1, <1>4, <2>1, BookSent, u \in SqType, S \in Seq(Request), k # d,
            SendBook(q, u, S, f, n, d, k, TRUE, at, c, g)
<1> QED
  BY <1>5 DEF Booked

(* CardSends keeps the invariant. *)
LEMMA CardSendsInv ==
  ASSUME QueueInv, NEW r \in Qps, NEW fails \in BOOLEAN, CardSends(r, fails)
  PROVE  QueueInv'
<1>1. QueueTypes /\ QpInv(r)
  BY DEF QueueInv
<1>2. reset[r] = "no" /\ card[r].sent # db[r].snd
  BY DEF CardSends
<1>3. PICK u, S, n, d, k : /\ u = sq[r] /\ S = sends[r] /\ n = nreq[r]
                           /\ d = db[r].snd /\ k = card[r].sent
  OBVIOUS
<1>4. /\ u \in SqType /\ S \in Seq(Request) /\ n \in Nat /\ k \in Ctrs /\ k \in Nat
      /\ fifo \in Seq(Cqe) /\ k # d
  BY <1>1, <1>2, <1>3, QpTypes, Constants DEF QueueTypes, Ctrs
<1>5. PICK at, g, c : c \in Nat /\ SendBook(r, u, S, fifo, n, d, k, TRUE, at, c, g)
  BY <1>1, <1>2, <1>3, BooksOpen DEF Booked
<1>6. c \in 1 .. Len(S) - n /\ IndexOf(S, u.ring[k % SqBlocks].id) = c
  BY ONLY <1>4, <1>5, CardFinds
<1>7. PICK wqe : wqe = S[c]
  OBVIOUS
<1>8. Wqe(r) = wqe
  BY ONLY <1>3, <1>6, <1>7 DEF Wqe, IndexOf, SelectInSeq
<1>9. wqe \in Request /\ wqe.size \in Nat /\ wqe.id \in Nums /\ wqe.signaled \in BOOLEAN
  <2>1. c \in 1 .. Len(S)
    BY <1>4, <1>6
  <2>2. wqe \in Request
    BY ONLY <1>4, <1>7, <2>1
  <2> QED
    BY ONLY <2>2, Constants DEF Request
<1>10. PICK bad \in BOOLEAN : bad = (fails \/ card[r].error)
  BY <1>1, QpTypes
<1>11. PICK x, e : /\ x = Add(k, wqe.size)
                   /\ e = [rsn |-> r, op |-> "req", wqe_counter |-> k, of |-> wqe.id]
  OBVIOUS
<1>12. x \in Ctrs /\ e \in Cqe
  <2>1. x \in Ctrs
    BY <1>4, <1>9, <1>11, AddType
  <2> QED
    BY <1>4, <1>9, <1>11, <2>1 DEF Cqe
<1>13. /\ card' = [card EXCEPT ![r].sent = x, ![r].error = bad]
       /\ fifo' = Append(fifo, e) \/ fifo' = fifo
       /\ UNCHANGED <<sq, rq, nreq, db, reset, sends, recvs>>
  <2>1. /\ card' = [card EXCEPT ![r].sent = Add(@, Wqe(r).size),
                                ![r].error = (fails \/ card[r].error)]
        /\ UNCHANGED <<sq, rq, nreq, db, reset, sends, recvs>>
    BY DEF CardSends
  <2>2. \/ fifo' = Append(fifo, [rsn |-> r, op |-> "req", wqe_counter |-> card[r].sent,
                                 of |-> Wqe(r).id])
        \/ fifo' = fifo
    BY DEF CardSends, Cq!Put
  <2>3. fifo' = Append(fifo, e) \/ fifo' = fifo
    BY ONLY <1>3, <1>8, <1>11, <2>2
  <2>4. card' = [card EXCEPT ![r].sent = x, ![r].error = bad]
    <3>1. Add(card[r].sent, Wqe(r).size) = x
      BY ONLY <1>3, <1>8, <1>11
    <3>2. card \in [Qps -> [sent : Ctrs, received : Nums, error : BOOLEAN]]
      BY <1>1 DEF QueueTypes
    <3> QED
      BY ONLY <1>10, <2>1, <3>1, <3>2, r \in Qps
  <2> QED
    BY ONLY <2>1, <2>3, <2>4
<1>14. /\ card'[r].sent = x /\ card'[r].received = card[r].received
       /\ card' \in [Qps -> [sent : Ctrs, received : Nums, error : BOOLEAN]]
       /\ \A q \in Qps : q # r => card'[q] = card[q]
  <2>1. PICK y \in [sent : Ctrs, received : Nums, error : BOOLEAN] :
          y = [card[r] EXCEPT !.sent = x, !.error = bad]
    BY <1>1, <1>12, QpTypes
  <2>2. card \in [Qps -> [sent : Ctrs, received : Nums, error : BOOLEAN]]
    BY <1>1 DEF QueueTypes
  <2>3. card' = [card EXCEPT ![r] = y]
    BY ONLY <1>13, <2>1, <2>2, r \in Qps
  <2>4. y.sent = x /\ y.received = card[r].received
    BY ONLY <2>1, <2>2, r \in Qps
  <2> QED
    BY ONLY <2>1, <2>2, <2>3, <2>4, r \in Qps
<1>15. QueueTypes'
  <2>1. fifo' \in Seq(Cqe)
    <3>1. Append(fifo, e) \in Seq(Cqe)
      BY ONLY <1>4, <1>12
    <3> QED
      BY ONLY <1>4, <1>13, <3>1
  <2> QED
    BY <1>1, <1>13, <1>14, <2>1 DEF QueueTypes
<1>16. QpInv(r)'
  <2>1. PICK f, R, i, b : f = fifo' /\ R = recvs[r] /\ i = card[r].received /\ b = db[r].rcv
    OBVIOUS
  <2>2. RecvBook(r, rq[r], R, fifo, i, b, TRUE) /\ rq[r] \in RqType /\ R \in Seq(Receive)
    BY <1>1, <1>2, <2>1, BooksOpen, QpTypes
  <2>3. x = Add(k, S[c].size)
    BY ONLY <1>7, <1>11
  <2>4. Booked(r, u, S, f, n, d, x, TRUE) /\ RecvBook(r, rq[r], R, f, i, b, TRUE)
    <3>1. CASE f = fifo
      <4>1. Booked(r, u, S, fifo, n, d, x, TRUE)
        BY ONLY <1>4, <1>5, <2>3, SentSilently
      <4> QED
        BY ONLY <2>2, <3>1, <4>1
    <3>2. CASE f = Append(fifo, e)
      <4>1. e.of = S[c].id /\ e.wqe_counter = k /\ ~ IsResp(r, e)
        BY <1>7, <1>11 DEF IsResp
      <4>2. Booked(r, u, S, f, n, d, x, TRUE)
        BY ONLY <1>4, <1>5, <2>3, <3>2, <4>1, SentReported
      <4>3. RecvBook(r, rq[r], R, f, i, b, TRUE)
        BY ONLY <1>4, <1>12, <2>2, <3>2, <4>1, RecvPutOther
      <4> QED
        BY ONLY <4>2, <4>3
    <3> QED
      BY ONLY <1>13, <2>1, <3>1, <3>2
  <2>5. Booked(r, sq'[r], sends'[r], fifo', nreq'[r], db'[r].snd, card'[r].sent, TRUE)
    BY <1>3, <1>13, <1>14, <2>1, <2>4
  <2>6. RecvBook(r, rq'[r], recvs'[r], fifo', card'[r].received, db'[r].rcv, TRUE)
    BY <1>13, <1>14, <2>1, <2>4
  <2>7. reset'[r] = "no"
    BY <1>2, <1>13
  <2> QED
    BY ONLY <2>5, <2>6, <2>7, BooksKept
<1>17. ASSUME NEW q \in Qps, q # r PROVE QpInv(q)'
  <2>1. QpInv(q) /\ e.rsn # q
    BY <1>11, <1>17 DEF QueueInv
  <2>2. CqOnly(q)
    BY <1>13, <1>14, <1>17 DEF CqOnly
  <2>3. CASE fifo' = fifo
    BY ONLY <2>1, <2>2, <2>3, Untouched DEF CqOnly
  <2>4. CASE fifo' = Append(fifo, e)
    BY ONLY <1>1, <1>12, <2>1, <2>2, <2>4, PutElsewhere, q \in Qps
  <2> QED
    BY ONLY <1>13, <2>3, <2>4
<1> QED
  BY <1>15, <1>16, <1>17 DEF QueueInv

-----------------------------------------------------------------------------
(***************************************************************************)
(* The poll.                                                               *)
(***************************************************************************)

(* What a poll finds of request i, and leaves. *)
PolledSend(q, u, S, f, n, d, k, live, i) ==
  /\ i \in 1 .. Len(S) /\ IndexOf(S, f[1].of) = i
  /\ u.wqe_head[f[1].wqe_counter % SqBlocks] = Num(u.tail, i - 1)
  /\ Booked(q, [u EXCEPT !.tail = Num(u.tail, i)], SubSeq(S, i + 1, Len(S)), Tail(f),
            n, d, k, live)

(* There is such a request. *)
LEMMA BookedPolled ==
  ASSUME NEW q, NEW u \in SqType, NEW S \in Seq(Request), NEW f \in Seq(Cqe), f # << >>,
         NEW n, NEW d, NEW k, NEW live, Booked(q, u, S, f, n, d, k, live), IsReq(q, f[1])
  PROVE  \E i : PolledSend(q, u, S, f, n, d, k, live, i)
<1>1. PICK at, g, c : c \in Nat /\ SendBook(q, u, S, f, n, d, k, live, at, c, g)
  BY DEF Booked
<1>2. PICK i \in Nat : i = g[1]
  <2>1. 1 \in 1 .. Len(f)
    OBVIOUS
  <2>2. g \in [1 .. Len(f) -> Nat]
    BY <1>1 DEF SendBook, Reported
  <2> QED
    BY ONLY <2>1, <2>2
<1>3. /\ i \in 1 .. Len(S) /\ i \in 1 .. c - 1
      /\ IndexOf(S, f[1].of) = i
      /\ u.wqe_head[f[1].wqe_counter % SqBlocks] = Num(u.tail, i - 1)
  <2>1. FoundSend(u, S, f, c, i)
    BY <1>1, <1>2, PollFinds
  <2> QED
    BY ONLY <2>1 DEF FoundSend
<1>4. PICK z, x, T, bt, v, h, w :
        /\ z = Num(u.tail, i) /\ x = [u EXCEPT !.tail = z] /\ T = SubSeq(S, i + 1, Len(S))
        /\ bt = LaterPlaces(at, S, i) /\ v = c - i /\ h = Shifted(g, f, i) /\ w = Tail(f)
  OBVIOUS
<1>5. SendBook(q, x, T, w, n, d, k, live, bt, v, h)
  <2>1. SendBook(q, x, T, Tail(f), n, d, k, live, bt, v, h)
    BY ONLY <1>1, <1>2, <1>4, BookPolled, u \in SqType, S \in Seq(Request), f \in Seq(Cqe),
            f # << >>, IsReq(q, f[1])
  <2> QED
    BY ONLY <1>4, <2>1
<1>6. v \in Nat
  BY <1>1, <1>3, <1>4
<1>7. Booked(q, x, T, w, n, d, k, live)
  BY <1>5, <1>6 DEF Booked
<1> QED
  BY ONLY <1>3, <1>4, <1>7 DEF PolledSend

(* The CQE polled is of another QP. *)
LEMMA PollElsewhere ==
  ASSUME QueueTypes, NEW q \in Qps, QpInv(q), CqOnly(q),
         fifo # << >>, fifo[1].rsn # q, fifo' = Tail(fifo)
  PROVE  QpInv(q)'
<1>1. PICK live, f, w : live = (reset[q] = "no") /\ f = fifo /\ w = fifo'
  OBVIOUS
<1>2. /\ f \in Seq(Cqe) /\ f # << >> /\ rq[q] \in RqType /\ recvs[q] \in Seq(Receive)
      /\ w = Tail(f)
  BY <1>1, QpTypes DEF QueueTypes
<1>3. ~ IsResp(q, f[1])
  BY <1>1 DEF IsResp
<1>4. PICK e : e = [j \in 1 .. Len(f) - 1 |-> j + 1]
  OBVIOUS
<1>5. PartOf(w, f, e)
  BY ONLY <1>2, <1>4, TailPart
<1>6. SendsBooked(q)'
  <2>1. ASSUME reset[q] # "clean"
        PROVE  Booked(q, sq[q], sends[q], w, nreq[q], db[q].snd, card[q].sent, live)
    <3>1. Booked(q, sq[q], sends[q], f, nreq[q], db[q].snd, card[q].sent, live)
      BY <1>1, <2>1 DEF QpInv, SendsBooked
    <3> QED
      BY ONLY <1>5, <3>1, BookedPart
  <2> QED
    BY <1>1, <2>1 DEF SendsBooked, CqOnly
<1>7. RecvsBooked(q)'
  <2>1. ASSUME reset[q] # "clean"
        PROVE  RecvBook(q, rq[q], recvs[q], w, card[q].received, db[q].rcv, live)
    <3>1. RecvBook(q, rq[q], recvs[q], f, card[q].received, db[q].rcv, live)
      BY <1>1, <2>1 DEF QpInv, RecvsBooked
    <3> QED
      BY ONLY <1>2, <1>3, <3>1, RecvTail
  <2> QED
    BY <1>1, <2>1 DEF RecvsBooked, CqOnly
<1>8. Halted(q)'
  <2>1. ASSUME \A j \in 1 .. Len(f) : f[j].rsn # q
        PROVE  \A j \in 1 .. Len(w) : w[j].rsn # q
    BY <1>5, <2>1 DEF PartOf
  <2> QED
    BY <1>1, <2>1 DEF QpInv, Halted, CqOnly
<1> QED
  BY <1>6, <1>7, <1>8 DEF QpInv

(* PollSend keeps the invariant. *)
LEMMA PollSendInv ==
  ASSUME QueueInv, PollSend
  PROVE  QueueInv'
<1>1. PICK e, r, f, w : e = Head(fifo) /\ r = e.rsn /\ f = fifo /\ w = fifo'
  OBVIOUS
<1>2. /\ f # << >> /\ e.op = "req" /\ w = Tail(f)
      /\ sq' = [sq EXCEPT ![r].tail = Num(sq[r].wqe_head[e.wqe_counter % SqBlocks], 1)]
      /\ sends' = [sends EXCEPT ![r] = After(sends[r], e.of)]
      /\ UNCHANGED <<rq, db, nreq, card, reset, recvs>>
  BY <1>1 DEF PollSend, Cq!Take
<1>3. QueueTypes /\ f \in Seq(Cqe)
  BY <1>1 DEF QueueInv, QueueTypes
<1>4. e = f[1] /\ e \in Cqe /\ 1 \in 1 .. Len(f) /\ w \in Seq(Cqe)
  BY <1>1, <1>2, <1>3
<1>5. r \in Qps /\ IsReq(r, f[1]) /\ ~ IsResp(r, f[1])
  BY <1>1, <1>2, <1>4 DEF Cqe, IsReq, IsResp
<1>6. QpInv(r)
  BY <1>5 DEF QueueInv
<1>7. reset[r] # "clean"
  BY <1>1, <1>4, <1>6 DEF QpInv, Halted
<1>8. PICK u, S, n, d, k, live :
        /\ u = sq[r] /\ S = sends[r] /\ n = nreq[r] /\ d = db[r].snd /\ k = card[r].sent
        /\ live = (reset[r] = "no")
  OBVIOUS
<1>9. u \in SqType /\ S \in Seq(Request)
  BY <1>3, <1>5, <1>8, QpTypes
<1>10. PICK i : PolledSend(r, u, S, f, n, d, k, live, i)
  <2>1. Booked(r, u, S, f, n, d, k, live)
    BY <1>1, <1>6, <1>7, <1>8 DEF QpInv, SendsBooked
  <2> QED
    BY ONLY <1>2, <1>3, <1>5, <1>9, <2>1, BookedPolled
<1>11. PICK z, x, T : /\ z = Num(u.tail, i) /\ x = [u EXCEPT !.tail = z]
                      /\ T = SubSeq(S, i + 1, Len(S))
  OBVIOUS
<1>12. /\ i \in 1 .. Len(S) /\ IndexOf(S, e.of) = i
       /\ u.wqe_head[e.wqe_counter % SqBlocks] = Num(u.tail, i - 1)
       /\ Booked(r, x, T, w, n, d, k, live)
  BY ONLY <1>2, <1>4, <1>10, <1>11 DEF PolledSend
<1>13. Num(Num(u.tail, i - 1), 1) = z /\ z \in Nums
  <2>1. PICK t \in Int, a \in Int : t = u.tail /\ a = i - 1
    <3>1. u.tail \in Int
      BY <1>9, SqFields
    <3> QED
      BY <1>12, <3>1
  <2>2. i \in Int /\ i = a + 1
    BY <1>12, <2>1
  <2>3. Num(Num(t, a), 1) = Num(t, i)
    BY ONLY <2>2, NumNum, t \in Int, a \in Int, 1 \in Int
  <2>4. Num(t, i) \in Nums
    BY ONLY <2>2, NumType, t \in Int
  <2> QED
    BY ONLY <1>11, <2>1, <2>3, <2>4
<1>14. T \in Seq(Request)
  <2>1. \A j \in i + 1 .. Len(S) : S[j] \in Request
    BY <1>9, <1>12
  <2> QED
    BY <1>9, <1>11, <1>12, <2>1
<1>15. sq' = [sq EXCEPT ![r] = x] /\ sq \in [Qps -> SqType]
  <2>1. sq \in [Qps -> SqType]
    BY <1>3 DEF QueueTypes
  <2>2. sq' = [sq EXCEPT ![r].tail = z]
    BY ONLY <1>2, <1>8, <1>12, <1>13
  <2> QED
    BY ONLY <1>5, <1>8, <1>11, <2>1, <2>2 DEF SqType
<1>16. sends' = [sends EXCEPT ![r] = T] /\ sends \in [Qps -> Seq(Request)]
  <2>1. After(S, e.of) = T
    BY <1>11, <1>12 DEF After, IndexOf
  <2> QED
    BY <1>2, <1>3, <1>8, <2>1 DEF QueueTypes
<1>17. x \in SqType
  BY ONLY <1>9, <1>11, <1>13 DEF SqType
<1>18. QueueTypes'
  <2>1. fifo' \in Seq(Cqe)
    BY <1>1, <1>4
  <2>2. sq' \in [Qps -> SqType] /\ sends' \in [Qps -> Seq(Request)]
    BY ONLY <1>14, <1>15, <1>16, <1>17
  <2> QED
    BY <1>2, <1>3, <2>1, <2>2 DEF QueueTypes
<1>19. QpInv(r)'
  <2>1. sq'[r] = x /\ sends'[r] = T
    BY ONLY <1>5, <1>15, <1>16
  <2>2. SendsBooked(r)'
    BY <1>1, <1>2, <1>8, <1>12, <2>1 DEF SendsBooked
  <2>3. RecvsBooked(r)'
    <3>1. RecvBook(r, rq[r], recvs[r], f, card[r].received, db[r].rcv, live)
      BY <1>1, <1>6, <1>7, <1>8 DEF QpInv, RecvsBooked
    <3>2. rq[r] \in RqType /\ recvs[r] \in Seq(Receive)
      BY <1>3, <1>5, QpTypes
    <3>3. RecvBook(r, rq[r], recvs[r], w, card[r].received, db[r].rcv, live)
      BY ONLY <1>2, <1>3, <1>5, <3>1, <3>2, RecvTail
    <3> QED
      BY <1>1, <1>2, <1>8, <3>3 DEF RecvsBooked
  <2>4. Halted(r)'
    BY <1>2, <1>6, <1>7 DEF QpInv, Halted
  <2> QED
    BY <2>2, <2>3, <2>4 DEF QpInv
<1>20. ASSUME NEW q \in Qps, q # r PROVE QpInv(q)'
  <2>1. QpInv(q)
    BY DEF QueueInv
  <2>2. CqOnly(q)
    BY ONLY <1>2, <1>15, <1>16, <1>20 DEF CqOnly
  <2>3. fifo # << >> /\ fifo[1].rsn # q /\ fifo' = Tail(fifo)
    BY <1>1, <1>2, <1>4, <1>20
  <2> QED
    BY ONLY <1>3, <2>1, <2>2, <2>3, PollElsewhere, q \in Qps
<1> QED
  BY <1>18, <1>19, <1>20 DEF QueueInv

(* PollRecv keeps the invariant. *)
LEMMA PollRecvInv ==
  ASSUME QueueInv, PollRecv
  PROVE  QueueInv'
<1>1. PICK e, r, f, w : e = Head(fifo) /\ r = e.rsn /\ f = fifo /\ w = fifo'
  OBVIOUS
<1>2. /\ f # << >> /\ e.op = "resp" /\ w = Tail(f)
      /\ rq' = [rq EXCEPT ![r].tail = Num(@, 1)]
      /\ recvs' = [recvs EXCEPT ![r] = After(recvs[r], e.of)]
      /\ UNCHANGED <<sq, db, nreq, card, reset, sends>>
  BY <1>1 DEF PollRecv, Cq!Take
<1>3. QueueTypes /\ f \in Seq(Cqe)
  BY <1>1 DEF QueueInv, QueueTypes
<1>4. e = f[1] /\ e \in Cqe /\ 1 \in 1 .. Len(f) /\ w \in Seq(Cqe)
  BY <1>1, <1>2, <1>3
<1>5. r \in Qps /\ IsResp(r, f[1])
  BY <1>1, <1>2, <1>4 DEF Cqe, IsResp
<1>6. QpInv(r)
  BY <1>5 DEF QueueInv
<1>7. reset[r] # "clean"
  BY <1>1, <1>4, <1>6 DEF QpInv, Halted
<1>8. PICK v, R, d, k, live :
        /\ v = rq[r] /\ R = recvs[r] /\ d = db[r].rcv /\ k = card[r].received
        /\ live = (reset[r] = "no")
  OBVIOUS
<1>9. v \in RqType /\ R \in Seq(Receive)
  BY <1>3, <1>5, <1>8, QpTypes
<1>10. PICK z, x, T : /\ z = Num(v.tail, 1) /\ x = [v EXCEPT !.tail = z]
                      /\ T = SubSeq(R, 2, Len(R))
  OBVIOUS
<1>11. RecvBook(r, x, T, w, k, d, live) /\ IndexOf(R, e.of) = 1
  <2>1. RecvBook(r, v, R, f, k, d, live)
    BY <1>1, <1>6, <1>7, <1>8 DEF QpInv, RecvsBooked
  <2>2. ReceiveGone(r, x, R, T, f, w, k, d, live)
    BY ONLY <1>2, <1>3, <1>5, <1>9, <1>10, <2>1, RecvPolled
  <2> QED
    BY ONLY <1>4, <2>2 DEF ReceiveGone
<1>12. z \in Nums
  <2>1. v.tail \in Int /\ 1 \in Int
    BY <1>9, RqFields
  <2> QED
    BY ONLY <1>10, <2>1, NumType
<1>13. T \in Seq(Receive)
  <2>1. \A j \in 2 .. Len(R) : R[j] \in Receive
    BY <1>9
  <2> QED
    BY <1>9, <1>10, <2>1
<1>14. rq' = [rq EXCEPT ![r] = x] /\ rq \in [Qps -> RqType]
  <2>1. rq \in [Qps -> RqType]
    BY <1>3 DEF QueueTypes
  <2>2. rq' = [rq EXCEPT ![r].tail = z]
    BY ONLY <1>2, <1>5, <1>8, <1>10, <2>1 DEF RqType
  <2> QED
    BY ONLY <1>5, <1>8, <1>10, <2>1, <2>2 DEF RqType
<1>15. recvs' = [recvs EXCEPT ![r] = T] /\ recvs \in [Qps -> Seq(Receive)]
  <2>1. After(R, e.of) = T
    <3>1. After(R, e.of) = SubSeq(R, IndexOf(R, e.of) + 1, Len(R))
      BY DEF After, IndexOf
    <3>2. IndexOf(R, e.of) + 1 = 2
      BY <1>11
    <3> QED
      BY ONLY <1>10, <3>1, <3>2
  <2> QED
    BY <1>2, <1>3, <1>8, <2>1 DEF QueueTypes
<1>16. x \in RqType
  BY ONLY <1>9, <1>10, <1>12 DEF RqType
<1>17. QueueTypes'
  <2>1. fifo' \in Seq(Cqe)
    BY <1>1, <1>4
  <2>2. rq' \in [Qps -> RqType] /\ recvs' \in [Qps -> Seq(Receive)]
    BY ONLY <1>13, <1>14, <1>15, <1>16
  <2> QED
    BY <1>2, <1>3, <2>1, <2>2 DEF QueueTypes
<1>18. QpInv(r)'
  <2>1. rq'[r] = x /\ recvs'[r] = T
    BY ONLY <1>5, <1>14, <1>15
  <2>2. RecvsBooked(r)'
    BY <1>1, <1>2, <1>8, <1>11, <2>1 DEF RecvsBooked
  <2>3. SendsBooked(r)'
    <3>1. Booked(r, sq[r], sends[r], f, nreq[r], db[r].snd, card[r].sent, live)
      BY <1>1, <1>6, <1>7, <1>8 DEF QpInv, SendsBooked
    <3>2. PICK p : p = [j \in 1 .. Len(f) - 1 |-> j + 1]
      OBVIOUS
    <3>3. PartOf(w, f, p)
      BY ONLY <1>2, <1>3, <3>2, TailPart
    <3>4. Booked(r, sq[r], sends[r], w, nreq[r], db[r].snd, card[r].sent, live)
      BY ONLY <3>1, <3>3, BookedPart
    <3> QED
      BY <1>1, <1>2, <1>8, <3>4 DEF SendsBooked
  <2>4. Halted(r)'
    BY <1>2, <1>6, <1>7 DEF QpInv, Halted
  <2> QED
    BY <2>2, <2>3, <2>4 DEF QpInv
<1>19. ASSUME NEW q \in Qps, q # r PROVE QpInv(q)'
  <2>1. QpInv(q)
    BY DEF QueueInv
  <2>2. CqOnly(q)
    BY ONLY <1>2, <1>14, <1>15, <1>19 DEF CqOnly
  <2>3. fifo # << >> /\ fifo[1].rsn # q /\ fifo' = Tail(fifo)
    BY <1>1, <1>2, <1>4, <1>19
  <2> QED
    BY ONLY <1>3, <2>1, <2>2, <2>3, PollElsewhere, q \in Qps
<1> QED
  BY <1>17, <1>18, <1>19 DEF QueueInv

-----------------------------------------------------------------------------
(***************************************************************************)
(* The way through RESET.                                                  *)
(***************************************************************************)

(* ResetQp keeps the invariant. *)
LEMMA ResetQpInv ==
  ASSUME QueueInv, NEW r \in Qps, ResetQp(r)
  PROVE  QueueInv'
<1>1. QueueTypes /\ QpInv(r)
  BY DEF QueueInv
<1>2. /\ reset[r] = "no" /\ nreq[r] = 0
      /\ reset' = [reset EXCEPT ![r] = "stopped"]
      /\ card' = [card EXCEPT ![r] = NewCard]
      /\ UNCHANGED <<sq, rq, nreq, db, fifo, sends, recvs>>
  BY DEF ResetQp
<1>3. reset'[r] = "stopped" /\ card'[r] = NewCard
  BY <1>1, <1>2 DEF QueueTypes
<1>4. QueueTypes'
  <2>1. NewCard \in [sent : Ctrs, received : Nums, error : BOOLEAN]
    BY Constants DEF NewCard, Ctrs, Nums
  <2>2. /\ card' \in [Qps -> [sent : Ctrs, received : Nums, error : BOOLEAN]]
        /\ reset' \in [Qps -> {"no", "stopped", "clean"}]
    BY <1>1, <1>2, <2>1 DEF QueueTypes
  <2> QED
    BY <1>1, <1>2, <2>2 DEF QueueTypes
<1>5. QpInv(r)'
  <2>1. PICK live, x, y : live = (reset'[r] = "no") /\ x = card'[r].sent
                          /\ y = card'[r].received
    OBVIOUS
  <2>2. live = FALSE
    BY <1>3, <2>1
  <2>3. PICK at, g, c : c \in Nat /\ SendBook(r, sq[r], sends[r], fifo, nreq[r], db[r].snd,
                                              card[r].sent, TRUE, at, c, g)
    BY <1>1, <1>2, BooksOpen DEF Booked
  <2>4. SendBook(r, sq[r], sends[r], fifo, nreq[r], db[r].snd, x, FALSE, at, c, g)
    BY ONLY <2>3, BookStopped
  <2>5. Booked(r, sq[r], sends[r], fifo, nreq[r], db[r].snd, x, live)
    BY <2>2, <2>3, <2>4 DEF Booked, SendBook
  <2>6. RecvBook(r, rq[r], recvs[r], fifo, card[r].received, db[r].rcv, TRUE)
    BY <1>1, <1>2, BooksOpen
  <2>7. RecvBook(r, rq[r], recvs[r], fifo, y, db[r].rcv, live)
    BY <2>2, <2>6 DEF RecvBook
  <2>8. SendsBooked(r)'
    BY <1>2, <2>1, <2>5 DEF SendsBooked
  <2>9. RecvsBooked(r)'
    BY <1>2, <2>1, <2>7 DEF RecvsBooked
  <2>10. Halted(r)'
    BY <1>2, <1>3 DEF Halted, NewCard
  <2> QED
    BY <2>8, <2>9, <2>10 DEF QpInv
<1>6. ASSUME NEW q \in Qps, q # r PROVE QpInv(q)'
  <2>1. QpInv(q)
    BY DEF QueueInv
  <2>2. /\ sq'[q] = sq[q] /\ rq'[q] = rq[q] /\ nreq'[q] = nreq[q]
        /\ db'[q] = db[q] /\ card'[q] = card[q] /\ reset'[q] = reset[q]
        /\ sends'[q] = sends[q] /\ recvs'[q] = recvs[q] /\ fifo' = fifo
    BY <1>1, <1>2, <1>6 DEF QueueTypes
  <2> QED
    BY ONLY <2>1, <2>2, Untouched
<1> QED
  BY <1>4, <1>5, <1>6 DEF QueueInv

(* The CQEs of another QP are swept out. *)
LEMMA SweptElsewhere ==
  ASSUME QueueTypes, NEW r, NEW q \in Qps, q # r, QpInv(q), CqOnly(q),
         fifo' \in Seq(Cqe), NEW e, Left(fifo', fifo, r, e)
  PROVE  QpInv(q)'
<1>1. PICK live, f, w : live = (reset[q] = "no") /\ f = fifo /\ w = fifo'
  OBVIOUS
<1>2. f \in Seq(Cqe) /\ w \in Seq(Cqe) /\ Left(w, f, r, e) /\ q \in Qps \ {r}
  BY <1>1 DEF QueueTypes
<1>3. PICK p : p = [j \in 1 .. Len(w) |-> e[j]]
  OBVIOUS
<1>4. PartOf(w, f, p)
  <2>1. PICK m \in Nat : m = Len(w)
    BY <1>2
  <2>2. /\ \A j \in 1 .. m : e[j] \in 1 .. Len(f) /\ w[j] = f[e[j]]
        /\ \A j, l \in 1 .. m + 1 : j < l => e[j] < e[l]
    BY <1>2, <2>1 DEF Left
  <2>3. \A j \in 1 .. m : j \in 1 .. m + 1
    OBVIOUS
  <2> QED
    BY ONLY <1>3, <2>1, <2>2, <2>3 DEF PartOf
<1>5. SendsBooked(q)'
  <2>1. ASSUME reset[q] # "clean"
        PROVE  Booked(q, sq[q], sends[q], w, nreq[q], db[q].snd, card[q].sent, live)
    <3>1. Booked(q, sq[q], sends[q], f, nreq[q], db[q].snd, card[q].sent, live)
      BY <1>1, <2>1 DEF QpInv, SendsBooked
    <3> QED
      BY ONLY <1>4, <3>1, BookedPart
  <2> QED
    BY <1>1, <2>1 DEF SendsBooked, CqOnly
<1>6. RecvsBooked(q)'
  <2>1. ASSUME reset[q] # "clean"
        PROVE  RecvBook(q, rq[q], recvs[q], w, card[q].received, db[q].rcv, live)
    <3>1. RecvBook(q, rq[q], recvs[q], f, card[q].received, db[q].rcv, live)
      BY <1>1, <2>1 DEF QpInv, RecvsBooked
    <3> QED
      BY ONLY <1>2, <3>1, RecvSwept
  <2> QED
    BY <1>1, <2>1 DEF RecvsBooked, CqOnly
<1>7. Halted(q)'
  <2>1. ASSUME \A j \in 1 .. Len(f) : f[j].rsn # q
        PROVE  \A j \in 1 .. Len(w) : w[j].rsn # q
    BY <1>4, <2>1 DEF PartOf
  <2> QED
    BY <1>1, <2>1 DEF QpInv, Halted, CqOnly
<1> QED
  BY <1>5, <1>6, <1>7 DEF QpInv

(* CleanCq keeps the invariant. *)
LEMMA CleanCqInv ==
  ASSUME QueueInv, NEW r \in Qps, CleanCq(r)
  PROVE  QueueInv'
<1>1. QueueTypes /\ QpInv(r) /\ fifo \in Seq(Cqe)
  BY DEF QueueInv, QueueTypes
<1>2. /\ reset[r] = "stopped"
      /\ reset' = [reset EXCEPT ![r] = "clean"]
      /\ fifo' = Without(fifo, r)
      /\ UNCHANGED <<sq, rq, nreq, db, card, sends, recvs>>
  <2>1. fifo' = Cq!Without(fifo, r)
    BY DEF CleanCq, Cq!Remove
  <2>2. Cq!Without(fifo, r) = Without(fifo, r)
    BY DEF Cq!Without, Without
  <2>3. /\ reset[r] = "stopped"
        /\ reset' = [reset EXCEPT ![r] = "clean"]
        /\ UNCHANGED <<sq, rq, nreq, db, card, sends, recvs>>
    BY DEF CleanCq
  <2> QED
    BY ONLY <2>1, <2>2, <2>3
<1>3. PICK e : Left(fifo', fifo, r, e) /\ fifo' \in Seq(Cqe)
  BY <1>1, <1>2, SweptIs
<1>4. QueueTypes'
  <2>1. reset' \in [Qps -> {"no", "stopped", "clean"}]
    BY <1>1, <1>2 DEF QueueTypes
  <2> QED
    BY <1>1, <1>2, <1>3, <2>1 DEF QueueTypes
<1>5. QpInv(r)'
  <2>1. reset'[r] = "clean"
    BY <1>1, <1>2 DEF QueueTypes
  <2>2. \A j \in 1 .. Len(fifo') : fifo'[j].rsn # r
    BY <1>3 DEF Left
  <2>3. nreq'[r] = 0 /\ card'[r] = NewCard
    BY <1>1, <1>2 DEF QpInv, Halted
  <2> QED
    BY <2>1, <2>2, <2>3 DEF QpInv, SendsBooked, RecvsBooked, Halted, NewCard
<1>6. ASSUME NEW q \in Qps, q # r PROVE QpInv(q)'
  <2>1. QpInv(q)
    BY DEF QueueInv
  <2>2. CqOnly(q)
    BY <1>1, <1>2, <1>6 DEF QueueTypes, CqOnly
  <2> QED
    BY ONLY <1>1, <1>3, <1>6, <2>1, <2>2, SweptElsewhere, q \in Qps
<1> QED
  BY <1>4, <1>5, <1>6 DEF QueueInv

(* InitIndices keeps the invariant. *)
LEMMA InitIndicesInv ==
  ASSUME QueueInv, NEW r \in Qps, InitIndices(r)
  PROVE  QueueInv'
<1>1. QueueTypes /\ QpInv(r) /\ fifo \in Seq(Cqe)
  BY DEF QueueInv, QueueTypes
<1>2. PICK u, v : /\ u = [sq[r] EXCEPT !.head = 0, !.tail = 0, !.scur_post = 0]
                  /\ v = [rq[r] EXCEPT !.head = 0, !.tail = 0]
  OBVIOUS
<1>3. sq[r] \in SqType /\ rq[r] \in RqType /\ 0 \in Nums /\ 0 \in Ctrs
  BY <1>1, QpTypes, Constants DEF Nums, Ctrs
<1>4. /\ u \in SqType /\ u.head = 0 /\ u.tail = 0 /\ u.scur_post = 0
      /\ v \in RqType /\ v.head = 0 /\ v.tail = 0
  BY ONLY <1>2, <1>3 DEF SqType, RqType
<1>5. /\ reset[r] = "clean"
      /\ reset' = [reset EXCEPT ![r] = "no"]
      /\ sq' = [sq EXCEPT ![r] = u]
      /\ rq' = [rq EXCEPT ![r] = v]
      /\ db' = [db EXCEPT ![r] = [snd |-> 0, rcv |-> 0]]
      /\ sends' = [sends EXCEPT ![r] = << >>]
      /\ recvs' = [recvs EXCEPT ![r] = << >>]
      /\ UNCHANGED <<nreq, card, fifo>>
  <2>1. /\ reset[r] = "clean"
        /\ reset' = [reset EXCEPT ![r] = "no"]
        /\ sq' = [sq EXCEPT ![r].head = 0, ![r].tail = 0, ![r].scur_post = 0]
        /\ rq' = [rq EXCEPT ![r].head = 0, ![r].tail = 0]
        /\ db' = [db EXCEPT ![r] = [snd |-> 0, rcv |-> 0]]
        /\ sends' = [sends EXCEPT ![r] = << >>]
        /\ recvs' = [recvs EXCEPT ![r] = << >>]
        /\ UNCHANGED <<nreq, card, fifo>>
    BY DEF InitIndices
  <2>2. sq \in [Qps -> SqType] /\ rq \in [Qps -> RqType]
    BY <1>1 DEF QueueTypes
  <2>3. sq' = [sq EXCEPT ![r] = u]
    BY ONLY <1>2, <2>1, <2>2, r \in Qps DEF SqType
  <2>4. rq' = [rq EXCEPT ![r] = v]
    BY ONLY <1>2, <2>1, <2>2, r \in Qps DEF RqType
  <2> QED
    BY ONLY <2>1, <2>3, <2>4
<1>6. QueueTypes'
  <2>1. sq' \in [Qps -> SqType] /\ rq' \in [Qps -> RqType]
    BY <1>1, <1>4, <1>5 DEF QueueTypes
  <2>2. sends' \in [Qps -> Seq(Request)] /\ recvs' \in [Qps -> Seq(Receive)]
    BY <1>1, <1>5 DEF QueueTypes
  <2>3. db' \in [Qps -> [snd : Ctrs, rcv : Nums]]
    BY <1>1, <1>3, <1>5 DEF QueueTypes
  <2>4. reset' \in [Qps -> {"no", "stopped", "clean"}]
    BY <1>1, <1>5 DEF QueueTypes
  <2> QED
    BY <1>1, <1>5, <2>1, <2>2, <2>3, <2>4 DEF QueueTypes
<1>7. QpInv(r)'
  <2>1. /\ \A j \in 1 .. Len(fifo) : fifo[j].rsn # r
        /\ nreq[r] = 0 /\ card[r] = NewCard
    BY <1>1, <1>5 DEF QpInv, Halted
  <2>2. PICK at, g : at = [i \in {1} |-> 0] /\ g = [j \in 1 .. Len(fifo) |-> 0]
    OBVIOUS
  <2>3. SendBook(r, u, << >>, fifo, 0, 0, 0, TRUE, at, 1, g)
    BY ONLY <1>1, <1>4, <2>1, <2>2, BookStarted
  <2>4. RecvBook(r, v, << >>, fifo, 0, 0, TRUE)
    BY ONLY <1>1, <1>4, <2>1, RecvStarted
  <2>5. /\ sq'[r] = u /\ rq'[r] = v /\ db'[r].snd = 0 /\ db'[r].rcv = 0
        /\ sends'[r] = << >> /\ recvs'[r] = << >>
    BY <1>1, <1>5 DEF QueueTypes
  <2>6. nreq'[r] = 0 /\ card'[r].sent = 0 /\ card'[r].received = 0 /\ reset'[r] = "no"
    BY <1>1, <1>5, <2>1 DEF NewCard, QueueTypes
  <2>7. Booked(r, u, << >>, fifo, 0, 0, 0, TRUE)
    BY <2>3 DEF Booked
  <2>8. Booked(r, sq'[r], sends'[r], fifo', nreq'[r], db'[r].snd, card'[r].sent, TRUE)
    BY <1>5, <2>5, <2>6, <2>7
  <2>9. RecvBook(r, rq'[r], recvs'[r], fifo', card'[r].received, db'[r].rcv, TRUE)
    BY <1>5, <2>4, <2>5, <2>6
  <2> QED
    BY ONLY <2>6, <2>8, <2>9, BooksKept
<1>8. ASSUME NEW q \in Qps, q # r PROVE QpInv(q)'
  <2>1. QpInv(q)
    BY DEF QueueInv
  <2>2. /\ sq'[q] = sq[q] /\ rq'[q] = rq[q] /\ nreq'[q] = nreq[q]
        /\ db'[q] = db[q] /\ card'[q] = card[q] /\ reset'[q] = reset[q]
        /\ sends'[q] = sends[q] /\ recvs'[q] = recvs[q] /\ fifo' = fifo
    BY <1>1, <1>5, <1>8 DEF QueueTypes
  <2> QED
    BY ONLY <2>1, <2>2, Untouched
<1> QED
  BY <1>6, <1>7, <1>8 DEF QueueInv

-----------------------------------------------------------------------------
(***************************************************************************)
(* The theorems.                                                           *)
(***************************************************************************)

(* The queues start empty. *)
LEMMA InitInv ==
  ASSUME Init
  PROVE  QueueInv
<1>1. 0 \in Nums /\ 0 \in Ctrs /\ 0 \in 0 .. ListMax
  BY Constants DEF Nums, Ctrs
<1>2. EmptySq \in SqType /\ EmptyRq \in RqType
  <2>1. [k \in Blocks |-> NoBlock] \in [Blocks -> [id : Nums, part : Nat]]
    BY <1>1 DEF NoBlock
  <2>2. /\ [k \in Blocks |-> 0] \in [Blocks -> Nums]
        /\ [k \in Slots |-> 0] \in [Slots -> Nums]
    BY <1>1
  <2> QED
    BY <1>1, <2>1, <2>2 DEF EmptySq, EmptyRq, SqType, RqType
<1>3. QueueTypes
  <2>1. sq \in [Qps -> SqType] /\ rq \in [Qps -> RqType]
    BY <1>2 DEF Init
  <2>2. /\ nreq \in [Qps -> 0 .. ListMax]
        /\ db \in [Qps -> [snd : Ctrs, rcv : Nums]]
        /\ card \in [Qps -> [sent : Ctrs, received : Nums, error : BOOLEAN]]
        /\ reset \in [Qps -> {"no", "stopped", "clean"}]
    BY <1>1 DEF Init, NewCard
  <2>3. fifo \in Seq(Cqe) /\ sends \in [Qps -> Seq(Request)] /\ recvs \in [Qps -> Seq(Receive)]
    BY DEF Init
  <2> QED
    BY <2>1, <2>2, <2>3 DEF QueueTypes
<1>4. ASSUME NEW q \in Qps PROVE QpInv(q)
  <2>1. PICK u, v, at, g : /\ u = EmptySq /\ v = EmptyRq /\ at = [i \in {1} |-> 0]
                           /\ g = [j \in 1 .. Len(fifo) |-> 0]
    OBVIOUS
  <2>2. /\ u.head = 0 /\ u.tail = 0 /\ u.scur_post = 0 /\ v.head = 0 /\ v.tail = 0
        /\ fifo \in Seq(Cqe)
    BY <1>3, <2>1 DEF EmptySq, EmptyRq, QueueTypes
  <2>3. \A j \in 1 .. Len(fifo) : fifo[j].rsn # q
    BY DEF Init
  <2>4. SendBook(q, u, << >>, fifo, 0, 0, 0, TRUE, at, 1, g)
    BY ONLY <2>1, <2>2, <2>3, BookStarted
  <2>5. RecvBook(q, v, << >>, fifo, 0, 0, TRUE)
    BY ONLY <2>2, <2>3, RecvStarted
  <2>6. /\ sq[q] = u /\ rq[q] = v /\ nreq[q] = 0 /\ db[q].snd = 0 /\ db[q].rcv = 0
        /\ card[q].sent = 0 /\ card[q].received = 0 /\ reset[q] = "no"
        /\ sends[q] = << >> /\ recvs[q] = << >>
    BY <2>1 DEF Init, NewCard
  <2>7. SendsBooked(q)
    BY <2>4, <2>6 DEF SendsBooked, Booked, SendBook
  <2>8. RecvsBooked(q)
    BY <2>5, <2>6 DEF RecvsBooked, RecvBook
  <2>9. Halted(q)
    BY <2>6 DEF Halted
  <2> QED
    BY <2>7, <2>8, <2>9 DEF QpInv
<1> QED
  BY <1>3, <1>4 DEF QueueInv

(* The books are right at all times. *)
LEMMA QueueInvariant == Spec => []QueueInv
<1>1. Init => QueueInv
  BY InitInv
<1>2. QueueInv /\ [Next]_vars => QueueInv'
  <2> SUFFICES ASSUME QueueInv, [Next]_vars PROVE QueueInv'
    OBVIOUS
  <2>1. ASSUME NEW q \in Qps, NEW size \in WqeBlocks, NEW signaled \in BOOLEAN,
               PostSendOne(q, size, signaled)
        PROVE  QueueInv'
    BY <2>1, PostSendOneInv
  <2>2. ASSUME NEW q \in Qps, PostSendEnd(q) PROVE QueueInv'
    BY <2>2, PostSendEndInv
  <2>3. ASSUME NEW q \in Qps, PostRecv(q) PROVE QueueInv'
    BY <2>3, PostRecvInv
  <2>4. ASSUME NEW q \in Qps, NEW fails \in BOOLEAN, CardSends(q, fails) PROVE QueueInv'
    BY <2>4, CardSendsInv
  <2>5. ASSUME NEW q \in Qps, CardReceives(q) PROVE QueueInv'
    BY <2>5, CardReceivesInv
  <2>6. ASSUME NEW q \in Qps, ResetQp(q) PROVE QueueInv'
    BY <2>6, ResetQpInv
  <2>7. ASSUME NEW q \in Qps, CleanCq(q) PROVE QueueInv'
    BY <2>7, CleanCqInv
  <2>8. ASSUME NEW q \in Qps, InitIndices(q) PROVE QueueInv'
    BY <2>8, InitIndicesInv
  <2>9. CASE PollSend
    BY <2>9, PollSendInv
  <2>10. CASE PollRecv
    BY <2>10, PollRecvInv
  <2>11. CASE UNCHANGED vars
    <3>1. QueueTypes'
      BY <2>11 DEF QueueInv, QueueTypes, vars, qVars
    <3>2. ASSUME NEW q \in Qps PROVE QpInv(q)'
      <4>1. QpInv(q)
        BY DEF QueueInv
      <4>2. /\ sq'[q] = sq[q] /\ rq'[q] = rq[q] /\ nreq'[q] = nreq[q]
            /\ db'[q] = db[q] /\ card'[q] = card[q] /\ reset'[q] = reset[q]
            /\ sends'[q] = sends[q] /\ recvs'[q] = recvs[q] /\ fifo' = fifo
        BY <2>11 DEF vars, qVars
      <4> QED
        BY ONLY <4>1, <4>2, Untouched
    <3> QED
      BY <3>1, <3>2 DEF QueueInv
  <2> QED
    BY <2>1, <2>2, <2>3, <2>4, <2>5, <2>6, <2>7, <2>8, <2>9, <2>10, <2>11 DEF Next
<1> QED
  BY <1>1, <1>2, PTL DEF Spec

(* Type correctness of the queues, the doorbells, the card and the CQ.      *)
THEOREM QueueTypeCorrect == Spec => []TypeOK
<1>1. QueueInv => TypeOK
  BY DEF QueueInv, QueueTypes, TypeOK, SqType, RqType
<1> QED
  BY <1>1, QueueInvariant, PTL

(* The wr_id a poll makes of the k-th CQE, if that is about a send. *)
LEMMA RightSend ==
  ASSUME NEW q, NEW u \in SqType, NEW S \in Seq(Request), NEW f \in Seq(Cqe),
         NEW n, NEW d, NEW x, NEW live, Booked(q, u, S, f, n, d, x, live),
         NEW k \in 1 .. Len(f), IsReq(q, f[k])
  PROVE  u.wrid[f[k].wqe_counter % SqBlocks] = f[k].of
<1>1. PICK at, g, c : c \in Nat /\ SendBook(q, u, S, f, n, d, x, live, at, c, g)
  BY DEF Booked
<1>2. PICK L \in Nat : L = Len(S)
  OBVIOUS
<1>3. /\ n \in 0 .. L /\ c \in 1 .. L + 1 - n
      /\ Places(at, S) /\ RingHas(u, S, at) /\ Reported(q, f, S, at, c, g)
  BY <1>1, <1>2 DEF SendBook
<1>4. g[k] \in 1 .. c - 1 /\ About(f[k], S, at, g[k])
  BY <1>3 DEF Reported
<1>5. PICK i \in Nat, a \in Nat : i = g[k] /\ i \in 1 .. L /\ a = at[i]
  <2>1. g[k] \in 1 .. L /\ g[k] \in 1 .. L + 1
    BY <1>3, <1>4
  <2>2. at \in [1 .. L + 1 -> Nat]
    BY <1>2, <1>3 DEF Places
  <2> QED
    BY ONLY <2>1, <2>2
<1>6. f[k].of = S[i].id /\ f[k].wqe_counter = a % CtrMod
  BY ONLY <1>4, <1>5 DEF About
<1>7. f[k].wqe_counter % SqBlocks = a % SqBlocks
  <2>1. a \in Int /\ SqBlocks \in Nat \ {0} /\ CtrMod \in Nat \ {0} /\ CtrMod % SqBlocks = 0
    BY Constants
  <2>2. (a % CtrMod) % SqBlocks = a % SqBlocks
    BY ONLY <2>1, ModOfMod
  <2> QED
    BY ONLY <1>6, <2>2, Zenon
<1>8. InRing(u, S[i], a)
  BY ONLY <1>2, <1>3, <1>5 DEF RingHas
<1>9. u.wrid[a % SqBlocks] = S[i].id
  BY ONLY <1>8 DEF InRing
<1> QED
  BY ONLY <1>6, <1>7, <1>9

(* And if it is about a receive. *)
LEMMA RightRecv ==
  ASSUME NEW q, NEW v \in RqType, NEW R \in Seq(Receive), NEW f \in Seq(Cqe),
         NEW d, NEW x, NEW live, RecvBook(q, v, R, f, x, d, live),
         NEW k \in 1 .. Len(f), IsResp(q, f[k])
  PROVE  v.wrid[(v.tail + Resps(q, f, k)) % RqCnt] = f[k].of
<1>1. PICK L \in Nat, t \in Nat, z \in Nat :
        L = Len(R) /\ t = v.tail /\ z = Resps(q, f, k)
  <2>1. v.tail \in Nat
    BY RqFields
  <2>2. Resps(q, f, k) \in Nat
    BY RespsNext
  <2> QED
    BY ONLY <2>1, <2>2, R \in Seq(Receive)
<1>2. f[k].of = Num(t, z) /\ z < L /\ Numbered(R, t) /\ Listed(v, R)
  BY <1>1 DEF RecvBook, Filled
<1>3. PICK j \in Nat : j = z + 1 /\ j - 1 = z /\ j \in 1 .. L
  BY ONLY <1>2, L \in Nat, z \in Nat
<1>4. R[j].id = Num(t, z)
  BY ONLY <1>1, <1>2, <1>3 DEF Numbered
<1>5. v.wrid[R[j].id % RqCnt] = R[j].id
  BY ONLY <1>1, <1>2, <1>3 DEF Listed
<1>6. Num(t, z) % RqCnt = (t + z) % RqCnt
  BY ONLY SlotIs, t \in Nat, z \in Nat
<1>7. v.wrid[(t + z) % RqCnt] = Num(t, z)
  BY ONLY <1>4, <1>5, <1>6
<1> QED
  BY ONLY <1>1, <1>2, <1>7

(* The completions carry the right wr_ids. *)
LEMMA RightWrIds ==
  ASSUME QueueInv, NEW k \in 1 .. Len(fifo)
  PROVE  WrId(k) = fifo[k].of
<1>1. QueueTypes /\ fifo \in Seq(Cqe)
  BY DEF QueueInv, QueueTypes
<1>2. PICK q : q = fifo[k].rsn
  OBVIOUS
<1>3. q \in Qps /\ fifo[k].op \in {"req", "resp"} /\ QpInv(q)
  <2>1. fifo[k] \in Cqe
    BY <1>1
  <2> QED
    BY <1>2, <2>1 DEF Cqe, QueueInv
<1>4. reset[q] # "clean"
  BY <1>2, <1>3 DEF QpInv, Halted
<1>5. PICK live : live = (reset[q] = "no")
  OBVIOUS
<1>6. /\ sq[q] \in SqType /\ sends[q] \in Seq(Request)
      /\ rq[q] \in RqType /\ recvs[q] \in Seq(Receive)
  BY <1>1, <1>3, QpTypes
<1>7. CASE fifo[k].op = "req"
  <2>1. Booked(q, sq[q], sends[q], fifo, nreq[q], db[q].snd, card[q].sent, live)
    BY <1>3, <1>4, <1>5 DEF QpInv, SendsBooked
  <2>2. IsReq(q, fifo[k])
    BY <1>2, <1>7 DEF IsReq
  <2>3. sq[q].wrid[fifo[k].wqe_counter % SqBlocks] = fifo[k].of
    BY ONLY <1>1, <1>6, <2>1, <2>2, k \in 1 .. Len(fifo), RightSend
  <2> QED
    BY <1>2, <1>7, <2>3 DEF WrId
<1>8. CASE fifo[k].op = "resp"
  <2>1. RecvBook(q, rq[q], recvs[q], fifo, card[q].received, db[q].rcv, live)
    BY <1>3, <1>4, <1>5 DEF QpInv, RecvsBooked
  <2>2. IsResp(q, fifo[k])
    BY <1>2, <1>8 DEF IsResp
  <2>3. rq[q].wrid[(rq[q].tail + Resps(q, fifo, k)) % RqCnt] = fifo[k].of
    BY ONLY <1>1, <1>6, <2>1, <2>2, k \in 1 .. Len(fifo), RightRecv
  <2>4. RespsBefore(q, k) = Resps(q, fifo, k)
    BY DEF RespsBefore, Resps, IsResp
  <2> QED
    BY <1>2, <1>8, <2>3, <2>4 DEF WrId
<1> QED
  BY <1>3, <1>7, <1>8

(* A work completion carries the wr_id of the request it is about.          *)
THEOREM CompletionsAreRight == Spec => []RightCompletion
<1>1. QueueInv => RightCompletion
  BY RightWrIds DEF RightCompletion
<1> QED
  BY <1>1, QueueInvariant, PTL

(* mlx5_wq_overflow counts the requests that are open, and they are no more *)
(* than the queue was made for.                                             *)
THEOREM RoomIsRight == Spec => []SlotsExact
<1>1. ASSUME QueueInv, NEW q \in Qps, reset[q] = "no"
      PROVE  /\ (sq[q].head + nreq[q] - sq[q].tail) % NumMod = Len(sends[q])
             /\ (rq[q].head - rq[q].tail) % NumMod = Len(recvs[q])
             /\ Len(sends[q]) <= SqMaxPost
             /\ Len(recvs[q]) <= RqCnt
  <2>1. QueueTypes /\ QpInv(q)
    BY <1>1 DEF QueueInv
  <2>2. PICK u, S, v, R, n : /\ u = sq[q] /\ S = sends[q] /\ v = rq[q] /\ R = recvs[q]
                             /\ n = nreq[q]
    OBVIOUS
  <2>3. u \in SqType /\ S \in Seq(Request) /\ v \in RqType /\ R \in Seq(Receive) /\ n \in Nat
    BY <2>1, <2>2, QpTypes
  <2>4. Num(u.head, n) = Num(u.tail, Len(S)) /\ Len(S) <= SqMaxPost
    BY <1>1, <2>1, <2>2, BooksOpen DEF Booked, SendBook
  <2>5. v.head = Num(v.tail, Len(R)) /\ Len(R) <= RqCnt
    BY <1>1, <2>1, <2>2, BooksOpen DEF RecvBook
  <2>6. (u.head - u.tail + n) % NumMod = Len(S)
    BY ONLY <2>3, <2>4, SendRoom
  <2>7. (v.head - v.tail) % NumMod = Len(R)
    BY ONLY <2>3, <2>5, RecvRoom
  <2>8. u.head - u.tail + n = u.head + n - u.tail
    <3>1. u.head \in Nat /\ u.tail \in Nat
      BY <2>3, SqFields
    <3> QED
      BY ONLY <2>3, <3>1
  <2> QED
    BY ONLY <2>2, <2>4, <2>5, <2>6, <2>7, <2>8
<1>2. QueueInv => SlotsExact
  BY <1>1 DEF SlotsExact
<1> QED
  BY <1>2, QueueInvariant, PTL

(* The requests from k on take the blocks up to the next free one. *)
BlocksAre(at, S, k) ==
  SumFunctionOnSet([j \in 1 .. Len(S) |-> S[j].size], k .. Len(S)) = at[Len(S) + 1] - at[k]

(* They do. *)
LEMMA BlocksFromIs ==
  ASSUME NEW S \in Seq(Request), NEW at, Places(at, S), NEW k \in 1 .. Len(S) + 1
  PROVE  BlocksAre(at, S, k)
<1>0. PICK L \in Nat : L = Len(S)
  OBVIOUS
<1>1. PICK F : L = Len(S) /\ F = [j \in 1 .. L |-> S[j].size]
  BY <1>0
<1>2. /\ at \in [1 .. L + 1 -> Nat]
      /\ \A j \in 1 .. L : at[j + 1] = at[j] + F[j] /\ F[j] \in Int
  <2>1. /\ at \in [1 .. L + 1 -> Nat]
        /\ \A j \in 1 .. L : at[j + 1] = at[j] + S[j].size
    BY <1>1 DEF Places
  <2>2. \A j \in 1 .. L : S[j].size \in Int
    <3>1. \A j \in 1 .. L : S[j] \in Request
      BY <1>0
    <3>2. \A z \in WqeBlocks : z \in Int
      BY Constants
    <3> QED
      BY ONLY <3>1, <3>2 DEF Request
  <2> QED
    BY ONLY <1>1, <2>1, <2>2
<1> DEFINE Sum(j) == SumFunctionOnSet(F, j .. L)
           Good == {m \in Nat : m <= L => Sum(L + 1 - m) = at[L + 1] - at[L + 1 - m]}
<1>3. ASSUME NEW m \in Nat, \A j \in 0 .. m - 1 : j \in Good, m <= L
      PROVE  Sum(L + 1 - m) = at[L + 1] - at[L + 1 - m]
  <2>1. CASE m = 0
    <3>1. (L + 1) .. L = {} /\ L + 1 - m = L + 1 /\ L + 1 \in 1 .. L + 1
      BY <2>1
    <3>2. SumFunctionOnSet(F, {}) = 0
      BY SumEmpty
    <3>3. at[L + 1] \in Nat
      BY ONLY <1>2, <3>1
    <3> QED
      BY ONLY <3>1, <3>2, <3>3
  <2>2. CASE m # 0
    <3>1. PICK i \in Nat, s \in SUBSET Int : i = L + 1 - m /\ s = i .. L
      BY <1>3
    <3>2. i \in 1 .. L /\ i + 1 = L + 1 - (m - 1) /\ i \in 1 .. L + 1
          /\ i + 1 \in 1 .. L + 1 /\ L + 1 \in 1 .. L + 1
      BY <1>3, <2>2, <3>1
    <3>3. i \in s /\ s \ {i} = (i + 1) .. L
      BY <3>1, <3>2
    <3>4. IsFiniteSet(s)
      BY <3>1, FS_Interval
    <3>5. IntsOn(F, s)
      BY <1>2, <3>1, <3>2 DEF IntsOn
    <3>6. SumFunctionOnSet(F, s) = F[i] + SumFunctionOnSet(F, s \ {i})
      BY ONLY <3>3, <3>4, <3>5, SumRemove
    <3>7. Sum(i + 1) = at[L + 1] - at[i + 1]
      <4>1. m - 1 \in Good /\ m - 1 \in Nat /\ m - 1 <= L
        BY <1>3, <2>2
      <4> QED
        BY <3>2, <4>1
    <3>8. PICK a \in Nat, b \in Nat, e \in Nat, y \in Int :
            a = at[i] /\ b = at[i + 1] /\ e = at[L + 1] /\ y = F[i]
      BY ONLY <1>2, <3>2
    <3>9. b = a + y
      BY ONLY <1>2, <3>2, <3>8
    <3>10. SumFunctionOnSet(F, s) = y + (e - b)
      BY ONLY <3>3, <3>6, <3>7, <3>8
    <3>11. y + (e - b) = e - a
      BY ONLY <3>9, a \in Nat, b \in Nat, e \in Nat, y \in Int
    <3> QED
      BY ONLY <3>1, <3>8, <3>10, <3>11
  <2> QED
    BY <2>1, <2>2
<1>4. \A m \in Nat : m \in Good
  <2>1. \A m \in Nat : (\A j \in 0 .. m - 1 : j \in Good) => m \in Good
    BY <1>3
  <2> HIDE DEF Good
  <2> QED
    BY <2>1, AllNumbers
<1>5. PICK m \in Nat : m = L + 1 - k /\ m <= L /\ L + 1 - m = k
  <2>1. k \in 1 .. L + 1
    BY <1>1
  <2>2. L + 1 - k \in Nat /\ L + 1 - k <= L /\ L + 1 - (L + 1 - k) = k
    BY ONLY <2>1, L \in Nat
  <2> QED
    BY ONLY <2>2
<1>6. m \in Good
  BY <1>4
<1>7. Sum(k) = at[L + 1] - at[k]
  BY <1>5, <1>6
<1> QED
  BY ONLY <1>1, <1>7 DEF BlocksAre

(* Where a request begins, as told from the next free block. *)
LEMMA FirstBlock ==
  ASSUME NEW a \in Nat, NEW b \in Nat, NEW s, s = b % CtrMod,
         NEW y \in Int, y = -(b - a), NEW part \in Nat
  PROVE  (Add(s, y) + part) % SqBlocks = (a + part) % SqBlocks
<1>1. SqBlocks \in Nat \ {0} /\ CtrMod \in Nat \ {0} /\ CtrMod % SqBlocks = 0
  BY Constants
<1>2. Add(s, y) = a % CtrMod
  <2>1. ((b % CtrMod) + y) % CtrMod = (b + y) % CtrMod
    BY ONLY <1>1, ModPlus, b \in Int, y \in Int
  <2>2. b + y = a
    OBVIOUS
  <2> QED
    BY ONLY <2>1, <2>2, s = b % CtrMod, Zenon DEF Add
<1>3. PICK r \in Int : r = a % CtrMod
  <2>1. a % CtrMod \in 0 .. CtrMod - 1
    BY ONLY <1>1, IntDivMod, a \in Int
  <2> QED
    BY ONLY <1>1, <2>1
<1>4. r % SqBlocks = a % SqBlocks
  <2>1. a \in Int
    OBVIOUS
  <2>2. (a % CtrMod) % SqBlocks = a % SqBlocks
    BY ONLY <1>1, <2>1, ModOfMod
  <2> QED
    BY ONLY <1>3, <2>2, Zenon
<1>5. ((r % SqBlocks) + part) % SqBlocks = (r + part) % SqBlocks
  BY ONLY <1>1, ModPlus, r \in Int, part \in Int
<1>6. ((a % SqBlocks) + part) % SqBlocks = (a + part) % SqBlocks
  BY ONLY <1>1, ModPlus, a \in Int, part \in Int
<1> QED
  BY ONLY <1>2, <1>3, <1>4, <1>5, <1>6, Zenon

(* The ring has every block of every open request. *)
LEMMA BlocksStay ==
  ASSUME QueueInv, NEW q \in Qps, reset[q] = "no", NEW k \in 1 .. Len(sends[q]),
         NEW part \in 0 .. sends[q][k].size - 1
  PROVE  sq[q].ring[(Add(sq[q].scur_post, -BlocksFrom(q, k)) + part) % SqBlocks] =
           [id |-> sends[q][k].id, part |-> part]
<1>1. QueueTypes /\ QpInv(q)
  BY DEF QueueInv
<1>2. PICK u, S : u = sq[q] /\ S = sends[q]
  OBVIOUS
<1>3. u \in SqType /\ S \in Seq(Request)
  BY <1>1, <1>2, QpTypes
<1>4. PICK at : /\ Places(at, S) /\ RingHas(u, S, at)
                /\ u.scur_post = at[Len(S) + 1] % CtrMod
  BY <1>1, <1>2, BooksOpen DEF Booked, SendBook
<1>5. PICK L \in Nat : L = Len(S)
  BY <1>3
<1>6. k \in 1 .. L /\ k \in 1 .. L + 1 /\ L + 1 \in 1 .. L + 1 /\ part \in Nat
  <2>1. k \in 1 .. L
    BY <1>2, <1>5
  <2>2. part \in Nat
    OBVIOUS
  <2> QED
    BY ONLY <2>1, <2>2, L \in Nat
<1>7. PICK a \in Nat, b \in Nat : a = at[k] /\ b = at[L + 1]
  <2>1. at \in [1 .. L + 1 -> Nat]
    BY <1>4, <1>5 DEF Places
  <2> QED
    BY ONLY <1>6, <2>1
<1>8. PICK y \in Int : y = -(b - a)
  OBVIOUS
<1>9. BlocksFrom(q, k) = b - a
  <2>1. BlocksAre(at, S, k)
    BY ONLY <1>3, <1>4, <1>5, <1>6, BlocksFromIs
  <2> QED
    BY ONLY <1>2, <1>5, <1>7, <2>1 DEF BlocksAre, BlocksFrom
<1>10. (Add(u.scur_post, y) + part) % SqBlocks = (a + part) % SqBlocks
  <2>1. PICK s : s = u.scur_post
    OBVIOUS
  <2>2. s = b % CtrMod
    BY ONLY <1>4, <1>5, <1>7, <2>1
  <2>3. (Add(s, y) + part) % SqBlocks = (a + part) % SqBlocks
    BY ONLY <1>6, <1>8, <2>2, FirstBlock, a \in Nat, b \in Nat, y \in Int
  <2> QED
    BY ONLY <2>1, <2>3, Zenon
<1>11. InRing(u, S[k], a)
  BY ONLY <1>4, <1>5, <1>6, <1>7 DEF RingHas
<1>12. part \in 0 .. S[k].size - 1
  BY <1>2
<1>13. u.ring[(a + part) % SqBlocks] = [id |-> S[k].id, part |-> part]
  BY ONLY <1>11, <1>12 DEF InRing
<1>14. -BlocksFrom(q, k) = y
  BY ONLY <1>8, <1>9
<1> QED
  BY ONLY <1>2, <1>10, <1>13, <1>14

(* No WQE is overwritten before its slots are released. *)
THEOREM NothingOverwritten == Spec => []NoOverwrite
<1>1. QueueInv => NoOverwrite
  BY BlocksStay, Zenon DEF NoOverwrite
<1> QED
  BY <1>1, QueueInvariant, PTL
=============================================================================
