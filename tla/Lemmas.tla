------------------------------- MODULE Lemmas -------------------------------
(***************************************************************************)
(* What the proofs about several modules need to know of numbers, sums and *)
(* queues: division with remainder, which is what the indices of the       *)
(* program's rings and turns compute; induction; sums over finite sets,    *)
(* which do not depend on the order SumFunctionOnSet takes the indices in; *)
(* and what a sweep leaves of a queue of completions.                      *)
(*                                                                         *)
(* The induction theorems of the library have an operator as a parameter.  *)
(* Induction is done here by the least counterexample instead: a set of    *)
(* numbers that is not empty has a least element.                          *)
(***************************************************************************)
EXTENDS CqEntries, FiniteSets, Functions, FiniteSetTheorems,
        WellFoundedInduction, TLAPS

-----------------------------------------------------------------------------
(***************************************************************************)
(* Division with remainder.                                                *)
(***************************************************************************)

(* Quotient and remainder give the number back. *)
LEMMA DivMod ==
  ASSUME NEW m \in Nat, NEW L \in Nat \ {0}
  PROVE  /\ m = L * (m \div L) + (m % L)
         /\ m % L \in 0 .. L - 1
         /\ m \div L \in Nat
  OBVIOUS

(* They are the only ones that do. *)
LEMMA DivModUnique ==
  ASSUME NEW m \in Nat, NEW L \in Nat \ {0}, NEW q \in Int, NEW r \in 0 .. L - 1,
         m = L * q + r
  PROVE  m % L = r /\ m \div L = q
  OBVIOUS

(* The successor of a cyclic index, and of the round it is in: the          *)
(* (post_turn + 1) % active of the posting loop and the reset of a table    *)
(* index at MPRUD_TABLE_LEN compute the same thing.                         *)
LEMMA ModSucc ==
  ASSUME NEW m \in Nat, NEW L \in Nat \ {0}
  PROVE  /\ (m + 1) % L = (IF (m % L) + 1 = L THEN 0 ELSE (m % L) + 1)
         /\ (m + 1) \div L = (IF (m % L) + 1 = L THEN (m \div L) + 1 ELSE m \div L)
         /\ ((m % L) + 1) % L = (m + 1) % L
<1> DEFINE q == m \div L
           r == m % L
<1>1. m = L * q + r /\ r \in 0 .. L - 1 /\ q \in Nat
  BY DivMod
<1>2. CASE r + 1 = L
  <2>1. m + 1 = L * (q + 1) + 0
    BY <1>1, <1>2
  <2>2. m + 1 \in Nat /\ q + 1 \in Int /\ 0 \in 0 .. L - 1
    BY <1>1
  <2>3. (m + 1) % L = 0 /\ (m + 1) \div L = q + 1
    BY ONLY <2>1, <2>2, L \in Nat \ {0}, DivModUnique
  <2>4. L = L * 1 + 0
    OBVIOUS
  <2>5. L % L = 0
    BY <2>4, DivModUnique
  <2> QED
    BY <1>2, <2>3, <2>5
<1>3. CASE r + 1 # L
  <2>1. m + 1 = L * q + (r + 1) /\ r + 1 \in 0 .. L - 1
    BY <1>1, <1>3
  <2>2. m + 1 \in Nat /\ q \in Int
    BY <1>1
  <2>3. (m + 1) % L = r + 1 /\ (m + 1) \div L = q
    BY ONLY <2>1, <2>2, L \in Nat \ {0}, DivModUnique
  <2>4. r + 1 = L * 0 + (r + 1)
    BY <2>1
  <2>5. (r + 1) % L = r + 1
    BY <2>1, <2>4, DivModUnique, SMTT(30)
  <2> QED
    BY <1>3, <2>3, <2>5
<1> QED
  BY <1>2, <1>3

(* Fewer than L consecutive numbers take different slots of a ring of L.    *)
LEMMA ModDistinct ==
  ASSUME NEW m \in Nat, NEW k \in Nat, NEW L \in Nat \ {0},
         k <= m, m - k < L, m % L = k % L
  PROVE  m = k
<1>1. m = L * (m \div L) + (m % L) /\ m \div L \in Nat
  BY DivMod
<1>2. k = L * (k \div L) + (k % L) /\ k \div L \in Nat
  BY DivMod
<1>3. m - k = L * (m \div L) - L * (k \div L)
  BY <1>1, <1>2, m % L \in Int
<1>4. m - k = L * ((m \div L) - (k \div L))
  BY <1>1, <1>2, <1>3
<1>5. CASE m \div L <= k \div L
  BY <1>1, <1>2, <1>4, <1>5
<1>6. CASE m \div L > k \div L
  <2>1. (m \div L) - (k \div L) >= 1
    BY <1>1, <1>2, <1>6
  <2>2. \A d \in Nat : d >= 1 => L * d >= L
    OBVIOUS
  <2> QED
    BY <1>1, <1>2, <1>4, <2>1, <2>2
<1> QED
  BY <1>1, <1>2, <1>5, <1>6

(* A packet number below n * A is in a round below n. *)
LEMMA RoundBound ==
  ASSUME NEW i \in Nat, NEW n \in Nat, NEW A \in Nat \ {0}, i < n * A
  PROVE  i \div A < n
<1>1. i = A * (i \div A) + (i % A) /\ i % A \in 0 .. A - 1 /\ i \div A \in Nat
  BY DivMod
<1>2. SUFFICES ASSUME i \div A >= n PROVE FALSE
  BY <1>1
<1>3. A * (i \div A) >= A * n
  BY <1>1, <1>2
<1> QED
  BY <1>1, <1>3
-----------------------------------------------------------------------------
(***************************************************************************)
(* Induction.                                                              *)
(***************************************************************************)

(* A set of natural numbers with the property that a number is in it when   *)
(* all smaller ones are has all of them.                                    *)
LEMMA AllNumbers ==
  ASSUME NEW T, \A n \in Nat : (\A k \in 0 .. n - 1 : k \in T) => n \in T
  PROVE  \A n \in Nat : n \in T
<1> DEFINE R == OpToRel(<, Nat)
           Bad == Nat \ T
<1>1. IsWellFoundedOn(R, Nat)
  BY NatLessThanWellFounded
<1> SUFFICES ASSUME Bad # {} PROVE FALSE
  OBVIOUS
<1>2. PICK n \in Bad : \A k \in Bad : <<k, n>> \notin R
  <2> HIDE DEF R, Bad
  <2>1. Bad \subseteq Nat
    BY DEF Bad
  <2> QED
    BY <1>1, <2>1, WFMin
<1>3. ASSUME NEW k \in 0 .. n - 1
      PROVE  k \in T
  <2>1. k \in Nat /\ n \in Nat /\ k < n
    OBVIOUS
  <2>2. <<k, n>> \in R
    BY <2>1 DEF OpToRel
  <2> QED
    BY <1>2, <2>1, <2>2
<1> QED
  BY <1>3

-----------------------------------------------------------------------------
(***************************************************************************)
(* Sums over the subsets of a finite set.                                  *)
(***************************************************************************)

(* The index the sum over s takes first.                                    *)
Pick(s) == CHOOSE x \in s : TRUE

(* One step of the sum of f over s, given the sums h over smaller sets.     *)
OneMore(f, h, s) == IF s = {} THEN 0 ELSE f[Pick(s)] + h[s \ {Pick(s)}]

(* h holds the sums of f over the subsets of S, or over the small ones.     *)
Sums(h, f, S) == \A s \in SUBSET S : h[s] = OneMore(f, h, s)
SmallSums(h, f, S, n) ==
  \A s \in SUBSET S : Cardinality(s) <= n => h[s] = OneMore(f, h, s)

(* What is left when the first index is taken is smaller.                   *)
LEMMA PickSmaller ==
  ASSUME NEW S, IsFiniteSet(S), S # {}
  PROVE  /\ Pick(S) \in S
         /\ IsFiniteSet(S \ {Pick(S)})
         /\ Cardinality(S) \in Nat
         /\ Cardinality(S) > 0
         /\ Cardinality(S \ {Pick(S)}) = Cardinality(S) - 1
<1>1. Pick(S) \in S
  BY DEF Pick
<1>2. Cardinality(S) \in Nat /\ Cardinality(S) # 0
  BY FS_CardinalityType, FS_EmptySet
<1> QED
  BY <1>1, <1>2, FS_RemoveElement

(* The subsets of a finite set.                                             *)
LEMMA SubsetFacts ==
  ASSUME NEW S, IsFiniteSet(S), NEW s \in SUBSET S
  PROVE  /\ IsFiniteSet(s) /\ Cardinality(s) \in Nat
         /\ Cardinality(s) <= Cardinality(S)
         /\ Cardinality(s) = 0 => s = {}
         /\ s # {} => /\ s \ {Pick(s)} \in SUBSET S
                      /\ Cardinality(s \ {Pick(s)}) = Cardinality(s) - 1
BY FS_Subset, FS_CardinalityType, FS_EmptySet, PickSmaller

(* There are such sums.                                                     *)
LEMMA SumsExist ==
  ASSUME NEW S, IsFiniteSet(S), NEW f
  PROVE  \E h : h = [s \in SUBSET S |-> OneMore(f, h, s)]
<1> DEFINE Good == {n \in Nat : \E h : SmallSums(h, f, S, n)}
<1>1. ASSUME NEW n \in Nat, \A k \in 0 .. n - 1 : k \in Good
      PROVE  \E h : SmallSums(h, f, S, n)
  <2>1. CASE n = 0
    <3> DEFINE h == [s \in SUBSET S |-> 0]
    <3>1. ASSUME NEW s \in SUBSET S, Cardinality(s) <= 0
          PROVE  h[s] = OneMore(f, h, s)
      <4>1. Cardinality(s) \in Nat /\ (Cardinality(s) = 0 => s = {})
        BY SubsetFacts
      <4>2. s = {}
        BY <3>1, <4>1
      <4> QED
        BY <4>2 DEF OneMore
    <3> HIDE DEF h
    <3>2. SmallSums(h, f, S, 0)
      BY <3>1 DEF SmallSums
    <3> QED
      BY <2>1, <3>2
  <2>2. CASE n > 0
    <3>1. n - 1 \in Good
      BY <1>1, <2>2
    <3>2. PICK h : SmallSums(h, f, S, n - 1)
      BY <3>1
    <3> DEFINE h2 == [s \in SUBSET S |->
                        IF Cardinality(s) <= n - 1 THEN h[s] ELSE OneMore(f, h, s)]
    <3>3. ASSUME NEW s \in SUBSET S, Cardinality(s) <= n
          PROVE  h2[s] = OneMore(f, h2, s)
      <4>1. h2[s] = OneMore(f, h, s)
        BY <3>2 DEF SmallSums
      <4>2. ASSUME s # {}
            PROVE  h2[s \ {Pick(s)}] = h[s \ {Pick(s)}]
        <5>1. Cardinality(s) \in Nat /\ s \ {Pick(s)} \in SUBSET S
              /\ Cardinality(s \ {Pick(s)}) = Cardinality(s) - 1
          BY <4>2, SubsetFacts
        <5>2. Cardinality(s \ {Pick(s)}) <= n - 1
          BY <3>3, <5>1
        <5> QED
          BY <5>1, <5>2
      <4> HIDE DEF h2
      <4> QED
        BY <4>1, <4>2 DEF OneMore
    <3> HIDE DEF h2
    <3>4. SmallSums(h2, f, S, n)
      BY <3>3 DEF SmallSums
    <3> QED
      BY <3>4
  <2> QED
    BY <2>1, <2>2
<1>2. \A n \in Nat : n \in Good
  <2>1. \A n \in Nat : (\A k \in 0 .. n - 1 : k \in Good) => n \in Good
    BY <1>1
  <2> HIDE DEF Good
  <2> QED
    BY <2>1, AllNumbers
<1>3. PICK h : SmallSums(h, f, S, Cardinality(S))
  <2>1. Cardinality(S) \in Good
    BY <1>2, FS_CardinalityType
  <2> QED
    BY <2>1
<1> DEFINE g == [s \in SUBSET S |-> h[s]]
<1>4. ASSUME NEW s \in SUBSET S
      PROVE  g[s] = OneMore(f, g, s)
  <2>1. Cardinality(s) <= Cardinality(S) /\ (s # {} => s \ {Pick(s)} \in SUBSET S)
    BY SubsetFacts
  <2>2. h[s] = OneMore(f, h, s)
    BY <1>3, <2>1 DEF SmallSums
  <2> QED
    BY <2>1, <2>2 DEF OneMore
<1>5. g = [s \in SUBSET S |-> OneMore(f, g, s)]
  BY <1>4
<1> QED
  BY <1>5

(* SumFunctionOnSet is one of them.                                         *)
LEMMA SumIsOne ==
  ASSUME NEW S, IsFiniteSet(S), NEW f
  PROVE  \E h : Sums(h, f, S) /\ SumFunctionOnSet(f, S) = h[S]
<1> DEFINE iter == CHOOSE h : h = [s \in SUBSET S |-> OneMore(f, h, s)]
<1>1. iter = [s \in SUBSET S |-> OneMore(f, iter, s)]
  <2>1. \E h : h = [s \in SUBSET S |-> OneMore(f, h, s)]
    BY SumsExist
  <2> QED
    BY <2>1
<1>2. SumFunctionOnSet(f, S) = iter[S]
  BY DEF SumFunctionOnSet, FoldFunctionOnSet, MapThenFoldSet, Pick, OneMore
<1> HIDE DEF iter
<1>3. Sums(iter, f, S)
  BY <1>1 DEF Sums
<1> QED
  BY <1>2, <1>3

-----------------------------------------------------------------------------
(* f has numbers on S.                                                      *)
IntsOn(f, S) == \A x \in S : f[x] \in Int

(* The sums are numbers.                                                    *)
LEMMA SumsAreInts ==
  ASSUME NEW S, IsFiniteSet(S), NEW f, IntsOn(f, S),
         NEW h, Sums(h, f, S)
  PROVE  \A s \in SUBSET S : h[s] \in Int
<1> DEFINE Good == {n \in Nat : \A s \in SUBSET S : Cardinality(s) = n => h[s] \in Int}
<1>1. ASSUME NEW n \in Nat, \A k \in 0 .. n - 1 : k \in Good,
             NEW s \in SUBSET S, Cardinality(s) = n
      PROVE  h[s] \in Int
  <2>1. h[s] = OneMore(f, h, s)
    BY DEF Sums
  <2>2. CASE s = {}
    BY <2>1, <2>2 DEF OneMore
  <2>3. CASE s # {}
    <3>1. /\ Pick(s) \in s /\ s \ {Pick(s)} \in SUBSET S
          /\ Cardinality(s \ {Pick(s)}) = n - 1 /\ n - 1 \in 0 .. n - 1
      <4>1. IsFiniteSet(s)
        BY SubsetFacts
      <4> QED
        BY <1>1, <2>3, <4>1, SubsetFacts, PickSmaller
    <3>2. h[s \ {Pick(s)}] \in Int
      <4>1. n - 1 \in Good
        BY <1>1, <3>1
      <4> QED
        BY <3>1, <4>1
    <3> QED
      BY <2>1, <2>3, <3>1, <3>2 DEF OneMore, IntsOn
  <2> QED
    BY <2>2, <2>3
<1>2. \A n \in Nat : n \in Good
  <2>1. \A n \in Nat : (\A k \in 0 .. n - 1 : k \in Good) => n \in Good
    BY <1>1
  <2> HIDE DEF Good
  <2> QED
    BY <2>1, AllNumbers
<1> QED
  BY <1>2, SubsetFacts

(* Any index may be taken first.                                            *)
LEMMA AnyFirst ==
  ASSUME NEW S, IsFiniteSet(S), NEW f, IntsOn(f, S),
         NEW h, Sums(h, f, S), NEW t \in SUBSET S, NEW z \in t
  PROVE  h[t] = f[z] + h[t \ {z}]
<1> DEFINE Good == {n \in Nat : \A s \in SUBSET S : Cardinality(s) = n =>
                                   \A x \in s : h[s] = f[x] + h[s \ {x}]}
<1>0. ASSUME NEW s \in SUBSET S PROVE h[s] \in Int
  BY SumsAreInts
<1>1. ASSUME NEW n \in Nat, \A k \in 0 .. n - 1 : k \in Good,
             NEW s \in SUBSET S, Cardinality(s) = n, NEW x \in s
      PROVE  h[s] = f[x] + h[s \ {x}]
  <2>1. PICK y : y = Pick(s)
    OBVIOUS
  <2>2. IsFiniteSet(s) /\ s # {} /\ y \in s /\ n - 1 \in 0 .. n - 1
    <3>1. IsFiniteSet(s) /\ s # {}
      BY <1>1, SubsetFacts
    <3>2. Pick(s) \in s /\ Cardinality(s) \in Nat /\ Cardinality(s) > 0
      BY <3>1, PickSmaller
    <3> QED
      BY <1>1, <2>1, <3>1, <3>2
  <2>3. h[s] = f[y] + h[s \ {y}]
    BY <2>1, <2>2 DEF Sums, OneMore
  <2>4. CASE x = y
    BY <2>3, <2>4
  <2>5. CASE x # y
    <3>1. /\ Cardinality(s \ {y}) = n - 1 /\ s \ {y} \in SUBSET S /\ x \in s \ {y}
          /\ Cardinality(s \ {x}) = n - 1 /\ s \ {x} \in SUBSET S /\ y \in s \ {x}
      BY <1>1, <2>2, <2>5, FS_RemoveElement
    <3>2. n - 1 \in Good
      BY <1>1, <2>2
    <3>3. h[s \ {y}] = f[x] + h[(s \ {y}) \ {x}]
      BY <3>1, <3>2
    <3>4. h[s \ {x}] = f[y] + h[(s \ {x}) \ {y}]
      BY <3>1, <3>2
    <3>5. (s \ {y}) \ {x} = (s \ {x}) \ {y} /\ (s \ {x}) \ {y} \in SUBSET S
      OBVIOUS
    <3>6. f[x] \in Int /\ f[y] \in Int /\ h[(s \ {x}) \ {y}] \in Int
      BY <1>0, <2>2, <3>5 DEF IntsOn
    <3>7. PICK a, b, c : a = f[x] /\ b = f[y] /\ c = h[(s \ {x}) \ {y}]
      OBVIOUS
    <3>8. a + (b + c) = b + (a + c)
      BY <3>6, <3>7
    <3>9. h[s] = b + (a + c) /\ h[s \ {x}] = b + c
      BY ONLY <2>3, <3>3, <3>4, <3>5, <3>7, Zenon
    <3> QED
      BY ONLY <3>7, <3>8, <3>9, Zenon
  <2> QED
    BY <2>4, <2>5
<1>2. \A n \in Nat : n \in Good
  <2>1. \A n \in Nat : (\A k \in 0 .. n - 1 : k \in Good) => n \in Good
    BY <1>1
  <2> HIDE DEF Good
  <2> QED
    BY <2>1, AllNumbers
<1>3. Cardinality(t) \in Good
  BY <1>2, SubsetFacts
<1> QED
  BY <1>3

(* Functions that agree have the same sums.                                 *)
LEMMA SameSums ==
  ASSUME NEW S, IsFiniteSet(S), NEW T, IsFiniteSet(T), NEW f, NEW e,
         NEW h, Sums(h, f, S), NEW g, Sums(g, e, T)
  PROVE  \A s \in SUBSET (S \cap T) : (\A x \in s : f[x] = e[x]) => h[s] = g[s]
<1> DEFINE Good == {n \in Nat : \A s \in SUBSET (S \cap T) :
                      Cardinality(s) = n /\ (\A x \in s : f[x] = e[x]) => h[s] = g[s]}
<1>1. ASSUME NEW n \in Nat, \A k \in 0 .. n - 1 : k \in Good,
             NEW s \in SUBSET (S \cap T), Cardinality(s) = n,
             \A x \in s : f[x] = e[x]
      PROVE  h[s] = g[s]
  <2>1. /\ s \in SUBSET S /\ s \in SUBSET T
        /\ h[s] = OneMore(f, h, s) /\ g[s] = OneMore(e, g, s)
    BY DEF Sums
  <2>2. CASE s = {}
    BY <2>1, <2>2 DEF OneMore
  <2>3. CASE s # {}
    <3>1. /\ Pick(s) \in s /\ s \ {Pick(s)} \in SUBSET (S \cap T)
          /\ Cardinality(s \ {Pick(s)}) = n - 1 /\ n - 1 \in 0 .. n - 1
      <4>1. IsFiniteSet(s)
        BY <2>1, SubsetFacts
      <4>2. /\ Pick(s) \in s /\ Cardinality(s) \in Nat /\ Cardinality(s) > 0
            /\ Cardinality(s \ {Pick(s)}) = Cardinality(s) - 1
        BY <2>3, <4>1, PickSmaller
      <4>3. s \ {Pick(s)} \in SUBSET (S \cap T)
        OBVIOUS
      <4> QED
        BY <1>1, <4>2, <4>3
    <3>2. h[s \ {Pick(s)}] = g[s \ {Pick(s)}]
      <4>1. n - 1 \in Good
        BY <1>1, <3>1
      <4> QED
        BY <1>1, <3>1, <4>1
    <3>3. f[Pick(s)] = e[Pick(s)]
      BY <1>1, <3>1
    <3> QED
      BY <2>1, <3>2, <3>3 DEF OneMore
  <2> QED
    BY <2>2, <2>3
<1>2. \A n \in Nat : n \in Good
  <2>1. \A n \in Nat : (\A k \in 0 .. n - 1 : k \in Good) => n \in Good
    BY <1>1
  <2> HIDE DEF Good
  <2> QED
    BY <2>1, AllNumbers
<1>3. ASSUME NEW s \in SUBSET (S \cap T)
      PROVE  Cardinality(s) \in Nat
  BY SubsetFacts
<1> QED
  BY <1>2, <1>3

-----------------------------------------------------------------------------
(***************************************************************************)
(* SumFunctionOnSet.                                                       *)
(***************************************************************************)

(* It is a number.                                                          *)
LEMMA SumType ==
  ASSUME NEW S, IsFiniteSet(S), NEW f, IntsOn(f, S)
  PROVE  SumFunctionOnSet(f, S) \in Int
<1>1. PICK h : Sums(h, f, S) /\ SumFunctionOnSet(f, S) = h[S]
  BY SumIsOne
<1>2. h[S] \in Int
  BY <1>1, SumsAreInts
<1> QED
  BY <1>1, <1>2

(* The empty sum.                                                           *)
LEMMA SumEmpty ==
  ASSUME NEW f
  PROVE  SumFunctionOnSet(f, {}) = 0
<1>1. PICK h : Sums(h, f, {}) /\ SumFunctionOnSet(f, {}) = h[{}]
  BY SumIsOne, FS_EmptySet
<1> QED
  BY <1>1 DEF Sums, OneMore

(* Sums over the same indices of functions that agree there.                *)
LEMMA SumSame ==
  ASSUME NEW S, IsFiniteSet(S), NEW f, NEW e, \A x \in S : f[x] = e[x]
  PROVE  SumFunctionOnSet(f, S) = SumFunctionOnSet(e, S)
<1>1. PICK h : Sums(h, f, S) /\ SumFunctionOnSet(f, S) = h[S]
  BY SumIsOne
<1>2. PICK g : Sums(g, e, S) /\ SumFunctionOnSet(e, S) = g[S]
  BY SumIsOne
<1>3. h[S] = g[S]
  <2>1. S \in SUBSET (S \cap S)
    OBVIOUS
  <2> QED
    BY <1>1, <1>2, <2>1, SameSums
<1> QED
  BY <1>1, <1>2, <1>3

(* One index taken out of the sum.                                          *)
LEMMA SumRemove ==
  ASSUME NEW S, IsFiniteSet(S), NEW f, IntsOn(f, S), NEW x \in S
  PROVE  SumFunctionOnSet(f, S) = f[x] + SumFunctionOnSet(f, S \ {x})
<1>1. PICK h : Sums(h, f, S) /\ SumFunctionOnSet(f, S) = h[S]
  BY SumIsOne
<1>2. IsFiniteSet(S \ {x})
  BY FS_RemoveElement
<1>3. PICK g : Sums(g, f, S \ {x}) /\ SumFunctionOnSet(f, S \ {x}) = g[S \ {x}]
  BY <1>2, SumIsOne
<1>4. h[S \ {x}] = g[S \ {x}]
  <2>1. S \ {x} \in SUBSET (S \cap (S \ {x}))
    OBVIOUS
  <2>2. \A s \in SUBSET (S \cap (S \ {x})) : (\A y \in s : f[y] = f[y]) => h[s] = g[s]
    BY <1>1, <1>2, <1>3, SameSums
  <2> QED
    BY <2>1, <2>2
<1>5. h[S] = f[x] + h[S \ {x}]
  <2>1. S \in SUBSET S
    OBVIOUS
  <2> QED
    BY <1>1, <2>1, AnyFirst
<1> QED
  BY <1>1, <1>3, <1>4, <1>5

(* The sum of a function when it changes at one index.                      *)
LEMMA SumChange ==
  ASSUME NEW S, IsFiniteSet(S), NEW f, IntsOn(f, S),
         NEW x \in S, NEW d \in Int, NEW e, e[x] = f[x] + d,
         \A y \in S \ {x} : e[y] = f[y]
  PROVE  SumFunctionOnSet(e, S) = SumFunctionOnSet(f, S) + d
<1>1. IntsOn(e, S)
  BY DEF IntsOn
<1>2. IsFiniteSet(S \ {x})
  BY FS_RemoveElement
<1>3. SumFunctionOnSet(f, S) = f[x] + SumFunctionOnSet(f, S \ {x})
  BY SumRemove
<1>4. SumFunctionOnSet(e, S) = e[x] + SumFunctionOnSet(e, S \ {x})
  BY <1>1, SumRemove
<1>5. SumFunctionOnSet(e, S \ {x}) = SumFunctionOnSet(f, S \ {x})
  BY <1>2, SumSame
<1>6. SumFunctionOnSet(f, S \ {x}) \in Int
  <2>1. IntsOn(f, S \ {x})
    BY DEF IntsOn
  <2> QED
    BY <1>2, <2>1, SumType
<1> QED
  BY <1>3, <1>4, <1>5, <1>6 DEF IntsOn

(* The sum of a function that is 0 everywhere.                              *)
LEMMA SumZero ==
  ASSUME NEW S, IsFiniteSet(S), NEW f, \A x \in S : f[x] = 0
  PROVE  SumFunctionOnSet(f, S) = 0
<1>1. PICK h : Sums(h, f, S) /\ SumFunctionOnSet(f, S) = h[S]
  BY SumIsOne
<1> DEFINE g == [s \in SUBSET S |-> 0]
<1>2. Sums(g, f, S)
  <2>1. ASSUME NEW s \in SUBSET S
        PROVE  g[s] = OneMore(f, g, s)
    <3>1. s # {} => Pick(s) \in S /\ s \ {Pick(s)} \in SUBSET S
      BY DEF Pick
    <3> QED
      BY <3>1 DEF OneMore
  <2> HIDE DEF g
  <2> QED
    BY <2>1 DEF Sums
<1>3. h[S] = g[S]
  <2>1. S \in SUBSET (S \cap S)
    OBVIOUS
  <2> HIDE DEF g
  <2> QED
    BY <1>1, <1>2, <2>1, SameSums
<1> QED
  BY <1>1, <1>3

-----------------------------------------------------------------------------
(***************************************************************************)
(* What a sweep leaves of a sequence of CQEs.                              *)
(***************************************************************************)

(* What is kept of the first k, f being what is kept of fewer.              *)
KeptOf(s, r, f, k) ==
  IF k = 0 THEN <<>>
  ELSE IF s[k].rsn # r THEN Append(f[k - 1], s[k])
  ELSE f[k - 1]

(* f is that for all prefixes of up to n.                                   *)
Keeps(f, s, r, n) == \A k \in 0 .. n : f[k] = KeptOf(s, r, f, k)

(* There is such a function.                                                *)
LEMMA KeepsExists ==
  ASSUME NEW s, NEW r
  PROVE  \A n \in Nat : \E f : Keeps(f, s, r, n)
<1> DEFINE Good == {n \in Nat : \E f : Keeps(f, s, r, n)}
<1>1. ASSUME NEW n \in Nat, \A k \in 0 .. n - 1 : k \in Good
      PROVE  \E f : Keeps(f, s, r, n)
  <2>1. CASE n = 0
    <3> DEFINE f == [k \in 0 .. 0 |-> <<>>]
    <3>1. \A k \in 0 .. 0 : f[k] = KeptOf(s, r, f, k)
      BY DEF KeptOf
    <3> HIDE DEF f
    <3>2. Keeps(f, s, r, 0)
      BY <3>1 DEF Keeps
    <3> QED
      BY <2>1, <3>2
  <2>2. CASE n > 0
    <3>1. n - 1 \in Good
      BY <1>1, <2>2
    <3>2. PICK f : Keeps(f, s, r, n - 1)
      BY <3>1
    <3> DEFINE g == [k \in 0 .. n |-> IF k <= n - 1 THEN f[k] ELSE KeptOf(s, r, f, k)]
    <3>3. ASSUME NEW k \in 0 .. n
          PROVE  g[k] = KeptOf(s, r, g, k)
      <4>1. g[k] = KeptOf(s, r, f, k)
        <5>1. k <= n - 1 => k \in 0 .. n - 1
          OBVIOUS
        <5> QED
          BY <3>2, <5>1 DEF Keeps
      <4>2. k # 0 => g[k - 1] = f[k - 1]
        OBVIOUS
      <4> HIDE DEF g
      <4> QED
        BY <4>1, <4>2 DEF KeptOf
    <3> HIDE DEF g
    <3>4. Keeps(g, s, r, n)
      BY <3>3 DEF Keeps
    <3> QED
      BY <3>4
  <2> QED
    BY <2>1, <2>2
<1>2. \A n \in Nat : n \in Good
  <2>1. \A n \in Nat : (\A k \in 0 .. n - 1 : k \in Good) => n \in Good
    BY <1>1
  <2> HIDE DEF Good
  <2> QED
    BY <2>1, AllNumbers
<1> QED
  BY <1>2

(* Without is what it keeps of the whole sequence.                          *)
LEMMA WithoutIs ==
  ASSUME NEW s, Len(s) \in Nat, NEW r
  PROVE  \E f : Keeps(f, s, r, Len(s)) /\ Without(s, r) = f[Len(s)]
<1> DEFINE kept == CHOOSE f : f = [k \in 0 .. Len(s) |-> KeptOf(s, r, f, k)]
<1>1. \E f : f = [k \in 0 .. Len(s) |-> KeptOf(s, r, f, k)]
  <2>1. PICK h : Keeps(h, s, r, Len(s))
    BY KeepsExists
  <2> DEFINE f == [k \in 0 .. Len(s) |-> h[k]]
  <2>2. ASSUME NEW k \in 0 .. Len(s)
        PROVE  f[k] = KeptOf(s, r, f, k)
    <3>1. f[k] = KeptOf(s, r, h, k)
      BY <2>1 DEF Keeps
    <3>2. k # 0 => f[k - 1] = h[k - 1]
      OBVIOUS
    <3> HIDE DEF f
    <3> QED
      BY <3>1, <3>2 DEF KeptOf
  <2>3. f = [k \in 0 .. Len(s) |-> KeptOf(s, r, f, k)]
    BY <2>2
  <2> QED
    BY <2>3
<1>2. kept = [k \in 0 .. Len(s) |-> KeptOf(s, r, kept, k)]
  BY <1>1
<1>3. Without(s, r) = kept[Len(s)]
  BY DEF Without, KeptOf
<1> HIDE DEF kept
<1>4. Keeps(kept, s, r, Len(s))
  BY <1>2 DEF Keeps
<1> QED
  BY <1>3, <1>4

(* Two sequences begin alike.                                               *)
Alike(s, t, n) == \A k \in 1 .. n : s[k] = t[k]

(* What is kept of a prefix does not depend on what follows.                *)
LEMMA KeptSame ==
  ASSUME NEW s, NEW t, NEW r, NEW n \in Nat, NEW f, NEW g, Keeps(f, s, r, n),
         Keeps(g, t, r, n), Alike(s, t, n)
  PROVE  f[n] = g[n]
<1> DEFINE Good == {m \in Nat : m <= n => f[m] = g[m]}
<1>1. ASSUME NEW m \in Nat, \A k \in 0 .. m - 1 : k \in Good, m <= n
      PROVE  f[m] = g[m]
  <2>1. f[m] = KeptOf(s, r, f, m) /\ g[m] = KeptOf(t, r, g, m)
    BY <1>1 DEF Keeps
  <2>2. CASE m = 0
    BY <2>1, <2>2 DEF KeptOf
  <2>3. CASE m # 0
    <3>1. m - 1 \in Good
      BY <1>1, <2>3
    <3>2. f[m - 1] = g[m - 1] /\ s[m] = t[m]
      BY <1>1, <2>3, <3>1 DEF Alike
    <3> QED
      BY <2>1, <2>3, <3>2 DEF KeptOf
  <2> QED
    BY <2>2, <2>3
<1>2. \A m \in Nat : m \in Good
  <2>1. \A m \in Nat : (\A k \in 0 .. m - 1 : k \in Good) => m \in Good
    BY <1>1
  <2> HIDE DEF Good
  <2> QED
    BY <2>1, AllNumbers
<1> QED
  BY <1>2

(* What is kept is a sequence of CQEs.                                      *)
LEMMA KeptType ==
  ASSUME NEW S, NEW s \in Seq(S), NEW r, NEW f, Keeps(f, s, r, Len(s))
  PROVE  f[Len(s)] \in Seq(S)
<1>0. Len(s) \in Nat
  OBVIOUS
<1> DEFINE Good == {m \in Nat : m <= Len(s) => f[m] \in Seq(S)}
<1>1. ASSUME NEW m \in Nat, \A k \in 0 .. m - 1 : k \in Good, m <= Len(s)
      PROVE  f[m] \in Seq(S)
  <2>1. f[m] = KeptOf(s, r, f, m)
    BY <1>0, <1>1 DEF Keeps
  <2>2. CASE m = 0
    BY <2>1, <2>2 DEF KeptOf
  <2>3. CASE m # 0
    <3>1. m - 1 \in Good
      BY <1>1, <2>3
    <3>2. f[m - 1] \in Seq(S) /\ s[m] \in S
      BY <1>0, <1>1, <2>3, <3>1
    <3> QED
      BY <2>1, <2>3, <3>2 DEF KeptOf
  <2> QED
    BY <2>2, <2>3
<1>2. \A m \in Nat : m \in Good
  <2>1. \A m \in Nat : (\A k \in 0 .. m - 1 : k \in Good) => m \in Good
    BY <1>1
  <2> HIDE DEF Good
  <2> QED
    BY <2>1, AllNumbers
<1> QED
  BY <1>0, <1>2

(* What a sweep leaves of a queue, CQE by CQE.                              *)
LEMMA WithoutFacts ==
  ASSUME NEW S, NEW s \in Seq(S), NEW r
  PROVE  /\ Without(s, r) \in Seq(S)
         /\ s = <<>> => Without(s, r) = <<>>
<1>1. Len(s) \in Nat
  OBVIOUS
<1>2. PICK f : Keeps(f, s, r, Len(s)) /\ Without(s, r) = f[Len(s)]
  BY <1>1, WithoutIs
<1>3. Without(s, r) \in Seq(S)
  BY <1>2, KeptType
<1>4. s = <<>> => Without(s, r) = <<>>
  <2>1. ASSUME s = <<>>
        PROVE  Without(s, r) = <<>>
    <3>1. Len(s) = 0 /\ 0 \in 0 .. 0
      BY <2>1
    <3> QED
      BY <1>2, <3>1 DEF Keeps, KeptOf
  <2> QED
    BY <2>1
<1> QED
  BY <1>3, <1>4

(* The last CQE of it.                                                      *)
EndsWith(t, s, e, r) ==
  Without(t, r) = IF e.rsn = r THEN Without(s, r) ELSE Append(Without(s, r), e)

(* It is there if it is not one of those swept out.                         *)
LEMMA WithoutLast ==
  ASSUME NEW S, NEW s \in Seq(S), NEW e \in S, NEW r, NEW t, t = Append(s, e)
  PROVE  EndsWith(t, s, e, r)
<1>1. /\ Len(s) \in Nat /\ Len(t) \in Nat /\ Len(t) = Len(s) + 1 /\ t[Len(t)] = e
      /\ \A k \in 1 .. Len(s) : t[k] = s[k]
  OBVIOUS
<1>2. PICK n \in Nat : n = Len(s)
  BY <1>1
<1>3. PICK f : Keeps(f, s, r, Len(s)) /\ Without(s, r) = f[Len(s)]
  BY <1>1, WithoutIs
<1>4. PICK g : Keeps(g, t, r, Len(t)) /\ Without(t, r) = g[Len(t)]
  BY <1>1, WithoutIs
<1>5. Keeps(g, t, r, n)
  <2>1. \A k \in 0 .. n : k \in 0 .. Len(t)
    BY <1>1, <1>2
  <2> QED
    BY <1>4, <2>1 DEF Keeps
<1>6. f[n] = g[n]
  <2>1. Alike(s, t, n) /\ Keeps(f, s, r, n)
    BY <1>1, <1>2, <1>3 DEF Alike
  <2> QED
    BY <1>5, <2>1, KeptSame
<1>7. g[n + 1] = IF e.rsn # r THEN Append(g[n], e) ELSE g[n]
  <2>1. g[n + 1] = KeptOf(t, r, g, n + 1)
    BY <1>1, <1>2, <1>4 DEF Keeps
  <2>2. n + 1 # 0 /\ n + 1 - 1 = n /\ t[n + 1] = e
    BY <1>1, <1>2
  <2> QED
    BY <2>1, <2>2 DEF KeptOf
<1> QED
  BY <1>1, <1>2, <1>3, <1>4, <1>6, <1>7 DEF EndsWith
=============================================================================
