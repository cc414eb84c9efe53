---------------------------- MODULE FifoEngineProofs ----------------------------
(***************************************************************************)
(* Facts about running totals, for every column of integers, and about     *)
(* what the closed forms of FifoEngine compute, for every queue.           *)
(*                                                                         *)
(* The induction they rest on is stated over sets of naturals: LeastNat    *)
(* takes a least element out of the well-foundedness of strict inclusion   *)
(* on finite sets, and SetInduction follows from it.                       *)
(***************************************************************************)
EXTENDS FifoEngine, TLAPS, FiniteSetTheorems, WellFoundedInduction

(* A nonempty set of naturals has a least element. *)
LEMMA LeastNat ==
  ASSUME NEW T \in SUBSET Nat, T # {}
  PROVE  \E n \in T : \A m \in T : n <= m
<1> DEFINE R == StrictSubsetOrdering(Nat)
<1> DEFINE U == {0..n : n \in T}
<1>1. IsWellFoundedOn(R, FiniteSubsetsOf(Nat))
  BY FS_StrictSubsetOrderingWellFounded
<1>2. U \subseteq FiniteSubsetsOf(Nat)
  <2>1. \A n \in Nat : IsFiniteSet(0..n) /\ 0..n \subseteq Nat
    BY FS_Interval
  <2> QED BY <2>1 DEF FiniteSubsetsOf
<1>3. PICK x \in U : \A y \in U : ~(<<y, x>> \in R)
  <2>1. U # {} OBVIOUS
  <2> HIDE DEF R, U
  <2> QED BY <1>1, <1>2, <2>1, WFMin
<1>4. PICK n \in T : x = 0..n
  OBVIOUS
<1>5. ASSUME NEW m \in T, m < n PROVE FALSE
  <2>1. n \in Nat /\ m \in Nat
    OBVIOUS
  <2>2. 0..m \subseteq 0..n /\ 0..m # 0..n
    <3>1. n \in 0..n /\ n \notin 0..m
      BY <2>1, <1>5
    <3> QED BY <2>1, <1>5, <3>1
  <2>3. <<0..m, 0..n>> \in R
    BY <2>2, <2>1 DEF StrictSubsetOrdering
  <2> QED BY <2>3, <1>3, <1>4
<1> QED BY <1>4, <1>5

(* Induction over the naturals, for a set in place of a predicate. *)
LEMMA SetInduction ==
  ASSUME NEW S, 0 \in S, \A n \in Nat : n \in S => n + 1 \in S
  PROVE  Nat \subseteq S
<1> DEFINE Bad == {n \in Nat : n \notin S}
<1>1. SUFFICES ASSUME Bad # {} PROVE FALSE
  OBVIOUS
<1>2. PICK n \in Bad : \A m \in Bad : n <= m
  <2>1. Bad \in SUBSET Nat OBVIOUS
  <2> HIDE DEF Bad
  <2> QED BY <1>1, <2>1, LeastNat
<1>3. n \in Nat /\ n # 0
  OBVIOUS
<1>4. n - 1 \in Nat /\ n - 1 \in S
  BY <1>2, <1>3
<1> QED BY <1>3, <1>4

--------------------------------------------------------------------------------
(* The recursion of RunningSum has a solution: tables of partial sums.     *)
PartialSums(f, n) ==
  {b \in [0..n -> Int] : b[0] = 0 /\ \A i \in 1..n : b[i] = b[i - 1] + f[i]}

(* A longer table of partial sums starts with a shorter one. *)
LEMMA PartialSumsPrefix ==
  ASSUME NEW f \in [Nat -> Int], NEW n \in Nat, NEW c \in PartialSums(f, n + 1)
  PROVE  /\ [i \in 0..n |-> c[i]] \in PartialSums(f, n)
         /\ c \in [0..(n + 1) -> Int]
         /\ c[n + 1] = c[n] + f[n + 1]
<1> DEFINE p == [i \in 0..n |-> c[i]]
<1>1. c \in [0..(n + 1) -> Int] /\ c[0] = 0 /\ \A i \in 1..(n + 1) : c[i] = c[i - 1] + f[i]
  BY DEF PartialSums
<1>2. p \in [0..n -> Int] /\ p[0] = 0
  BY <1>1
<1>3. ASSUME NEW i \in 1..n PROVE p[i] = p[i - 1] + f[i]
  <2>1. i \in 0..n /\ i - 1 \in 0..n /\ i \in 1..(n + 1)
    OBVIOUS
  <2>2. p[i] = c[i] /\ p[i - 1] = c[i - 1]
    BY <2>1
  <2> HIDE DEF p
  <2> QED BY <1>1, <2>1, <2>2
<1>4. p \in PartialSums(f, n)
  BY <1>2, <1>3 DEF PartialSums
<1>5. c[n + 1] = c[(n + 1) - 1] + f[n + 1] /\ (n + 1) - 1 = n
  BY <1>1
<1> QED BY <1>1, <1>4, <1>5

(* There is exactly one table of partial sums of each length. *)
LEMMA PartialSumsUnique ==
  ASSUME NEW f \in [Nat -> Int]
  PROVE  \A n \in Nat : \E b \in PartialSums(f, n) : \A c \in PartialSums(f, n) : c = b
<1> DEFINE S == {n \in Nat : \E b \in PartialSums(f, n) : \A c \in PartialSums(f, n) : c = b}
<1>1. 0 \in S
  <2>1. [i \in 0..0 |-> 0] \in PartialSums(f, 0)
    BY DEF PartialSums
  <2>2. \A c \in PartialSums(f, 0) : c = [i \in 0..0 |-> 0]
    BY DEF PartialSums
  <2> QED BY <2>1, <2>2
<1>2. ASSUME NEW n \in Nat, n \in S PROVE n + 1 \in S
  <2>1. PICK b \in PartialSums(f, n) : \A c \in PartialSums(f, n) : c = b
    BY <1>2
  <2> DEFINE e == [i \in 0..(n + 1) |-> IF i = n + 1 THEN b[n] + f[n + 1] ELSE b[i]]
  <2>2. e \in PartialSums(f, n + 1)
    BY <2>1 DEF PartialSums
  <2>3. ASSUME NEW c \in PartialSums(f, n + 1) PROVE c = e
    <3>1. [i \in 0..n |-> c[i]] = b /\ c \in [0..(n + 1) -> Int] /\ c[n + 1] = c[n] + f[n + 1]
      BY PartialSumsPrefix, <2>1
    <3>2. \A i \in 0..n : c[i] = b[i]
      BY <3>1
    <3>3. ASSUME NEW i \in 0..(n + 1) PROVE c[i] = e[i]
      <4>1. CASE i = n + 1
        <5>1. c[n] = b[n] BY <3>2
        <5> QED BY <4>1, <5>1, <3>1
      <4>2. CASE i # n + 1
        <5>1. i \in 0..n BY <4>2
        <5> QED BY <5>1, <4>2, <3>2
      <4> QED BY <4>1, <4>2
    <3>4. e = [i \in 0..(n + 1) |-> e[i]] OBVIOUS
    <3>5. c = [i \in 0..(n + 1) |-> c[i]] BY <3>1
    <3> HIDE DEF e
    <3> QED BY <3>3, <3>4, <3>5
  <2>4. n + 1 \in Nat
    OBVIOUS
  <2> HIDE DEF e
  <2>5. \E d \in PartialSums(f, n + 1) : \A c \in PartialSums(f, n + 1) : c = d
    BY <2>2, <2>3
  <2> QED BY <2>4, <2>5
<1> HIDE DEF S
<1>3. Nat \subseteq S
  BY <1>1, <1>2, SetInduction
<1> QED BY <1>3 DEF S

(* What RunningSum computes, for every column and every length. *)
THEOREM RunningSumDef ==
  ASSUME NEW f \in [Nat -> Int]
  PROVE  /\ RunningSum(f) \in [Nat -> Int]
         /\ RunningSum(f)[0] = 0
         /\ \A n \in Nat : RunningSum(f)[n + 1] = RunningSum(f)[n] + f[n + 1]
<1> DEFINE B(n) == CHOOSE b \in PartialSums(f, n) : TRUE
<1> DEFINE g == [n \in Nat |-> B(n)[n]]
<1>1. \A n \in Nat : B(n) \in PartialSums(f, n) /\ \A c \in PartialSums(f, n) : c = B(n)
  BY PartialSumsUnique
<1> HIDE DEF B
<1>2. g \in [Nat -> Int] /\ g[0] = 0
  BY <1>1 DEF PartialSums
<1>3. ASSUME NEW n \in Nat PROVE g[n + 1] = g[n] + f[n + 1]
  <2>1. B(n + 1) \in PartialSums(f, n + 1)
    BY <1>1
  <2>2. /\ [i \in 0..n |-> B(n + 1)[i]] \in PartialSums(f, n)
        /\ B(n + 1)[n + 1] = B(n + 1)[n] + f[n + 1]
    BY <2>1, PartialSumsPrefix
  <2>3. [i \in 0..n |-> B(n + 1)[i]] = B(n)
    BY <2>2, <1>1
  <2>4. [i \in 0..n |-> B(n + 1)[i]][n] = B(n + 1)[n]
    OBVIOUS
  <2> QED BY <2>2, <2>3, <2>4
<1>4. g = [n \in Nat |-> IF n = 0 THEN 0 ELSE g[n - 1] + f[n]]
  <2>1. ASSUME NEW n \in Nat PROVE g[n] = IF n = 0 THEN 0 ELSE g[n - 1] + f[n]
    <3>1. CASE n = 0 BY <3>1, <1>2
    <3>2. CASE n # 0
      <4>1. n - 1 \in Nat /\ (n - 1) + 1 = n BY <3>2
      <4> HIDE DEF g
      <4>2. g[(n - 1) + 1] = g[n - 1] + f[(n - 1) + 1] BY <1>3, <4>1
      <4> QED BY <4>1, <4>2, <3>2
    <3> QED BY <3>1, <3>2
  <2> QED BY <2>1
<1> HIDE DEF g
<1> DEFINE h == RunningSum(f)
<1>5. h = [n \in Nat |-> IF n = 0 THEN 0 ELSE h[n - 1] + f[n]]
  BY <1>4 DEF RunningSum
<1> HIDE DEF h
<1>6. \A n \in Nat : h[n] = g[n]
  <2> DEFINE S == {n \in Nat : h[n] = g[n]}
  <2>1. 0 \in S BY <1>5, <1>2
  <2>2. ASSUME NEW n \in Nat, n \in S PROVE n + 1 \in S
    <3>1. h[n + 1] = h[n] + f[n + 1] BY <1>5
    <3> QED BY <3>1, <2>2, <1>3
  <2> HIDE DEF S
  <2>3. Nat \subseteq S BY <2>1, <2>2, SetInduction
  <2> QED BY <2>3 DEF S
<1>7. h = g BY <1>5, <1>6, <1>2
<1> QED BY <1>7, <1>2, <1>3 DEF h

--------------------------------------------------------------------------------
(* Columns that agree on 1..n have the same total there. *)
LEMMA SumEqual ==
  ASSUME NEW f \in [Nat -> Int], NEW g \in [Nat -> Int], NEW n \in Nat,
         \A i \in 1..n : f[i] = g[i]
  PROVE  RunningSum(f)[n] = RunningSum(g)[n]
<1> DEFINE F == RunningSum(f)
<1> DEFINE G == RunningSum(g)
<1> DEFINE S == {m \in Nat : m <= n => F[m] = G[m]}
<1>1. /\ F \in [Nat -> Int] /\ F[0] = 0 /\ \A m \in Nat : F[m + 1] = F[m] + f[m + 1]
      /\ G \in [Nat -> Int] /\ G[0] = 0 /\ \A m \in Nat : G[m + 1] = G[m] + g[m + 1]
  BY RunningSumDef
<1> HIDE DEF F, G
<1>2. 0 \in S
  BY <1>1
<1>3. ASSUME NEW m \in Nat, m \in S PROVE m + 1 \in S
  <2>1. CASE m + 1 <= n
    <3>1. f[m + 1] = g[m + 1] /\ F[m] = G[m]
      BY <2>1, <1>3
    <3>2. F[m + 1] = F[m] + f[m + 1] /\ G[m + 1] = G[m] + g[m + 1]
      BY <1>1
    <3> QED BY <3>1, <3>2
  <2>2. CASE ~ (m + 1 <= n)
    BY <2>2
  <2> QED BY <2>1, <2>2
<1> HIDE DEF S
<1>4. Nat \subseteq S
  BY <1>2, <1>3, SetInduction
<1> QED BY <1>4 DEF S, F, G

(* A column that is the difference of two has the difference of totals.    *)
LEMMA SumDifference ==
  ASSUME NEW f \in [Nat -> Int], NEW g \in [Nat -> Int], NEW h \in [Nat -> Int],
         \A i \in Nat : h[i] = f[i] - g[i]
  PROVE  \A n \in Nat : RunningSum(h)[n] = RunningSum(f)[n] - RunningSum(g)[n]
<1> DEFINE F == RunningSum(f)
<1> DEFINE G == RunningSum(g)
<1> DEFINE H == RunningSum(h)
<1> DEFINE S == {n \in Nat : H[n] = F[n] - G[n]}
<1>1. /\ F \in [Nat -> Int] /\ F[0] = 0 /\ \A m \in Nat : F[m + 1] = F[m] + f[m + 1]
      /\ G \in [Nat -> Int] /\ G[0] = 0 /\ \A m \in Nat : G[m + 1] = G[m] + g[m + 1]
      /\ H \in [Nat -> Int] /\ H[0] = 0 /\ \A m \in Nat : H[m + 1] = H[m] + h[m + 1]
  BY RunningSumDef
<1> HIDE DEF F, G, H
<1>2. 0 \in S
  BY <1>1
<1>3. ASSUME NEW m \in Nat, m \in S PROVE m + 1 \in S
  <2>1. /\ H[m] = F[m] - G[m] /\ h[m + 1] = f[m + 1] - g[m + 1]
        /\ F[m + 1] = F[m] + f[m + 1] /\ G[m + 1] = G[m] + g[m + 1]
        /\ H[m + 1] = H[m] + h[m + 1]
    BY <1>1, <1>3
  <2>2. /\ F[m] \in Int /\ G[m] \in Int /\ f[m + 1] \in Int /\ g[m + 1] \in Int
    BY <1>1
  <2> QED BY <2>1, <2>2
<1> HIDE DEF S
<1>4. Nat \subseteq S
  BY <1>2, <1>3, SetInduction
<1> QED BY <1>4 DEF S, F, G, H

(* Totals of natural columns are natural and never decrease.               *)
LEMMA SumNatural ==
  ASSUME NEW f \in [Nat -> Nat]
  PROVE  /\ RunningSum(f) \in [Nat -> Nat]
         /\ RunningSum(f)[0] = 0
         /\ \A n \in Nat : RunningSum(f)[n + 1] = RunningSum(f)[n] + f[n + 1]
         /\ \A m, n \in Nat : m <= n => RunningSum(f)[m] <= RunningSum(f)[n]
<1> DEFINE F == RunningSum(f)
<1>1. F \in [Nat -> Int] /\ F[0] = 0 /\ \A m \in Nat : F[m + 1] = F[m] + f[m + 1]
  BY RunningSumDef
<1> HIDE DEF F
<1>2. \A n \in Nat : F[n] \in Nat
  <2> DEFINE S == {n \in Nat : F[n] \in Nat}
  <2>1. 0 \in S BY <1>1
  <2>2. ASSUME NEW m \in Nat, m \in S PROVE m + 1 \in S
    <3>1. F[m + 1] = F[m] + f[m + 1] /\ F[m] \in Nat /\ f[m + 1] \in Nat
      BY <1>1, <2>2
    <3> QED BY <3>1
  <2> HIDE DEF S
  <2>3. Nat \subseteq S BY <2>1, <2>2, SetInduction
  <2> QED BY <2>3 DEF S
<1>3. ASSUME NEW m \in Nat PROVE \A n \in Nat : m <= n => F[m] <= F[n]
  <2> DEFINE S == {n \in Nat : m <= n => F[m] <= F[n]}
  <2>1. 0 \in S
    <3>1. m <= 0 => m = 0 OBVIOUS
    <3> QED BY <3>1, <1>2
  <2>2. ASSUME NEW n \in Nat, n \in S PROVE n + 1 \in S
    <3>1. F[n + 1] = F[n] + f[n + 1] /\ f[n + 1] \in Nat
      BY <1>1
    <3>2. F[n] \in Nat /\ F[m] \in Nat /\ F[n + 1] \in Nat
      BY <1>2
    <3>3. CASE m <= n BY <3>1, <3>2, <3>3, <2>2
    <3>4. CASE m = n + 1 BY <3>2, <3>4
    <3>5. CASE m > n + 1 BY <3>5
    <3> QED BY <3>3, <3>4, <3>5
  <2> HIDE DEF S
  <2>3. Nat \subseteq S BY <2>1, <2>2, SetInduction
  <2> QED BY <2>3 DEF S
<1>4. F \in [Nat -> Nat]
  BY <1>1, <1>2
<1> QED BY <1>1, <1>3, <1>4 DEF F

(* A column of zeros has no total.                                         *)
LEMMA SumZero ==
  ASSUME NEW f \in [Nat -> Int], \A i \in Nat : f[i] = 0
  PROVE  \A n \in Nat : RunningSum(f)[n] = 0
<1>1. \A i \in Nat : f[i] = f[i] - f[i]
  OBVIOUS
<1>2. \A n \in Nat : RunningSum(f)[n] = RunningSum(f)[n] - RunningSum(f)[n]
  BY <1>1, SumDifference
<1>3. RunningSum(f) \in [Nat -> Int]
  BY RunningSumDef
<1> QED BY <1>2, <1>3

(* A column that is nowhere larger has no larger total.                    *)
LEMMA SumMonotone ==
  ASSUME NEW f \in [Nat -> Int], NEW g \in [Nat -> Int], NEW n \in Nat,
         \A i \in 1..n : f[i] <= g[i]
  PROVE  RunningSum(f)[n] <= RunningSum(g)[n]
<1> DEFINE F == RunningSum(f)
<1> DEFINE G == RunningSum(g)
<1> DEFINE S == {m \in Nat : m <= n => F[m] <= G[m]}
<1>1. /\ F \in [Nat -> Int] /\ F[0] = 0 /\ \A m \in Nat : F[m + 1] = F[m] + f[m + 1]
      /\ G \in [Nat -> Int] /\ G[0] = 0 /\ \A m \in Nat : G[m + 1] = G[m] + g[m + 1]
  BY RunningSumDef
<1> HIDE DEF F, G
<1>2. 0 \in S
  BY <1>1
<1>3. ASSUME NEW m \in Nat, m \in S PROVE m + 1 \in S
  <2>1. CASE m + 1 <= n
    <3>1. f[m + 1] <= g[m + 1] /\ F[m] <= G[m]
      BY <2>1, <1>3
    <3>2. F[m + 1] = F[m] + f[m + 1] /\ G[m + 1] = G[m] + g[m + 1]
      BY <1>1
    <3>3. F[m] \in Int /\ G[m] \in Int /\ f[m + 1] \in Int /\ g[m + 1] \in Int
      BY <1>1
    <3> QED BY <3>1, <3>2, <3>3
  <2>2. CASE ~ (m + 1 <= n)
    BY <2>2
  <2> QED BY <2>1, <2>2
<1> HIDE DEF S
<1>4. Nat \subseteq S
  BY <1>2, <1>3, SetInduction
<1> QED BY <1>4 DEF S, F, G

(* One column put behind the first n places of another.                    *)
LEMMA SumAppend ==
  ASSUME NEW f \in [Nat -> Int], NEW g \in [Nat -> Int], NEW h \in [Nat -> Int], NEW n \in Nat,
         \A i \in 1..n : h[i] = f[i], \A i, j \in Nat : i > 0 /\ j = n + i => h[j] = g[i]
  PROVE  \A m \in Nat : RunningSum(h)[n + m] = RunningSum(f)[n] + RunningSum(g)[m]
<1> DEFINE F == RunningSum(f)
<1> DEFINE G == RunningSum(g)
<1> DEFINE H == RunningSum(h)
<1> DEFINE S == {m \in Nat : H[n + m] = F[n] + G[m]}
<1>1. F[n] = H[n]
  BY SumEqual
<1>2. /\ F \in [Nat -> Int]
      /\ G \in [Nat -> Int] /\ G[0] = 0 /\ \A m \in Nat : G[m + 1] = G[m] + g[m + 1]
      /\ H \in [Nat -> Int] /\ \A m \in Nat : H[m + 1] = H[m] + h[m + 1]
  BY RunningSumDef
<1> HIDE DEF F, G, H
<1>3. 0 \in S
  BY <1>1, <1>2
<1>4. ASSUME NEW m \in Nat, m \in S PROVE m + 1 \in S
  <2>1. n + m \in Nat /\ (n + m) + 1 = n + (m + 1)
    OBVIOUS
  <2>2. H[(n + m) + 1] = H[n + m] + h[(n + m) + 1]
    BY <1>2, <2>1
  <2>3. H[n + (m + 1)] = H[n + m] + g[m + 1]
    <3> DEFINE j == n + (m + 1)
    <3> DEFINE i == m + 1
    <3>1. j \in Nat /\ i \in Nat /\ i > 0 /\ j = n + i
      OBVIOUS
    <3>2. H[j] = H[n + m] + h[j]
      BY <2>1, <2>2
    <3> HIDE DEF i, j
    <3>3. h[j] = g[i]
      BY <3>1
    <3> QED BY <3>2, <3>3 DEF i, j
  <2>4. H[n + m] = F[n] + G[m] /\ G[m + 1] = G[m] + g[m + 1]
    BY <1>2, <1>4
  <2>5. H[n + m] \in Int /\ F[n] \in Int /\ G[m] \in Int /\ g[m + 1] \in Int
    BY <1>2, <2>1
  <2>6. H[n + (m + 1)] = F[n] + G[m + 1]
    BY <2>3, <2>4, <2>5
  <2> QED BY <2>6
<1> HIDE DEF S
<1>5. Nat \subseteq S
  BY <1>3, <1>4, SetInduction
<1> QED BY <1>5 DEF S, F, G, H

(* A column that is 0 beyond n has its total at n.                         *)
LEMMA TotalStays ==
  ASSUME NEW f \in [Nat -> Int], NEW n \in Nat, f[n + 1] = 0
  PROVE  RunningSum(f)[n + 1] = RunningSum(f)[n]
<1>1. RunningSum(f)[n + 1] = RunningSum(f)[n] + f[n + 1] /\ RunningSum(f)[n] \in Int
  BY RunningSumDef
<1> QED BY <1>1

(* A column that gets an entry at n + 1 gains that much.                   *)
LEMMA TotalGrows ==
  ASSUME NEW f \in [Nat -> Int], NEW g \in [Nat -> Int], NEW n \in Nat,
         \A i \in 1..n : f[i] = g[i]
  PROVE  /\ RunningSum(g)[n + 1] = RunningSum(f)[n] + g[n + 1]
         /\ RunningSum(f)[n] \in Int
<1>1. RunningSum(f)[n] = RunningSum(g)[n]
  BY SumEqual
<1>2. RunningSum(g)[n + 1] = RunningSum(g)[n] + g[n + 1] /\ RunningSum(f) \in [Nat -> Int]
  BY RunningSumDef
<1> QED BY <1>1, <1>2

--------------------------------------------------------------------------------
(* Selling from a queue. *)

(* A sale takes from each place at most what is there.                     *)
LEMMA ConsumedBounds ==
  ASSUME NEW queue \in [Nat -> Nat], NEW qty \in Nat
  PROVE  /\ Consumed(queue, qty) \in [Nat -> Nat]
         /\ \A i \in Nat : Consumed(queue, qty)[i] <= queue[i]
<1> DEFINE upTo == RunningSum(queue)
<1> DEFINE taken(i) == LET left == qty - (upTo[i] - queue[i])
                       IN  IF left <= 0 THEN 0 ELSE Smaller(left, queue[i])
<1>1. upTo \in [Nat -> Nat]
  BY SumNatural
<1>2. Consumed(queue, qty) = [i \in Nat |-> taken(i)]
  BY DEF Consumed
<1> HIDE DEF upTo
<1>3. \A i \in Nat : taken(i) \in Nat /\ taken(i) <= queue[i]
  BY <1>1 DEF Smaller
<1> HIDE DEF taken
<1> QED BY <1>2, <1>3

(* In all, a sale takes what it asks for or what there is, whichever is    *)
(* less: a sale that the check lets through sells every share of it.       *)
THEOREM ConsumedTotal ==
  ASSUME NEW queue \in [Nat -> Nat], NEW qty \in Nat
  PROVE  \A n \in Nat : RunningSum(Consumed(queue, qty))[n] = Smaller(qty, Available(queue, n))
<1> DEFINE upTo == RunningSum(queue)
<1> DEFINE taken == Consumed(queue, qty)
<1> DEFINE T == RunningSum(taken)
<1> DEFINE S == {n \in Nat : T[n] = Smaller(qty, upTo[n])}
<1>1. /\ upTo \in [Nat -> Nat] /\ upTo[0] = 0
      /\ \A n \in Nat : upTo[n + 1] = upTo[n] + queue[n + 1]
  BY SumNatural
<1>2. taken \in [Nat -> Nat]
  BY ConsumedBounds
<1>3. \A i \in Nat : taken[i] = LET left == qty - (upTo[i] - queue[i])
                                IN  IF left <= 0 THEN 0 ELSE Smaller(left, queue[i])
  BY DEF Consumed
<1> HIDE DEF taken
<1>4. T[0] = 0 /\ \A n \in Nat : T[n + 1] = T[n] + taken[n + 1]
  BY <1>2, RunningSumDef
<1> HIDE DEF T, upTo
<1>5. 0 \in S
  BY <1>1, <1>4 DEF Smaller
<1>6. ASSUME NEW n \in Nat, n \in S PROVE n + 1 \in S
  <2>1. T[n + 1] = T[n] + taken[n + 1] /\ T[n] = Smaller(qty, upTo[n])
    BY <1>4, <1>6
  <2>2. upTo[n + 1] = upTo[n] + queue[n + 1] /\ upTo[n] \in Nat /\ queue[n + 1] \in Nat
    BY <1>1
  <2>3. taken[n + 1] = IF qty - upTo[n] <= 0 THEN 0 ELSE Smaller(qty - upTo[n], queue[n + 1])
    BY <1>3, <2>2
  <2>4. T[n + 1] = Smaller(qty, upTo[n + 1])
    BY <2>1, <2>2, <2>3 DEF Smaller
  <2> QED BY <2>4
<1> HIDE DEF S
<1>7. Nat \subseteq S
  BY <1>5, <1>6, SetInduction
<1> QED BY <1>7 DEF S, T, taken, upTo, Available

(* A sale of no more than the first n places hold leaves the rest alone.   *)
LEMMA ConsumedStops ==
  ASSUME NEW queue \in [Nat -> Nat], NEW qty \in Nat, NEW n \in Nat,
         qty <= Available(queue, n), NEW i \in Nat, i > n
  PROVE  Consumed(queue, qty)[i] = 0
<1> DEFINE upTo == RunningSum(queue)
<1>1. upTo \in [Nat -> Nat] /\ \A m, k \in Nat : m <= k => upTo[m] <= upTo[k]
  BY SumNatural
<1>2. \A m \in Nat : upTo[m + 1] = upTo[m] + queue[m + 1]
  BY SumNatural
<1>3. Consumed(queue, qty)[i] = LET left == qty - (upTo[i] - queue[i])
                                IN  IF left <= 0 THEN 0 ELSE Smaller(left, queue[i])
  BY DEF Consumed
<1>4. qty <= upTo[n]
  BY DEF Available
<1> HIDE DEF upTo
<1>5. i - 1 \in Nat /\ (i - 1) + 1 = i /\ n <= i - 1
  OBVIOUS
<1>6. upTo[i] - queue[i] = upTo[i - 1] /\ upTo[n] <= upTo[i - 1]
  <2>1. upTo[(i - 1) + 1] = upTo[i - 1] + queue[(i - 1) + 1]
    BY <1>2, <1>5
  <2>2. upTo[i] = upTo[i - 1] + queue[i]
    BY <2>1, <1>5
  <2>3. upTo[i - 1] \in Nat /\ queue[i] \in Nat
    BY <1>1, <1>5
  <2>4. upTo[n] <= upTo[i - 1]
    BY <1>1, <1>5
  <2> QED BY <2>2, <2>3, <2>4
<1>7. qty - (upTo[i] - queue[i]) <= 0
  BY <1>1, <1>4, <1>5, <1>6
<1> QED BY <1>3, <1>7
================================================================================
