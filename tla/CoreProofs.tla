------------------------------ MODULE CoreProofs ------------------------------
(***************************************************************************)
(* Lemmas that the proofs about the core library rest on.  First numbers:  *)
(* induction over the natural numbers, functions defined by recursion,     *)
(* sums over finite sets, a field of integers modulo a prime, and the ring *)
(* of power series.                                                        *)
(*                                                                         *)
(* Then the operators of Tally, for any number of voters and candidates:   *)
(* what sums of counts are, and that the posts of an honest aggregator     *)
(* pass every check.                                                       *)
(***************************************************************************)
EXTENDS Tally, FiniteSetTheorems, SequenceTheorems, TLAPS

-----------------------------------------------------------------------------
(* Induction and recursion.  Both are stated of sets and functions, not of  *)
(* operators, so that the provers can use them.                             *)

\* Every nonempty set of naturals has a least element.
LEMMA LeastElement ==
    ASSUME NEW S \in SUBSET Nat, S # {}
    PROVE  \E p \in S : \A q \in S : p <= q
<1> DEFINE Below == {0..n : n \in S}
<1>1. \A n \in S : 0..n \in FiniteSubsetsOf(Nat)
  <2> SUFFICES ASSUME NEW n \in S
               PROVE  0..n \in FiniteSubsetsOf(Nat)
    OBVIOUS
  <2>1. n \in Int /\ 0 \in Int
    OBVIOUS
  <2>2. IsFiniteSet(0..n)
    BY <2>1, FS_Interval
  <2> QED
    BY <2>2 DEF FiniteSubsetsOf
<1>2. IsWellFoundedOn(StrictSubsetOrdering(Nat), FiniteSubsetsOf(Nat))
  BY FS_StrictSubsetOrderingWellFounded
<1>3. PICK B \in Below : \A C \in Below : ~(<<C, B>> \in StrictSubsetOrdering(Nat))
  <2>1. Below \subseteq FiniteSubsetsOf(Nat) /\ Below # {}
    BY <1>1
  <2> HIDE DEF Below
  <2> QED
    BY <2>1, <1>2, WFMin
<1>4. PICK p \in S : B = 0..p
  OBVIOUS
<1>5. ASSUME NEW q \in S
      PROVE  p <= q
  <2>1. SUFFICES ASSUME q < p
                 PROVE  FALSE
    OBVIOUS
  <2>2. /\ 0..q \in SUBSET Nat
        /\ 0..p \in SUBSET Nat
        /\ 0..q \subseteq 0..p
        /\ p \notin 0..q
        /\ p \in 0..p
    BY <2>1
  <2>3. <<0..q, B>> \in StrictSubsetOrdering(Nat)
    BY <1>4, <2>2 DEF StrictSubsetOrdering
  <2> QED
    BY <1>3, <2>3
<1> QED
  BY <1>5

LEMMA Induct ==
    ASSUME NEW S \in SUBSET Nat, 0 \in S, \A n \in S : n + 1 \in S
    PROVE  \A n \in Nat : n \in S
<1>1. SUFFICES ASSUME Nat \ S # {} PROVE FALSE
  OBVIOUS
<1>2. PICK m \in Nat \ S : \A k \in Nat \ S : m <= k
  BY <1>1, LeastElement
<1>3. m # 0 /\ m - 1 \in Nat
  BY <1>2
<1>4. m - 1 \in S
  BY <1>2, <1>3
<1>5. m \in S
  BY <1>2, <1>4
<1>. QED  BY <1>2, <1>5

\* g begins with x and goes on as F says, up to n.
Follows(g, F, x, A, n) ==
    /\ g \in [0..n -> A]
    /\ g[0] = x
    /\ \A i \in 0..(n - 1) : g[i + 1] = F[i][g[i]]

LEMMA FollowsUnique ==
    ASSUME NEW A, NEW F, NEW x, NEW n \in Nat, NEW m \in Nat, n <= m,
           NEW g, NEW h, Follows(g, F, x, A, n), Follows(h, F, x, A, m)
    PROVE  \A i \in 0..n : g[i] = h[i]
<1> DEFINE S == {i \in Nat : i <= n => g[i] = h[i]}
<1>1. 0 \in S
  BY DEF Follows
<1>2. \A i \in S : i + 1 \in S
  <2>1. SUFFICES ASSUME NEW i \in S, i + 1 <= n PROVE g[i + 1] = h[i + 1]
    OBVIOUS
  <2>2. i \in 0..(n - 1) /\ i \in 0..(m - 1) /\ g[i] = h[i]
    BY <2>1
  <2>. QED  BY <2>2 DEF Follows
<1> HIDE DEF S
<1>3. \A i \in Nat : i \in S
  <2>1. S \in SUBSET Nat
    BY DEF S
  <2>. QED  BY <1>1, <1>2, <2>1, Induct
<1>. QED  BY <1>3 DEF S

\* f begins with x and goes on as F says, without end.
Iterates(f, F, x, A) ==
    /\ f \in [Nat -> A]
    /\ f[0] = x
    /\ \A n \in Nat : f[n + 1] = F[n][f[n]]

\* A function on the natural numbers may be defined by recursion.
LEMMA Recursion ==
    ASSUME NEW A, NEW F \in [Nat -> [A -> A]], NEW x \in A
    PROVE  \E f : Iterates(f, F, x, A)
<1> DEFINE S == {n \in Nat : \E g : Follows(g, F, x, A, n)}
<1>1. 0 \in S
  <2>1. Follows([i \in 0..0 |-> x], F, x, A, 0)
    BY DEF Follows
  <2>. QED  BY <2>1
<1>2. \A n \in S : n + 1 \in S
  <2>1. SUFFICES ASSUME NEW n \in Nat, NEW g, Follows(g, F, x, A, n)
                 PROVE  \E h : Follows(h, F, x, A, n + 1)
    OBVIOUS
  <2> DEFINE h == [i \in 0..(n + 1) |-> IF i = n + 1 THEN F[n][g[n]] ELSE g[i]]
  <2>2. g \in [0..n -> A] /\ g[0] = x /\ \A i \in 0..(n - 1) : g[i + 1] = F[i][g[i]]
    BY <2>1 DEF Follows
  <2>3. g[n] \in A /\ F[n][g[n]] \in A
    BY <2>2
  <2>4. h \in [0..(n + 1) -> A]
    BY <2>2, <2>3
  <2>5. h[0] = x
    BY <2>2
  <2>6. ASSUME NEW i \in 0..n PROVE h[i + 1] = F[i][h[i]]
    <3>1. CASE i = n
      BY <3>1
    <3>2. CASE i # n
      <4>1. i \in 0..(n - 1) /\ i + 1 \in 0..(n + 1) /\ i + 1 # n + 1 /\ i # n + 1
        BY <3>2
      <4>. QED  BY <4>1, <2>2
    <3>. QED  BY <3>1, <3>2
  <2>7. n + 1 - 1 = n
    OBVIOUS
  <2> HIDE DEF h
  <2>. QED  BY <2>4, <2>5, <2>6, <2>7 DEF Follows
<1>3. \A n \in Nat : \E g : Follows(g, F, x, A, n)
  <2>1. S \in SUBSET Nat
    OBVIOUS
  <2> HIDE DEF S
  <2>2. \A n \in Nat : n \in S
    BY <1>1, <1>2, <2>1, Induct
  <2>. QED  BY <2>2 DEF S
<1> DEFINE G(n) == CHOOSE g : Follows(g, F, x, A, n)
           f == [n \in Nat |-> G(n)[n]]
<1>4. \A n \in Nat : Follows(G(n), F, x, A, n)
  BY <1>3
<1> HIDE DEF G
<1>5. f \in [Nat -> A]
  BY <1>4 DEF Follows
<1>6. f[0] = x
  BY <1>4 DEF Follows
<1>7. ASSUME NEW n \in Nat PROVE f[n + 1] = F[n][f[n]]
  <2>1. Follows(G(n), F, x, A, n) /\ Follows(G(n + 1), F, x, A, n + 1) /\ n <= n + 1
    BY <1>4
  <2>2. G(n)[n] = G(n + 1)[n]
    <3>1. n + 1 \in Nat /\ n \in 0..n
      OBVIOUS
    <3>. QED  BY <2>1, <3>1, FollowsUnique
  <2>3. G(n + 1)[n + 1] = F[n][G(n + 1)[n]]
    <3>1. n \in 0..(n + 1 - 1)
      OBVIOUS
    <3>. QED  BY <2>1, <3>1 DEF Follows
  <2>. QED  BY <2>2, <2>3
<1>. QED  BY <1>5, <1>6, <1>7 DEF Iterates

-----------------------------------------------------------------------------
(* Sums over finite sets *)

\* A nonempty set of subsets of a finite set has a minimal member.
LEMMA MinimalSubset ==
    ASSUME NEW S, IsFiniteSet(S), NEW B \in SUBSET SUBSET S, B # {}
    PROVE  \E T \in B : \A U \in B : U \subseteq T => U = T
<1>1. B \subseteq FiniteSubsetsOf(S)
  BY FS_Subset DEF FiniteSubsetsOf
<1>2. IsWellFoundedOn(StrictSubsetOrdering(S), FiniteSubsetsOf(S))
  BY FS_StrictSubsetOrderingWellFounded
<1>3. PICK T \in B : \A U \in B : ~(<<U, T>> \in StrictSubsetOrdering(S))
  BY <1>1, <1>2, WFMin
<1>4. \A U \in B : U \subseteq T => U = T
  BY <1>3 DEF StrictSubsetOrdering
<1>. QED  BY <1>4

\* How SumFunction adds: one value after the other, in the order of CHOOSE.
Adds(f, S, g) ==
    g = [T \in SUBSET S |-> IF T = {} THEN 0
                            ELSE f[CHOOSE x \in T : TRUE] + g[T \ {CHOOSE x \in T : TRUE}]]

LEMMA SumIsChoice ==
    ASSUME NEW f
    PROVE  SumFunction(f) = (CHOOSE g : Adds(f, DOMAIN f, g))[DOMAIN f]
BY DEF SumFunction, SumFunctionOnSet, FoldFunctionOnSet, MapThenFoldSet, Adds

\* The sum is what any h gives that adds the values one by one in whatever order.
LEMMA SumIs ==
    ASSUME NEW f, IsFiniteSet(DOMAIN f), NEW h,
           h[{}] = 0,
           \A T \in SUBSET DOMAIN f : \A x \in T : h[T] = f[x] + h[T \ {x}]
    PROVE  SumFunction(f) = h[DOMAIN f]
<1> DEFINE S  == DOMAIN f
           h0 == [T \in SUBSET S |-> h[T]]
           g  == CHOOSE k : Adds(f, S, k)
           B  == {T \in SUBSET S : g[T] # h[T]}
<1>1. Adds(f, S, h0)
  <2>1. ASSUME NEW T \in SUBSET S
        PROVE  h0[T] = IF T = {} THEN 0
                       ELSE f[CHOOSE x \in T : TRUE] + h0[T \ {CHOOSE x \in T : TRUE}]
    OBVIOUS
  <2>. QED  BY <2>1 DEF Adds
<1>2. Adds(f, S, g)
  BY <1>1
<1> HIDE DEF g
<1>3. /\ g[{}] = 0
      /\ \A T \in SUBSET S : T # {} =>
            LET x == CHOOSE x \in T : TRUE IN g[T] = f[x] + g[T \ {x}]
  BY <1>2 DEF Adds
<1>4. B = {}
  <2>1. SUFFICES ASSUME B # {} PROVE FALSE
    OBVIOUS
  <2>2. PICK T \in B : \A U \in B : U \subseteq T => U = T
    <3>1. B \in SUBSET SUBSET S /\ IsFiniteSet(S)
      OBVIOUS
    <3> HIDE DEF B, S
    <3>. QED  BY <2>1, <3>1, MinimalSubset
  <2>3. T # {}
    BY <1>3
  <2> DEFINE x == CHOOSE x \in T : TRUE
  <2>4. x \in T
    BY <2>3
  <2>5. g[T] = f[x] + g[T \ {x}] /\ h[T] = f[x] + h[T \ {x}]
    BY <1>3, <2>3, <2>4
  <2>6. T \ {x} \in SUBSET S /\ T \ {x} \notin B
    BY <2>2, <2>4
  <2>. QED  BY <2>5, <2>6
<1>5. SumFunction(f) = g[S]
  BY SumIsChoice DEF g
<1>. QED  BY <1>4, <1>5

-----------------------------------------------------------------------------
(* Integers modulo p *)

\* The remainder is the only number of its range that differs by a multiple.
LEMMA RemainderIs ==
    ASSUME NEW p \in Nat \ {0}, NEW k \in Int, NEW r \in 0..(p - 1)
    PROVE  (k * p + r) % p = r
OBVIOUS

LEMMA Remainder ==
    ASSUME NEW p \in Nat \ {0}, NEW x \in Int
    PROVE  /\ x % p \in 0..(p - 1)
           /\ \E k \in Int : x = k * p + (x % p)
<1>1. x = (x \div p) * p + (x % p) /\ x \div p \in Int /\ x % p \in 0..(p - 1)
  OBVIOUS
<1>. QED  BY <1>1

\* Numbers that differ by a multiple have the same remainder.
LEMMA SameRemainder ==
    ASSUME NEW p \in Nat \ {0}, NEW x \in Int, NEW y \in Int, NEW k \in Int, x = y + k * p
    PROVE  x % p = y % p
<1>1. PICK c \in Int : y = c * p + (y % p)
  BY Remainder
<1>2. y % p \in 0..(p - 1)
  BY Remainder
<1> DEFINE s == y % p
<1> HIDE DEF s
<1>3. x = (c + k) * p + s
  <2>1. (c + k) * p = c * p + k * p /\ c * p \in Int /\ k * p \in Int /\ s \in Int
    BY <1>2 DEF s
  <2>2. y = c * p + s
    BY <1>1 DEF s
  <2>. QED  BY <2>1, <2>2
<1>4. c + k \in Int /\ s \in 0..(p - 1)
  BY <1>2 DEF s
<1>5. x % p = s
  BY <1>3, <1>4, RemainderIs
<1>. QED  BY <1>5 DEF s

\* Remainders may be taken of a factor or of a summand before.
LEMMA ModTimes ==
    ASSUME NEW p \in Nat \ {0}, NEW x \in Int, NEW y \in Int
    PROVE  ((x % p) * y) % p = (x * y) % p
<1>1. PICK k \in Int : x = k * p + (x % p)
  BY Remainder
<1>2. x % p \in Int
  BY Remainder
<1> DEFINE s == x % p
<1> HIDE DEF s
<1>3. x * y = s * y + (k * y) * p
  <2>1. x = k * p + s /\ s \in Int
    BY <1>1, <1>2 DEF s
  <2>2. (k * p + s) * y = s * y + (k * y) * p
    BY <2>1
  <2>. QED  BY <2>1, <2>2
<1>4. s * y \in Int /\ x * y \in Int /\ k * y \in Int
  BY <1>2 DEF s
<1>5. (x * y) % p = (s * y) % p
  BY <1>3, <1>4, SameRemainder
<1>. QED  BY <1>5 DEF s

LEMMA ModPlus ==
    ASSUME NEW p \in Nat \ {0}, NEW x \in Int, NEW y \in Int
    PROVE  ((x % p) + y) % p = (x + y) % p
<1>1. PICK k \in Int : x = k * p + (x % p)
  BY Remainder
<1>2. x % p \in Int
  BY Remainder
<1> DEFINE s == x % p
<1> HIDE DEF s
<1>3. x + y = (s + y) + k * p
  <2>1. x = k * p + s /\ s \in Int /\ k * p \in Int
    BY <1>1, <1>2 DEF s
  <2>. QED  BY <2>1
<1>4. s + y \in Int /\ x + y \in Int
  BY <1>2 DEF s
<1>5. (x + y) % p = (s + y) % p
  BY <1>3, <1>4, SameRemainder
<1>. QED  BY <1>5 DEF s

LEMMA SmallRemainder ==
    ASSUME NEW p \in Nat \ {0}, NEW x \in 0..(p - 1)
    PROVE  x % p = x
<1>1. (0 * p + x) % p = x
  BY RemainderIs
<1>. QED  BY <1>1

\* Every number but zero has an inverse.
IsField(p) ==
    /\ p \in Nat /\ p > 1
    /\ \A x \in 1..(p - 1) : \E y \in 1..(p - 1) : (x * y) % p = 1

LEMMA NoZeroDivisors ==
    ASSUME NEW p, IsField(p), NEW x \in Int, NEW y \in Int, x % p # 0, (x * y) % p = 0
    PROVE  y % p = 0
<1>1. p \in Nat \ {0} /\ p > 1
  BY DEF IsField
<1>2. x % p \in 1..(p - 1)
  BY <1>1, Remainder
<1>3. PICK z \in 1..(p - 1) : ((x % p) * z) % p = 1
  BY <1>2 DEF IsField
<1>4. z \in Int /\ x * z \in Int /\ x * y \in Int
  BY <1>1, <1>3
<1>5. (x * z) % p = 1
  BY <1>1, <1>3, <1>4, ModTimes
<1>6. y % p = ((x * z) * y) % p
  <2>1. (((x * z) % p) * y) % p = ((x * z) * y) % p
    BY <1>1, <1>4, ModTimes
  <2>2. 1 * y = y
    OBVIOUS
  <2>. QED  BY <1>5, <2>1, <2>2
<1>7. ((x * y) * z) % p = 0
  <2>1. (((x * y) % p) * z) % p = ((x * y) * z) % p
    BY <1>1, <1>4, ModTimes
  <2>2. 0 * z = 0 /\ 0 % p = 0
    BY <1>1, <1>4, SmallRemainder
  <2>. QED  BY <2>1, <2>2
<1>8. (x * z) * y = (x * y) * z
  BY <1>4
<1>. QED  BY <1>6, <1>7, <1>8

-----------------------------------------------------------------------------
(* Powers *)

\* w[k] is the k-th power of x modulo p.
IsPower(w, x, p) ==
    /\ w \in [Nat -> 0..(p - 1)]
    /\ w[0] = 1
    /\ \A k \in Nat : w[k + 1] = (x * w[k]) % p

LEMMA PowersExist ==
    ASSUME NEW p \in Nat, p > 1, NEW x \in Int
    PROVE  \E w : IsPower(w, x, p)
<1> DEFINE A == 0..(p - 1)
           F == [k \in Nat |-> [y \in A |-> (x * y) % p]]
<1>1. F \in [Nat -> [A -> A]] /\ 1 \in A
  <2>1. \A y \in A : (x * y) % p \in A
    BY Remainder
  <2>. QED  BY <2>1
<1>2. \A k \in Nat, y \in A : F[k][y] = (x * y) % p
  OBVIOUS
<1> HIDE DEF A, F
<1>3. PICK f : Iterates(f, F, 1, A)
  BY <1>1, Recursion
<1>4. f \in [Nat -> A] /\ f[0] = 1 /\ \A k \in Nat : f[k + 1] = F[k][f[k]]
  BY <1>3 DEF Iterates
<1>5. \A k \in Nat : f[k + 1] = (x * f[k]) % p
  BY <1>2, <1>4
<1>. QED  BY <1>4, <1>5 DEF IsPower, A

LEMMA PowerIs ==
    ASSUME NEW p \in Nat, p > 1, NEW x \in Int, NEW w,
           w = CHOOSE g : g = [k \in Nat |-> IF k = 0 THEN 1 ELSE (x * g[k - 1]) % p]
    PROVE  IsPower(w, x, p)
<1> DEFINE A == 0..(p - 1)
<1>2. PICK f : IsPower(f, x, p)
  BY PowersExist
<1>3. f \in [Nat -> A] /\ f[0] = 1 /\ \A k \in Nat : f[k + 1] = (x * f[k]) % p
  BY <1>2 DEF IsPower
<1>4. f = [k \in Nat |-> IF k = 0 THEN 1 ELSE (x * f[k - 1]) % p]
  <2>1. ASSUME NEW k \in Nat PROVE f[k] = IF k = 0 THEN 1 ELSE (x * f[k - 1]) % p
    <3>1. k # 0 => k - 1 \in Nat /\ (k - 1) + 1 = k
      OBVIOUS
    <3>. QED  BY <1>3, <3>1
  <2>. QED  BY <1>3, <2>1
<1>5. w = [k \in Nat |-> IF k = 0 THEN 1 ELSE (x * w[k - 1]) % p]
  BY <1>4
<1>6. w[0] = 1 /\ \A k \in Nat : w[k + 1] = (x * w[k]) % p
  <2>1. ASSUME NEW k \in Nat PROVE w[k + 1] = (x * w[k]) % p
    <3>1. k + 1 \in Nat /\ k + 1 # 0 /\ (k + 1) - 1 = k
      OBVIOUS
    <3>. QED  BY <1>5, <3>1
  <2>. QED  BY <1>5, <2>1
<1>7. \A k \in Nat : w[k] = f[k]
  <2> DEFINE S == {k \in Nat : w[k] = f[k]}
  <2>1. 0 \in S /\ S \in SUBSET Nat
    BY <1>3, <1>6
  <2>2. \A k \in S : k + 1 \in S
    <3>1. SUFFICES ASSUME NEW k \in Nat, w[k] = f[k] PROVE w[k + 1] = f[k + 1]
      OBVIOUS
    <3>. QED  BY <3>1, <1>3, <1>6
  <2> HIDE DEF S
  <2>3. \A k \in Nat : k \in S
    BY <2>1, <2>2, Induct
  <2>. QED  BY <2>3 DEF S
<1>8. w \in [Nat -> A]
  BY <1>3, <1>5, <1>7
<1>. QED  BY <1>6, <1>8 DEF IsPower

LEMMA PowerPlus ==
    ASSUME NEW p \in Nat, p > 1, NEW x \in Int, NEW w, IsPower(w, x, p), NEW j \in Nat
    PROVE  \A k \in Nat : w[j + k] = (w[j] * w[k]) % p
<1> DEFINE S == {k \in Nat : w[j + k] = (w[j] * w[k]) % p}
<1>0. p \in Nat \ {0} /\ \A k \in Nat : w[k] \in 0..(p - 1) /\ w[k] \in Int
  BY DEF IsPower
<1>1. 0 \in S
  <2>1. j + 0 = j /\ w[j] * 1 = w[j] /\ w[j] % p = w[j]
    BY <1>0, SmallRemainder
  <2>. QED  BY <2>1 DEF IsPower
<1>2. \A k \in S : k + 1 \in S
  <2>1. SUFFICES ASSUME NEW k \in Nat, w[j + k] = (w[j] * w[k]) % p
                 PROVE  w[j + (k + 1)] = (w[j] * w[k + 1]) % p
    OBVIOUS
  <2> DEFINE u == w[j]
             v == w[k]
  <2>2. u \in Int /\ v \in Int /\ u * v \in Int /\ x * v \in Int
    BY <1>0
  <2>3. w[j + (k + 1)] = (x * w[j + k]) % p
    <3>1. j + (k + 1) = (j + k) + 1 /\ j + k \in Nat
      OBVIOUS
    <3>. QED  BY <3>1 DEF IsPower
  <2>4. w[k + 1] = (x * v) % p
    BY DEF IsPower
  <2>5. w[j + k] = (u * v) % p
    BY <2>1
  <2> HIDE DEF u, v
  <2>6. (((u * v) % p) * x) % p = ((u * v) * x) % p
    BY <1>0, <2>2, ModTimes
  <2>7. (((x * v) % p) * u) % p = ((x * v) * u) % p
    BY <1>0, <2>2, ModTimes
  <2>8. (u * v) * x = (x * v) * u
    BY <2>2
  <2>9. (u * v) % p \in Int /\ (x * v) % p \in Int
    BY <1>0, <2>2, Remainder
  <2>10. /\ ((u * v) % p) * x = x * ((u * v) % p)
         /\ ((x * v) % p) * u = u * ((x * v) % p)
    BY <2>2, <2>9
  <2>. QED  BY <2>3, <2>4, <2>5, <2>6, <2>7, <2>8, <2>10 DEF u
<1> HIDE DEF S
<1>3. \A k \in Nat : k \in S
  <2>1. S \in SUBSET Nat
    BY DEF S
  <2>. QED  BY <1>1, <1>2, <2>1, Induct
<1>. QED  BY <1>3 DEF S

LEMMA PowerTimes ==
    ASSUME NEW p \in Nat, p > 1, NEW x \in Int, NEW w, IsPower(w, x, p), NEW j \in Nat,
           NEW v, IsPower(v, w[j], p)
    PROVE  \A k \in Nat : v[k] = w[j * k]
<1> DEFINE S == {k \in Nat : v[k] = w[j * k]}
<1>1. 0 \in S
  <2>1. j * 0 = 0
    OBVIOUS
  <2>. QED  BY <2>1 DEF IsPower
<1>2. \A k \in S : k + 1 \in S
  <2>1. SUFFICES ASSUME NEW k \in Nat, v[k] = w[j * k] PROVE v[k + 1] = w[j * (k + 1)]
    OBVIOUS
  <2>2. j * (k + 1) = j + j * k /\ j * k \in Nat
    OBVIOUS
  <2>3. w[j + j * k] = (w[j] * w[j * k]) % p
    BY <2>2, PowerPlus
  <2>4. v[k + 1] = (w[j] * v[k]) % p
    BY DEF IsPower
  <2>. QED  BY <2>1, <2>2, <2>3, <2>4
<1> HIDE DEF S
<1>3. \A k \in Nat : k \in S
  <2>1. S \in SUBSET Nat
    BY DEF S
  <2>. QED  BY <1>1, <1>2, <2>1, Induct
<1>. QED  BY <1>3 DEF S

\* The powers of a product are the products of the powers.
LEMMA PowerOfProduct ==
    ASSUME NEW p \in Nat, p > 1, NEW x \in Int, NEW y \in Int, NEW z \in Int,
           z % p = (x * y) % p, NEW u, IsPower(u, x, p), NEW v, IsPower(v, y, p),
           NEW w, IsPower(w, z, p)
    PROVE  \A k \in Nat : w[k] = (u[k] * v[k]) % p
<1> DEFINE S == {k \in Nat : w[k] = (u[k] * v[k]) % p}
<1>0. /\ p \in Nat \ {0}
      /\ \A k \in Nat : u[k] \in Int /\ v[k] \in Int /\ w[k] \in Int
  BY DEF IsPower
<1>1. 0 \in S
  <2>1. 1 % p = 1 /\ 1 * 1 = 1
    <3>1. 1 \in 0..(p - 1)
      OBVIOUS
    <3>2. 1 % p = 1
      BY <1>0, <3>1, SmallRemainder
    <3>. QED  BY <3>2
  <2>. QED  BY <2>1 DEF IsPower
<1>2. \A k \in S : k + 1 \in S
  <2>1. SUFFICES ASSUME NEW k \in Nat, w[k] = (u[k] * v[k]) % p
                 PROVE  w[k + 1] = (u[k + 1] * v[k + 1]) % p
    OBVIOUS
  <2> DEFINE f == u[k]
             g == v[k]
  <2>2. f \in Int /\ g \in Int
    BY <1>0
  <2>3. /\ w[k + 1] = (z * ((f * g) % p)) % p
        /\ u[k + 1] = (x * f) % p /\ v[k + 1] = (y * g) % p
    BY <2>1 DEF IsPower
  <2> HIDE DEF f, g
  <2>4. (z * ((f * g) % p)) % p = ((x * y) * (f * g)) % p
    <3>1. f * g \in Int /\ x * y \in Int /\ (f * g) % p \in Int /\ z * (f * g) \in Int
      BY <1>0, <2>2, Remainder
    <3>2. (((f * g) % p) * z) % p = ((f * g) * z) % p
      BY <1>0, <3>1, ModTimes
    <3>3. ((z % p) * (f * g)) % p = (z * (f * g)) % p
      BY <1>0, <3>1, ModTimes
    <3>4. (((x * y) % p) * (f * g)) % p = ((x * y) * (f * g)) % p
      BY <1>0, <3>1, ModTimes
    <3>5. ((f * g) % p) * z = z * ((f * g) % p) /\ (f * g) * z = z * (f * g)
      BY <3>1
    <3>. QED  BY <3>2, <3>3, <3>4, <3>5
  <2>5. (((x * f) % p) * ((y * g) % p)) % p = ((x * f) * (y * g)) % p
    <3>1. x * f \in Int /\ y * g \in Int /\ (y * g) % p \in Int
      BY <1>0, <2>2, Remainder
    <3>2. (((x * f) % p) * ((y * g) % p)) % p = ((x * f) * ((y * g) % p)) % p
      BY <1>0, <3>1, ModTimes
    <3>3. (((y * g) % p) * (x * f)) % p = ((y * g) * (x * f)) % p
      BY <1>0, <3>1, ModTimes
    <3>4. ((y * g) % p) * (x * f) = (x * f) * ((y * g) % p) /\ (y * g) * (x * f) = (x * f) * (y * g)
      BY <3>1
    <3>. QED  BY <3>2, <3>3, <3>4
  <2>6. (x * f) * (y * g) = (x * y) * (f * g)
    BY <2>2
  <2>. QED  BY <2>3, <2>4, <2>5, <2>6
<1> HIDE DEF S
<1>3. \A k \in Nat : k \in S
  <2>1. S \in SUBSET Nat
    BY DEF S
  <2>. QED  BY <1>1, <1>2, <2>1, Induct
<1>. QED  BY <1>3 DEF S

-----------------------------------------------------------------------------
(* Sums in order *)

\* G[j] is the sum of what f has below j.
PartialSums(G, f) ==
    /\ G \in [Nat -> Int]
    /\ G[0] = 0
    /\ \A j \in Nat : G[j + 1] = G[j] + (IF j \in DOMAIN f THEN f[j] ELSE 0)

LEMMA PartialSumsExist ==
    ASSUME NEW D, NEW f \in [D -> Int]
    PROVE  \E G : PartialSums(G, f)
<1> DEFINE F == [j \in Nat |-> [s \in Int |-> s + (IF j \in D THEN f[j] ELSE 0)]]
<1>1. F \in [Nat -> [Int -> Int]] /\ 0 \in Int
  OBVIOUS
<1>2. \A j \in Nat, s \in Int : F[j][s] = s + (IF j \in D THEN f[j] ELSE 0)
  OBVIOUS
<1>3. DOMAIN f = D
  OBVIOUS
<1> HIDE DEF F
<1>4. PICK G : Iterates(G, F, 0, Int)
  BY <1>1, Recursion
<1>5. G \in [Nat -> Int] /\ G[0] = 0 /\ \A j \in Nat : G[j + 1] = F[j][G[j]]
  BY <1>4 DEF Iterates
<1>6. ASSUME NEW j \in Nat PROVE G[j + 1] = G[j] + (IF j \in DOMAIN f THEN f[j] ELSE 0)
  <2>1. G[j] \in Int /\ G[j + 1] = F[j][G[j]]
    BY <1>5
  <2>2. F[j][G[j]] = G[j] + (IF j \in D THEN f[j] ELSE 0)
    BY <1>2, <2>1
  <2>. QED  BY <1>3, <2>1, <2>2
<1>. QED  BY <1>5, <1>6 DEF PartialSums

LEMMA SumIsPartial ==
    ASSUME NEW n \in Nat, NEW f \in [0..(n - 1) -> Int], NEW G, PartialSums(G, f)
    PROVE  SumFunction(f) = G[n]
<1> DEFINE D    == 0..(n - 1)
           R(T) == [j \in T |-> f[j]]
           P(T) == CHOOSE g : PartialSums(g, R(T))
           h    == [T \in SUBSET D |-> P(T)[n]]
<1>1. ASSUME NEW T \in SUBSET D
      PROVE  /\ P(T) \in [Nat -> Int] /\ P(T)[0] = 0
             /\ \A j \in Nat : P(T)[j + 1] = P(T)[j] + (IF j \in T THEN f[j] ELSE 0)
  <2>1. R(T) \in [T -> Int] /\ DOMAIN R(T) = T /\ \A j \in T : R(T)[j] = f[j]
    OBVIOUS
  <2>2. PartialSums(P(T), R(T))
    <3> HIDE DEF R
    <3>1. \E g : PartialSums(g, R(T))
      BY <2>1, PartialSumsExist
    <3>. QED  BY <3>1
  <2> HIDE DEF P, R
  <2>. QED  BY <2>1, <2>2 DEF PartialSums
<1>2. ASSUME NEW g \in [Nat -> Int], g[0] = 0, \A j \in Nat : g[j + 1] = g[j] + (IF j \in D THEN f[j] ELSE 0)
      PROVE  g[n] = G[n]
  <2> DEFINE S == {j \in Nat : g[j] = G[j]}
  <2>1. 0 \in S /\ S \in SUBSET Nat
    BY <1>2 DEF PartialSums
  <2>2. ASSUME NEW j \in S PROVE j + 1 \in S
    <3>1. g[j] = G[j] /\ j \in Nat /\ DOMAIN f = D
      OBVIOUS
    <3>2. G[j + 1] = G[j] + (IF j \in D THEN f[j] ELSE 0)
      <4>1. G[j + 1] = G[j] + (IF j \in DOMAIN f THEN f[j] ELSE 0)
        BY <3>1 DEF PartialSums
      <4>. QED  BY <3>1, <4>1
    <3>3. g[j + 1] = g[j] + (IF j \in D THEN f[j] ELSE 0)
      BY <1>2, <3>1
    <3>. QED  BY <3>1, <3>2, <3>3
  <2> HIDE DEF S
  <2>3. \A j \in Nat : j \in S
    BY <2>1, <2>2, Induct
  <2>. QED  BY <2>3 DEF S
<1> HIDE DEF P
<1>3. h[{}] = 0
  <2>1. PICK E \in SUBSET D : E = {}
    OBVIOUS
  <2> DEFINE u == P(E)
             S == {j \in Nat : u[j] = 0}
  <2>0. /\ u \in [Nat -> Int] /\ u[0] = 0
        /\ \A j \in Nat : u[j + 1] = u[j] + (IF j \in E THEN f[j] ELSE 0)
    BY <1>1
  <2> HIDE DEF u
  <2>2. 0 \in S /\ S \in SUBSET Nat
    BY <2>0
  <2>3. ASSUME NEW j \in S PROVE j + 1 \in S
    <3>1. u[j] = 0 /\ j \in Nat /\ j \notin E
      BY <2>1
    <3>2. u[j + 1] = u[j] + 0
      BY <2>0, <3>1
    <3>. QED  BY <3>1, <3>2
  <2> HIDE DEF S
  <2>4. \A j \in Nat : j \in S
    BY <2>2, <2>3, Induct
  <2>5. P(E)[n] = 0
    BY <2>4 DEF S, u
  <2>. QED  BY <2>1, <2>5
<1>4. ASSUME NEW T \in SUBSET D, NEW x \in T
      PROVE  h[T] = f[x] + h[T \ {x}]
  <2> DEFINE u == P(T)
             v == P(T \ {x})
             S == {j \in Nat : u[j] = v[j] + (IF x < j THEN f[x] ELSE 0)}
  <2>1. T \ {x} \in SUBSET D /\ x \in Nat /\ x < n /\ f[x] \in Int
    OBVIOUS
  <2>2. /\ u[0] = 0 /\ v[0] = 0
        /\ \A j \in Nat : u[j] \in Int /\ v[j] \in Int
        /\ \A j \in Nat : u[j + 1] = u[j] + (IF j \in T THEN f[j] ELSE 0)
        /\ \A j \in Nat : v[j + 1] = v[j] + (IF j \in T \ {x} THEN f[j] ELSE 0)
    <3>1. T \in SUBSET D
      OBVIOUS
    <3>2. /\ u \in [Nat -> Int] /\ u[0] = 0
          /\ \A j \in Nat : u[j + 1] = u[j] + (IF j \in T THEN f[j] ELSE 0)
      BY <1>1, <3>1
    <3>3. /\ v \in [Nat -> Int] /\ v[0] = 0
          /\ \A j \in Nat : v[j + 1] = v[j] + (IF j \in T \ {x} THEN f[j] ELSE 0)
      BY <1>1, <2>1
    <3> HIDE DEF u, v
    <3>. QED  BY <3>2, <3>3
  <2> HIDE DEF u, v
  <2>3. 0 \in S /\ S \in SUBSET Nat
    <3>1. ~(x < 0) /\ 0 + 0 = 0
      BY <2>1
    <3>. QED  BY <2>2, <3>1
  <2>4. ASSUME NEW j \in S PROVE j + 1 \in S
    <3>1. /\ u[j] = v[j] + (IF x < j THEN f[x] ELSE 0)
          /\ j \in Nat /\ u[j] \in Int /\ v[j] \in Int
      BY <2>2
    <3>2. SUFFICES u[j + 1] = v[j + 1] + (IF x < j + 1 THEN f[x] ELSE 0)
      BY <3>1
    <3>3. CASE j = x
      BY <2>1, <2>2, <3>1, <3>3
    <3>4. CASE j # x
      <4>1. j \in T => f[j] \in Int
        OBVIOUS
      <4>2. (x < j + 1) <=> (x < j)
        BY <2>1, <3>1, <3>4
      <4>3. u[j + 1] = u[j] + (IF j \in T THEN f[j] ELSE 0)
        BY <2>2, <3>1
      <4>4. v[j + 1] = v[j] + (IF j \in T THEN f[j] ELSE 0)
        BY <2>2, <3>1, <3>4
      <4>5. CASE j \in T
        BY <2>1, <3>1, <4>1, <4>2, <4>3, <4>4, <4>5
      <4>6. CASE j \notin T
        BY <2>1, <3>1, <4>2, <4>3, <4>4, <4>6
      <4>. QED  BY <4>5, <4>6
    <3>. QED  BY <3>3, <3>4
  <2> HIDE DEF S
  <2>5. \A j \in Nat : j \in S
    BY <2>3, <2>4, Induct
  <2>6. u[n] = v[n] + f[x] /\ v[n] \in Int
    BY <2>1, <2>2, <2>5 DEF S
  <2>7. h[T] = u[n] /\ h[T \ {x}] = v[n]
    BY <2>1 DEF u, v
  <2>. QED  BY <2>1, <2>6, <2>7
<1>5. h[D] = G[n]
  <2>1. D \in SUBSET D
    OBVIOUS
  <2>2. P(D)[n] = G[n]
    BY <1>1, <1>2, <2>1
  <2>. QED  BY <2>1, <2>2
<1>6. DOMAIN f = D /\ IsFiniteSet(D)
  <2>1. 0 \in Int /\ n - 1 \in Int
    OBVIOUS
  <2>. QED  BY <2>1, FS_Interval
<1> HIDE DEF h, D
<1>7. SumFunction(f) = h[DOMAIN f]
  BY <1>3, <1>4, <1>6, SumIs
<1>. QED  BY <1>5, <1>6, <1>7

-----------------------------------------------------------------------------
(* Powers of two *)

\* w[k] is the k-th power of two.
IsTwo(w) ==
    /\ w \in [Nat -> Nat]
    /\ w[0] = 1
    /\ \A k \in Nat : w[k + 1] = 2 * w[k]

LEMMA TwoIs ==
    ASSUME NEW w, w = CHOOSE g : g = [k \in Nat |-> IF k = 0 THEN 1 ELSE 2 * g[k - 1]]
    PROVE  IsTwo(w)
<1> DEFINE F == [k \in Nat |-> [y \in Nat |-> 2 * y]]
<1>1. F \in [Nat -> [Nat -> Nat]] /\ \A k, y \in Nat : F[k][y] = 2 * y
  OBVIOUS
<1> HIDE DEF F
<1>2. PICK f : Iterates(f, F, 1, Nat)
  BY <1>1, Recursion
<1>3. f \in [Nat -> Nat] /\ f[0] = 1 /\ \A k \in Nat : f[k + 1] = 2 * f[k]
  <2>1. f \in [Nat -> Nat] /\ f[0] = 1 /\ \A k \in Nat : f[k + 1] = F[k][f[k]]
    BY <1>2 DEF Iterates
  <2>. QED  BY <1>1, <2>1
<1>4. f = [k \in Nat |-> IF k = 0 THEN 1 ELSE 2 * f[k - 1]]
  <2>1. ASSUME NEW k \in Nat PROVE f[k] = IF k = 0 THEN 1 ELSE 2 * f[k - 1]
    <3>1. k # 0 => k - 1 \in Nat /\ (k - 1) + 1 = k
      OBVIOUS
    <3>. QED  BY <1>3, <3>1
  <2>. QED  BY <1>3, <2>1
<1>5. w = [k \in Nat |-> IF k = 0 THEN 1 ELSE 2 * w[k - 1]]
  BY <1>4
<1>6. w[0] = 1 /\ \A k \in Nat : w[k + 1] = 2 * w[k]
  <2>1. ASSUME NEW k \in Nat PROVE w[k + 1] = 2 * w[k]
    <3>1. k + 1 \in Nat /\ k + 1 # 0 /\ (k + 1) - 1 = k
      OBVIOUS
    <3>. QED  BY <1>5, <3>1
  <2>. QED  BY <1>5, <2>1
<1>7. \A k \in Nat : w[k] \in Nat
  <2> DEFINE S == {k \in Nat : w[k] \in Nat}
  <2>1. 0 \in S /\ S \in SUBSET Nat
    BY <1>6
  <2>2. \A k \in S : k + 1 \in S
    BY <1>6
  <2> HIDE DEF S
  <2>3. \A k \in Nat : k \in S
    BY <2>1, <2>2, Induct
  <2>. QED  BY <2>3 DEF S
<1>. QED  BY <1>5, <1>6, <1>7 DEF IsTwo

LEMMA TwoExceeds ==
    ASSUME NEW w, IsTwo(w)
    PROVE  \A k \in Nat : w[k] \in Nat /\ k < w[k]
<1> DEFINE S == {k \in Nat : k < w[k]}
<1>1. 0 \in S /\ S \in SUBSET Nat
  BY DEF IsTwo
<1>2. ASSUME NEW k \in S PROVE k + 1 \in S
  <2>1. w[k + 1] = 2 * w[k] /\ w[k] \in Nat /\ k < w[k] /\ k \in Nat
    BY DEF IsTwo
  <2>. QED  BY <2>1
<1> HIDE DEF S
<1>3. \A k \in Nat : k \in S
  BY <1>1, <1>2, Induct
<1>. QED  BY <1>3 DEF S, IsTwo

LEMMA TwoPlus ==
    ASSUME NEW w, IsTwo(w), NEW j \in Nat
    PROVE  \A k \in Nat : w[k + j] = w[k] * w[j]
<1> DEFINE S == {k \in Nat : w[k + j] = w[k] * w[j]}
<1>1. 0 \in S /\ S \in SUBSET Nat
  <2>1. 0 + j = j /\ w[j] \in Nat /\ w[0] = 1
    BY DEF IsTwo
  <2>. QED  BY <2>1
<1>2. ASSUME NEW k \in S PROVE k + 1 \in S
  <2>1. /\ w[k + j] = w[k] * w[j] /\ k \in Nat /\ k + 1 \in Nat /\ w[k] \in Nat /\ w[j] \in Nat
        /\ w[k + 1] = 2 * w[k] /\ w[(k + j) + 1] = 2 * w[k + j] /\ (k + 1) + j = (k + j) + 1
    <3>1. k \in Nat /\ k + j \in Nat /\ (k + 1) + j = (k + j) + 1
      OBVIOUS
    <3>. QED  BY <3>1 DEF IsTwo
  <2>2. (2 * w[k]) * w[j] = 2 * (w[k] * w[j])
    BY <2>1
  <2>. QED  BY <2>1, <2>2
<1> HIDE DEF S
<1>3. \A k \in Nat : k \in S
  BY <1>1, <1>2, Induct
<1>. QED  BY <1>3 DEF S

LEMMA TwoIncreases ==
    ASSUME NEW w, IsTwo(w), NEW j \in Nat, NEW k \in Nat, j < k
    PROVE  w[j] < w[k]
<1> DEFINE S == {d \in Nat : w[j] < w[(j + d) + 1]}
<1>0. \A i \in Nat : w[i + 1] = 2 * w[i] /\ w[i] \in Nat /\ w[i] > 0
  BY TwoExceeds DEF IsTwo
<1>1. 0 \in S /\ S \in SUBSET Nat
  <2>1. j + 0 = j
    OBVIOUS
  <2>. QED  BY <1>0, <2>1
<1>2. ASSUME NEW d \in S PROVE d + 1 \in S
  <2>1. /\ w[j] < w[(j + d) + 1] /\ (j + d) + 1 \in Nat /\ d \in Nat
        /\ j + (d + 1) = (j + d) + 1
    OBVIOUS
  <2>2. w[j] < w[(j + (d + 1)) + 1]
    BY <1>0, <2>1
  <2>. QED  BY <2>1, <2>2
<1> HIDE DEF S
<1>3. \A d \in Nat : d \in S
  BY <1>1, <1>2, Induct
<1>4. k - j - 1 \in Nat /\ (j + (k - j - 1)) + 1 = k
  OBVIOUS
<1>. QED  BY <1>3, <1>4 DEF S

-----------------------------------------------------------------------------
(* Bits in reverse *)

\* f[n][v] has the lowest n bits of v in reverse order.
IsReverse(f, w) ==
    /\ f \in [Nat -> [Nat -> Nat]]
    /\ \A v \in Nat : f[0][v] = 0
    /\ \A n, v \in Nat : f[n + 1][v] = (v % 2) * w[n] + f[n][v \div 2]

LEMMA HalfOf ==
    ASSUME NEW v \in Nat
    PROVE  v % 2 \in {0, 1} /\ v \div 2 \in Nat /\ v = 2 * (v \div 2) + (v % 2)
OBVIOUS

LEMMA ReverseIs ==
    ASSUME NEW w, IsTwo(w), NEW f,
           f = CHOOSE g : g = [n \in Nat |-> [v \in Nat |->
                   IF n = 0 THEN 0 ELSE (v % 2) * w[n - 1] + g[n - 1][v \div 2]]]
    PROVE  IsReverse(f, w)
<1> DEFINE A == [Nat -> Nat]
           F == [n \in Nat |-> [h \in A |-> [v \in Nat |-> (v % 2) * w[n] + h[v \div 2]]]]
           zero == [v \in Nat |-> 0]
<1>1. F \in [Nat -> [A -> A]] /\ zero \in A
  <2>1. ASSUME NEW n \in Nat, NEW h \in A, NEW v \in Nat PROVE (v % 2) * w[n] + h[v \div 2] \in Nat
    <3>1. v % 2 \in {0, 1} /\ v \div 2 \in Nat /\ w[n] \in Nat
      BY HalfOf DEF IsTwo
    <3>2. (v % 2) * w[n] \in Nat
      BY <3>1
    <3>. QED  BY <3>1, <3>2
  <2>. QED  BY <2>1
<1>2. \A n \in Nat, h \in A, v \in Nat : F[n][h][v] = (v % 2) * w[n] + h[v \div 2]
  OBVIOUS
<1>3. \A v \in Nat : zero[v] = 0
  OBVIOUS
<1> HIDE DEF F, zero, A
<1>4. PICK f0 : Iterates(f0, F, zero, A)
  BY <1>1, Recursion
<1>5. f0 \in [Nat -> A] /\ f0[0] = zero /\ \A n \in Nat : f0[n + 1] = F[n][f0[n]]
  BY <1>4 DEF Iterates
<1>6. ASSUME NEW n \in Nat, NEW v \in Nat PROVE f0[n + 1][v] = (v % 2) * w[n] + f0[n][v \div 2]
  <2>1. f0[n] \in A /\ f0[n + 1] = F[n][f0[n]]
    BY <1>5
  <2> DEFINE h == f0[n]
  <2> HIDE DEF h
  <2>2. F[n][h][v] = (v % 2) * w[n] + h[v \div 2]
    BY <1>2, <2>1 DEF h
  <2>. QED  BY <2>1, <2>2 DEF h
<1>7. f0 = [n \in Nat |-> [v \in Nat |->
                   IF n = 0 THEN 0 ELSE (v % 2) * w[n - 1] + f0[n - 1][v \div 2]]]
  <2>1. ASSUME NEW n \in Nat
        PROVE  f0[n] = [v \in Nat |-> IF n = 0 THEN 0 ELSE (v % 2) * w[n - 1] + f0[n - 1][v \div 2]]
    <3>0. f0[n] \in [Nat -> Nat]
      BY <1>5 DEF A
    <3>1. ASSUME NEW v \in Nat
          PROVE  f0[n][v] = IF n = 0 THEN 0 ELSE (v % 2) * w[n - 1] + f0[n - 1][v \div 2]
      <4>1. n # 0 => n - 1 \in Nat /\ (n - 1) + 1 = n
        OBVIOUS
      <4>2. CASE n = 0
        BY <1>3, <1>5, <4>2
      <4>3. CASE n # 0
        BY <1>6, <4>1, <4>3
      <4>. QED  BY <4>2, <4>3
    <3>. QED  BY <3>0, <3>1
  <2>. QED  BY <1>5, <2>1
<1>8. f = [n \in Nat |-> [v \in Nat |->
                   IF n = 0 THEN 0 ELSE (v % 2) * w[n - 1] + f[n - 1][v \div 2]]]
  BY <1>7
<1>9. \A v \in Nat : f[0][v] = 0
  <2>1. f[0] = [v \in Nat |-> IF 0 = 0 THEN 0 ELSE (v % 2) * w[0 - 1] + f[0 - 1][v \div 2]]
    <3>1. 0 \in Nat
      OBVIOUS
    <3>. QED  BY <1>8, <3>1
  <2>. QED  BY <2>1
<1>10. ASSUME NEW n \in Nat, NEW v \in Nat PROVE f[n + 1][v] = (v % 2) * w[n] + f[n][v \div 2]
  <2>1. n + 1 \in Nat /\ n + 1 # 0 /\ (n + 1) - 1 = n
    OBVIOUS
  <2>2. f[n + 1] = [y \in Nat |-> IF n + 1 = 0 THEN 0
                                  ELSE (y % 2) * w[(n + 1) - 1] + f[(n + 1) - 1][y \div 2]]
    BY <1>8, <2>1
  <2>. QED  BY <2>1, <2>2
<1>11. \A n \in Nat : \A v \in Nat : f[n][v] \in Nat
  <2> DEFINE S == {n \in Nat : \A v \in Nat : f[n][v] \in Nat}
  <2>1. 0 \in S /\ S \in SUBSET Nat
    BY <1>9
  <2>2. ASSUME NEW n \in S PROVE n + 1 \in S
    <3>1. ASSUME NEW v \in Nat PROVE f[n + 1][v] \in Nat
      <4>1. v % 2 \in {0, 1} /\ v \div 2 \in Nat /\ w[n] \in Nat
        BY HalfOf DEF IsTwo
      <4>2. (v % 2) * w[n] = 0 \/ (v % 2) * w[n] = w[n]
        BY <4>1
      <4>3. n \in Nat /\ f[n][v \div 2] \in Nat
        BY <4>1
      <4>4. f[n + 1][v] = (v % 2) * w[n] + f[n][v \div 2]
        BY <1>10, <4>3
      <4>. QED  BY <4>1, <4>2, <4>3, <4>4
    <3>. QED  BY <3>1
  <2> HIDE DEF S
  <2>3. \A n \in Nat : n \in S
    BY <2>1, <2>2, Induct
  <2>. QED  BY <2>3 DEF S
<1>12. f \in [Nat -> [Nat -> Nat]]
  <2>1. ASSUME NEW n \in Nat PROVE f[n] \in [Nat -> Nat]
    <3>1. f[n] = [v \in Nat |-> IF n = 0 THEN 0 ELSE (v % 2) * w[n - 1] + f[n - 1][v \div 2]]
      BY <1>8
    <3>. QED  BY <1>11, <3>1
  <2>. QED  BY <1>8, <2>1
<1>. QED  BY <1>9, <1>10, <1>12 DEF IsReverse

\* n bits make a number below the n-th power of two; the last bit becomes the first.
LEMMA ReverseBounds ==
    ASSUME NEW w, IsTwo(w), NEW f, IsReverse(f, w)
    PROVE  \A n \in Nat : \A v \in Nat : f[n][v] \in 0..(w[n] - 1)
<1> DEFINE S == {n \in Nat : \A v \in Nat : f[n][v] \in 0..(w[n] - 1)}
<1>1. 0 \in S /\ S \in SUBSET Nat
  <2>1. w[0] = 1 /\ \A v \in Nat : f[0][v] = 0
    BY DEF IsTwo, IsReverse
  <2>2. 0 \in 0..(1 - 1)
    OBVIOUS
  <2>. QED  BY <2>1, <2>2
<1>2. ASSUME NEW n \in S PROVE n + 1 \in S
  <2>1. ASSUME NEW v \in Nat PROVE f[n + 1][v] \in 0..(w[n + 1] - 1)
    <3>1. v % 2 \in {0, 1} /\ v \div 2 \in Nat /\ w[n] \in Nat /\ w[n + 1] = 2 * w[n]
      BY HalfOf DEF IsTwo
    <3>2. f[n + 1][v] = (v % 2) * w[n] + f[n][v \div 2] /\ f[n][v \div 2] \in 0..(w[n] - 1)
      BY <3>1 DEF IsReverse
    <3>3. (v % 2) * w[n] = 0 \/ (v % 2) * w[n] = w[n]
      BY <3>1
    <3>. QED  BY <3>1, <3>2, <3>3
  <2>. QED  BY <2>1
<1> HIDE DEF S
<1>3. \A n \in Nat : n \in S
  BY <1>1, <1>2, Induct
<1>. QED  BY <1>3 DEF S

\* The last of n + 1 bits is the first in reverse.
Doubles(f, w, n) ==
    \A m \in Nat : /\ f[n + 1][2 * m] = f[n][m]
                   /\ f[n + 1][2 * m + 1] = f[n][m] + w[n]

LEMMA ReverseOfDouble ==
    ASSUME NEW w, IsTwo(w), NEW f, IsReverse(f, w), NEW n \in Nat
    PROVE  Doubles(f, w, n)
<1> SUFFICES ASSUME NEW m \in Nat
             PROVE  /\ f[n + 1][2 * m] = f[n][m]
                    /\ f[n + 1][2 * m + 1] = f[n][m] + w[n]
  BY DEF Doubles
<1>1. /\ 2 * m \in Nat /\ (2 * m) % 2 = 0 /\ (2 * m) \div 2 = m
      /\ 2 * m + 1 \in Nat /\ (2 * m + 1) % 2 = 1 /\ (2 * m + 1) \div 2 = m
  OBVIOUS
<1>2. f[n][m] \in Nat /\ w[n] \in Nat
  BY DEF IsTwo, IsReverse
<1>3. /\ f[n + 1][2 * m] = 0 * w[n] + f[n][m]
      /\ f[n + 1][2 * m + 1] = 1 * w[n] + f[n][m]
  BY <1>1 DEF IsReverse
<1>. QED  BY <1>2, <1>3

-----------------------------------------------------------------------------
(* Roots of unity *)

\* The remainder modulo twice as much, from the remainder.
LEMMA Halves ==
    ASSUME NEW h \in Nat \ {0}, NEW k \in Nat
    PROVE  LET n == 2 * h IN
           /\ k % n \in 0..(n - 1) /\ k \div n \in Nat /\ k % h \in 0..(h - 1)
           /\ \/ k % n = k % h /\ k \div h = 2 * (k \div n)
              \/ k % n = (k % h) + h /\ k \div h = 2 * (k \div n) + 1
<1> DEFINE n == 2 * h
           x == k \div n
           y == k % n
<1>0. h \in Int /\ n \in Nat \ {0} /\ n = h + h
  OBVIOUS
<1> HIDE DEF n
<1>1. x \in Nat /\ y \in 0..(n - 1) /\ k = x * n + y
  BY <1>0
<1>2. ASSUME NEW c \in Int, NEW s \in 0..(h - 1), k = c * h + s
      PROVE  k % h = s /\ k \div h = c
  BY <1>2
<1> HIDE DEF x, y
<1>3. x * n = (2 * x) * h /\ (2 * x) * h + h = (2 * x + 1) * h
  BY <1>0, <1>1 DEF n
<1>4. CASE y < h
  <2>1. y \in 0..(h - 1) /\ k = (2 * x) * h + y /\ 2 * x \in Int
    BY <1>0, <1>1, <1>3, <1>4
  <2>2. k % h = y /\ k \div h = 2 * x
    BY <1>2, <2>1
  <2>3. k % n = y /\ k \div n = x
    BY DEF x, y
  <2>. QED  BY <1>0, <1>1, <2>1, <2>2, <2>3 DEF n
<1>5. CASE y >= h
  <2>1. (2 * x) * h \in Int
    BY <1>0, <1>1
  <2>2. y - h \in 0..(h - 1) /\ k = (2 * x + 1) * h + (y - h) /\ 2 * x + 1 \in Int
    BY <1>0, <1>1, <1>3, <1>5, <2>1
  <2>3. k % h = y - h /\ k \div h = 2 * x + 1
    BY <1>2, <2>2
  <2>4. y = (k % h) + h
    BY <1>0, <1>1, <2>3
  <2>5. k % n = y /\ k \div n = x
    BY DEF x, y
  <2>. QED  BY <1>0, <1>1, <2>2, <2>3, <2>4, <2>5 DEF n
<1>. QED  BY <1>0, <1>1, <1>4, <1>5

\* The powers of one are one.
LEMMA PowersOfOne ==
    ASSUME NEW p \in Nat, p > 1, NEW x \in Int, NEW w, IsPower(w, x, p), NEW n \in Nat, w[n] = 1
    PROVE  \A k \in Nat : w[n * k] = 1
<1> DEFINE S == {k \in Nat : w[n * k] = 1}
<1>0. \A i \in Nat : w[n + i] = (w[n] * w[i]) % p
  BY PowerPlus
<1>1. 0 \in S /\ S \in SUBSET Nat
  <2>1. n * 0 = 0
    OBVIOUS
  <2>. QED  BY <2>1 DEF IsPower
<1>2. ASSUME NEW k \in S PROVE k + 1 \in S
  <2>1. n * (k + 1) = n + n * k /\ n * k \in Nat /\ k \in Nat /\ w[n * k] = 1
    OBVIOUS
  <2>2. w[n + n * k] = (w[n] * w[n * k]) % p
    BY <1>0, <2>1
  <2>3. 1 % p = 1 /\ 1 * 1 = 1
    <3>1. p \in Nat \ {0} /\ 1 \in 0..(p - 1)
      OBVIOUS
    <3>. QED  BY <3>1, SmallRemainder
  <2>. QED  BY <2>1, <2>2, <2>3
<1> HIDE DEF S
<1>3. \A k \in Nat : k \in S
  BY <1>1, <1>2, Induct
<1>. QED  BY <1>3 DEF S

\* -1 is its own inverse, and negates.
LEMMA MinusOne ==
    ASSUME NEW p \in Nat, p > 1, NEW x \in Int
    PROVE  /\ ((p - 1) * (p - 1)) % p = 1
           /\ (x * (p - 1)) % p = (-x) % p
<1>0. p \in Nat \ {0}
  OBVIOUS
<1>1. (p - 1) * (p - 1) = (p - 2) * p + 1 /\ 1 \in 0..(p - 1) /\ p - 2 \in Int
  OBVIOUS
<1>2. x * (p - 1) = -x + x * p /\ x * (p - 1) \in Int /\ -x \in Int
  OBVIOUS
<1>3. ((p - 1) * (p - 1)) % p = 1
  BY <1>0, <1>1, RemainderIs
<1>. QED  BY <1>0, <1>2, <1>3, SameRemainder

\* The square root of one in the middle of the powers of a root of unity is -1.
LEMMA HalfWay ==
    ASSUME NEW p, IsField(p), NEW x \in Int, NEW w, IsPower(w, x, p), NEW h \in Nat,
           w[2 * h] = 1, w[h] # 1
    PROVE  w[h] = p - 1
<1> DEFINE y == w[h]
<1>0. p \in Nat \ {0} /\ p > 1 /\ y \in 0..(p - 1) /\ y \in Int /\ y # 1
  BY DEF IsField, IsPower
<1>1. (y * y) % p = 1
  <2>1. 2 * h = h + h
    OBVIOUS
  <2>2. \A i \in Nat : w[h + i] = (w[h] * w[i]) % p
    BY <1>0, PowerPlus
  <2>3. w[h + h] = (w[h] * w[h]) % p
    BY <2>2
  <2>. QED  BY <2>1, <2>3
<1> HIDE DEF y
<1>2. (y - 1) * (y + 1) = y * y + (-1) /\ y * y \in Int /\ y - 1 \in Int /\ y + 1 \in Int
  BY <1>0
<1>3. ((y - 1) * (y + 1)) % p = 0
  <2>1. (((y * y) % p) + (-1)) % p = (y * y + (-1)) % p
    BY <1>0, <1>2, ModPlus
  <2>2. 1 + (-1) = 0 /\ 0 % p = 0
    BY <1>0
  <2>. QED  BY <1>1, <1>2, <2>1, <2>2
<1>4. (y - 1) % p # 0
  <2>1. CASE y = 0
    <3>1. y - 1 = (-1) * p + (p - 1) /\ p - 1 \in 0..(p - 1) /\ -1 \in Int
      BY <1>0, <2>1
    <3>2. (y - 1) % p = p - 1
      BY <1>0, <3>1, RemainderIs
    <3>. QED  BY <1>0, <3>2
  <2>2. CASE y # 0
    <3>1. y - 1 \in 0..(p - 1) /\ y - 1 # 0
      BY <1>0, <2>2
    <3>. QED  BY <1>0, <3>1, SmallRemainder
  <2>. QED  BY <2>1, <2>2
<1>5. (y + 1) % p = 0
  BY <1>2, <1>3, <1>4, NoZeroDivisors
<1>6. y + 1 = p
  <2>1. SUFFICES ASSUME y + 1 # p PROVE FALSE
    OBVIOUS
  <2>2. y + 1 \in 0..(p - 1) /\ y + 1 # 0
    BY <1>0, <2>1
  <2>. QED  BY <1>0, <1>5, <2>2, SmallRemainder
<1>. QED  BY <1>0, <1>6 DEF y

\* Half of the circle changes the sign, the whole circle nothing.
IsHalfCircle(w, h, p) ==
    \A j, k \in Nat : /\ w[j + h * (2 * k)] = w[j]
                      /\ w[j + h * (2 * k + 1)] = (-w[j]) % p

LEMMA Circle ==
    ASSUME NEW p \in Nat, p > 1, NEW x \in Int, NEW w, IsPower(w, x, p), NEW h \in Nat, w[h] = p - 1
    PROVE  IsHalfCircle(w, h, p)
<1> SUFFICES ASSUME NEW j \in Nat, NEW k \in Nat
             PROVE  /\ w[j + h * (2 * k)] = w[j]
                    /\ w[j + h * (2 * k + 1)] = (-w[j]) % p
  BY DEF IsHalfCircle
<1>0. p \in Nat \ {0} /\ w[j] \in 0..(p - 1) /\ w[j] \in Int
  BY DEF IsPower
<1>1. w[2 * h] = 1
  <2>1. 2 * h = h + h
    OBVIOUS
  <2>2. w[h + h] = ((p - 1) * (p - 1)) % p
    <3>1. \A i \in Nat : w[h + i] = (w[h] * w[i]) % p
      BY PowerPlus
    <3>2. w[h + h] = (w[h] * w[h]) % p
      BY <3>1
    <3>. QED  BY <3>2
  <2>3. ((p - 1) * (p - 1)) % p = 1
    BY MinusOne
  <2>. QED  BY <2>1, <2>2, <2>3
<1>2. 2 * h \in Nat /\ h * (2 * k) = (2 * h) * k /\ (2 * h) * k \in Nat /\ 2 * k \in Nat
  OBVIOUS
<1>3. w[(2 * h) * k] = 1
  <2> DEFINE c == 2 * h
  <2>1. c \in Nat /\ w[c] = 1
    BY <1>1
  <2> HIDE DEF c
  <2>2. \A i \in Nat : w[c * i] = 1
    BY <2>1, PowersOfOne
  <2>. QED  BY <2>2 DEF c
<1>4. w[j + h * (2 * k)] = w[j]
  <2>1. w[j + (2 * h) * k] = (w[j] * w[(2 * h) * k]) % p
    <3>1. \A i \in Nat : w[j + i] = (w[j] * w[i]) % p
      BY PowerPlus
    <3>. QED  BY <1>2, <3>1
  <2>2. w[j] * 1 = w[j] /\ w[j] % p = w[j]
    BY <1>0, SmallRemainder
  <2>. QED  BY <1>2, <1>3, <2>1, <2>2
<1>5. w[j + h * (2 * k + 1)] = (-w[j]) % p
  <2>1. j + h * (2 * k + 1) = (j + h * (2 * k)) + h /\ j + h * (2 * k) \in Nat
    <3>1. h * (2 * k + 1) = h * (2 * k) + h /\ h * (2 * k) \in Nat
      BY <1>2
    <3>. QED  BY <3>1
  <2>2. w[(j + h * (2 * k)) + h] = (w[j + h * (2 * k)] * w[h]) % p
    BY <2>1, PowerPlus
  <2>3. (w[j] * (p - 1)) % p = (-w[j]) % p
    BY <1>0, MinusOne
  <2>. QED  BY <1>4, <2>1, <2>2, <2>3
<1>. QED  BY <1>4, <1>5

\* What k contributes to place j of the transform of the indices that are v modulo n.
Value(w, n, v, j, k) == IF k % n = v THEN w[(n * j) * (k \div n)] ELSE 0

\* The sum of u and t is place j of a transform, their difference place j + m.
Joins(w, p, h, m, v, j, k, u, t) ==
    /\ (u + t) % p = Value(w, h, v, j, k)
    /\ (u + ((t * (p - 1)) % p)) % p = Value(w, h, v, j + m, k)

\* Two transforms of every second index make one of twice the length.
LEMMA Butterfly ==
    ASSUME NEW p \in Nat, p > 1, NEW x \in Int, NEW w, IsPower(w, x, p),
           NEW h \in Nat \ {0}, NEW m \in Nat, w[h * m] = p - 1,
           NEW v \in 0..(h - 1), NEW j \in Nat, NEW k \in Nat,
           NEW u, u = Value(w, 2 * h, v, j, k),
           NEW t, t = (Value(w, 2 * h, v + h, j, k) * w[h * j]) % p
    PROVE  Joins(w, p, h, m, v, j, k, u, t)
<1> SUFFICES /\ (u + t) % p = Value(w, h, v, j, k)
             /\ (u + ((t * (p - 1)) % p)) % p = Value(w, h, v, j + m, k)
  BY DEF Joins
<1> DEFINE n == 2 * h
           y == k \div n
<1>0. p \in Nat \ {0} /\ h \in Nat /\ h > 0 /\ v \in Nat /\ v < h /\ n = 2 * h
  OBVIOUS
<1>1. /\ y \in Nat /\ k % h \in 0..(h - 1)
      /\ \/ k % n = k % h /\ k \div h = 2 * y
         \/ k % n = (k % h) + h /\ k \div h = 2 * y + 1
  BY Halves
<1>2. \A i \in Nat : w[i] \in 0..(p - 1) /\ w[i] \in Int /\ w[i] % p = w[i]
  <2>1. \A i \in Nat : w[i] \in 0..(p - 1)
    BY DEF IsPower
  <2>2. \A c \in 0..(p - 1) : c \in Int /\ c % p = c
    BY <1>0, SmallRemainder
  <2>. QED  BY <2>1, <2>2
<1>3. 0 % p = 0
  BY <1>0, SmallRemainder
<1>4. h * j \in Nat /\ w[h * j] \in Int /\ 0 * w[h * j] = 0
  <2>1. h * j \in Nat
    BY <1>0
  <2>. QED  BY <1>2, <2>1
<1>5. /\ u = IF k % n = v THEN w[(n * j) * y] ELSE 0
      /\ t = ((IF k % n = v + h THEN w[(n * j) * y] ELSE 0) * w[h * j]) % p
      /\ Value(w, h, v, j, k) = IF k % h = v THEN w[(h * j) * (k \div h)] ELSE 0
      /\ Value(w, h, v, j + m, k) = IF k % h = v THEN w[(h * (j + m)) * (k \div h)] ELSE 0
  BY DEF Value
<1> HIDE DEF y, n
<1>6. /\ (n * j) * y \in Nat
      /\ (n * j) * y = (h * j) * (2 * y)
      /\ (h * (j + m)) * (2 * y) = (n * j) * y + (h * m) * (2 * y)
      /\ (h * j) * (2 * y + 1) = (n * j) * y + h * j
      /\ (h * (j + m)) * (2 * y + 1) = (h * j) * (2 * y + 1) + (h * m) * (2 * y + 1)
      /\ (h * j) * (2 * y + 1) \in Nat /\ h * m \in Nat
  BY <1>0, <1>1
<1>7. CASE k % h = v /\ k % n = k % h /\ k \div h = 2 * y
  <2>1. t = 0 /\ u = w[(n * j) * y] /\ u \in Int /\ u % p = u
    <3>1. k % n # v + h
      BY <1>0, <1>7
    <3>. QED  BY <1>2, <1>3, <1>4, <1>5, <1>6, <1>7, <3>1
  <2>2. u + t = u /\ (t * (p - 1)) % p = 0 /\ u + 0 = u
    BY <1>0, <1>3, <2>1
  <2>3. Value(w, h, v, j, k) = u
    BY <1>5, <1>6, <1>7, <2>1
  <2>4. Value(w, h, v, j + m, k) = u
    <3> DEFINE c == (n * j) * y
               d == h * m
    <3>0. c \in Nat /\ d \in Nat /\ w[d] = p - 1 /\ y \in Nat
      BY <1>1, <1>6
    <3> HIDE DEF c, d
    <3>2. IsHalfCircle(w, d, p)
      BY <3>0, Circle
    <3>1. w[c + d * (2 * y)] = w[c]
      BY <3>0, <3>2 DEF IsHalfCircle
    <3> USE DEF c, d
    <3>. QED  BY <1>5, <1>6, <1>7, <2>1, <3>1
  <2>. QED  BY <2>1, <2>2, <2>3, <2>4
<1>8. CASE k % h = v /\ k % n = (k % h) + h /\ k \div h = 2 * y + 1
  <2>1. k % n = v + h /\ k % n # v
    BY <1>0, <1>8
  <2>2. u = 0 /\ t = w[(h * j) * (2 * y + 1)]
    <3>1. t = (w[(n * j) * y] * w[h * j]) % p /\ u = 0
      BY <1>5, <2>1
    <3> DEFINE c == (n * j) * y
    <3>0. c \in Nat
      BY <1>6
    <3> HIDE DEF c
    <3>2. \A i \in Nat : w[c + i] = (w[c] * w[i]) % p
      BY <3>0, PowerPlus
    <3>3. w[c + h * j] = (w[c] * w[h * j]) % p
      BY <1>4, <3>2
    <3>. QED  BY <1>6, <3>1, <3>3 DEF c
  <2>3. t \in Int /\ t % p = t /\ 0 + t = t
    BY <1>2, <1>6, <2>2
  <2>4. Value(w, h, v, j, k) = t
    BY <1>5, <1>6, <1>8, <2>2
  <2>5. Value(w, h, v, j + m, k) = (-t) % p
    <3> DEFINE c == (h * j) * (2 * y + 1)
               d == h * m
    <3>0. c \in Nat /\ d \in Nat /\ w[d] = p - 1 /\ y \in Nat
      BY <1>1, <1>6
    <3> HIDE DEF c, d
    <3>2. IsHalfCircle(w, d, p)
      BY <3>0, Circle
    <3>1. w[c + d * (2 * y + 1)] = (-w[c]) % p
      BY <3>0, <3>2 DEF IsHalfCircle
    <3> USE DEF c, d
    <3>. QED  BY <1>5, <1>6, <1>8, <2>2, <3>1
  <2>6. (0 + ((t * (p - 1)) % p)) % p = (-t) % p
    <3>1. (t * (p - 1)) % p = (-t) % p
      BY <2>3, MinusOne
    <3>2. (-t) % p \in 0..(p - 1)
      <4>1. -t \in Int
        BY <2>3
      <4>. QED  BY <1>0, <4>1, Remainder
    <3>3. 0 + ((-t) % p) = (-t) % p /\ ((-t) % p) % p = (-t) % p
      BY <1>0, <3>2, SmallRemainder
    <3>. QED  BY <3>1, <3>3
  <2>. QED  BY <2>2, <2>3, <2>4, <2>5, <2>6
<1>9. CASE k % h # v
  <2>1. k % n # v /\ k % n # v + h
    BY <1>0, <1>1, <1>9
  <2>2. u = 0 /\ t = 0
    BY <1>3, <1>4, <1>5, <2>1
  <2>3. Value(w, h, v, j, k) = 0 /\ Value(w, h, v, j + m, k) = 0
    BY <1>5, <1>9
  <2>4. 0 * (p - 1) = 0 /\ 0 + 0 = 0
    BY <1>0
  <2>. QED  BY <1>3, <2>2, <2>3, <2>4
<1>. QED  BY <1>1, <1>7, <1>8, <1>9

LEMMA Multiple ==
    ASSUME NEW p \in Nat \ {0}, NEW x \in Int, NEW y \in Int, x % p = y % p
    PROVE  \E k \in Int : x = y + k * p
<1>1. PICK c \in Int : x = c * p + (x % p)
  BY Remainder
<1>2. PICK d \in Int : y = d * p + (y % p)
  BY Remainder
<1>3. x % p \in Int
  BY Remainder
<1> DEFINE s == x % p
<1>4. x = c * p + s /\ y = d * p + s
  BY <1>1, <1>2
<1> HIDE DEF s
<1>5. c - d \in Int /\ s \in Int /\ (c - d) * p = c * p - d * p /\ c * p \in Int /\ d * p \in Int
  BY <1>3 DEF s
<1>6. x = y + (c - d) * p
  BY <1>4, <1>5
<1>. QED  BY <1>5, <1>6

\* g has what f has below, and in the end all of it.
SumsUp(g, f, n) ==
    /\ g \in [Nat -> Int] /\ g[0] = 0
    /\ \A k \in 0..(n - 1) : g[k + 1] = g[k] + f[k]
    /\ SumFunction(f) = g[n]

LEMMA SummingUp ==
    ASSUME NEW n \in Nat, NEW f \in [0..(n - 1) -> Int]
    PROVE  \E g : SumsUp(g, f, n)
<1>1. PICK g : PartialSums(g, f)
  BY PartialSumsExist
<1>2. DOMAIN f = 0..(n - 1)
  OBVIOUS
<1>3. g \in [Nat -> Int] /\ g[0] = 0 /\ \A j \in Nat : g[j + 1] = g[j] + (IF j \in DOMAIN f THEN f[j] ELSE 0)
  BY <1>1 DEF PartialSums
<1>4. ASSUME NEW k \in 0..(n - 1) PROVE g[k + 1] = g[k] + f[k]
  BY <1>2, <1>3
<1>5. SumFunction(f) = g[n]
  BY <1>1, SumIsPartial
<1>. QED  BY <1>3, <1>4, <1>5 DEF SumsUp

\* f has the powers of z, times c.
IsGeometric(f, c, z, w, p, n) ==
    /\ n \in Nat /\ f \in [0..(n - 1) -> Int] /\ c \in Int /\ IsPower(w, z, p)
    /\ \A k \in 0..(n - 1) : f[k] % p = (c * w[k]) % p

LEMMA GeometricSum ==
    ASSUME NEW p, IsField(p), NEW z \in Int, NEW w, NEW c, NEW n, NEW f, IsGeometric(f, c, z, w, p, n),
           w[n] = 1, z % p # 1
    PROVE  SumFunction(f) % p = 0
<1>0. /\ p \in Nat \ {0} /\ p > 1 /\ n \in Nat /\ c \in Int /\ f \in [0..(n - 1) -> Int]
      /\ \A k \in 0..(n - 1) : f[k] % p = (c * w[k]) % p
      /\ IsPower(w, z, p)
  BY DEF IsGeometric, IsField
<1>1. \A k \in Nat : w[k] \in Int /\ w[k + 1] = (z * w[k]) % p
  <2>1. w \in [Nat -> 0..(p - 1)] /\ \A k \in Nat : w[k + 1] = (z * w[k]) % p
    BY <1>0 DEF IsPower
  <2>2. \A k \in Nat : w[k] \in Int
    <3>1. w \in [Nat -> Int]
      BY <1>0, <2>1
    <3>. QED  BY <3>1
  <2>. QED  BY <2>1, <2>2
<1>2. PICK g : SumsUp(g, f, n)
  BY <1>0, SummingUp
<1>3. g \in [Nat -> Int] /\ g[0] = 0 /\ \A k \in 0..(n - 1) : g[k + 1] = g[k] + f[k]
  BY <1>2 DEF SumsUp
<1>4. SumFunction(f) = g[n]
  BY <1>2 DEF SumsUp
<1> DEFINE S == {k \in Nat : k <= n => \E e \in Int : g[k] * (z - 1) = c * (w[k] - 1) + e * p}
<1>5. 0 \in S /\ S \in SUBSET Nat
  <2>1. w[0] = 1 /\ 0 * (z - 1) = 0 /\ c * (1 - 1) = 0 /\ 0 * p = 0 /\ 0 \in Int
    BY <1>0 DEF IsPower
  <2>2. g[0] * (z - 1) = c * (w[0] - 1) + 0 * p
    BY <1>3, <2>1
  <2>. QED  BY <2>1, <2>2
<1>6. ASSUME NEW k \in S PROVE k + 1 \in S
  <2>1. SUFFICES ASSUME k + 1 <= n
                 PROVE  \E e \in Int : g[k + 1] * (z - 1) = c * (w[k + 1] - 1) + e * p
    OBVIOUS
  <2>2. k \in Nat /\ k \in 0..(n - 1) /\ k <= n
    BY <1>0, <2>1
  <2>3. PICK e \in Int : g[k] * (z - 1) = c * (w[k] - 1) + e * p
    BY <2>1, <2>2
  <2> DEFINE s == g[k]
             y == w[k]
             a == f[k]
             t == w[k + 1]
  <2>4. s \in Int /\ y \in Int /\ a \in Int /\ t \in Int /\ z * y \in Int /\ c * y \in Int
    <3>1. k + 1 \in Nat
      BY <2>2
    <3>2. s \in Int /\ y \in Int /\ a \in Int /\ t \in Int
      BY <1>0, <1>1, <1>3, <2>2, <3>1
    <3> HIDE DEF s, y, a, t
    <3>. QED  BY <1>0, <3>2
  <2>5. PICK d \in Int : a = c * y + d * p
    <3>1. a % p = (c * y) % p
      BY <1>0, <2>2
    <3> HIDE DEF a, y
    <3>. QED  BY <1>0, <2>4, <3>1, Multiple
  <2>6. PICK b \in Int : t = z * y + b * p
    <3>1. t = (z * y) % p
      BY <1>1, <2>2
    <3>2. PICK b \in Int : z * y = b * p + ((z * y) % p)
      BY <1>0, <2>4, Remainder
    <3> HIDE DEF t, y
    <3>3. -b \in Int /\ t = z * y + (-b) * p
      <4>1. z * y = b * p + t
        BY <3>1, <3>2
      <4>2. b * p \in Int /\ (-b) * p = -(b * p) /\ -b \in Int
        BY <1>0
      <4>. QED  BY <2>4, <4>1, <4>2
    <3>. QED  BY <3>3
  <2>7. s * (z - 1) = c * (y - 1) + e * p
    BY <2>3
  <2>8. g[k + 1] = s + a
    BY <1>3, <2>2
  <2> HIDE DEF s, y, a, t
  <2>9. (s + a) * (z - 1) = c * (t - 1) + (e + d * (z - 1) - c * b) * p
    <3>1. (s + a) * (z - 1) = s * (z - 1) + (c * y + d * p) * (z - 1)
      BY <2>4, <2>5
    <3>2. (c * y + d * p) * (z - 1) = c * y * z - c * y + (d * (z - 1)) * p
      BY <1>0, <2>4
    <3>3. c * (t - 1) = c * y * z + (c * b) * p - c
      BY <1>0, <2>4, <2>6
    <3>4. c * (y - 1) = c * y - c
      BY <1>0, <2>4
    <3>5. (e + d * (z - 1) - c * b) * p = e * p + (d * (z - 1)) * p - (c * b) * p
      BY <1>0
    <3>6. /\ c * y * z \in Int /\ c * y \in Int /\ (d * (z - 1)) * p \in Int /\ (c * b) * p \in Int
          /\ e * p \in Int /\ c \in Int
      BY <1>0, <2>4
    <3>. QED  BY <2>7, <3>1, <3>2, <3>3, <3>4, <3>5, <3>6
  <2>10. e + d * (z - 1) - c * b \in Int
    BY <1>0
  <2>. QED  BY <2>8, <2>9, <2>10 DEF t
<1>7. PICK e \in Int : g[n] * (z - 1) = c * (w[n] - 1) + e * p
  <2> HIDE DEF S
  <2>1. \A k \in Nat : k \in S
    BY <1>5, <1>6, Induct
  <2>2. n \in S /\ n <= n
    BY <1>0, <2>1
  <2>. QED  BY <2>2 DEF S
<1>8. ((z - 1) * g[n]) % p = 0
  <2>1. g[n] \in Int /\ c * (1 - 1) = 0 /\ (z - 1) * g[n] = g[n] * (z - 1) /\ e * p \in Int /\ (z - 1) * g[n] \in Int
    BY <1>0, <1>3
  <2>2. (z - 1) * g[n] = 0 + e * p
    BY <1>7, <2>1
  <2>3. ((z - 1) * g[n]) % p = 0 % p
    <3> DEFINE y == (z - 1) * g[n]
    <3>1. y \in Int /\ 0 \in Int /\ y = 0 + e * p
      BY <2>1, <2>2
    <3> HIDE DEF y
    <3>2. y % p = 0 % p
      BY <1>0, <3>1, SameRemainder
    <3>. QED  BY <3>2 DEF y
  <2>. QED  BY <1>0, <2>3, SmallRemainder
<1>9. (z - 1) % p # 0
  <2>1. SUFFICES ASSUME (z - 1) % p = 0 PROVE z % p = 1
    OBVIOUS
  <2>2. PICK k \in Int : z - 1 = k * p + ((z - 1) % p)
    <3>1. z - 1 \in Int
      OBVIOUS
    <3>. QED  BY <1>0, <3>1, Remainder
  <2>3. z = k * p + 1 /\ 1 \in 0..(p - 1)
    <3>1. k * p \in Int
      BY <1>0
    <3>. QED  BY <1>0, <2>1, <2>2, <3>1
  <2>. QED  BY <1>0, <2>3, RemainderIs
<1>10. g[n] \in Int /\ z - 1 \in Int
  BY <1>0, <1>3
<1>. QED  BY <1>4, <1>8, <1>9, <1>10, NoZeroDivisors

LEMMA SumOfEqual ==
    ASSUME NEW p, IsField(p), NEW z \in Int, NEW w, NEW c, NEW n, NEW f, IsGeometric(f, c, z, w, p, n),
           z % p = 1
    PROVE  SumFunction(f) % p = (n * c) % p
<1>0. /\ p \in Nat \ {0} /\ p > 1 /\ n \in Nat /\ c \in Int /\ f \in [0..(n - 1) -> Int]
      /\ \A k \in 0..(n - 1) : f[k] % p = (c * w[k]) % p
      /\ IsPower(w, z, p)
  BY DEF IsGeometric, IsField
<1>1. \A k \in Nat : w[k] = 1
  <2>1. w[1] = 1
    <3>1. w[0] = 1 /\ 0 \in Nat /\ 0 + 1 = 1 /\ \A k \in Nat : w[k + 1] = (z * w[k]) % p
      BY <1>0 DEF IsPower
    <3>2. w[1] = (z * 1) % p /\ z * 1 = z
      BY <3>1
    <3>. QED  BY <3>2
  <2>2. PICK one \in Nat : one = 1
    OBVIOUS
  <2>3. w[one] = 1
    BY <2>1, <2>2
  <2>4. \A k \in Nat : w[one * k] = 1
    BY <1>0, <2>3, PowersOfOne
  <2>5. \A k \in Nat : one * k = k
    BY <2>2
  <2>. QED  BY <2>4, <2>5
<1>2. PICK g : SumsUp(g, f, n)
  BY <1>0, SummingUp
<1>3. g \in [Nat -> Int] /\ g[0] = 0 /\ \A k \in 0..(n - 1) : g[k + 1] = g[k] + f[k]
  BY <1>2 DEF SumsUp
<1>4. SumFunction(f) = g[n]
  BY <1>2 DEF SumsUp
<1> DEFINE S == {k \in Nat : k <= n => \E e \in Int : g[k] = k * c + e * p}
<1>5. 0 \in S /\ S \in SUBSET Nat
  <2>1. g[0] = 0 * c + 0 * p /\ 0 \in Int
    BY <1>0, <1>3
  <2>. QED  BY <2>1
<1>6. ASSUME NEW k \in S PROVE k + 1 \in S
  <2>1. SUFFICES ASSUME k + 1 <= n
                 PROVE  \E e \in Int : g[k + 1] = (k + 1) * c + e * p
    OBVIOUS
  <2>2. k \in Nat /\ k \in 0..(n - 1) /\ k <= n
    BY <1>0, <2>1
  <2>3. PICK e \in Int : g[k] = k * c + e * p
    BY <2>1, <2>2
  <2>4. PICK d \in Int : f[k] = c + d * p
    <3>1. f[k] % p = c % p /\ f[k] \in Int
      <4>1. w[k] = 1 /\ c * 1 = c
        BY <1>0, <1>1, <2>2
      <4>. QED  BY <1>0, <2>2, <4>1
    <3>. QED  BY <1>0, <3>1, Multiple
  <2>5. g[k + 1] = (k * c + e * p) + (c + d * p)
    BY <1>3, <2>2, <2>3, <2>4
  <2>6. (k * c + e * p) + (c + d * p) = (k + 1) * c + (e + d) * p /\ e + d \in Int
    BY <1>0, <2>2
  <2>. QED  BY <2>5, <2>6
<1>7. PICK e \in Int : g[n] = n * c + e * p
  <2> HIDE DEF S
  <2>1. \A k \in Nat : k \in S
    BY <1>5, <1>6, Induct
  <2>2. n \in S /\ n <= n
    BY <1>0, <2>1
  <2>. QED  BY <2>2 DEF S
<1>8. g[n] \in Int /\ n * c \in Int
  BY <1>0, <1>3
<1>9. g[n] % p = (n * c) % p
  <2> DEFINE x == g[n]
             y == n * c
  <2>1. x \in Int /\ y \in Int /\ x = y + e * p
    BY <1>7, <1>8
  <2> HIDE DEF x, y
  <2>2. x % p = y % p
    BY <1>0, <2>1, SameRemainder
  <2>. QED  BY <2>2 DEF x, y
<1>. QED  BY <1>4, <1>9

\* v has the powers of x and w those of its inverse, and the order of x is n.
RootOfUnity(v, x, w, y, p, n) ==
    /\ IsField(p) /\ x \in Int /\ y \in Int /\ (x * y) % p = 1 /\ n \in Nat \ {0}
    /\ IsPower(v, x, p) /\ IsPower(w, y, p)
    /\ v[n] = 1 /\ \A d \in 1..(n - 1) : v[d] # 1

\* What one power multiplies the other divides.
LEMMA PowersInverse ==
    ASSUME NEW p, NEW x, NEW y, NEW v, NEW w, NEW n, RootOfUnity(v, x, w, y, p, n)
    PROVE  /\ \A k \in Nat : (v[k] * w[k]) % p = 1
           /\ w[n] = 1
<1>0. /\ p \in Nat \ {0} /\ p > 1 /\ x \in Int /\ y \in Int /\ (x * y) % p = 1 /\ n \in Nat
      /\ IsPower(v, x, p) /\ IsPower(w, y, p) /\ v[n] = 1
  BY DEF RootOfUnity, IsField
<1>1. PICK one \in Int : one = 1
  OBVIOUS
<1>2. one % p = 1
  <2>1. 1 \in 0..(p - 1)
    BY <1>0
  <2>. QED  BY <1>0, <1>1, <2>1, SmallRemainder
<1>3. PICK u : IsPower(u, one, p)
  BY <1>0, PowersExist
<1>4. \A k \in Nat : u[k] = (v[k] * w[k]) % p
  BY <1>0, <1>2, <1>3, PowerOfProduct
<1>5. \A k \in Nat : u[k] = 1
  <2>1. u[one] = 1
    <3>1. u[0] = 1 /\ 0 \in Nat /\ 0 + 1 = 1 /\ \A k \in Nat : u[k + 1] = (one * u[k]) % p
      BY <1>3 DEF IsPower
    <3>2. u[1] = (one * 1) % p /\ one * 1 = one
      BY <3>1
    <3>. QED  BY <1>1, <1>2, <3>2
  <2>2. one \in Nat /\ \A k \in Nat : one * k = k
    BY <1>1
  <2>3. \A k \in Nat : u[one * k] = 1
    BY <1>0, <1>3, <2>1, <2>2, PowersOfOne
  <2>. QED  BY <2>2, <2>3
<1>6. w[n] = 1
  <2>1. (v[n] * w[n]) % p = 1
    BY <1>0, <1>4, <1>5
  <2>2. w[n] \in 0..(p - 1)
    BY <1>0 DEF IsPower
  <2>3. 1 * w[n] = w[n] /\ w[n] % p = w[n]
    BY <1>0, <2>2, SmallRemainder
  <2>. QED  BY <1>0, <2>1, <2>3
<1>. QED  BY <1>4, <1>5, <1>6

\* The powers below the order are distinct.
LEMMA PowersDistinct ==
    ASSUME NEW p, NEW x, NEW y, NEW v, NEW w, NEW n, RootOfUnity(v, x, w, y, p, n),
           NEW i \in 0..(n - 1), NEW j \in 0..(n - 1), (v[i] * w[j]) % p = 1
    PROVE  i = j
<1>0. /\ p \in Nat \ {0} /\ p > 1 /\ x \in Int /\ y \in Int /\ n \in Nat
      /\ IsPower(v, x, p) /\ IsPower(w, y, p) /\ \A d \in 1..(n - 1) : v[d] # 1
  BY DEF RootOfUnity, IsField
<1>1. \A k \in Nat : v[k] \in 0..(p - 1) /\ w[k] \in 0..(p - 1)
  BY <1>0 DEF IsPower
<1>2. ASSUME NEW k \in Nat
      PROVE  /\ \A e \in Nat : v[k + e] = (v[k] * v[e]) % p
             /\ \A e \in Nat : w[k + e] = (w[k] * w[e]) % p
  <2>1. \A e \in Nat : v[k + e] = (v[k] * v[e]) % p
    BY <1>0, PowerPlus
  <2>2. \A e \in Nat : w[k + e] = (w[k] * w[e]) % p
    BY <1>0, PowerPlus
  <2>. QED  BY <2>1, <2>2
<1>3. ASSUME NEW k \in Nat, NEW e \in Nat, e > 0, k + e < n
      PROVE  /\ (v[k + e] * w[k]) % p = v[e] % p
             /\ (v[k] * w[k + e]) % p = w[e] % p
  <2> DEFINE a == v[k]
             b == w[k]
             c == v[e]
             d == w[e]
  <2>1. a \in Int /\ b \in Int /\ c \in Int /\ d \in Int /\ a * c \in Int /\ b * d \in Int /\ a * b \in Int
    <3>1. a \in Int /\ b \in Int /\ c \in Int /\ d \in Int
      BY <1>0, <1>1, <1>3
    <3> HIDE DEF a, b, c, d
    <3>. QED  BY <3>1
  <2>2. (a * b) % p = 1
    BY PowersInverse
  <2>3. v[k + e] = (a * c) % p /\ w[k + e] = (b * d) % p
    BY <1>2, <1>3
  <2> HIDE DEF a, b, c, d
  <2>4. (((a * c) % p) * b) % p = c % p
    <3>1. (((a * c) % p) * b) % p = ((a * c) * b) % p
      BY <1>0, <2>1, ModTimes
    <3>2. (((a * b) % p) * c) % p = ((a * b) * c) % p
      BY <1>0, <2>1, ModTimes
    <3>3. (a * c) * b = (a * b) * c /\ 1 * c = c
      BY <2>1
    <3>. QED  BY <2>2, <3>1, <3>2, <3>3
  <2>5. (a * ((b * d) % p)) % p = d % p
    <3>1. (((b * d) % p) * a) % p = ((b * d) * a) % p
      BY <1>0, <2>1, ModTimes
    <3>2. (((a * b) % p) * d) % p = ((a * b) * d) % p
      BY <1>0, <2>1, ModTimes
    <3>3. (b * d) * a = (a * b) * d /\ 1 * d = d
      BY <2>1
    <3>4. (b * d) % p \in Int
      BY <1>0, <2>1, Remainder
    <3>5. ((b * d) % p) * a = a * ((b * d) % p)
      BY <2>1, <3>4
    <3>. QED  BY <2>2, <3>1, <3>2, <3>3, <3>5
  <2>. QED  BY <2>3, <2>4, <2>5 DEF a, b, c, d
<1>4. \A e \in 1..(n - 1) : v[e] % p # 1 /\ w[e] % p # 1
  <2> SUFFICES ASSUME NEW e \in 1..(n - 1) PROVE v[e] % p # 1 /\ w[e] % p # 1
    OBVIOUS
  <2>1. e \in Nat /\ v[e] \in 0..(p - 1) /\ w[e] \in 0..(p - 1) /\ v[e] # 1
    BY <1>0, <1>1
  <2>2. v[e] % p = v[e] /\ w[e] % p = w[e]
    BY <1>0, <2>1, SmallRemainder
  <2>3. SUFFICES ASSUME w[e] = 1 PROVE FALSE
    BY <2>1, <2>2
  <2>4. (v[e] * 1) % p = 1
    BY <2>1, <2>3, PowersInverse
  <2>5. v[e] * 1 = v[e]
    BY <1>0, <2>1
  <2>. QED  BY <2>1, <2>2, <2>4, <2>5
<1>5. CASE i > j
  <2>1. i - j \in 1..(n - 1) /\ j \in Nat /\ i - j \in Nat /\ j + (i - j) = i /\ i < n
    BY <1>0, <1>5
  <2>2. (v[j + (i - j)] * w[j]) % p = v[i - j] % p
    BY <1>3, <2>1
  <2>. QED  BY <1>4, <2>1, <2>2
<1>6. CASE j > i
  <2>1. j - i \in 1..(n - 1) /\ i \in Nat /\ j - i \in Nat /\ i + (j - i) = j /\ j < n
    BY <1>0, <1>6
  <2>2. (v[i] * w[i + (j - i)]) % p = w[j - i] % p
    BY <1>3, <2>1
  <2>. QED  BY <1>4, <2>1, <2>2
<1>7. i \in Int /\ j \in Int
  BY <1>0
<1>. QED  BY <1>5, <1>6, <1>7

LEMMA Quotients ==
    ASSUME NEW n \in Nat, n > 0, NEW k \in Nat
    PROVE  k = (k \div n) * n + (k % n) /\ k % n \in 0..(n - 1) /\ k % n \in Nat /\ k \div n \in Nat
OBVIOUS

\* f has the powers of the i-th root, times s, against those of the m-th.
IsProductOfPowers(f, v, w, s, p, n, i, m) ==
    /\ f \in [0..(n - 1) -> Int]
    /\ \A k \in 0..(n - 1) : f[k] = ((w[i * k] * s) % p) * v[(m * k) % n]

\* The transform of a power of the root is zero but at one place.
LEMMA Orthogonal ==
    ASSUME NEW p, NEW x, NEW y, NEW v, NEW w, NEW n, RootOfUnity(v, x, w, y, p, n),
           NEW s \in Int, (n * s) % p = 1, NEW i \in 0..(n - 1), NEW m \in 0..(n - 1),
           NEW f, IsProductOfPowers(f, v, w, s, p, n, i, m)
    PROVE  SumFunction(f) % p = IF i = m THEN 1 ELSE 0
<1>a. /\ f \in [0..(n - 1) -> Int]
      /\ \A k \in 0..(n - 1) : f[k] = ((w[i * k] * s) % p) * v[(m * k) % n]
  BY DEF IsProductOfPowers
<1>0. /\ p \in Nat \ {0} /\ p > 1 /\ x \in Int /\ y \in Int /\ n \in Nat /\ n > 0
      /\ IsPower(v, x, p) /\ IsPower(w, y, p) /\ v[n] = 1 /\ IsField(p)
      /\ i \in Nat /\ m \in Nat
  BY DEF RootOfUnity, IsField
<1>1. \A k \in Nat : v[k] \in 0..(p - 1) /\ w[k] \in 0..(p - 1) /\ v[k] \in Int /\ w[k] \in Int
  <2>1. v \in [Nat -> 0..(p - 1)] /\ w \in [Nat -> 0..(p - 1)]
    BY <1>0 DEF IsPower
  <2>2. 0..(p - 1) \subseteq Int
    BY <1>0
  <2>3. \A k \in Nat : v[k] \in 0..(p - 1) /\ w[k] \in 0..(p - 1)
    BY <2>1
  <2>. QED  BY <2>2, <2>3
<1> DEFINE z == v[m] * w[i]
<1>2. z \in Int
  <2>1. v[m] \in Int /\ w[i] \in Int
    BY <1>0, <1>1
  <2>. QED  BY <2>1
<1>3. PICK a : IsPower(a, v[m], p)
  BY <1>0, <1>1, PowersExist
<1>4. PICK b : IsPower(b, w[i], p)
  BY <1>0, <1>1, PowersExist
<1>5. PICK c : IsPower(c, z, p)
  BY <1>0, <1>2, PowersExist
<1>6. \A k \in Nat : a[k] = v[m * k]
  BY <1>0, <1>3, PowerTimes
<1>7. \A k \in Nat : b[k] = w[i * k]
  BY <1>0, <1>4, PowerTimes
<1>8. \A k \in Nat : c[k] = (a[k] * b[k]) % p
  <2> DEFINE g == v[m]
             h == w[i]
  <2>1. g \in Int /\ h \in Int /\ z % p = (g * h) % p /\ IsPower(a, g, p) /\ IsPower(b, h, p)
    BY <1>0, <1>1, <1>3, <1>4
  <2> HIDE DEF z, g, h
  <2>. QED  BY <1>0, <1>2, <1>5, <2>1, PowerOfProduct
<1> HIDE DEF z
<1>9. \A k \in Nat : v[k % n] = v[k]
  <2> SUFFICES ASSUME NEW k \in Nat PROVE v[k % n] = v[k]
    OBVIOUS
  <2> DEFINE r == k % n
             d == k \div n
  <2>1. r \in Nat /\ d \in Nat /\ k = r + n * d
    <3>1. n \in Nat /\ n > 0
      BY <1>0
    <3>2. k = (k \div n) * n + (k % n) /\ k % n \in Nat /\ k \div n \in Nat
      BY <3>1, Quotients
    <3>3. k = d * n + r /\ r \in Nat /\ d \in Nat
      BY <3>2
    <3> HIDE DEF r, d
    <3>4. d * n = n * d /\ n * d \in Nat
      BY <3>1, <3>3
    <3>. QED  BY <3>3, <3>4
  <2> HIDE DEF r, d
  <2>2. v[n * d] = 1 /\ n * d \in Nat
    <3>1. \A e \in Nat : v[n * e] = 1
      BY <1>0, PowersOfOne
    <3>. QED  BY <1>0, <2>1, <3>1
  <2>3. v[r + n * d] = (v[r] * v[n * d]) % p
    <3>1. \A e \in Nat : v[r + e] = (v[r] * v[e]) % p
      BY <1>0, <2>1, PowerPlus
    <3>. QED  BY <2>2, <3>1
  <2>4. v[r] * 1 = v[r] /\ v[r] % p = v[r]
    <3>1. v[r] \in 0..(p - 1) /\ v[r] \in Int
      BY <1>1, <2>1
    <3>2. v[r] % p = v[r]
      BY <1>0, <3>1, SmallRemainder
    <3>. QED  BY <3>1, <3>2
  <2>. QED  BY <2>1, <2>2, <2>3, <2>4 DEF r
<1>10. IsGeometric(f, s, z, c, p, n)
  <2>1. ASSUME NEW k \in 0..(n - 1) PROVE f[k] % p = (s * c[k]) % p
    <3>0. k \in Nat /\ m * k \in Nat /\ i * k \in Nat
      BY <1>0
    <3> DEFINE g == v[m * k]
               h == w[i * k]
    <3>1. g \in Int /\ h \in Int
      BY <1>1, <3>0
    <3>2. f[k] = ((h * s) % p) * g
      BY <1>a, <1>9, <3>0
    <3>3. c[k] = (g * h) % p
      BY <1>6, <1>7, <1>8, <3>0
    <3> HIDE DEF g, h
    <3>4. h * s \in Int /\ g * h \in Int
      BY <3>1
    <3>5. (((h * s) % p) * g) % p = ((h * s) * g) % p
      BY <1>0, <3>1, <3>4, ModTimes
    <3>6. (((g * h) % p) * s) % p = ((g * h) * s) % p
      BY <1>0, <3>1, <3>4, ModTimes
    <3>7. (h * s) * g = (g * h) * s
      BY <3>1
    <3>8. (g * h) % p \in Int
      BY <1>0, <3>4, Remainder
    <3>9. ((g * h) % p) * s = s * ((g * h) % p)
      BY <3>8
    <3>. QED  BY <3>2, <3>3, <3>5, <3>6, <3>7, <3>9
  <2>. QED  BY <1>a, <1>0, <1>5, <2>1 DEF IsGeometric
<1>11. CASE i = m
  <2>1. z % p = 1
    BY <1>0, <1>11, PowersInverse DEF z
  <2>. QED  BY <1>0, <1>2, <1>10, <1>11, <2>1, SumOfEqual
<1>12. CASE i # m
  <2>1. z % p # 1
    BY <1>12, PowersDistinct DEF z
  <2>2. c[n] = 1
    <3>1. v[m * n] = 1
      <4>1. \A e \in Nat : v[n * e] = 1
        BY <1>0, PowersOfOne
      <4>2. m * n = n * m
        BY <1>0
      <4>. QED  BY <1>0, <4>1, <4>2
    <3>2. w[i * n] = 1
      <4>1. \A e \in Nat : w[n * e] = 1
        <5>1. w[n] = 1
          BY PowersInverse
        <5>. QED  BY <1>0, <5>1, PowersOfOne
      <4>2. i * n = n * i
        BY <1>0
      <4>. QED  BY <1>0, <4>1, <4>2
    <3>3. 1 * 1 = 1 /\ 1 % p = 1
      <4>1. 1 \in 0..(p - 1)
        BY <1>0
      <4>. QED  BY <1>0, <4>1, SmallRemainder
    <3>4. a[n] = 1 /\ b[n] = 1
      BY <1>0, <1>6, <1>7, <3>1, <3>2
    <3>. QED  BY <1>0, <1>8, <3>3, <3>4
  <2>. QED  BY <1>0, <1>2, <1>10, <1>12, <2>1, <2>2, GeometricSum
<1>. QED  BY <1>11, <1>12
-----------------------------------------------------------------------------
(* Power series with integer coefficients.  A polynomial is one that is     *)
(* zero from some place on; its product with another is that of the series. *)

Series == [Nat -> Int]

Rest(f) == [n \in Nat |-> f[n + 1]]

PlusSeries(f, g) == [n \in Nat |-> f[n] + g[n]]

ScaleSeries(c, f) == [n \in Nat |-> c * f[n]]

IsConvolution(M) ==
    /\ M \in [Nat -> [Series -> [Series -> Int]]]
    /\ \A f, g \in Series : M[0][f][g] = f[0] * g[0]
    /\ \A n \in Nat : \A f, g \in Series : M[n + 1][f][g] = f[0] * g[n + 1] + M[n][Rest(f)][g]

LEMMA TermIs ==
    ASSUME NEW f \in Series
    PROVE  f[0] \in Int /\ \A n \in Nat : f[n] \in Int /\ f[n + 1] \in Int
BY DEF Series

LEMMA RestIs ==
    ASSUME NEW f \in Series
    PROVE  Rest(f) \in Series /\ \A n \in Nat : Rest(f)[n] = f[n + 1]
BY DEF Series, Rest

LEMMA PlusIs ==
    ASSUME NEW f \in Series, NEW g \in Series
    PROVE  PlusSeries(f, g) \in Series /\ \A n \in Nat : PlusSeries(f, g)[n] = f[n] + g[n]
BY DEF Series, PlusSeries

LEMMA ScaleIs ==
    ASSUME NEW c \in Int, NEW f \in Series
    PROVE  ScaleSeries(c, f) \in Series /\ \A n \in Nat : ScaleSeries(c, f)[n] = c * f[n]
BY DEF Series, ScaleSeries

LEMMA ConvolutionExists == \E M : IsConvolution(M)
<1> DEFINE A == [Series -> [Series -> Int]]
           F == [n \in Nat |-> [h \in A |->
                    [f \in Series |-> [g \in Series |-> f[0] * g[n + 1] + h[Rest(f)][g]]]]]
           x == [f \in Series |-> [g \in Series |-> f[0] * g[0]]]
<1>1. x \in A
  <2>1. ASSUME NEW f \in Series, NEW g \in Series PROVE f[0] * g[0] \in Int
    <3>1. f[0] \in Int /\ g[0] \in Int
      BY TermIs
    <3>. QED  BY <3>1
  <2>. QED  BY <2>1
<1>2. F \in [Nat -> [A -> A]]
  <2>1. ASSUME NEW n \in Nat, NEW h \in A, NEW f \in Series, NEW g \in Series
        PROVE  f[0] * g[n + 1] + h[Rest(f)][g] \in Int
    <3>1. f[0] \in Int /\ g[n + 1] \in Int /\ Rest(f) \in Series
      BY TermIs, RestIs, PlusIs, ScaleIs
    <3>2. h[Rest(f)] \in [Series -> Int]
      BY <3>1
    <3>3. h[Rest(f)][g] \in Int
      BY <3>2
    <3>4. f[0] * g[n + 1] \in Int
      BY <3>1
    <3>. QED  BY <3>3, <3>4
  <2>. QED  BY <2>1
<1> HIDE DEF A, F, x
<1>3. PICK M : Iterates(M, F, x, A)
  BY <1>1, <1>2, Recursion
<1>4. M \in [Nat -> A] /\ M[0] = x /\ \A n \in Nat : M[n + 1] = F[n][M[n]]
  BY <1>3 DEF Iterates
<1>5. \A f, g \in Series : M[0][f][g] = f[0] * g[0]
  BY <1>4 DEF x
<1>6. ASSUME NEW n \in Nat, NEW f \in Series, NEW g \in Series
      PROVE  M[n + 1][f][g] = f[0] * g[n + 1] + M[n][Rest(f)][g]
  <2>1. M[n] \in A /\ M[n + 1] = F[n][M[n]]
    BY <1>4
  <2> DEFINE h == M[n]
  <2> HIDE DEF h
  <2>2. F[n][h][f][g] = f[0] * g[n + 1] + h[Rest(f)][g]
    BY <2>1 DEF F, h
  <2>. QED  BY <2>1, <2>2 DEF h
<1>7. M \in [Nat -> [Series -> [Series -> Int]]]
  BY <1>4 DEF A
<1>. QED  BY <1>5, <1>6, <1>7 DEF IsConvolution

Product(f, g) == [n \in Nat |-> (CHOOSE M : IsConvolution(M))[n][f][g]]

LEMMA ProductIs ==
    ASSUME NEW f \in Series, NEW g \in Series
    PROVE  /\ Product(f, g) \in Series
           /\ Product(f, g)[0] = f[0] * g[0]
           /\ \A n \in Nat : Product(f, g)[n + 1] = f[0] * g[n + 1] + Product(Rest(f), g)[n]
           /\ \A n \in Nat : Product(f, g)[n] \in Int
<1> DEFINE M == CHOOSE N : IsConvolution(N)
<1>1. IsConvolution(M)
  BY ConvolutionExists
<1>2. \A d, e \in Series : \A n \in Nat : Product(d, e)[n] = M[n][d][e]
  BY DEF Product
<1> HIDE DEF M
<1>3. Rest(f) \in Series
  BY TermIs, RestIs, PlusIs, ScaleIs
<1>4. \A n \in Nat : M[n][f][g] \in Int
  <2>1. ASSUME NEW n \in Nat PROVE M[n][f] \in [Series -> Int]
    BY <1>1 DEF IsConvolution
  <2>. QED  BY <2>1
<1>5. \A n \in Nat : Product(f, g)[n] \in Int
  BY <1>2, <1>4
<1>6. Product(f, g) \in Series
  BY <1>5 DEF Product, Series
<1>7. Product(f, g)[0] = f[0] * g[0]
  BY <1>1, <1>2 DEF IsConvolution
<1>8. ASSUME NEW n \in Nat PROVE Product(f, g)[n + 1] = f[0] * g[n + 1] + Product(Rest(f), g)[n]
  <2>1. n + 1 \in Nat
    OBVIOUS
  <2>2. M[n + 1][f][g] = f[0] * g[n + 1] + M[n][Rest(f)][g]
    BY <1>1 DEF IsConvolution
  <2>. QED  BY <1>2, <1>3, <2>1, <2>2
<1>. QED  BY <1>5, <1>6, <1>7, <1>8

LEMMA SameSeries ==
    ASSUME NEW f \in Series, NEW g \in Series, \A n \in Nat : f[n] = g[n]
    PROVE  f = g
BY DEF Series

\* Multiplication distributes over addition on the left.
LEMMA ProductOfSum ==
    ASSUME NEW f \in Series, NEW h \in Series, NEW g \in Series
    PROVE  \A n \in Nat : Product(PlusSeries(f, h), g)[n] = Product(f, g)[n] + Product(h, g)[n]
<1> DEFINE S == {n \in Nat : \A d, e \in Series :
                    Product(PlusSeries(d, e), g)[n] = Product(d, g)[n] + Product(e, g)[n]}
<1>1. 0 \in S
  <2> SUFFICES ASSUME NEW d \in Series, NEW e \in Series
               PROVE  Product(PlusSeries(d, e), g)[0] = Product(d, g)[0] + Product(e, g)[0]
    OBVIOUS
  <2>1. PlusSeries(d, e) \in Series /\ PlusSeries(d, e)[0] = d[0] + e[0]
    BY TermIs, RestIs, PlusIs, ScaleIs
  <2>2. /\ Product(PlusSeries(d, e), g)[0] = PlusSeries(d, e)[0] * g[0]
        /\ Product(d, g)[0] = d[0] * g[0]
        /\ Product(e, g)[0] = e[0] * g[0]
    BY <2>1, ProductIs
  <2>3. d[0] \in Int /\ e[0] \in Int /\ g[0] \in Int
    BY TermIs, RestIs, PlusIs, ScaleIs
  <2>4. (d[0] + e[0]) * g[0] = d[0] * g[0] + e[0] * g[0]
    BY <2>3
  <2>. QED  BY <2>1, <2>2, <2>4
<1>2. \A n \in S : n + 1 \in S
  <2> SUFFICES ASSUME NEW n \in S, NEW d \in Series, NEW e \in Series
               PROVE  Product(PlusSeries(d, e), g)[n + 1]
                          = Product(d, g)[n + 1] + Product(e, g)[n + 1]
    OBVIOUS
  <2>0. Rest(d) \in Series /\ Rest(e) \in Series
    BY RestIs
  <2>1. /\ PlusSeries(d, e) \in Series /\ PlusSeries(d, e)[0] = d[0] + e[0]
        /\ PlusSeries(Rest(d), Rest(e)) \in Series
    BY <2>0, PlusIs
  <2>2. Rest(PlusSeries(d, e)) = PlusSeries(Rest(d), Rest(e))
    BY DEF Rest, PlusSeries
  <2>3. /\ Product(d, g)[n + 1] = d[0] * g[n + 1] + Product(Rest(d), g)[n]
        /\ Product(e, g)[n + 1] = e[0] * g[n + 1] + Product(Rest(e), g)[n]
    BY ProductIs
  <2>7. Product(PlusSeries(d, e), g)[n + 1]
            = PlusSeries(d, e)[0] * g[n + 1] + Product(PlusSeries(Rest(d), Rest(e)), g)[n]
    <3> DEFINE de == PlusSeries(d, e)
    <3> HIDE DEF de
    <3>1. de \in Series
      BY <2>1 DEF de
    <3>2. Product(de, g)[n + 1] = de[0] * g[n + 1] + Product(Rest(de), g)[n]
      BY <3>1, ProductIs
    <3>. QED  BY <2>2, <3>2 DEF de
  <2>4. Product(PlusSeries(Rest(d), Rest(e)), g)[n]
            = Product(Rest(d), g)[n] + Product(Rest(e), g)[n]
    BY <2>0
  <2>5. d[0] \in Int /\ e[0] \in Int /\ g[n + 1] \in Int /\ Product(Rest(d), g)[n] \in Int
        /\ Product(Rest(e), g)[n] \in Int
    BY <2>0, TermIs, ProductIs
  <2>6. (d[0] + e[0]) * g[n + 1] = d[0] * g[n + 1] + e[0] * g[n + 1] /\ d[0] * g[n + 1] \in Int
        /\ e[0] * g[n + 1] \in Int
    BY <2>5
  <2>. QED  BY <2>1, <2>3, <2>4, <2>5, <2>6, <2>7
<1>3. S \in SUBSET Nat
  OBVIOUS
<1> HIDE DEF S
<1>4. \A n \in Nat : n \in S
  BY <1>1, <1>2, <1>3, Induct
<1>. QED  BY <1>4 DEF S

LEMMA ProductOfScaled ==
    ASSUME NEW c \in Int, NEW f \in Series, NEW g \in Series
    PROVE  \A n \in Nat : Product(ScaleSeries(c, f), g)[n] = c * Product(f, g)[n]
<1> DEFINE S == {n \in Nat : \A d \in Series :
               Product(ScaleSeries(c, d), g)[n] = c * Product(d, g)[n]}
<1>1. 0 \in S
  <2> SUFFICES ASSUME NEW d \in Series
               PROVE  Product(ScaleSeries(c, d), g)[0] = c * Product(d, g)[0]
    OBVIOUS
  <2>1. ScaleSeries(c, d) \in Series /\ ScaleSeries(c, d)[0] = c * d[0]
    BY TermIs, RestIs, PlusIs, ScaleIs
  <2>2. Product(ScaleSeries(c, d), g)[0] = ScaleSeries(c, d)[0] * g[0]
        /\ Product(d, g)[0] = d[0] * g[0]
    BY <2>1, ProductIs
  <2>3. d[0] \in Int /\ g[0] \in Int
    BY TermIs, RestIs, PlusIs, ScaleIs
  <2>4. (c * d[0]) * g[0] = c * (d[0] * g[0])
    BY <2>3
  <2>. QED  BY <2>1, <2>2, <2>4
<1>2. \A n \in S : n + 1 \in S
  <2> SUFFICES ASSUME NEW n \in S, NEW d \in Series
               PROVE  Product(ScaleSeries(c, d), g)[n + 1] = c * Product(d, g)[n + 1]
    OBVIOUS
  <2>1. /\ ScaleSeries(c, d) \in Series /\ ScaleSeries(c, d)[0] = c * d[0]
        /\ Rest(d) \in Series /\ ScaleSeries(c, Rest(d)) \in Series
    BY TermIs, RestIs, PlusIs, ScaleIs
  <2>2. Rest(ScaleSeries(c, d)) = ScaleSeries(c, Rest(d))
    BY DEF Rest, ScaleSeries
  <2>3. /\ Product(ScaleSeries(c, d), g)[n + 1]
               = ScaleSeries(c, d)[0] * g[n + 1] + Product(ScaleSeries(c, Rest(d)), g)[n]
        /\ Product(d, g)[n + 1] = d[0] * g[n + 1] + Product(Rest(d), g)[n]
    BY <2>1, <2>2, ProductIs
  <2>4. Product(ScaleSeries(c, Rest(d)), g)[n] = c * Product(Rest(d), g)[n]
    BY <2>1
  <2>5. d[0] \in Int /\ g[n + 1] \in Int /\ Product(Rest(d), g)[n] \in Int
    BY <2>1, TermIs, RestIs, PlusIs, ScaleIs, ProductIs
  <2> DEFINE u == d[0]
             v == g[n + 1]
             w == Product(Rest(d), g)[n]
  <2>6. u \in Int /\ v \in Int /\ w \in Int
    BY <2>5
  <2> HIDE DEF u, v, w
  <2>7. (c * u) * v + c * w = c * (u * v + w)
    BY <2>6
  <2>. QED  BY <2>1, <2>3, <2>4, <2>7 DEF u, v, w
<1>3. S \in SUBSET Nat
  OBVIOUS
<1> HIDE DEF S
<1>4. \A n \in Nat : n \in S
  BY <1>1, <1>2, <1>3, Induct
<1>. QED  BY <1>4 DEF S


\* The product may as well be taken apart on its right.
LEMMA ProductFromRight ==
    ASSUME NEW f \in Series, NEW g \in Series
    PROVE  \A n \in Nat : Product(f, g)[n + 1] = Product(f, Rest(g))[n] + f[n + 1] * g[0]
<1> DEFINE S == {n \in Nat : \A d \in Series :
                    Product(d, g)[n + 1] = Product(d, Rest(g))[n] + d[n + 1] * g[0]}
<1>0. Rest(g) \in Series /\ \A n \in Nat : Rest(g)[n] = g[n + 1]
  BY RestIs
<1>1. 0 \in S
  <2> SUFFICES ASSUME NEW d \in Series
               PROVE  Product(d, g)[0 + 1] = Product(d, Rest(g))[0] + d[0 + 1] * g[0]
    OBVIOUS
  <2>1. Rest(d) \in Series /\ Rest(d)[0] = d[0 + 1]
    BY RestIs
  <2>2. Product(d, g)[0 + 1] = d[0] * g[0 + 1] + Product(Rest(d), g)[0]
    BY ProductIs
  <2>3. Product(Rest(d), g)[0] = Rest(d)[0] * g[0]
    BY <2>1, ProductIs
  <2>4. Product(d, Rest(g))[0] = d[0] * g[0 + 1]
    BY <1>0, ProductIs
  <2>. QED  BY <2>1, <2>2, <2>3, <2>4
<1>2. \A n \in S : n + 1 \in S
  <2> SUFFICES ASSUME NEW n \in S, NEW d \in Series
               PROVE  Product(d, g)[(n + 1) + 1]
                          = Product(d, Rest(g))[n + 1] + d[(n + 1) + 1] * g[0]
    OBVIOUS
  <2>1. Rest(d) \in Series /\ Rest(d)[n + 1] = d[(n + 1) + 1]
    BY RestIs
  <2>2. Product(d, g)[(n + 1) + 1] = d[0] * g[(n + 1) + 1] + Product(Rest(d), g)[n + 1]
    BY ProductIs
  <2>3. Product(Rest(d), g)[n + 1] = Product(Rest(d), Rest(g))[n] + Rest(d)[n + 1] * g[0]
    BY <2>1
  <2>4. Product(d, Rest(g))[n + 1] = d[0] * Rest(g)[n + 1] + Product(Rest(d), Rest(g))[n]
    BY <1>0, ProductIs
  <2>5. Rest(g)[n + 1] = g[(n + 1) + 1]
    BY <1>0
  <2> DEFINE u == d[0] * g[(n + 1) + 1]
             v == Product(Rest(d), Rest(g))[n]
             w == d[(n + 1) + 1] * g[0]
  <2>6. u \in Int /\ v \in Int /\ w \in Int
    <3>1. d[0] \in Int /\ d[(n + 1) + 1] \in Int /\ g[(n + 1) + 1] \in Int /\ g[0] \in Int
      BY TermIs
    <3>2. v \in Int
      BY <1>0, <2>1, ProductIs
    <3>. QED  BY <3>1, <3>2
  <2>7. /\ Product(d, g)[(n + 1) + 1] = u + (v + w)
        /\ Product(d, Rest(g))[n + 1] = u + v
    BY <2>1, <2>2, <2>3, <2>4, <2>5
  <2> HIDE DEF u, v
  <2>. QED  BY <2>6, <2>7
<1>3. S \in SUBSET Nat
  OBVIOUS
<1> HIDE DEF S
<1>4. \A n \in Nat : n \in S
  BY <1>1, <1>2, <1>3, Induct
<1>. QED  BY <1>4 DEF S

LEMMA ProductCommutes ==
    ASSUME NEW f \in Series, NEW g \in Series
    PROVE  Product(f, g) = Product(g, f)
<1> DEFINE S == {n \in Nat : \A d, e \in Series : Product(d, e)[n] = Product(e, d)[n]}
<1>1. 0 \in S
  <2> SUFFICES ASSUME NEW d \in Series, NEW e \in Series
               PROVE  Product(d, e)[0] = Product(e, d)[0]
    OBVIOUS
  <2>1. d[0] \in Int /\ e[0] \in Int
    BY TermIs
  <2>2. Product(d, e)[0] = d[0] * e[0] /\ Product(e, d)[0] = e[0] * d[0]
    BY ProductIs
  <2>. QED  BY <2>1, <2>2
<1>2. \A n \in S : n + 1 \in S
  <2> SUFFICES ASSUME NEW n \in S, NEW d \in Series, NEW e \in Series
               PROVE  Product(d, e)[n + 1] = Product(e, d)[n + 1]
    OBVIOUS
  <2>1. Rest(d) \in Series
    BY RestIs
  <2>2. Product(d, e)[n + 1] = d[0] * e[n + 1] + Product(Rest(d), e)[n]
    BY ProductIs
  <2>3. Product(e, d)[n + 1] = Product(e, Rest(d))[n] + e[n + 1] * d[0]
    BY ProductFromRight
  <2>4. Product(Rest(d), e)[n] = Product(e, Rest(d))[n]
    BY <2>1
  <2>5. d[0] \in Int /\ e[n + 1] \in Int /\ Product(e, Rest(d))[n] \in Int
    BY <2>1, TermIs, ProductIs
  <2>. QED  BY <2>2, <2>3, <2>4, <2>5
<1>3. S \in SUBSET Nat
  OBVIOUS
<1> HIDE DEF S
<1>4. \A n \in Nat : n \in S
  BY <1>1, <1>2, <1>3, Induct
<1>5. \A n \in Nat : Product(f, g)[n] = Product(g, f)[n]
  BY <1>4 DEF S
<1>6. Product(f, g) \in Series /\ Product(g, f) \in Series
  BY ProductIs
<1>. QED  BY <1>5, <1>6, SameSeries

LEMMA ProductAssociates ==
    ASSUME NEW f \in Series, NEW g \in Series, NEW h \in Series
    PROVE  Product(Product(f, g), h) = Product(f, Product(g, h))
<1> DEFINE S == {n \in Nat : \A d \in Series :
                    Product(Product(d, g), h)[n] = Product(d, Product(g, h))[n]}
           gh == Product(g, h)
<1>0. gh \in Series /\ Rest(g) \in Series
  BY ProductIs, RestIs
<1> HIDE DEF gh
<1>1. 0 \in S
  <2> SUFFICES ASSUME NEW d \in Series
               PROVE  Product(Product(d, g), h)[0] = Product(d, gh)[0]
    BY DEF gh
  <2>1. Product(d, g) \in Series /\ Product(d, g)[0] = d[0] * g[0]
    BY ProductIs
  <2>2. Product(Product(d, g), h)[0] = Product(d, g)[0] * h[0]
    BY <2>1, ProductIs
  <2>3. gh[0] = g[0] * h[0]
    BY ProductIs DEF gh
  <2>4. Product(d, gh)[0] = d[0] * gh[0]
    BY <1>0, ProductIs
  <2>5. d[0] \in Int /\ g[0] \in Int /\ h[0] \in Int
    BY TermIs
  <2>6. (d[0] * g[0]) * h[0] = d[0] * (g[0] * h[0])
    BY <2>5
  <2>. QED  BY <2>1, <2>2, <2>3, <2>4, <2>6
<1>2. \A n \in S : n + 1 \in S
  <2> SUFFICES ASSUME NEW n \in S, NEW d \in Series
               PROVE  Product(Product(d, g), h)[n + 1] = Product(d, gh)[n + 1]
    BY DEF gh
  <2> DEFINE dg == Product(d, g)
             e  == Rest(d)
             k  == Rest(g)
  <2>1. d[0] \in Int /\ g[0] \in Int /\ h[n + 1] \in Int
    BY TermIs
  <2>2. dg \in Series /\ dg[0] = d[0] * g[0]
    BY ProductIs
  <2>3. e \in Series /\ k \in Series
    BY RestIs
  <2>4. Rest(dg) = PlusSeries(ScaleSeries(d[0], k), Product(e, g))
    <3>1. ScaleSeries(d[0], k) \in Series /\ Product(e, g) \in Series /\ Rest(dg) \in Series
      BY <2>1, <2>2, <2>3, ScaleIs, ProductIs, RestIs
    <3>2. PlusSeries(ScaleSeries(d[0], k), Product(e, g)) \in Series
      BY <3>1, PlusIs
    <3>3. ASSUME NEW m \in Nat
          PROVE  Rest(dg)[m] = PlusSeries(ScaleSeries(d[0], k), Product(e, g))[m]
      <4>1. Rest(dg)[m] = dg[m + 1]
        BY <2>2, RestIs
      <4>2. dg[m + 1] = d[0] * g[m + 1] + Product(e, g)[m]
        BY ProductIs
      <4>3. k[m] = g[m + 1]
        BY RestIs
      <4>4. ScaleSeries(d[0], k)[m] = d[0] * k[m]
        BY <2>1, <2>3, ScaleIs
      <4>5. PlusSeries(ScaleSeries(d[0], k), Product(e, g))[m]
                = ScaleSeries(d[0], k)[m] + Product(e, g)[m]
        BY <3>1, PlusIs
      <4>. QED  BY <4>1, <4>2, <4>3, <4>4, <4>5
    <3> HIDE DEF dg, e, k
    <3>. QED  BY <3>1, <3>2, <3>3, SameSeries
  <2> HIDE DEF dg, e, k
  <2>5. Product(dg, h)[n + 1] = dg[0] * h[n + 1] + Product(Rest(dg), h)[n]
    BY <2>2, ProductIs
  <2>6. Product(Rest(dg), h)[n] = d[0] * Product(k, h)[n] + Product(Product(e, g), h)[n]
    <3>1. ScaleSeries(d[0], k) \in Series /\ Product(e, g) \in Series
      BY <2>1, <2>3, ScaleIs, ProductIs
    <3>2. Product(PlusSeries(ScaleSeries(d[0], k), Product(e, g)), h)[n]
            = Product(ScaleSeries(d[0], k), h)[n] + Product(Product(e, g), h)[n]
      BY <3>1, ProductOfSum
    <3>3. Product(ScaleSeries(d[0], k), h)[n] = d[0] * Product(k, h)[n]
      BY <2>1, <2>3, ProductOfScaled
    <3>. QED  BY <2>4, <3>2, <3>3
  <2>7. Product(Product(e, g), h)[n] = Product(e, gh)[n]
    BY <2>3 DEF gh
  <2>8. Product(d, gh)[n + 1] = d[0] * gh[n + 1] + Product(e, gh)[n]
    BY <1>0, ProductIs DEF e
  <2>9. gh[n + 1] = g[0] * h[n + 1] + Product(k, h)[n]
    BY ProductIs DEF gh, k
  <2>10. Product(k, h)[n] \in Int /\ Product(e, gh)[n] \in Int
    BY <1>0, <2>3, ProductIs
  <2> DEFINE x == d[0]
             y == g[0]
             z == h[n + 1]
             u == Product(k, h)[n]
             v == Product(e, gh)[n]
  <2>11. Product(dg, h)[n + 1] = (x * y) * z + (x * u + v)
         /\ Product(d, gh)[n + 1] = x * (y * z + u) + v
    BY <2>2, <2>5, <2>6, <2>7, <2>8, <2>9
  <2>12. x \in Int /\ y \in Int /\ z \in Int /\ u \in Int /\ v \in Int
    BY <2>1, <2>10
  <2> HIDE DEF x, y, z, u, v
  <2>13. (x * y) * z + (x * u + v) = x * (y * z + u) + v
    BY <2>12
  <2>. QED  BY <2>11, <2>13 DEF dg
<1>3. S \in SUBSET Nat
  OBVIOUS
<1> HIDE DEF S
<1>4. \A n \in Nat : n \in S
  BY <1>1, <1>2, <1>3, Induct
<1>5. \A n \in Nat : Product(Product(f, g), h)[n] = Product(f, gh)[n]
  BY <1>4 DEF S, gh
<1>6. Product(Product(f, g), h) \in Series /\ Product(f, gh) \in Series
  BY <1>0, ProductIs
<1>7. Product(Product(f, g), h) = Product(f, gh)
  BY <1>5, <1>6, SameSeries
<1>. QED  BY <1>7 DEF gh


SameMod(x, y, p) == x % p = y % p

\* Remainders of a product and of a sum depend on the remainders only.
LEMMA ModProduct ==
    ASSUME NEW p \in Nat \ {0}, NEW x \in Int, NEW y \in Int, NEW u \in Int, NEW v \in Int,
           SameMod(x, u, p), SameMod(y, v, p)
    PROVE  SameMod(x * y, u * v, p)
<1>1. ((x % p) * y) % p = (x * y) % p /\ ((u % p) * y) % p = (u * y) % p
  BY ModTimes
<1>2. ((y % p) * u) % p = (y * u) % p /\ ((v % p) * u) % p = (v * u) % p
  BY ModTimes
<1>3. u * y = y * u /\ v * u = u * v
  OBVIOUS
<1>. QED  BY <1>1, <1>2, <1>3 DEF SameMod

LEMMA ModSum ==
    ASSUME NEW p \in Nat \ {0}, NEW x \in Int, NEW y \in Int, NEW u \in Int, NEW v \in Int,
           SameMod(x, u, p), SameMod(y, v, p)
    PROVE  SameMod(x + y, u + v, p)
<1>1. ((x % p) + y) % p = (x + y) % p /\ ((u % p) + y) % p = (u + y) % p
  BY ModPlus
<1>2. ((y % p) + u) % p = (y + u) % p /\ ((v % p) + u) % p = (v + u) % p
  BY ModPlus
<1>3. u + y = y + u /\ v + u = u + v
  OBVIOUS
<1>. QED  BY <1>1, <1>2, <1>3 DEF SameMod

\* f and g are the same modulo p, up to n.
Congruent(f, g, p, n) == \A i \in 0..n : f[i] % p = g[i] % p

\* A term of a product depends on terms of the factors up to its place only, and modulo p
\* on their remainders only.
LEMMA ProductCongruent ==
    ASSUME NEW p \in Nat \ {0}
    PROVE  \A n \in Nat : \A f, g, h, k \in Series :
               Congruent(f, h, p, n) /\ Congruent(g, k, p, n) =>
                   Product(f, g)[n] % p = Product(h, k)[n] % p
<1> DEFINE S == {n \in Nat : \A f, g, h, k \in Series :
                    Congruent(f, h, p, n) /\ Congruent(g, k, p, n) =>
                        Product(f, g)[n] % p = Product(h, k)[n] % p}
<1>2. 0 \in S
  <2> SUFFICES ASSUME NEW f \in Series, NEW g \in Series, NEW h \in Series, NEW k \in Series,
                      Congruent(f, h, p, 0), Congruent(g, k, p, 0)
               PROVE  Product(f, g)[0] % p = Product(h, k)[0] % p
    OBVIOUS
  <2>1. f[0] \in Int /\ g[0] \in Int /\ h[0] \in Int /\ k[0] \in Int
    BY TermIs
  <2>2. f[0] % p = h[0] % p /\ g[0] % p = k[0] % p
    BY DEF Congruent
  <2>3. (f[0] * g[0]) % p = (h[0] * k[0]) % p
    <3> DEFINE a == f[0]
               b == g[0]
               c == h[0]
               d == k[0]
    <3>1. a \in Int /\ b \in Int /\ c \in Int /\ d \in Int /\ SameMod(a, c, p) /\ SameMod(b, d, p)
      BY <2>1, <2>2 DEF SameMod
    <3> HIDE DEF a, b, c, d
    <3>2. SameMod(a * b, c * d, p)
      BY <3>1, ModProduct
    <3>. QED  BY <3>2 DEF a, b, c, d, SameMod
  <2>4. Product(f, g)[0] = f[0] * g[0] /\ Product(h, k)[0] = h[0] * k[0]
    BY ProductIs
  <2>. QED  BY <2>3, <2>4
<1>3. \A n \in S : n + 1 \in S
  <2> SUFFICES ASSUME NEW n \in S, NEW f \in Series, NEW g \in Series, NEW h \in Series,
                          NEW k \in Series,
                      Congruent(f, h, p, n + 1), Congruent(g, k, p, n + 1)
               PROVE  Product(f, g)[n + 1] % p = Product(h, k)[n + 1] % p
    OBVIOUS
  <2>1. f[0] \in Int /\ g[n + 1] \in Int /\ h[0] \in Int /\ k[n + 1] \in Int
    BY TermIs
  <2>2. f[0] % p = h[0] % p /\ g[n + 1] % p = k[n + 1] % p
    BY DEF Congruent
  <2>3. (f[0] * g[n + 1]) % p = (h[0] * k[n + 1]) % p
    <3> DEFINE a == f[0]
               b == g[n + 1]
               c == h[0]
               d == k[n + 1]
    <3>1. a \in Int /\ b \in Int /\ c \in Int /\ d \in Int /\ SameMod(a, c, p) /\ SameMod(b, d, p)
      BY <2>1, <2>2 DEF SameMod
    <3> HIDE DEF a, b, c, d
    <3>2. SameMod(a * b, c * d, p)
      BY <3>1, ModProduct
    <3>. QED  BY <3>2 DEF a, b, c, d, SameMod
  <2>4. Rest(f) \in Series /\ Rest(h) \in Series
    BY RestIs
  <2>5. Congruent(Rest(f), Rest(h), p, n)
    <3>1. ASSUME NEW i \in 0..n PROVE Rest(f)[i] % p = Rest(h)[i] % p
      <4>1. i \in Nat /\ i + 1 \in 0..(n + 1)
        OBVIOUS
      <4>2. Rest(f)[i] = f[i + 1] /\ Rest(h)[i] = h[i + 1]
        BY <4>1, RestIs
      <4>. QED  BY <4>1, <4>2 DEF Congruent
    <3>. QED  BY <3>1 DEF Congruent
  <2>6. Congruent(g, k, p, n)
    <3>1. \A i \in 0..n : i \in 0..(n + 1)
      OBVIOUS
    <3>. QED  BY <3>1 DEF Congruent
  <2>7. Product(Rest(f), g)[n] % p = Product(Rest(h), k)[n] % p
    BY <2>4, <2>5, <2>6
  <2>8. Product(Rest(f), g)[n] \in Int /\ Product(Rest(h), k)[n] \in Int
    BY <2>4, ProductIs
  <2>9. /\ Product(f, g)[n + 1] = f[0] * g[n + 1] + Product(Rest(f), g)[n]
        /\ Product(h, k)[n + 1] = h[0] * k[n + 1] + Product(Rest(h), k)[n]
    BY ProductIs
  <2>10. f[0] * g[n + 1] \in Int /\ h[0] * k[n + 1] \in Int
    BY <2>1
  <2>11. ((f[0] * g[n + 1]) + Product(Rest(f), g)[n]) % p
             = ((h[0] * k[n + 1]) + Product(Rest(h), k)[n]) % p
    <3> DEFINE a == f[0] * g[n + 1]
               b == Product(Rest(f), g)[n]
               c == h[0] * k[n + 1]
               d == Product(Rest(h), k)[n]
    <3>1. a \in Int /\ b \in Int /\ c \in Int /\ d \in Int /\ SameMod(a, c, p) /\ SameMod(b, d, p)
      BY <2>3, <2>7, <2>8, <2>10 DEF SameMod
    <3> HIDE DEF a, b, c, d
    <3>2. SameMod(a + b, c + d, p)
      BY <3>1, ModSum
    <3>. QED  BY <3>2 DEF a, b, c, d, SameMod
  <2>. QED  BY <2>9, <2>11
<1>4. S \in SUBSET Nat
  OBVIOUS
<1> HIDE DEF S
<1>5. \A n \in Nat : n \in S
  BY <1>2, <1>3, <1>4, Induct
<1>. QED  BY <1>5 DEF S

One == [n \in Nat |-> IF n = 0 THEN 1 ELSE 0]

Zero == [n \in Nat |-> 0]

LEMMA OneIs == One \in Series /\ One[0] = 1 /\ \A n \in Nat : n # 0 => One[n] = 0
BY DEF One, Series

LEMMA ZeroIs == Zero \in Series /\ \A n \in Nat : Zero[n] = 0
BY DEF Zero, Series

LEMMA ProductOfZero ==
    ASSUME NEW g \in Series
    PROVE  \A n \in Nat : Product(Zero, g)[n] = 0
<1>1. Rest(Zero) = Zero
  BY DEF Rest, Zero
<1>2. Zero \in Series /\ Zero[0] = 0
  BY ZeroIs
<1> DEFINE S == {n \in Nat : Product(Zero, g)[n] = 0}
<1>3. 0 \in S
  <2>1. Product(Zero, g)[0] = Zero[0] * g[0] /\ g[0] \in Int
    BY <1>2, ProductIs, TermIs
  <2>2. 0 * g[0] = 0
    BY <2>1
  <2>. QED  BY <1>2, <2>1, <2>2
<1>4. \A n \in S : n + 1 \in S
  <2> SUFFICES ASSUME NEW n \in S PROVE Product(Zero, g)[n + 1] = 0
    OBVIOUS
  <2>1. Product(Zero, g)[n + 1] = Zero[0] * g[n + 1] + Product(Rest(Zero), g)[n]
    BY <1>2, ProductIs
  <2>2. g[n + 1] \in Int
    BY TermIs
  <2>3. 0 * g[n + 1] = 0
    BY <2>2
  <2>. QED  BY <1>1, <1>2, <2>1, <2>3
<1>5. S \in SUBSET Nat
  OBVIOUS
<1> HIDE DEF S
<1>6. \A n \in Nat : n \in S
  BY <1>3, <1>4, <1>5, Induct
<1>. QED  BY <1>6 DEF S

LEMMA ProductOfOne ==
    ASSUME NEW g \in Series
    PROVE  Product(One, g) = g
<1>1. Rest(One) = Zero
  BY DEF Rest, Zero, One
<1>2. One \in Series /\ One[0] = 1
  BY OneIs
<1>3. ASSUME NEW n \in Nat PROVE Product(One, g)[n] = g[n]
  <2>1. g[0] \in Int /\ g[n] \in Int
    BY TermIs
  <2>2. CASE n = 0
    <3>1. Product(One, g)[0] = One[0] * g[0]
      BY <1>2, ProductIs
    <3>2. 1 * g[0] = g[0]
      BY <2>1
    <3>. QED  BY <1>2, <2>2, <3>1, <3>2
  <2>3. CASE n # 0
    <3>1. PICK m \in Nat : n = m + 1
      <4>1. n - 1 \in Nat /\ n = (n - 1) + 1
        BY <2>3
      <4>. QED  BY <4>1
    <3>2. Product(One, g)[m + 1] = One[0] * g[m + 1] + Product(Rest(One), g)[m]
      BY <1>2, ProductIs
    <3>3. Product(Rest(One), g)[m] = 0
      BY <1>1, ProductOfZero
    <3>4. 1 * g[m + 1] + 0 = g[m + 1]
      BY <2>1, <3>1
    <3>. QED  BY <1>2, <3>1, <3>2, <3>3, <3>4
  <2>. QED  BY <2>2, <2>3
<1>4. Product(One, g) \in Series
  BY <1>2, ProductIs
<1>. QED  BY <1>3, <1>4, SameSeries

\* f times X^d.
Shift(f, d) == [n \in Nat |-> IF n < d THEN 0 ELSE f[n - d]]

LEMMA ShiftIs ==
    ASSUME NEW f \in Series, NEW d \in Nat
    PROVE  /\ Shift(f, d) \in Series
           /\ \A n \in Nat : n < d => Shift(f, d)[n] = 0
           /\ \A n \in Nat : n >= d => Shift(f, d)[n] = f[n - d]
           /\ \A n \in Nat : Shift(f, d)[n + d] = f[n]
<1>1. \A n \in Nat : n >= d => n - d \in Nat
  OBVIOUS
<1>2. \A n \in Nat : n + d \in Nat /\ (n + d) - d = n /\ ~(n + d < d)
  OBVIOUS
<1>. QED  BY <1>1, <1>2 DEF Shift, Series

LEMMA ProductOfShift ==
    ASSUME NEW f \in Series, NEW g \in Series, NEW d \in Nat
    PROVE  Product(Shift(f, d), g) = Shift(Product(f, g), d)
<1> DEFINE fg == Product(f, g)
           S == {e \in Nat : Product(Shift(f, e), g) = Shift(fg, e)}
<1>0. fg \in Series
  BY ProductIs
<1> HIDE DEF fg
<1>1. 0 \in S
  <2>1. Shift(f, 0) \in Series /\ Shift(fg, 0) \in Series
    BY <1>0, ShiftIs
  <2>2. \A n \in Nat : n + 0 = n
    OBVIOUS
  <2>3. \A n \in Nat : Shift(f, 0)[n] = f[n]
    BY <2>2, ShiftIs
  <2>4. \A n \in Nat : Shift(fg, 0)[n] = fg[n]
    BY <1>0, <2>2, ShiftIs
  <2>5. Shift(f, 0) = f /\ Shift(fg, 0) = fg
    BY <1>0, <2>1, <2>3, <2>4, SameSeries
  <2>. QED  BY <2>5 DEF fg
<1>2. \A e \in S : e + 1 \in S
  <2> SUFFICES ASSUME NEW e \in S
               PROVE  Product(Shift(f, e + 1), g) = Shift(fg, e + 1)
    OBVIOUS
  <2>0. e \in Nat /\ e + 1 \in Nat /\ Product(Shift(f, e), g) = Shift(fg, e)
    OBVIOUS
  <2> HIDE DEF S
  <2>1. Shift(f, e) \in Series /\ Shift(f, e + 1) \in Series
    BY <2>0, ShiftIs
  <2>2. Rest(Shift(f, e + 1)) = Shift(f, e)
    <3>1. Rest(Shift(f, e + 1)) \in Series
      BY <2>1, RestIs
    <3>2. ASSUME NEW n \in Nat PROVE Rest(Shift(f, e + 1))[n] = Shift(f, e)[n]
      <4>1. Rest(Shift(f, e + 1))[n] = Shift(f, e + 1)[n + 1]
        BY <2>1, RestIs
      <4>2. (n + 1 < e + 1 <=> n < e) /\ (n + 1) - (e + 1) = n - e /\ n + 1 \in Nat
        BY <2>0
      <4>3. Shift(f, e + 1)[n + 1] = IF n + 1 < e + 1 THEN 0 ELSE f[(n + 1) - (e + 1)]
        BY <4>2 DEF Shift
      <4>4. Shift(f, e)[n] = IF n < e THEN 0 ELSE f[n - e]
        BY DEF Shift
      <4>. QED  BY <4>1, <4>2, <4>3, <4>4
    <3>. QED  BY <2>1, <3>1, <3>2, SameSeries
  <2>3. ASSUME NEW n \in Nat PROVE Product(Shift(f, e + 1), g)[n] = Shift(fg, e + 1)[n]
    <3>1. Shift(f, e + 1)[0] = 0
      BY <2>0 DEF Shift
    <3>2. g[0] \in Int /\ g[n] \in Int
      BY TermIs
    <3>3. CASE n = 0
      <4>1. Product(Shift(f, e + 1), g)[0] = Shift(f, e + 1)[0] * g[0]
        BY <2>1, ProductIs
      <4>2. Shift(fg, e + 1)[0] = 0
        BY <2>0 DEF Shift
      <4>3. 0 * g[0] = 0
        BY <3>2
      <4>. QED  BY <3>1, <3>3, <4>1, <4>2, <4>3
    <3>4. CASE n # 0
      <4>1. PICK m \in Nat : n = m + 1
        <5>1. n - 1 \in Nat /\ n = (n - 1) + 1
          BY <3>4
        <5>. QED  BY <5>1
      <4> DEFINE k == Shift(f, e + 1)
      <4>2. k \in Series /\ k[0] = 0 /\ Rest(k) = Shift(f, e)
        BY <2>1, <2>2, <3>1
      <4> HIDE DEF k
      <4>3. Product(k, g)[m + 1] = k[0] * g[m + 1] + Product(Rest(k), g)[m]
        BY <4>2, ProductIs
      <4>4. Product(Rest(k), g)[m] = Shift(fg, e)[m]
        BY <2>0, <4>2
      <4>5. Shift(fg, e)[m] \in Int
        BY <1>0, <2>0, ShiftIs, TermIs
      <4>6. 0 * g[m + 1] + Shift(fg, e)[m] = Shift(fg, e)[m]
        BY <3>2, <4>1, <4>5
      <4>7. (m + 1 < e + 1 <=> m < e) /\ (m + 1) - (e + 1) = m - e /\ m + 1 \in Nat
        BY <2>0
      <4>8. Shift(fg, e + 1)[m + 1] = IF m + 1 < e + 1 THEN 0 ELSE fg[(m + 1) - (e + 1)]
        BY <4>7 DEF Shift
      <4>9. Shift(fg, e)[m] = IF m < e THEN 0 ELSE fg[m - e]
        BY DEF Shift
      <4>. QED  BY <4>1, <4>2, <4>3, <4>4, <4>6, <4>7, <4>8, <4>9 DEF k
    <3>. QED  BY <3>3, <3>4
  <2>4. Product(Shift(f, e + 1), g) \in Series /\ Shift(fg, e + 1) \in Series
    BY <1>0, <2>0, <2>1, ProductIs, ShiftIs
  <2>. QED  BY <2>3, <2>4, SameSeries
<1>3. S \in SUBSET Nat
  OBVIOUS
<1> HIDE DEF S
<1>4. \A e \in Nat : e \in S
  BY <1>1, <1>2, <1>3, Induct
<1>. QED  BY <1>4 DEF S, fg


\* The degree of f is at most m.
Bounded(f, m) == \A n \in Nat : n > m => f[n] = 0

LEMMA RestBounded ==
    ASSUME NEW f \in Series, NEW m \in Nat, Bounded(f, m + 1)
    PROVE  Bounded(Rest(f), m)
<1> SUFFICES ASSUME NEW n \in Nat, n > m PROVE Rest(f)[n] = 0
  BY DEF Bounded
<1>1. Rest(f)[n] = f[n + 1] /\ n + 1 \in Nat /\ n + 1 > m + 1
  BY RestIs
<1>. QED  BY <1>1 DEF Bounded

LEMMA ProductOfConstant ==
    ASSUME NEW f \in Series, NEW g \in Series, Bounded(f, 0)
    PROVE  \A n \in Nat : Product(f, g)[n] = f[0] * g[n]
<1>1. f[0] \in Int /\ One \in Series
  BY TermIs, OneIs
<1>2. f = ScaleSeries(f[0], One)
  <2>1. ScaleSeries(f[0], One) \in Series
    BY <1>1, ScaleIs
  <2>2. ASSUME NEW n \in Nat PROVE f[n] = ScaleSeries(f[0], One)[n]
    <3>1. ScaleSeries(f[0], One)[n] = f[0] * One[n]
      BY <1>1, ScaleIs
    <3>2. CASE n = 0
      <4>1. One[n] = 1 /\ f[0] * 1 = f[0]
        BY <1>1, <3>2, OneIs
      <4>. QED  BY <3>1, <3>2, <4>1
    <3>3. CASE n # 0
      <4>1. One[n] = 0 /\ f[0] * 0 = 0 /\ n > 0
        BY <1>1, <3>3, OneIs
      <4>. QED  BY <3>1, <4>1 DEF Bounded
    <3>. QED  BY <3>2, <3>3
  <2>. QED  BY <2>1, <2>2, SameSeries
<1> DEFINE c == f[0]
<1> HIDE DEF c
<1>3. \A n \in Nat : Product(ScaleSeries(c, One), g)[n] = c * Product(One, g)[n]
  BY <1>1, ProductOfScaled DEF c
<1>4. Product(One, g) = g
  BY ProductOfOne
<1>. QED  BY <1>2, <1>3, <1>4 DEF c

LEMMA ProductBounded ==
    ASSUME NEW g \in Series, NEW k \in Nat, Bounded(g, k)
    PROVE  \A m \in Nat : \A f \in Series : Bounded(f, m) => Bounded(Product(f, g), m + k)
<1> DEFINE S == {m \in Nat : \A f \in Series : Bounded(f, m) => Bounded(Product(f, g), m + k)}
<1>1. 0 \in S
  <2> SUFFICES ASSUME NEW f \in Series, Bounded(f, 0), NEW n \in Nat, n > 0 + k
               PROVE  Product(f, g)[n] = 0
    BY DEF Bounded
  <2>1. Product(f, g)[n] = f[0] * g[n]
    BY ProductOfConstant
  <2>2. n > k /\ f[0] \in Int
    BY TermIs
  <2>3. g[n] = 0 /\ f[0] * 0 = 0
    BY <2>2 DEF Bounded
  <2>. QED  BY <2>1, <2>3
<1>2. \A m \in S : m + 1 \in S
  <2> SUFFICES ASSUME NEW m \in S, NEW f \in Series, Bounded(f, m + 1)
               PROVE  Bounded(Product(f, g), (m + 1) + k)
    OBVIOUS
  <2> SUFFICES ASSUME NEW n \in Nat, n > (m + 1) + k
               PROVE  Product(f, g)[n] = 0
    BY DEF Bounded
  <2>1. PICK i \in Nat : n = i + 1 /\ i > m + k
    <3>1. n - 1 \in Nat /\ n = (n - 1) + 1 /\ n - 1 > m + k
      OBVIOUS
    <3>. QED  BY <3>1
  <2>2. Product(f, g)[i + 1] = f[0] * g[i + 1] + Product(Rest(f), g)[i]
    BY ProductIs
  <2>3. g[i + 1] = 0
    <3>1. i + 1 > k /\ i + 1 \in Nat
      BY <2>1
    <3>. QED  BY <3>1 DEF Bounded
  <2>4. Product(Rest(f), g)[i] = 0
    <3>1. Rest(f) \in Series /\ Bounded(Rest(f), m)
      BY RestIs, RestBounded
    <3>2. Bounded(Product(Rest(f), g), m + k)
      BY <3>1
    <3>. QED  BY <2>1, <3>2 DEF Bounded
  <2>5. f[0] \in Int /\ f[0] * 0 + 0 = 0
    BY TermIs
  <2>. QED  BY <2>1, <2>2, <2>3, <2>4, <2>5
<1>3. S \in SUBSET Nat
  OBVIOUS
<1> HIDE DEF S
<1>4. \A n \in Nat : n \in S
  BY <1>1, <1>2, <1>3, Induct
<1>. QED  BY <1>4 DEF S

\* The highest coefficient of a product is the product of the highest.
LEMMA LeadingTerm ==
    ASSUME NEW g \in Series, NEW k \in Nat, Bounded(g, k)
    PROVE  \A m \in Nat : \A f \in Series : Bounded(f, m) => Product(f, g)[m + k] = f[m] * g[k]
<1> DEFINE S == {m \in Nat : \A f \in Series : Bounded(f, m) => Product(f, g)[m + k] = f[m] * g[k]}
<1>1. 0 \in S
  <2> SUFFICES ASSUME NEW f \in Series, Bounded(f, 0)
               PROVE  Product(f, g)[0 + k] = f[0] * g[k]
    OBVIOUS
  <2>1. 0 + k = k
    OBVIOUS
  <2>. QED  BY <2>1, ProductOfConstant
<1>2. \A m \in S : m + 1 \in S
  <2> SUFFICES ASSUME NEW m \in S, NEW f \in Series, Bounded(f, m + 1)
               PROVE  Product(f, g)[(m + 1) + k] = f[m + 1] * g[k]
    OBVIOUS
  <2>1. (m + 1) + k = (m + k) + 1 /\ m + k \in Nat /\ (m + k) + 1 \in Nat /\ (m + k) + 1 > k
    OBVIOUS
  <2>2. Product(f, g)[(m + k) + 1] = f[0] * g[(m + k) + 1] + Product(Rest(f), g)[m + k]
    BY <2>1, ProductIs
  <2>3. g[(m + k) + 1] = 0
    BY <2>1 DEF Bounded
  <2>4. Product(Rest(f), g)[m + k] = Rest(f)[m] * g[k]
    <3>1. Rest(f) \in Series /\ Bounded(Rest(f), m)
      BY RestIs, RestBounded
    <3>. QED  BY <3>1
  <2>5. Rest(f)[m] = f[m + 1]
    BY RestIs
  <2>6. f[0] \in Int /\ f[m + 1] \in Int /\ g[k] \in Int
    BY TermIs
  <2>7. f[0] * 0 + f[m + 1] * g[k] = f[m + 1] * g[k]
    BY <2>6
  <2>. QED  BY <2>1, <2>2, <2>3, <2>4, <2>5, <2>7
<1>3. S \in SUBSET Nat
  OBVIOUS
<1> HIDE DEF S
<1>4. \A n \in Nat : n \in S
  BY <1>1, <1>2, <1>3, Induct
<1>. QED  BY <1>4 DEF S


\* The terms below the m-th.
Cut(f, m) == [n \in Nat |-> IF n < m THEN f[n] ELSE 0]

LEMMA CutIs ==
    ASSUME NEW f \in Series, NEW m \in Nat
    PROVE  /\ Cut(f, m) \in Series
           /\ Cut(f, m + 1) = PlusSeries(Cut(f, m), ScaleSeries(f[m], Shift(One, m)))
<1> DEFINE C == Cut(f, m)
           D == Cut(f, m + 1)
           E == ScaleSeries(f[m], Shift(One, m))
<1>1. C \in Series /\ D \in Series
  <2>1. \A n \in Nat : f[n] \in Int
    BY TermIs
  <2>. QED  BY <2>1 DEF Cut, Series
<1>2. f[m] \in Int /\ Shift(One, m) \in Series
  BY TermIs, OneIs, ShiftIs
<1>3. E \in Series /\ \A n \in Nat : E[n] = f[m] * Shift(One, m)[n]
  BY <1>2, ScaleIs
<1>4. ASSUME NEW n \in Nat PROVE D[n] = C[n] + E[n]
  <2>1. f[n] \in Int
    BY TermIs
  <2>2. CASE n < m
    <3>1. n < m + 1 /\ Shift(One, m)[n] = 0
      BY <2>2 DEF Shift
    <3>2. D[n] = f[n] /\ C[n] = f[n]
      BY <2>2, <3>1 DEF Cut
    <3>3. f[n] + f[m] * 0 = f[n]
      BY <1>2, <2>1
    <3>. QED  BY <1>3, <3>1, <3>2, <3>3
  <2>3. CASE n = m
    <3>1. n < m + 1 /\ ~(n < m) /\ n - m = 0
      BY <2>3
    <3>2. Shift(One, m)[n] = 1
      BY <3>1, OneIs DEF Shift
    <3>3. D[n] = f[m] /\ C[n] = 0
      BY <2>3, <3>1 DEF Cut
    <3>4. 0 + f[m] * 1 = f[m]
      BY <1>2
    <3>. QED  BY <1>3, <3>2, <3>3, <3>4
  <2>4. CASE n > m
    <3>1. ~(n < m + 1) /\ ~(n < m) /\ n - m \in Nat /\ n - m # 0
      BY <2>4
    <3>2. Shift(One, m)[n] = 0
      BY <3>1, OneIs DEF Shift
    <3>3. D[n] = 0 /\ C[n] = 0
      BY <3>1 DEF Cut
    <3>4. 0 + f[m] * 0 = 0
      BY <1>2
    <3>. QED  BY <1>3, <3>2, <3>3, <3>4
  <2>. QED  BY <2>2, <2>3, <2>4
<1> HIDE DEF C, D, E
<1>5. PlusSeries(C, E) \in Series /\ \A n \in Nat : PlusSeries(C, E)[n] = C[n] + E[n]
  BY <1>1, <1>3, PlusIs
<1>6. \A n \in Nat : D[n] = PlusSeries(C, E)[n]
  BY <1>4, <1>5
<1>7. D = PlusSeries(C, E)
  BY <1>1, <1>5, <1>6, SameSeries
<1>. QED  BY <1>1, <1>7 DEF C, D, E

\* w adds up the products that make the m-th term of f times g, where f has k terms.
AddsProducts(w, f, g, m, k) ==
    /\ k \in Nat /\ m \in Nat
    /\ \A n \in Nat : n >= k => f[n] = 0
    /\ w[0] = 0
    /\ \A i \in 0..(k - 1) : w[i + 1] = w[i] + f[i] * (IF m < i THEN 0 ELSE g[m - i])

LEMMA ProductByTerms ==
    ASSUME NEW f \in Series, NEW g \in Series, NEW w, NEW m, NEW k, AddsProducts(w, f, g, m, k)
    PROVE  w[k] = Product(f, g)[m]
<1>0. /\ k \in Nat /\ m \in Nat /\ \A n \in Nat : n >= k => f[n] = 0
      /\ w[0] = 0
      /\ \A i \in 0..(k - 1) : w[i + 1] = w[i] + f[i] * (IF m < i THEN 0 ELSE g[m - i])
  BY DEF AddsProducts
<1> DEFINE S == {i \in Nat : i <= k => w[i] = Product(Cut(f, i), g)[m]}
<1>1. 0 \in S
  <2>1. Cut(f, 0) = Zero
    <3>1. \A n \in Nat : ~(n < 0)
      OBVIOUS
    <3>. QED  BY <3>1 DEF Cut, Zero
  <2>2. Product(Zero, g)[m] = 0
    BY <1>0, ProductOfZero
  <2>. QED  BY <1>0, <2>1, <2>2
<1>2. \A i \in S : i + 1 \in S
  <2> SUFFICES ASSUME NEW i \in Nat, i + 1 <= k, w[i] = Product(Cut(f, i), g)[m]
               PROVE  w[i + 1] = Product(Cut(f, i + 1), g)[m]
    <3>1. \A i \in Nat : i + 1 <= k => i <= k
      BY <1>0
    <3>. QED  BY <3>1
  <2>1. i \in 0..(k - 1)
    BY <1>0
  <2>2. w[i + 1] = w[i] + f[i] * (IF m < i THEN 0 ELSE g[m - i])
    BY <1>0, <2>1
  <2> DEFINE C == Cut(f, i)
             sh == Shift(One, i)
             E == ScaleSeries(f[i], sh)
  <2>3. C \in Series /\ Cut(f, i + 1) = PlusSeries(C, E)
    BY CutIs
  <2>4. f[i] \in Int /\ sh \in Series
    BY TermIs, OneIs, ShiftIs
  <2>5. E \in Series
    BY <2>4, ScaleIs
  <2> HIDE DEF C, E
  <2>6. Product(PlusSeries(C, E), g)[m] = Product(C, g)[m] + Product(E, g)[m]
    BY <1>0, <2>3, <2>5, ProductOfSum
  <2>7. Product(E, g)[m] = f[i] * Product(sh, g)[m]
    <3> HIDE DEF sh
    <3>. QED  BY <1>0, <2>4, ProductOfScaled DEF E
  <2>8. Product(sh, g) = Shift(g, i)
    <3>1. Product(sh, g) = Shift(Product(One, g), i)
      BY OneIs, ProductOfShift
    <3>. QED  BY <3>1, ProductOfOne
  <2>9. Shift(g, i)[m] = IF m < i THEN 0 ELSE g[m - i]
    BY <1>0 DEF Shift
  <2>. QED  BY <2>2, <2>3, <2>6, <2>7, <2>8, <2>9 DEF C
<1>3. S \in SUBSET Nat
  OBVIOUS
<1> HIDE DEF S
<1>4. \A n \in Nat : n \in S
  BY <1>1, <1>2, <1>3, Induct
<1>5. w[k] = Product(Cut(f, k), g)[m]
  <2>1. k \in S /\ k <= k
    BY <1>0, <1>4
  <2>. QED  BY <2>1 DEF S
<1>6. Cut(f, k) = f
  <2>1. Cut(f, k) \in Series
    BY <1>0, CutIs
  <2>2. \A n \in Nat : Cut(f, k)[n] = f[n]
    <3> SUFFICES ASSUME NEW n \in Nat PROVE Cut(f, k)[n] = f[n]
      OBVIOUS
    <3>1. CASE n < k
      BY <3>1 DEF Cut
    <3>2. CASE ~(n < k)
      <4>1. n >= k
        BY <1>0, <3>2
      <4>. QED  BY <1>0, <3>2, <4>1 DEF Cut
    <3>. QED  BY <3>1, <3>2
  <2>. QED  BY <2>1, <2>2, SameSeries
<1>. QED  BY <1>5, <1>6

\* A function that adds the values of u one after the other exists.
LEMMA RunningSum ==
    ASSUME NEW k \in Nat, NEW u \in [1..k -> Int]
    PROVE  \E w \in [0..k -> Int] : w = [i \in 0..k |-> IF i = 0 THEN 0 ELSE w[i - 1] + u[i]]
<1>1. PICK G : PartialSums(G, u)
  BY PartialSumsExist
<1>2. /\ G \in [Nat -> Int] /\ G[0] = 0
      /\ \A j \in Nat : G[j + 1] = G[j] + (IF j \in 1..k THEN u[j] ELSE 0)
  BY <1>1 DEF PartialSums
<1> DEFINE w == [i \in 0..k |-> G[i + 1]]
<1>3. w \in [0..k -> Int]
  BY <1>2
<1>4. ASSUME NEW i \in 0..k PROVE w[i] = IF i = 0 THEN 0 ELSE w[i - 1] + u[i]
  <2>1. CASE i = 0
    <3>1. G[0 + 1] = G[0] + 0
      <4>1. 0 \notin 1..k
        OBVIOUS
      <4>. QED  BY <1>2, <4>1
    <3>. QED  BY <1>2, <2>1, <3>1
  <2>2. CASE i # 0
    <3>1. i \in 1..k /\ i - 1 \in 0..k /\ (i - 1) + 1 = i /\ i \in Nat
      BY <2>2
    <3>2. G[i + 1] = G[i] + u[i]
      BY <1>2, <3>1
    <3>. QED  BY <2>2, <3>1, <3>2
  <2>. QED  BY <2>1, <2>2
<1>5. w = [i \in 0..k |-> IF i = 0 THEN 0 ELSE w[i - 1] + u[i]]
  <2> HIDE DEF w
  <2>. QED  BY <1>3, <1>4
<1>. QED  BY <1>3, <1>5

-----------------------------------------------------------------------------
(* Sums of counts *)

\* The members of A that p maps to j, and those it maps into T.
PartOf(A, p, j) == {s \in A : p[s] = j}
PartsIn(A, p, T) == {s \in A : p[s] \in T}

LEMMA PartsFinite ==
    ASSUME NEW A, IsFiniteSet(A), NEW p
    PROVE  /\ \A j : IsFiniteSet(PartOf(A, p, j)) /\ Cardinality(PartOf(A, p, j)) \in Nat
           /\ \A T : IsFiniteSet(PartsIn(A, p, T)) /\ Cardinality(PartsIn(A, p, T)) \in Nat
<1>1. \A j : PartOf(A, p, j) \subseteq A
  BY DEF PartOf
<1>2. \A T : PartsIn(A, p, T) \subseteq A
  BY DEF PartsIn
<1>. QED  BY <1>1, <1>2, FS_Subset, FS_CardinalityType

\* A finite set is counted by counting the parts that p splits it into.
LEMMA CountOne ==
    ASSUME NEW A, IsFiniteSet(A), NEW p, NEW T, NEW x \in T
    PROVE  Cardinality(PartsIn(A, p, T))
              = Cardinality(PartOf(A, p, x)) + Cardinality(PartsIn(A, p, T \ {x}))
<1> DEFINE X == PartOf(A, p, x)
           Y == PartsIn(A, p, T \ {x})
<1>1. IsFiniteSet(X) /\ IsFiniteSet(Y) /\ Cardinality(X) \in Nat /\ Cardinality(Y) \in Nat
  BY PartsFinite
<1>2. X \cap Y = {} /\ PartsIn(A, p, T) = X \cup Y
  BY DEF PartOf, PartsIn
<1> HIDE DEF X, Y
<1>3. Cardinality(X \cup Y) = Cardinality(X) + Cardinality(Y) - Cardinality({})
  BY <1>1, <1>2, FS_Union
<1>4. Cardinality({}) = 0
  BY FS_EmptySet
<1>5. Cardinality(X \cup Y) = Cardinality(X) + Cardinality(Y)
  BY <1>1, <1>3, <1>4
<1>. QED  BY <1>2, <1>5 DEF X, Y

\* The sum of the sizes of the parts is the number of members they have together.
LEMMA SumOfParts ==
    ASSUME NEW A, IsFiniteSet(A), NEW p, NEW f, IsFiniteSet(DOMAIN f),
           \A j \in DOMAIN f : f[j] = Cardinality(PartOf(A, p, j))
    PROVE  SumFunction(f) = Cardinality(PartsIn(A, p, DOMAIN f))
<1> DEFINE h == [T \in SUBSET DOMAIN f |-> Cardinality(PartsIn(A, p, T))]
<1>1. h[{}] = 0
  <2>1. PartsIn(A, p, {}) = {}
    BY DEF PartsIn
  <2>. QED  BY <2>1, FS_EmptySet
<1>2. ASSUME NEW T \in SUBSET DOMAIN f, NEW x \in T
      PROVE  h[T] = f[x] + h[T \ {x}]
  <2>1. Cardinality(PartsIn(A, p, T))
           = Cardinality(PartOf(A, p, x)) + Cardinality(PartsIn(A, p, T \ {x}))
    BY CountOne
  <2>. QED  BY <2>1
<1> HIDE DEF h
<1>3. SumFunction(f) = h[DOMAIN f]
  BY <1>1, <1>2, SumIs
<1>. QED  BY <1>3 DEF h

LEMMA SumOfZeros ==
    ASSUME NEW n \in Nat, NEW f, DOMAIN f = 1..n, \A j \in 1..n : f[j] = 0
    PROVE  SumFunction(f) = 0
<1> DEFINE h == [T \in SUBSET (1..n) |-> 0]
<1>1. IsFiniteSet(1..n)
  <2>1. 1 \in Int /\ n \in Int
    OBVIOUS
  <2>. QED  BY <2>1, FS_Interval
<1>2. \A T \in SUBSET (1..n) : h[T] = 0
  OBVIOUS
<1> HIDE DEF h
<1>3. \A T \in SUBSET DOMAIN f : \A x \in T : h[T] = f[x] + h[T \ {x}]
  <2>1. \A T \in SUBSET (1..n) : \A x \in T : x \in 1..n /\ T \ {x} \in SUBSET (1..n)
    OBVIOUS
  <2>. QED  BY <1>2, <2>1
<1>4. h[{}] = 0 /\ h[DOMAIN f] = 0
  BY <1>2
<1>. QED  BY <1>1, <1>3, <1>4, SumIs

\* t lists the members of T, each once; f has the values X in the order of the list, and
\* g has them where they are, with 0 outside T.
Reindexed(A, T, N, t, X, f, g) ==
    /\ T \subseteq A /\ N \in Nat /\ t \in [1..N -> T]
    /\ \A i, k \in 1..N : t[i] = t[k] => i = k
    /\ \A a \in T : \E i \in 1..N : t[i] = a
    /\ \A a \in T : X[a] \in Nat
    /\ DOMAIN f = 1..N /\ \A i \in 1..N : f[i] = X[t[i]]
    /\ DOMAIN g = A /\ \A a \in A : g[a] = IF a \in T THEN X[a] ELSE 0

\* A sum over the places of a list of distinct ids is the sum over the ids.
LEMMA SumReindexed ==
    ASSUME NEW A, IsFiniteSet(A), NEW T, NEW N, NEW t, NEW X, NEW f, NEW g,
           Reindexed(A, T, N, t, X, f, g)
    PROVE  SumFunction(f) = SumFunction(g)
<1> DEFINE Units(a) == {a} \X (1..X[a])
           U == UNION {Units(a) : a \in T}
           p == [u \in U |-> u[1]]
           q == [u \in U |-> CHOOSE i \in 1..N : t[i] = u[1]]
<1> USE DEF Reindexed
<1>1. ASSUME NEW a \in T
      PROVE  IsFiniteSet(Units(a)) /\ Cardinality(Units(a)) = X[a]
  <2> DEFINE x == X[a]
  <2>1. x \in Nat
    OBVIOUS
  <2> HIDE DEF x
  <2>2. IsFiniteSet(1..x) /\ Cardinality(1..x) = x
    <3>1. 1 \in Int /\ x \in Int
      BY <2>1
    <3>2. IsFiniteSet(1..x) /\ Cardinality(1..x) = IF 1 > x THEN 0 ELSE x - 1 + 1
      BY <3>1, FS_Interval
    <3>. QED  BY <2>1, <3>2
  <2>3. IsFiniteSet({a}) /\ Cardinality({a}) = 1
    BY FS_Singleton
  <2>4. IsFiniteSet({a} \X (1..x)) /\ Cardinality({a} \X (1..x)) = Cardinality({a}) * Cardinality(1..x)
    BY <2>2, <2>3, FS_Product
  <2>5. 1 * x = x
    BY <2>1
  <2>. QED  BY <2>2, <2>3, <2>4, <2>5 DEF x
<1>2. IsFiniteSet(U)
  <2> DEFINE B == {Units(a) : a \in T}
  <2>1. IsFiniteSet(B)
    <3>1. IsFiniteSet(T)
      BY FS_Subset
    <3> DEFINE h == [a \in T |-> Units(a)]
    <3>2. h \in Surjection(T, B)
      BY ZenonT(60) DEF Surjection
    <3> HIDE DEF B, h
    <3>. QED  BY <3>1, <3>2, FS_Surjection
  <2>2. \A u \in B : IsFiniteSet(u)
    BY <1>1
  <2> HIDE DEF B
  <2>3. IsFiniteSet(UNION B)
    BY <2>1, <2>2, FS_UNION
  <2>. QED  BY <2>3 DEF B
<1>3. /\ \A u \in U : u[1] \in T /\ u \in Units(u[1])
      /\ \A a \in T : \A u \in Units(a) : u \in U /\ u[1] = a
  OBVIOUS
<1> HIDE DEF U, Units
<1>4. \A u \in U : /\ p[u] = u[1] /\ q[u] \in 1..N /\ t[q[u]] = u[1]
  BY <1>3
<1> HIDE DEF p, q
<1>5. ASSUME NEW a \in A
      PROVE  g[a] = Cardinality(PartOf(U, p, a))
  <2>1. CASE a \in T
    <3>1. PartOf(U, p, a) = Units(a)
      BY <1>3, <1>4, <2>1 DEF PartOf
    <3>. QED  BY <1>1, <2>1, <3>1
  <2>2. CASE a \notin T
    <3>1. PartOf(U, p, a) = {}
      BY <1>3, <1>4, <2>2 DEF PartOf
    <3>. QED  BY <2>2, <3>1, FS_EmptySet
  <2>. QED  BY <2>1, <2>2
<1>6. ASSUME NEW i \in 1..N
      PROVE  f[i] = Cardinality(PartOf(U, q, i))
  <2>1. PartOf(U, q, i) = Units(t[i])
    BY <1>3, <1>4 DEF PartOf
  <2>. QED  BY <1>1, <2>1
<1>7. SumFunction(g) = Cardinality(PartsIn(U, p, A))
  BY <1>2, <1>5, SumOfParts
<1>8. SumFunction(f) = Cardinality(PartsIn(U, q, 1..N))
  <2>1. IsFiniteSet(1..N)
    <3>1. 1 \in Int /\ N \in Int
      OBVIOUS
    <3>. QED  BY <3>1, FS_Interval
  <2>. QED  BY <1>2, <1>6, <2>1, SumOfParts
<1>9. PartsIn(U, p, A) = U /\ PartsIn(U, q, 1..N) = U
  BY <1>3, <1>4 DEF PartsIn
<1>. QED  BY <1>7, <1>8, <1>9

-----------------------------------------------------------------------------
(* Sequences: concatenated, filtered *)

LEMMA Concatenated ==
    ASSUME NEW k \in Nat, NEW m \in Nat, NEW s, NEW t,
           s = [i \in 1..k |-> s[i]], t = [i \in 1..m |-> t[i]]
    PROVE  s \o t = [i \in 1..(k + m) |-> IF i <= k THEN s[i] ELSE t[i - k]]
<1> DEFINE S == {s[i] : i \in 1..k} \cup {t[i] : i \in 1..m}
<1>1. s \in Seq(S) /\ Len(s) = k
  <2>1. s \in [1..k -> S]
    <3>1. \A i \in 1..k : s[i] \in S
      OBVIOUS
    <3> HIDE DEF S
    <3>. QED  BY <3>1
  <2> HIDE DEF S
  <2>. QED  BY <2>1
<1>2. t \in Seq(S) /\ Len(t) = m
  <2>1. t \in [1..m -> S]
    <3>1. \A i \in 1..m : t[i] \in S
      OBVIOUS
    <3> HIDE DEF S
    <3>. QED  BY <3>1
  <2> HIDE DEF S
  <2>. QED  BY <2>1
<1> HIDE DEF S
<1>3. /\ s \o t \in Seq(S) /\ Len(s \o t) = k + m
      /\ \A i \in 1..(k + m) : (s \o t)[i] = IF i <= k THEN s[i] ELSE t[i - k]
  <2>1. /\ s \o t \in Seq(S) /\ Len(s \o t) = Len(s) + Len(t)
        /\ \A i \in 1..(Len(s) + Len(t)) :
              (s \o t)[i] = IF i <= Len(s) THEN s[i] ELSE t[i - Len(s)]
    BY <1>1, <1>2, ConcatProperties, Zenon
  <2>. QED  BY <1>1, <1>2, <2>1, Zenon
<1> DEFINE st == s \o t
<1> HIDE DEF st
<1>4. st \in Seq(S) /\ Len(st) = k + m
      /\ \A i \in 1..(k + m) : st[i] = IF i <= k THEN s[i] ELSE t[i - k]
  BY <1>3 DEF st
<1>5. st = [i \in 1..(k + m) |-> st[i]]
  BY <1>4
<1>6. st = [i \in 1..(k + m) |-> IF i <= k THEN s[i] ELSE t[i - k]]
  BY <1>4, <1>5
<1>. QED  BY <1>6 DEF st

\* More numbers are at most m than at most k, when m is one of them and greater.
LEMMA RankGrows ==
    ASSUME NEW I \in SUBSET Nat, IsFiniteSet(I), NEW i \in I
    PROVE  /\ Cardinality({j \in I : j <= i}) \in 1..Cardinality(I)
           /\ \A k \in I : i < k => Cardinality({j \in I : j <= i}) < Cardinality({j \in I : j <= k})
<1> DEFINE R(k) == {j \in I : j <= k}
<1>1. \A k \in I : IsFiniteSet(R(k)) /\ Cardinality(R(k)) \in Nat /\ Cardinality(R(k)) <= Cardinality(I)
  BY FS_Subset, FS_CardinalityType
<1>2. Cardinality(I) \in Nat
  BY FS_CardinalityType
<1>3. i \in R(i) /\ IsFiniteSet(R(i))
  BY <1>1
<1>4. Cardinality(R(i)) # 0
  BY <1>3, FS_EmptySet
<1>5. Cardinality(R(i)) \in 1..Cardinality(I)
  BY <1>1, <1>2, <1>4
<1>6. ASSUME NEW k \in I, i < k
      PROVE  Cardinality(R(i)) < Cardinality(R(k))
  <2>1. R(i) \in SUBSET R(k)
    <3>1. \A j \in I : j <= i => j <= k
      <4>1. i \in Nat /\ k \in Nat /\ \A j \in I : j \in Nat
        OBVIOUS
      <4>. QED  BY <1>6, <4>1
    <3>. QED  BY <3>1
  <2>2. k \in R(k) /\ k \notin R(i)
    BY <1>6
  <2>3. Cardinality(R(i)) <= Cardinality(R(k)) /\ Cardinality(R(k)) # Cardinality(R(i))
    BY <1>1, <2>1, <2>2, FS_Subset
  <2>. QED  BY <1>1, <2>3
<1>. QED  BY <1>5, <1>6

\* Nth enumerates a finite set of numbers in ascending order.
LEMMA NthIs ==
    ASSUME NEW I \in SUBSET Nat, IsFiniteSet(I)
    PROVE  /\ \A n \in 1..Cardinality(I) : Nth(I, n) \in I
           /\ \A m, n \in 1..Cardinality(I) : m < n => Nth(I, m) < Nth(I, n)
           /\ \A i \in I : \E n \in 1..Cardinality(I) : Nth(I, n) = i
           /\ \A n \in 1..Cardinality(I) : Cardinality({j \in I : j <= Nth(I, n)}) = n
           /\ \A i \in I : Nth(I, Cardinality({j \in I : j <= i})) = i
<1> DEFINE rank == [i \in I |-> Cardinality({j \in I : j <= i})]
           N    == Cardinality(I)
<1>1. N \in Nat
  BY FS_CardinalityType
<1>2. \A i \in I : rank[i] \in 1..N
  BY RankGrows
<1>3. \A i, k \in I : i < k => rank[i] < rank[k]
  BY RankGrows
<1> HIDE DEF rank
<1>4. \A i, k \in I : rank[i] = rank[k] => i = k
  <2>1. \A i \in I : i \in Nat /\ rank[i] \in Nat
    BY <1>1, <1>2
  <2>. QED  BY <1>3, <2>1
<1>5. rank \in Injection(I, 1..N)
  <2>1. rank \in [I -> 1..N]
    BY <1>2 DEF rank
  <2>. QED  BY <1>4, <2>1 DEF Injection, IsInjective
<1>6. IsFiniteSet(1..N) /\ Cardinality(1..N) = N
  <2> HIDE DEF N
  <2>1. 1 \in Int /\ N \in Int
    BY <1>1
  <2>2. IsFiniteSet(1..N) /\ Cardinality(1..N) = IF 1 > N THEN 0 ELSE N - 1 + 1
    BY <2>1, FS_Interval
  <2>. QED  BY <1>1, <2>2
<1>7. rank \in Surjection(I, 1..N)
  BY <1>5, <1>6, FS_Injection
<1>8. \A n \in 1..N : \E i \in I : rank[i] = n
  BY <1>7 DEF Surjection
<1>9. \A n \in 1..N : Nth(I, n) \in I /\ rank[Nth(I, n)] = n
  BY <1>8 DEF Nth, rank
<1>10. ASSUME NEW m \in 1..N, NEW n \in 1..N, m < n
       PROVE  Nth(I, m) < Nth(I, n)
  <2>1. rank[Nth(I, m)] < rank[Nth(I, n)]
    BY <1>9, <1>10
  <2>2. /\ Nth(I, m) \in I /\ Nth(I, n) \in I /\ Nth(I, m) \in Nat /\ Nth(I, n) \in Nat
    BY <1>9
  <2>3. rank[Nth(I, m)] \in Nat /\ rank[Nth(I, n)] \in Nat
    BY <1>1, <1>2, <2>2
  <2>4. ~(Nth(I, n) < Nth(I, m)) /\ Nth(I, n) # Nth(I, m)
    BY <1>3, <2>1, <2>2, <2>3
  <2>. QED  BY <2>2, <2>4
<1>11. ASSUME NEW i \in I
       PROVE  Nth(I, rank[i]) = i
  BY <1>2, <1>4, <1>9
<1>12. \A i \in I : rank[i] = Cardinality({j \in I : j <= i})
  BY DEF rank
<1>. QED  BY <1>2, <1>9, <1>10, <1>11, <1>12

\* The elements at some positions are as many as the positions, and each is one of them.
LEMMA ElementsAtIs ==
    ASSUME NEW s, NEW I \in SUBSET Nat, IsFiniteSet(I)
    PROVE  /\ Cardinality(I) \in Nat
           /\ DOMAIN ElementsAt(s, I) = 1..Cardinality(I)
           /\ \A n \in 1..Cardinality(I) : Nth(I, n) \in I /\ ElementsAt(s, I)[n] = s[Nth(I, n)]
           /\ \A i \in I : \E n \in 1..Cardinality(I) : Nth(I, n) = i
           /\ \A m, n \in 1..Cardinality(I) : m # n => Nth(I, m) # Nth(I, n)
           /\ I # {} => ElementsAt(s, I) # <<>>
<1>1. Cardinality(I) \in Nat
  BY FS_CardinalityType
<1>2. DOMAIN ElementsAt(s, I) = 1..Cardinality(I)
  BY DEF ElementsAt
<1>3. \A n \in 1..Cardinality(I) : ElementsAt(s, I)[n] = s[Nth(I, n)]
  BY DEF ElementsAt
<1>4. ASSUME NEW m \in 1..Cardinality(I), NEW n \in 1..Cardinality(I), m # n
      PROVE  Nth(I, m) # Nth(I, n)
  <2>1. m < n \/ n < m
    BY <1>1, <1>4
  <2>2. Nth(I, m) \in Nat /\ Nth(I, n) \in Nat
    BY NthIs
  <2>. QED  BY <2>1, <2>2, NthIs
<1>5. ASSUME I # {}
      PROVE  ElementsAt(s, I) # <<>>
  <2>1. Cardinality(I) # 0
    BY <1>5, FS_EmptySet
  <2>2. 1 \in DOMAIN ElementsAt(s, I)
    BY <1>1, <1>2, <2>1
  <2>. QED  BY <2>2
<1>. QED  BY <1>1, <1>2, <1>3, <1>4, <1>5, NthIs

\* t has the c elements of s, and then x.
OneLonger(s, t, c, x) ==
    /\ c \in Nat /\ DOMAIN s = 1..c /\ DOMAIN t = 1..(c + 1)
    /\ \A k \in 1..c : t[k] = s[k]
    /\ t[c + 1] = x

\* One more position, after all others, gives one more element.
LEMMA ElementsAtMore ==
    ASSUME NEW s, NEW t, NEW I \in SUBSET Nat, IsFiniteSet(I), NEW n \in Nat,
           \A i \in I : i < n /\ t[i] = s[i]
    PROVE  OneLonger(ElementsAt(s, I), ElementsAt(t, I \cup {n}), Cardinality(I), t[n])
<1> DEFINE c == Cardinality(I)
           J == I \cup {n}
<1>1. c \in Nat
  BY FS_CardinalityType
<1>2. IsFiniteSet(J) /\ Cardinality(J) = c + 1
  <2>1. n \notin I
    OBVIOUS
  <2>. QED  BY <2>1, FS_AddElement
<1>3. J \in SUBSET Nat /\ n \in J
  OBVIOUS
<1>4. \A i \in I : {j \in J : j <= i} = {j \in I : j <= i}
  <2>1. \A i \in I : i \in Nat /\ i < n /\ ~(n <= i)
    OBVIOUS
  <2>. QED  BY <2>1
<1>5. {j \in J : j <= n} = J
  <2>1. \A j \in J : j <= n
    <3>1. \A j \in I : j \in Nat /\ j < n
      OBVIOUS
    <3>. QED  BY <3>1
  <2>. QED  BY <2>1
<1> HIDE DEF J
<1>6. Nth(J, c + 1) = n
  BY <1>2, <1>3, <1>5, NthIs
<1>7. ASSUME NEW k \in 1..c
      PROVE  Nth(J, k) = Nth(I, k) /\ Nth(I, k) \in I
  <2> DEFINE i == Nth(I, k)
  <2>1. i \in I /\ Cardinality({j \in I : j <= i}) = k
    BY NthIs
  <2>2. i \in J
    BY <2>1 DEF J
  <2> HIDE DEF i
  <2>3. Cardinality({j \in J : j <= i}) = k
    BY <1>4, <2>1
  <2>4. Nth(J, k) = i
    BY <1>2, <1>3, <2>2, <2>3, NthIs
  <2>. QED  BY <2>1, <2>4 DEF i
<1>8. /\ DOMAIN ElementsAt(s, I) = 1..c
      /\ \A k \in 1..c : ElementsAt(s, I)[k] = s[Nth(I, k)]
  BY DEF ElementsAt
<1>9. /\ DOMAIN ElementsAt(t, J) = 1..(c + 1)
      /\ \A k \in 1..(c + 1) : ElementsAt(t, J)[k] = t[Nth(J, k)]
  BY <1>2 DEF ElementsAt
<1> HIDE DEF c
<1>10. \A k \in 1..c : k \in 1..(c + 1)
  BY <1>1
<1>11. c + 1 \in 1..(c + 1)
  BY <1>1
<1> DEFINE u == ElementsAt(s, I)
           w == ElementsAt(t, J)
<1> HIDE DEF u, w
<1>12. \A k \in 1..c : w[k] = u[k]
  BY <1>7, <1>8, <1>9, <1>10 DEF u, w
<1>13. w[c + 1] = t[n]
  BY <1>6, <1>9, <1>11 DEF w
<1>14. OneLonger(u, w, c, t[n])
  BY <1>1, <1>8, <1>9, <1>12, <1>13 DEF OneLonger, u, w
<1>. QED  BY <1>14 DEF c, J, u, w

-----------------------------------------------------------------------------
(* Domain sizes *)

\* required_domain_size finds the least size with a slot for each of n voters and with room
\* for num_partitions nonzero label indices, if there is one.
LEMMA DomainSizeIs ==
    ASSUME DomainSizes \subseteq Nat, num_partitions \in Nat, NEW n \in Nat,
           NEW d \in DomainSizes, d >= n, d >= num_partitions + 1
    PROVE  /\ required_domain_size(n) \in DomainSizes
           /\ required_domain_size(n) >= n
           /\ required_domain_size(n) >= num_partitions + 1
           /\ \A q \in DomainSizes :
                 q >= n /\ q >= num_partitions + 1 => required_domain_size(n) <= q
<1> DEFINE m     == IF n >= num_partitions + 1 THEN n ELSE num_partitions + 1
           Large == {p \in DomainSizes : p >= m}
<1>1. m \in Nat /\ m >= n /\ m >= num_partitions + 1 /\ d >= m
  OBVIOUS
<1>2. Large \in SUBSET Nat /\ Large # {}
  BY <1>1
<1>3. PICK p \in Large : \A q \in Large : p <= q
  BY <1>2, LeastElement
<1>4. \E r \in DomainSizes : r >= m /\ \A q \in DomainSizes : q >= m => r <= q
  BY <1>3
<1>5. required_domain_size(n) = next_power_of_two(m)
  BY DEF required_domain_size
<1>6. \A q \in DomainSizes : q >= n /\ q >= num_partitions + 1 => q >= m
  OBVIOUS
<1> HIDE DEF m
<1>7. /\ next_power_of_two(m) \in DomainSizes /\ next_power_of_two(m) >= m
      /\ \A q \in DomainSizes : q >= m => next_power_of_two(m) <= q
  BY <1>4 DEF next_power_of_two
<1>8. next_power_of_two(m) \in Nat
  BY <1>7
<1>9. /\ next_power_of_two(m) >= n
      /\ next_power_of_two(m) >= num_partitions + 1
  BY <1>1, <1>7, <1>8
<1>. QED  BY <1>5, <1>6, <1>7, <1>9

-----------------------------------------------------------------------------
(* Registration posts of honest aggregators *)

\* A list as accept_registration leaves it: each entry was signed by its voter, and no
\* voter has two.
Accepted(aid, list) ==
    /\ \A i \in DOMAIN list :
          LET v == list[i].voter_id IN list[i] = RegisteredVoter(v, sign_delegation(v, aid), skv(v))
    /\ \A i, j \in DOMAIN list : list[i].voter_id = list[j].voter_id => i = j

\* There is a domain with a slot for each voter and more indices than partitions.
Fits(list) ==
    LET n == required_domain_size(Len(list)) IN
    n \in Nat /\ n >= Len(list) /\ n >= num_partitions + 1

LEMMA RecordParts ==
    ASSUME NEW aid, NEW voter, NEW i, NEW n
    PROVE  LET r == VoterRegistrationRecord(aid, voter, i, n) IN
           /\ r.voter_id = voter.voter_id
           /\ r.sigma = voter.sigma
           /\ r.idx = i - 1
           /\ r.tau = Token(i - 1, voter.skv)
           /\ r.eqlog = EqLogProve(EqLogContext(aid, voter.voter_id, i - 1, n), voter.skv)
BY DEF VoterRegistrationRecord

\* What a post with k voters in a domain of size n is made of.
MadeOf(post, aid, list, k, n) ==
    /\ k \in Nat /\ n \in Nat /\ n - k \in Nat /\ k <= n
    /\ DOMAIN list = 1..k
    /\ post.aggregator_id = aid
    /\ post.domain_size = n
    /\ post.real_registered_count = k
    /\ post.pad_count = n - k
    /\ DOMAIN post.voters = 1..k /\ Len(post.voters) = k
    /\ \A i \in 1..k : post.voters[i] = VoterRegistrationRecord(aid, list[i], i, n)
    /\ \A i \in 1..k : post.voters[i].voter_id = list[i].voter_id
    /\ DOMAIN post.pad_tokens = 1..(n - k) /\ Len(post.pad_tokens) = n - k
    /\ post.pad_tokens = [p \in 1..(n - k) |-> post.pad_tokens[p]]
    /\ \A p \in 1..(n - k) : post.pad_tokens[p] = Token(k + p - 1, pad_scalar(aid, p - 1))
    /\ post.aggregate_sigma = aggregate_signatures([i \in 1..k |-> list[i].sigma])
    /\ post.c_commit = TokenSum(post.voters, post.pad_tokens)

LEMMA PostParts ==
    ASSUME NEW U, NEW list \in Seq(U), NEW aid, Fits(list)
    PROVE  MadeOf(finalize_registration(aid, list), aid, list,
                  Len(list), required_domain_size(Len(list)))
<1> DEFINE k == Len(list)
           n == required_domain_size(k)
           post == finalize_registration(aid, list)
<1>1. k \in Nat /\ n \in Nat /\ n >= k
  BY DEF Fits
<1> HIDE DEF n, k
<1>2. n - k \in Nat /\ k <= n
  BY <1>1
<1>3. /\ post.aggregator_id = aid
      /\ post.domain_size = n
      /\ post.real_registered_count = k
      /\ post.pad_count = n - k
      /\ post.voters = [i \in 1..k |-> VoterRegistrationRecord(aid, list[i], i, n)]
      /\ post.pad_tokens = [p \in 1..(n - k) |-> Token(k + p - 1, pad_scalar(aid, p - 1))]
      /\ post.aggregate_sigma = aggregate_signatures([i \in 1..k |-> list[i].sigma])
      /\ post.c_commit = TokenSum(post.voters, post.pad_tokens)
  BY DEF finalize_registration, n, k
<1> HIDE DEF post
<1>4. DOMAIN post.voters = 1..k /\ Len(post.voters) = k
  BY <1>1, <1>3
<1>5. /\ DOMAIN post.pad_tokens = 1..(n - k) /\ Len(post.pad_tokens) = n - k
      /\ post.pad_tokens = [p \in 1..(n - k) |-> post.pad_tokens[p]]
  BY <1>2, <1>3
<1>6. \A i \in 1..k : post.voters[i] = VoterRegistrationRecord(aid, list[i], i, n)
  BY <1>3
<1>7. \A i \in 1..k : post.voters[i].voter_id = list[i].voter_id
  BY <1>6, RecordParts
<1>8. \A p \in 1..(n - k) : post.pad_tokens[p] = Token(k + p - 1, pad_scalar(aid, p - 1))
  BY <1>3
<1>9. DOMAIN list = 1..k
  BY DEF k
<1>10. MadeOf(post, aid, list, k, n)
  BY <1>1, <1>2, <1>3, <1>4, <1>5, <1>6, <1>7, <1>8, <1>9 DEF MadeOf
<1>. QED  BY <1>10 DEF post, k, n

\* An honest aggregator's post is valid, checked signature by signature or in one check.
LEMMA PostIsValid ==
    ASSUME NEW U, NEW list \in Seq(U), NEW aid \in Aggregators, Accepted(aid, list), Fits(list),
           NEW use_aggregate_bls \in BOOLEAN
    PROVE  validate_finalized_registration(finalize_registration(aid, list), use_aggregate_bls)
<1> DEFINE k == Len(list)
           n == required_domain_size(k)
           post == finalize_registration(aid, list)
<1>0. MadeOf(post, aid, list, k, n)
  BY PostParts
<1> HIDE DEF k, n, post
<1>1. /\ k \in Nat /\ n \in Nat /\ n - k \in Nat /\ k <= n
      /\ post.aggregator_id = aid
      /\ post.domain_size = n
      /\ post.real_registered_count = k
      /\ post.pad_count = n - k
      /\ DOMAIN post.voters = 1..k /\ Len(post.voters) = k
      /\ \A i \in 1..k : post.voters[i] = VoterRegistrationRecord(aid, list[i], i, n)
      /\ DOMAIN post.pad_tokens = 1..(n - k) /\ Len(post.pad_tokens) = n - k
      /\ \A p \in 1..(n - k) : post.pad_tokens[p] = Token(k + p - 1, pad_scalar(aid, p - 1))
      /\ post.aggregate_sigma = aggregate_signatures([i \in 1..k |-> list[i].sigma])
      /\ post.c_commit = TokenSum(post.voters, post.pad_tokens)
  BY <1>0 DEF MadeOf
<1>2. DOMAIN list = 1..k
  BY <1>0 DEF MadeOf
<1>3. \A i \in 1..k : LET v == list[i].voter_id IN
         list[i].sigma = sign_delegation(v, aid) /\ list[i].skv = skv(v)
  <2>1. ASSUME NEW i \in 1..k
        PROVE  LET v == list[i].voter_id IN
               list[i] = [voter_id |-> v, sigma |-> sign_delegation(v, aid), skv |-> skv(v)]
    BY <1>2 DEF Accepted, RegisteredVoter
  <2>2. ASSUME NEW i \in 1..k
        PROVE  LET v == list[i].voter_id IN
               list[i].sigma = sign_delegation(v, aid) /\ list[i].skv = skv(v)
    <3> DEFINE v == list[i].voter_id
    <3>1. list[i] = [voter_id |-> v, sigma |-> sign_delegation(v, aid), skv |-> skv(v)]
      BY <2>1
    <3> HIDE DEF v
    <3>2. list[i].sigma = sign_delegation(v, aid) /\ list[i].skv = skv(v)
      BY <3>1
    <3>. QED  BY <3>2 DEF v
  <2>. QED  BY <2>2
<1>4. \A i, j \in 1..k : i # j => list[i].voter_id # list[j].voter_id
  BY <1>2 DEF Accepted
<1>5. WellFormedPost(post)
  BY <1>1 DEF WellFormedPost, n
<1>6. ASSUME NEW i \in 1..k
      PROVE  /\ post.voters[i].voter_id = list[i].voter_id
             /\ post.voters[i].sigma = list[i].sigma
             /\ post.voters[i].idx = i - 1
             /\ post.voters[i].tau = Token(i - 1, list[i].skv)
             /\ post.voters[i].eqlog
                   = EqLogProve(EqLogContext(aid, list[i].voter_id, i - 1, n), list[i].skv)
  BY <1>1, RecordParts
<1>7. ASSUME NEW i \in 1..k
      PROVE  LET r == post.voters[i] IN
             /\ r.idx = i - 1
             /\ \A j \in 1..(i - 1) : post.voters[j].voter_id # r.voter_id
             /\ EqLogVerify(r.idx, r.tau, r.voter_id, r.eqlog,
                            EqLogContext(post.aggregator_id, r.voter_id, r.idx, post.domain_size))
  <2>1. \A j \in 1..(i - 1) : j \in 1..k /\ j # i
    BY <1>1
  <2>2. \A j \in 1..(i - 1) : post.voters[j].voter_id # post.voters[i].voter_id
    BY <2>1, <1>4, <1>6
  <2>3. LET proof == EqLogProve(EqLogContext(aid, list[i].voter_id, i - 1, n), list[i].skv)
        IN  /\ proof.context = EqLogContext(aid, list[i].voter_id, i - 1, n)
            /\ proof.scalar = list[i].skv
    BY DEF EqLogProve
  <2>4. EqLogVerify(i - 1, Token(i - 1, list[i].skv), list[i].voter_id,
                    EqLogProve(EqLogContext(aid, list[i].voter_id, i - 1, n), list[i].skv),
                    EqLogContext(aid, list[i].voter_id, i - 1, n))
    BY <1>3, <2>3 DEF EqLogVerify
  <2>. QED  BY <1>1, <1>6, <2>2, <2>4
<1>8. ValidDelegations(post, use_aggregate_bls)
  <2>1. /\ [i \in DOMAIN post.voters |-> post.voters[i].sigma] = [i \in 1..k |-> list[i].sigma]
        /\ [i \in DOMAIN post.voters |-> post.voters[i].voter_id]
              = [i \in 1..k |-> list[i].voter_id]
    BY <1>1, <1>6
  <2>2. [i \in DOMAIN [j \in 1..k |-> list[j].voter_id] |->
            sign_delegation([j \in 1..k |-> list[j].voter_id][i], aid)]
           = [i \in 1..k |-> list[i].sigma]
    BY <1>3
  <2>3. verify_aggregate_delegation(post.aggregate_sigma,
            [i \in DOMAIN post.voters |-> post.voters[i].voter_id], post.aggregator_id)
    BY <1>1, <2>1, <2>2 DEF verify_aggregate_delegation
  <2>4. \A i \in 1..k : verify_delegation(list[i].sigma, list[i].voter_id, aid)
    BY <1>3 DEF verify_delegation, sign_delegation
  <2>5. \A i \in DOMAIN [j \in DOMAIN post.voters |-> post.voters[j].sigma] :
           verify_delegation([j \in DOMAIN post.voters |-> post.voters[j].sigma][i],
                             [j \in DOMAIN post.voters |-> post.voters[j].voter_id][i],
                             post.aggregator_id)
    BY <1>1, <1>6, <2>4
  <2>. QED  BY <1>1, <2>1, <2>3, <2>5 DEF ValidDelegations
<1>9. \A p \in DOMAIN post.pad_tokens :
         post.pad_tokens[p] = Token(post.real_registered_count + p - 1,
                                    pad_scalar(post.aggregator_id, p - 1))
  BY <1>1
<1>10. validate_finalized_registration(post, use_aggregate_bls)
  BY <1>1, <1>5, <1>7, <1>8, <1>9 DEF validate_finalized_registration
<1>. QED  BY <1>10 DEF post

-----------------------------------------------------------------------------
(* Tallies of honest aggregators *)

\* Every ballot is for a candidate.
Cast(votes) == \A v \in DOMAIN votes : \E j \in DOMAIN Candidates : Candidates[j] = votes[v]

LEMMA Partitions ==
    ASSUME NEW C, Candidates \in Seq(C)
    PROVE  /\ Len(Candidates) \in Nat /\ DOMAIN Candidates = 1..Len(Candidates)
           /\ NO_VOTE = Len(Candidates) + 1 /\ PAD = Len(Candidates) + 2
           /\ num_partitions = Len(Candidates) + 2
BY DEF NO_VOTE, PAD, num_partitions

LEMMA PositionIs ==
    ASSUME NEW c, \E j \in DOMAIN Candidates : Candidates[j] = c
    PROVE  candidate_position(c) \in DOMAIN Candidates /\ Candidates[candidate_position(c)] = c
BY DEF candidate_position

\* Slots are the indices of the domain, from 1: first the voters in the order of the list.
LEMMA SlotsOf ==
    ASSUME NEW U, NEW list \in Seq(U), NEW aid, Accepted(aid, list), Fits(list)
    PROVE  LET post == finalize_registration(aid, list)
               k    == Len(list)
               n    == required_domain_size(k)
           IN  /\ Slots(post) = 1..n
               /\ \A s \in 1..n : IsVoterSlot(post, s) <=> s \in 1..k
               /\ \A s \in 1..n : SlotIndex(post, s) = s - 1
               /\ \A s \in 1..k : SlotScalar(post, list, s) = list[s].skv
               /\ \A s \in 1..n : s \notin 1..k =>
                     SlotScalar(post, list, s) = pad_scalar(aid, s - k - 1)
<1> DEFINE k == Len(list)
           n == required_domain_size(k)
           post == finalize_registration(aid, list)
<1>0. MadeOf(post, aid, list, k, n)
  BY PostParts
<1> HIDE DEF k, n, post
<1>1. /\ k \in Nat /\ n \in Nat /\ n - k \in Nat /\ k <= n
      /\ post.aggregator_id = aid
      /\ post.real_registered_count = k
      /\ post.pad_count = n - k
      /\ DOMAIN post.voters = 1..k /\ Len(post.voters) = k
      /\ \A i \in 1..k : post.voters[i] = VoterRegistrationRecord(aid, list[i], i, n)
  BY <1>0 DEF MadeOf
<1>2. \A s \in 1..k : s \in DOMAIN list
  BY <1>0 DEF MadeOf
<1>3. Slots(post) = 1..n
  <2>1. k + (n - k) = n
    BY <1>1
  <2>. QED  BY <1>1, <2>1 DEF Slots
<1>4. \A s \in 1..n : IsVoterSlot(post, s) <=> s \in 1..k
  BY <1>1 DEF IsVoterSlot
<1>5. ASSUME NEW s \in 1..k
      PROVE  post.voters[s].idx = s - 1 /\ post.voters[s].voter_id = list[s].voter_id
  BY <1>1, RecordParts
<1>6. ASSUME NEW s \in 1..n
      PROVE  SlotIndex(post, s) = s - 1
  <2>1. CASE s \in 1..k
    BY <1>4, <1>5, <2>1 DEF SlotIndex
  <2>2. CASE s \notin 1..k
    <3>1. SlotIndex(post, s) = k + (s - k - 1)
      BY <1>1, <1>4, <2>2 DEF SlotIndex
    <3>2. k + (s - k - 1) = s - 1
      BY <1>1
    <3>. QED  BY <3>1, <3>2
  <2>. QED  BY <2>1, <2>2
<1>7. ASSUME NEW s \in 1..k
      PROVE  SlotScalar(post, list, s) = list[s].skv
  <2>1. s \in 1..n /\ IsVoterSlot(post, s)
    BY <1>1, <1>4
  <2>2. \A i \in DOMAIN list : list[i].voter_id = list[s].voter_id => i = s
    BY <1>2 DEF Accepted
  <2>3. (CHOOSE i \in DOMAIN list : list[i].voter_id = list[s].voter_id) = s
    BY <1>2, <2>2
  <2>4. SkvByVoter(list, list[s].voter_id) = list[s].skv
    BY <2>3 DEF SkvByVoter
  <2>. QED  BY <1>5, <2>1, <2>4 DEF SlotScalar
<1>8. ASSUME NEW s \in 1..n, s \notin 1..k
      PROVE  SlotScalar(post, list, s) = pad_scalar(aid, s - k - 1)
  BY <1>1, <1>4, <1>8 DEF SlotScalar
<1>. QED  BY <1>3, <1>4, <1>6, <1>7, <1>8 DEF k, n, post

\* Each slot is in one partition: padding in PAD, the voters by their ballots.
LEMMA PartitionOf ==
    ASSUME NEW C, Candidates \in Seq(C),
           NEW U, NEW list \in Seq(U), NEW aid, Accepted(aid, list), Fits(list),
           NEW votes, Cast(votes)
    PROVE  LET post == finalize_registration(aid, list)
               k    == Len(list)
               n    == required_domain_size(k)
               p(s) == SlotPartition(post, votes, s)
           IN  /\ \A s \in 1..n : p(s) \in 1..num_partitions /\ (p(s) = PAD <=> s \notin 1..k)
               /\ \A s \in 1..k : LET v == list[s].voter_id IN
                     IF v \in DOMAIN votes
                     THEN p(s) = candidate_position(votes[v]) /\ p(s) \in DOMAIN Candidates
                     ELSE p(s) = NO_VOTE
<1> DEFINE k == Len(list)
           n == required_domain_size(k)
           post == finalize_registration(aid, list)
           p(s) == SlotPartition(post, votes, s)
<1>1. MadeOf(post, aid, list, k, n)
  BY PostParts
<1>2. \A s \in 1..n : IsVoterSlot(post, s) <=> s \in 1..k
  BY SlotsOf
<1> HIDE DEF k, n, post
<1>3. /\ k \in Nat /\ n \in Nat /\ k <= n
      /\ \A s \in 1..k : post.voters[s].voter_id = list[s].voter_id
  BY <1>1 DEF MadeOf
<1>4. ASSUME NEW s \in 1..k
      PROVE  LET v == list[s].voter_id IN
             IF v \in DOMAIN votes
             THEN p(s) = candidate_position(votes[v]) /\ p(s) \in DOMAIN Candidates
             ELSE p(s) = NO_VOTE
  <2>1. s \in 1..n /\ IsVoterSlot(post, s)
    BY <1>3, <1>2
  <2>2. LET v == list[s].voter_id IN
        p(s) = IF v \in DOMAIN votes THEN candidate_position(votes[v]) ELSE NO_VOTE
    BY <1>3, <2>1 DEF SlotPartition
  <2>3. LET v == list[s].voter_id IN
        v \in DOMAIN votes => candidate_position(votes[v]) \in DOMAIN Candidates
    BY PositionIs DEF Cast
  <2>. QED  BY <2>2, <2>3
<1>5. ASSUME NEW s \in 1..n, s \notin 1..k
      PROVE  p(s) = PAD
  BY <1>2, <1>5 DEF SlotPartition
<1>6. ASSUME NEW s \in 1..n
      PROVE  p(s) \in 1..num_partitions /\ (p(s) = PAD <=> s \notin 1..k)
  <2>1. /\ Len(Candidates) \in Nat /\ DOMAIN Candidates = 1..Len(Candidates)
        /\ NO_VOTE = Len(Candidates) + 1 /\ PAD = Len(Candidates) + 2
        /\ num_partitions = Len(Candidates) + 2
    BY Partitions
  <2> HIDE DEF p
  <2>2. CASE s \in 1..k
    <3>1. p(s) \in 1..(Len(Candidates) + 1)
      BY <1>4, <2>1, <2>2
    <3>. QED  BY <2>1, <2>2, <3>1
  <2>3. CASE s \notin 1..k
    BY <1>5, <2>1, <2>3
  <2>. QED  BY <2>2, <2>3
<1>. QED  BY <1>4, <1>6 DEF k, n, post

\* Distinct voters are as many as their places on the list.
VotersIn(list, Q) == {list[i].voter_id : i \in Q}

LEMMA PlacesAndVoters ==
    ASSUME NEW list, NEW Q, IsFiniteSet(Q),
           \A i, j \in Q : list[i].voter_id = list[j].voter_id => i = j
    PROVE  Cardinality(VotersIn(list, Q)) = Cardinality(Q)
<1> DEFINE f == [i \in Q |-> list[i].voter_id]
<1>1. f \in Bijection(Q, VotersIn(list, Q))
  BY DEF Bijection, Injection, Surjection, IsInjective, VotersIn
<1>2. ExistsBijection(Q, VotersIn(list, Q))
  BY <1>1 DEF ExistsBijection
<1>. QED  BY <1>2, FS_Bijection

\* The voters on a list with a ballot, and those with a ballot for the j-th candidate.
WithBallot(list, votes) == VotersIn(list, DOMAIN list) \cap DOMAIN votes

For(list, votes, j) == {v \in WithBallot(list, votes) : candidate_position(votes[v]) = j}

\* What an honest aggregator counts: every slot of the domain once, the padding apart, and
\* for each candidate the ballots its voters have cast.
Counts(sizes, list, votes, k, n) ==
    LET candidates == SubSeq(sizes, 1, Len(Candidates)) IN
    /\ DOMAIN sizes = 1..num_partitions /\ Len(sizes) = num_partitions
    /\ \A j \in 1..num_partitions : sizes[j] \in Nat
    /\ SumFunction(sizes) = n
    /\ sizes[PAD] = n - k
    /\ \A j \in DOMAIN Candidates : sizes[j] = Cardinality(For(list, votes, j))
    /\ SumFunction(candidates) = Cardinality(WithBallot(list, votes))
    /\ SumFunction(candidates) + sizes[NO_VOTE] = k

LEMMA TallyCounts ==
    ASSUME NEW C, Candidates \in Seq(C),
           NEW U, NEW list \in Seq(U), NEW aid, Accepted(aid, list), Fits(list),
           NEW votes, Cast(votes)
    PROVE  Counts(TallySizes(finalize_registration(aid, list), votes), list, votes,
                  Len(list), required_domain_size(Len(list)))
<1> DEFINE k == Len(list)
           n == required_domain_size(k)
           m == Len(Candidates)
           post == finalize_registration(aid, list)
           sizes == TallySizes(post, votes)
           P == [s \in 1..n |-> SlotPartition(post, votes, s)]
           in(T) == PartsIn(1..n, P, T)
           of(j) == PartOf(1..n, P, j)
           id(s) == list[s].voter_id
<1>1. /\ m \in Nat /\ DOMAIN Candidates = 1..m
      /\ NO_VOTE = m + 1 /\ PAD = m + 2 /\ num_partitions = m + 2
  BY Partitions
<1>2. MadeOf(post, aid, list, k, n)
  BY PostParts
<1>3. Slots(post) = 1..n
  BY SlotsOf
<1>4. /\ \A s \in 1..n : P[s] \in 1..num_partitions /\ (P[s] = PAD <=> s \notin 1..k)
      /\ \A s \in 1..k : s \in 1..n =>
            IF id(s) \in DOMAIN votes
            THEN P[s] = candidate_position(votes[id(s)]) /\ P[s] \in DOMAIN Candidates
            ELSE P[s] = NO_VOTE
  <2>1. /\ \A s \in 1..n : /\ SlotPartition(post, votes, s) \in 1..num_partitions
                           /\ SlotPartition(post, votes, s) = PAD <=> s \notin 1..k
        /\ \A s \in 1..k :
              IF id(s) \in DOMAIN votes
              THEN /\ SlotPartition(post, votes, s) = candidate_position(votes[id(s)])
                   /\ SlotPartition(post, votes, s) \in DOMAIN Candidates
              ELSE SlotPartition(post, votes, s) = NO_VOTE
    BY PartitionOf
  <2> HIDE DEF k, n, post
  <2>. QED  BY <2>1
<1>5. sizes = [j \in 1..num_partitions |-> Cardinality(of(j))]
  BY <1>3 DEF TallySizes, PartOf
<1> HIDE DEF k, n, m, post, sizes, P, in, of
<1>6. k \in Nat /\ n \in Nat /\ k <= n /\ DOMAIN list = 1..k
  BY <1>2 DEF MadeOf
<1>7. /\ IsFiniteSet(1..n) /\ Cardinality(1..n) = n
      /\ Cardinality(1..k) = k /\ Cardinality((k + 1)..n) = n - k
      /\ IsFiniteSet(1..m) /\ IsFiniteSet(1..num_partitions)
  <2>1. 1 \in Int /\ k \in Int /\ k + 1 \in Int /\ n \in Int /\ m \in Int /\ num_partitions \in Int
    BY <1>1, <1>6
  <2>2. /\ IsFiniteSet(1..n) /\ Cardinality(1..n) = IF 1 > n THEN 0 ELSE n - 1 + 1
        /\ Cardinality(1..k) = IF 1 > k THEN 0 ELSE k - 1 + 1
        /\ Cardinality((k + 1)..n) = IF k + 1 > n THEN 0 ELSE n - (k + 1) + 1
        /\ IsFiniteSet(1..m) /\ IsFiniteSet(1..num_partitions)
    BY <2>1, FS_Interval
  <2>. QED  BY <1>6, <2>2
<1>8. /\ \A j : IsFiniteSet(of(j)) /\ Cardinality(of(j)) \in Nat
      /\ \A T : IsFiniteSet(in(T)) /\ Cardinality(in(T)) \in Nat
  BY <1>7, PartsFinite DEF in, of
<1>9. /\ \A s, j : s \in of(j) <=> s \in 1..n /\ P[s] = j
      /\ \A s, T : s \in in(T) <=> s \in 1..n /\ P[s] \in T
  BY DEF in, of, PartOf, PartsIn
<1>10. /\ DOMAIN sizes = 1..num_partitions /\ num_partitions \in Nat
       /\ Len(sizes) = num_partitions /\ sizes \in Seq(Nat)
       /\ \A j \in 1..num_partitions : sizes[j] = Cardinality(of(j)) /\ sizes[j] \in Nat
  BY <1>1, <1>5, <1>8
<1>11. SumFunction(sizes) = n
  <2>1. SumFunction(sizes) = Cardinality(in(DOMAIN sizes))
    <3>1. IsFiniteSet(1..n) /\ IsFiniteSet(DOMAIN sizes)
      BY <1>7, <1>10
    <3>2. \A j \in DOMAIN sizes : sizes[j] = Cardinality(PartOf(1..n, P, j))
      BY <1>10 DEF of
    <3>. QED  BY <3>1, <3>2, SumOfParts DEF in
  <2>2. in(DOMAIN sizes) = 1..n
    BY <1>4, <1>9, <1>10
  <2>. QED  BY <1>7, <2>1, <2>2
<1>12. sizes[PAD] = n - k
  <2>1. of(PAD) = (k + 1)..n
    <3>1. \A s : s \in of(PAD) <=> s \in 1..n /\ s \notin 1..k
      BY <1>4, <1>9
    <3>2. \A s : s \in (k + 1)..n <=> s \in 1..n /\ s \notin 1..k
      BY <1>6
    <3>. QED  BY <3>1, <3>2, Zenon
  <2>. QED  BY <1>1, <1>7, <1>10, <2>1
<1> DEFINE cs == SubSeq(sizes, 1, m)
<1>13. DOMAIN cs = 1..m /\ \A j \in 1..m : cs[j] = Cardinality(of(j))
  BY <1>1, <1>10
<1> HIDE DEF cs
<1>14. SumFunction(cs) = Cardinality(in(1..m))
  <2>1. IsFiniteSet(1..n) /\ IsFiniteSet(DOMAIN cs)
    BY <1>7, <1>13
  <2>2. \A j \in DOMAIN cs : cs[j] = Cardinality(PartOf(1..n, P, j))
    BY <1>13 DEF of
  <2>3. SumFunction(cs) = Cardinality(PartsIn(1..n, P, DOMAIN cs))
    BY <2>1, <2>2, SumOfParts
  <2>. QED  BY <1>13, <2>3 DEF in
<1>15. SumFunction(cs) + sizes[NO_VOTE] = k
  <2> DEFINE W == 1..(m + 1)
             w == m + 1
  <2>1. W \ {w} = 1..m /\ w \in W /\ w \in 1..num_partitions /\ NO_VOTE = w
    BY <1>1
  <2>2. \A s \in 1..n : P[s] \in W <=> s \in 1..k
    BY <1>1, <1>4
  <2>3. \A s \in 1..k : s \in 1..n
    BY <1>6
  <2> HIDE DEF W, w
  <2>4. in(W) = 1..k
    <3>1. \A s : s \in in(W) <=> s \in 1..k
      BY <1>9, <2>2, <2>3, Zenon
    <3>. QED  BY <3>1, Zenon
  <2>5. Cardinality(PartsIn(1..n, P, W))
           = Cardinality(PartOf(1..n, P, w)) + Cardinality(PartsIn(1..n, P, W \ {w}))
    <3>1. IsFiniteSet(1..n)
      BY <1>7
    <3>. QED  BY <2>1, <3>1, CountOne
  <2>6. k = Cardinality(of(w)) + Cardinality(in(1..m))
    BY <1>7, <2>1, <2>4, <2>5 DEF in, of
  <2>7. sizes[NO_VOTE] = Cardinality(of(w))
    BY <1>10, <2>1
  <2>. QED  BY <1>8, <1>14, <2>6, <2>7
<1>16. \A i, j \in 1..k : id(i) = id(j) => i = j
  BY <1>6 DEF Accepted
<1>17. \A s \in 1..k : s \in 1..n
  BY <1>6
<1>18. SumFunction(cs) = Cardinality(WithBallot(list, votes))
  <2>1. \A s : s \in in(1..m) <=> s \in 1..k /\ id(s) \in DOMAIN votes
    <3>1. \A s \in 1..k : P[s] \in 1..m <=> id(s) \in DOMAIN votes
      BY <1>1, <1>4, <1>17
    <3>2. \A s \in 1..n : P[s] \in 1..m => s \in 1..k
      BY <1>1, <1>4
    <3>. QED  BY <1>9, <1>17, <3>1, <3>2
  <2>2. VotersIn(list, in(1..m)) = WithBallot(list, votes)
    BY <1>6, <2>1 DEF WithBallot, VotersIn
  <2>3. \A i, j \in in(1..m) : list[i].voter_id = list[j].voter_id => i = j
    BY <1>16, <2>1
  <2>4. Cardinality(VotersIn(list, in(1..m))) = Cardinality(in(1..m))
    BY <1>8, <2>3, PlacesAndVoters
  <2>. QED  BY <1>14, <2>2, <2>4
<1>19. ASSUME NEW j \in DOMAIN Candidates
       PROVE  sizes[j] = Cardinality(For(list, votes, j))
  <2>1. j \in 1..num_partitions /\ j # NO_VOTE /\ j # PAD
    BY <1>1
  <2>2. \A s : s \in of(j) <=> /\ s \in 1..k
                               /\ id(s) \in DOMAIN votes
                               /\ candidate_position(votes[id(s)]) = j
    <3>1. \A s \in 1..k :
             P[s] = j <=> id(s) \in DOMAIN votes /\ candidate_position(votes[id(s)]) = j
      BY <1>4, <1>17, <2>1
    <3>2. \A s \in 1..n : P[s] = j => s \in 1..k
      BY <1>4, <2>1
    <3>. QED  BY <1>9, <1>17, <3>1, <3>2
  <2>3. VotersIn(list, of(j)) = For(list, votes, j)
    BY <1>6, <2>2 DEF For, WithBallot, VotersIn
  <2>4. \A i, l \in of(j) : list[i].voter_id = list[l].voter_id => i = l
    BY <1>16, <2>2
  <2>5. Cardinality(VotersIn(list, of(j))) = Cardinality(of(j))
    BY <1>8, <2>4, PlacesAndVoters
  <2>. QED  BY <1>10, <2>1, <2>3, <2>5
<1>20. Counts(sizes, list, votes, k, n)
  BY <1>10, <1>11, <1>12, <1>15, <1>18, <1>19 DEF Counts, cs, m
<1>. QED  BY <1>20 DEF sizes, k, n, post

\* The statement an honest aggregator proves is one the adapter accepts.
LEMMA HonestStatement ==
    ASSUME NEW C, Candidates \in Seq(C), NEW n \in Nat, n >= num_partitions + 1,
           NEW finalized, finalized.domain_size = n, NEW c_commit,
           NEW sizes, DOMAIN sizes = 1..num_partitions, Len(sizes) = num_partitions,
           SumFunction(sizes) = n
    PROVE  ValidPublicInput(PublicInput(finalized, c_commit, sizes))
<1> DEFINE pi == PublicInput(finalized, c_commit, sizes)
           labels == canonical_label_indices(num_partitions)
<1>1. num_partitions \in Nat /\ num_partitions > 0
  BY Partitions
<1>2. pi.domain_size = n /\ pi.label_indices = labels /\ pi.sizes = sizes
  BY DEF PublicInput
<1>3. DOMAIN labels = 1..num_partitions /\ Len(labels) = num_partitions
      /\ \A j \in 1..num_partitions : labels[j] = j
  BY <1>1 DEF canonical_label_indices
<1> HIDE DEF pi, labels
<1>4. ASSUME NEW j \in 1..num_partitions
      PROVE  /\ labels[j] \in 1..(n - 1)
             /\ \A i \in 1..(j - 1) : labels[i] # labels[j]
  <2>1. \A i \in 1..(j - 1) : i \in 1..num_partitions /\ i # j
    BY <1>1
  <2>. QED  BY <1>1, <1>3, <2>1
<1>5. ValidPublicInput(pi)
  BY <1>1, <1>2, <1>3, <1>4 DEF ValidPublicInput
<1>. QED  BY <1>5 DEF pi

\* The commitment has one token for each index of the domain, with the scalar of its slot.
LEMMA CommitIs ==
    ASSUME NEW U, NEW list \in Seq(U), NEW aid, Accepted(aid, list), Fits(list)
    PROVE  LET post == finalize_registration(aid, list) IN
           post.c_commit = ToBag([i \in 1..required_domain_size(Len(list)) |->
                                     Token(i - 1, SlotScalar(post, list, i))])
<1> DEFINE k == Len(list)
           n == required_domain_size(k)
           post == finalize_registration(aid, list)
           vector == [i \in 1..n |-> Token(i - 1, SlotScalar(post, list, i))]
<1>1. MadeOf(post, aid, list, k, n)
  BY PostParts
<1>2. /\ \A s \in 1..k : SlotScalar(post, list, s) = list[s].skv
      /\ \A s \in 1..n : s \notin 1..k => SlotScalar(post, list, s) = pad_scalar(aid, s - k - 1)
  BY SlotsOf
<1>3. post.c_commit = TokenSum(post.voters, post.pad_tokens)
  BY <1>1 DEF MadeOf
<1> HIDE DEF k, n, post
<1>4. /\ k \in Nat /\ n \in Nat /\ n - k \in Nat /\ k <= n
      /\ DOMAIN post.voters = 1..k
      /\ DOMAIN post.pad_tokens = 1..(n - k) /\ Len(post.pad_tokens) = n - k
  BY <1>1 DEF MadeOf
<1> DEFINE taus == [i \in DOMAIN post.voters |-> post.voters[i].tau]
<1>5. taus \o post.pad_tokens = vector
  <2>0. taus = [i \in 1..k |-> taus[i]]
    BY <1>4
  <2>1. DOMAIN taus = 1..k /\ Len(taus) = k /\ \A i \in 1..k : taus[i] = post.voters[i].tau
    BY <1>4
  <2> HIDE DEF taus
  <2>2. taus \o post.pad_tokens
           = [i \in 1..n |-> IF i \in 1..k THEN taus[i] ELSE post.pad_tokens[i - k]]
    <3> DEFINE pads == post.pad_tokens
    <3>0. pads = [p \in 1..(n - k) |-> pads[p]]
      BY <1>1 DEF MadeOf
    <3> HIDE DEF pads
    <3>1. taus \o pads = [i \in 1..(k + (n - k)) |-> IF i <= k THEN taus[i] ELSE pads[i - k]]
      <4> DEFINE m == n - k
      <4>1. m \in Nat /\ pads = [p \in 1..m |-> pads[p]]
        BY <1>4, <3>0
      <4> HIDE DEF m
      <4>2. taus \o pads = [i \in 1..(k + m) |-> IF i <= k THEN taus[i] ELSE pads[i - k]]
        <5>1. k \in Nat /\ taus = [i \in 1..k |-> taus[i]]
          BY <1>4, <2>0
        <5>. QED  BY <4>1, <5>1, Concatenated, SMTT(30)
      <4>. QED  BY <4>2 DEF m
    <3>2. k + (n - k) = n /\ \A i \in 1..n : i <= k <=> i \in 1..k
      BY <1>4
    <3>. QED  BY <3>1, <3>2 DEF pads
  <2>3. ASSUME NEW i \in 1..k
        PROVE  taus[i] = vector[i]
    <3>1. taus[i] = Token(i - 1, list[i].skv)
      <4>1. post.voters[i] = VoterRegistrationRecord(aid, list[i], i, n)
        BY <1>1 DEF MadeOf
      <4>2. post.voters[i].tau = Token(i - 1, list[i].skv)
        BY <4>1, RecordParts
      <4>. QED  BY <2>1, <4>2
    <3>2. i \in 1..n
      BY <1>4
    <3>. QED  BY <1>2, <3>1, <3>2
  <2>4. ASSUME NEW i \in 1..n, i \notin 1..k
        PROVE  post.pad_tokens[i - k] = vector[i]
    <3>1. i - k \in 1..(n - k) /\ k + (i - k) - 1 = i - 1
      BY <1>4, <2>4
    <3>2. post.pad_tokens[i - k] = Token(i - 1, pad_scalar(aid, i - k - 1))
      BY <1>1, <3>1 DEF MadeOf
    <3>. QED  BY <1>2, <2>4, <3>2
  <2>. QED  BY <2>2, <2>3, <2>4
<1>6. post.c_commit = ToBag(vector)
  BY <1>3, <1>5 DEF TokenSum
<1>. QED  BY <1>6 DEF k, n, post

\* Its index lists are a partition of the domain with the sizes it claims, and the vector
\* they select from is the committed one.
LEMMA HonestWitness ==
    ASSUME NEW C, Candidates \in Seq(C),
           NEW U, NEW list \in Seq(U), NEW aid, Accepted(aid, list), Fits(list),
           NEW votes, Cast(votes)
    PROVE  LET post == finalize_registration(aid, list)
               pi   == PublicInput(post, post.c_commit, TallySizes(post, votes))
               w    == TallyWitness(post, list, votes)
           IN  ValidWitness(pi, w) /\ CommitVector(pi, w) = post.c_commit
<1> DEFINE k == Len(list)
           n == required_domain_size(k)
           post == finalize_registration(aid, list)
           sizes == TallySizes(post, votes)
           pi == PublicInput(post, post.c_commit, sizes)
           w == TallyWitness(post, list, votes)
           P == [s \in 1..n |-> SlotPartition(post, votes, s)]
<1>1. MadeOf(post, aid, list, k, n)
  BY PostParts
<1>2. /\ Slots(post) = 1..n
      /\ \A s \in 1..n : SlotIndex(post, s) = s - 1
      /\ \A s \in 1..k : SlotScalar(post, list, s) = list[s].skv
      /\ \A s \in 1..n : s \notin 1..k => SlotScalar(post, list, s) = pad_scalar(aid, s - k - 1)
  BY SlotsOf
<1>3. \A s \in 1..n : P[s] \in 1..num_partitions
  <2>1. \A s \in 1..n : SlotPartition(post, votes, s) \in 1..num_partitions
    BY PartitionOf
  <2> HIDE DEF k, n, post
  <2>. QED  BY <2>1
<1> HIDE DEF k, n, post
<1>4. /\ k \in Nat /\ n \in Nat /\ n - k \in Nat /\ k <= n
      /\ post.domain_size = n
      /\ DOMAIN post.voters = 1..k /\ Len(post.voters) = k
      /\ DOMAIN post.pad_tokens = 1..(n - k) /\ Len(post.pad_tokens) = n - k
  BY <1>1 DEF MadeOf
<1>5. /\ pi.domain_size = n /\ pi.sizes = sizes
      /\ sizes = [j \in 1..num_partitions |-> Cardinality({s \in 1..n : P[s] = j})]
  BY <1>2, <1>4 DEF PublicInput, TallySizes
<1>6. /\ w.index = [s \in 1..n |-> s - 1]
      /\ w.partitions = [j \in 1..num_partitions |-> {s \in 1..n : P[s] = j}]
  BY <1>2 DEF TallyWitness
<1>7. w.values_by_index = [x \in 0..(n - 1) |->
                              SlotScalar(post, list, CHOOSE s \in 1..n : SlotIndex(post, s) = x)]
  BY <1>2, <1>4 DEF TallyWitness
<1> HIDE DEF sizes, pi, w, P
<1>8. ValidWitness(pi, w)
  <2> DEFINE slots == UNION {w.partitions[j] : j \in DOMAIN w.partitions}
  <2>1. slots = 1..n
    <3>1. \A s \in 1..n : s \in w.partitions[P[s]] /\ P[s] \in DOMAIN w.partitions
      BY <1>3, <1>6
    <3>2. \A j \in DOMAIN w.partitions : w.partitions[j] \subseteq 1..n
      BY <1>6
    <3>. QED  BY <3>1, <3>2
  <2> HIDE DEF slots
  <2>2. DOMAIN w.partitions = DOMAIN pi.sizes
    BY <1>5, <1>6
  <2>3. \A j \in DOMAIN w.partitions : Cardinality(w.partitions[j]) = pi.sizes[j]
    BY <1>5, <1>6
  <2>4. \A s, t \in slots : s # t => w.index[s] # w.index[t]
    BY <1>6, <2>1
  <2>5. {w.index[s] : s \in slots} = 0..(pi.domain_size - 1)
    <3>1. \A s \in 1..n : w.index[s] = s - 1 /\ s - 1 \in 0..(n - 1)
      BY <1>4, <1>6
    <3>2. \A x \in 0..(n - 1) : x + 1 \in 1..n /\ w.index[x + 1] = x
      BY <1>4, <1>6
    <3>. QED  BY <1>5, <2>1, <3>1, <3>2
  <2>. QED  BY <2>2, <2>3, <2>4, <2>5 DEF ValidWitness, slots
<1>9. ASSUME NEW i \in 1..n
      PROVE  w.values_by_index[i - 1] = SlotScalar(post, list, i)
  <2>1. i - 1 \in 0..(n - 1)
    BY <1>4
  <2>2. (CHOOSE s \in 1..n : SlotIndex(post, s) = i - 1) = i
    BY <1>2
  <2>. QED  BY <1>7, <2>1, <2>2
<1>10. CommitVector(pi, w) = ToBag([i \in 1..n |-> Token(i - 1, SlotScalar(post, list, i))])
  <2>1. [i \in 1..n |-> Token(i - 1, w.values_by_index[i - 1])]
           = [i \in 1..n |-> Token(i - 1, SlotScalar(post, list, i))]
    BY <1>9
  <2>. QED  BY <1>5, <2>1 DEF CommitVector
<1>11. post.c_commit = ToBag([i \in 1..n |-> Token(i - 1, SlotScalar(post, list, i))])
  BY CommitIs DEF post, n, k
<1>12. ValidWitness(pi, w) /\ CommitVector(pi, w) = post.c_commit
  BY <1>8, <1>10, <1>11, Zenon
<1>. QED  BY <1>12 DEF pi, w, sizes, post

\* The honest flow never fails: whatever ballots an aggregator holds, it can prove its
\* tally and the validator accepts it.
LEMMA HonestTally ==
    ASSUME NEW C, Candidates \in Seq(C),
           NEW U, NEW list \in Seq(U), NEW aid, Accepted(aid, list), Fits(list),
           NEW votes, Cast(votes)
    PROVE  LET post == finalize_registration(aid, list) IN
           /\ CanBuildTally(post, list, votes)
           /\ verify_aggregator_tally(post, build_and_prove_tally(post, list, votes))
<1> DEFINE k == Len(list)
           n == required_domain_size(k)
           m == Len(Candidates)
           post == finalize_registration(aid, list)
           sizes == TallySizes(post, votes)
           pi == PublicInput(post, post.c_commit, sizes)
           w == TallyWitness(post, list, votes)
           tally == build_and_prove_tally(post, list, votes)
<1>1. /\ m \in Nat /\ DOMAIN Candidates = 1..m
      /\ NO_VOTE = m + 1 /\ PAD = m + 2 /\ num_partitions = m + 2
  BY Partitions
<1>2. MadeOf(post, aid, list, k, n)
  BY PostParts
<1>3. n \in Nat /\ n >= num_partitions + 1
  BY DEF Fits
<1>4. Counts(sizes, list, votes, k, n)
  BY TallyCounts
<1>5. ValidWitness(pi, w) /\ CommitVector(pi, w) = post.c_commit
  BY HonestWitness
<1> HIDE DEF k, n, m, post, sizes
<1>6. /\ k \in Nat
      /\ post.domain_size = n /\ post.pad_count = n - k
      /\ DOMAIN post.voters = 1..k /\ DOMAIN list = 1..k
      /\ \A i \in 1..k : post.voters[i].voter_id = list[i].voter_id
      /\ post.c_commit = TokenSum(post.voters, post.pad_tokens)
  BY <1>2 DEF MadeOf
<1>7. /\ DOMAIN sizes = 1..num_partitions /\ Len(sizes) = num_partitions
      /\ \A j \in 1..num_partitions : sizes[j] \in Nat
      /\ SumFunction(sizes) = n
      /\ sizes[PAD] = n - k
  BY <1>4 DEF Counts
<1>8. ValidPublicInput(pi)
  BY <1>3, <1>6, <1>7, HonestStatement
<1>9. to_common_inputs(pi).subsets_sizes # <<>>
  <2> DEFINE kept == {j \in DOMAIN pi.sizes : pi.sizes[j] > 0}
  <2>1. pi.sizes = sizes
    BY DEF PublicInput
  <2>2. kept \in SUBSET Nat /\ IsFiniteSet(kept)
    <3>1. num_partitions \in Int /\ 1 \in Int
      BY <1>1
    <3>2. IsFiniteSet(1..num_partitions) /\ kept \in SUBSET (1..num_partitions)
      BY <1>7, <2>1, <3>1, FS_Interval
    <3>. QED  BY <3>1, <3>2, FS_Subset
  <2>3. kept # {}
    <3>1. SUFFICES ASSUME kept = {} PROVE FALSE
      OBVIOUS
    <3>2. \A j \in 1..num_partitions : sizes[j] = 0
      BY <1>7, <2>1, <3>1
    <3>3. SumFunction(sizes) = 0
      BY <1>1, <1>7, <3>2, SumOfZeros
    <3>. QED  BY <1>1, <1>3, <1>7, <3>3
  <2>4. ElementsAt(pi.sizes, kept) # <<>>
    <3> HIDE DEF kept
    <3>. QED  BY <2>2, <2>3, ElementsAtIs
  <2>. QED  BY <2>4 DEF to_common_inputs
<1>10. CanProve(pi, w)
  BY <1>5, <1>8, <1>9 DEF CanProve
<1>11. CanBuildTally(post, list, votes)
  <2>1. ASSUME NEW i \in DOMAIN post.voters
        PROVE  LET v == post.voters[i].voter_id IN
               /\ \E j \in DOMAIN list : list[j].voter_id = v
               /\ v \in DOMAIN votes => \E j \in DOMAIN Candidates : Candidates[j] = votes[v]
    BY <1>6 DEF Cast
  <2>. QED  BY <1>6, <1>7, <1>10, <2>1 DEF CanBuildTally, sizes
<1>12. /\ tally.candidate_counts = SubSeq(sizes, 1, m)
       /\ tally.no_vote_count = sizes[NO_VOTE]
       /\ tally.pad_count = sizes[PAD]
       /\ tally.domain_size = post.domain_size
       /\ tally.c_commit = post.c_commit
       /\ tally.label_indices = canonical_label_indices(num_partitions)
       /\ tally.sizes = sizes
       /\ tally.proof = prove(pi, w)
  BY DEF build_and_prove_tally, sizes, m
<1> HIDE DEF pi, w, tally
<1>13. verify(pi, tally.proof)
  <2>1. /\ prove(pi, w).statement = to_common_inputs(pi)
        /\ prove(pi, w).committed = CommitVector(pi, w)
    BY DEF prove
  <2>2. pi.commitment_c = post.c_commit
    BY DEF pi, PublicInput
  <2>. QED  BY <1>5, <1>8, <1>9, <1>12, <2>1, <2>2 DEF verify
<1>14. verify(PublicInput(post, TokenSum(post.voters, post.pad_tokens), tally.sizes), tally.proof)
  BY <1>6, <1>12, <1>13 DEF pi
<1>15. verify_aggregator_tally(post, tally)
  BY <1>6, <1>7, <1>12, <1>14 DEF verify_aggregator_tally, m
<1>. QED  BY <1>11, <1>15 DEF tally, post

\* Counts that several tallies make of their own ballots add up to no more ballots than
\* there are: B[n] are the ballots that the n-th tally counts, choice[n] what for.
Tallied(S, J, Good, own, B, choice, c) ==
    \A n \in Good : /\ B[n] \subseteq S
                    /\ \A v \in B[n] : own[v] = n /\ choice[n][v] \in J
                    /\ \A j \in J : c[n][j] = Cardinality(PartOf(B[n], choice[n], j))

Adding(total, N, J, Good, c) ==
    /\ DOMAIN total = J
    /\ \A j \in J : total[j] = SumFunction([n \in 1..N |-> IF n \in Good THEN c[n][j] ELSE 0])

LEMMA SumOfTallies ==
    ASSUME NEW S, IsFiniteSet(S), NEW N \in Nat, NEW J, IsFiniteSet(J),
           NEW Good \in SUBSET (1..N), NEW own, NEW B, NEW choice, NEW c,
           Tallied(S, J, Good, own, B, choice, c),
           NEW total, Adding(total, N, J, Good, c)
    PROVE  SumFunction(total) \in Nat /\ SumFunction(total) <= Cardinality(S)
<1> DEFINE A == UNION {B[n] : n \in Good}
           place == [v \in A |-> own[v]]
           for == [v \in A |-> choice[own[v]][v]]
<1>1. IsFiniteSet(A) /\ Cardinality(A) \in Nat /\ Cardinality(A) <= Cardinality(S)
  <2>1. A \in SUBSET S
    BY DEF Tallied
  <2> HIDE DEF A
  <2>. QED  BY <2>1, FS_Subset, FS_CardinalityType
<1>2. \A v \in A : /\ own[v] \in Good /\ own[v] \in 1..N /\ v \in B[own[v]]
                   /\ for[v] \in J /\ place[v] = own[v] /\ for[v] = choice[own[v]][v]
  BY DEF Tallied
<1>3. /\ \A n \in Good : \A v \in B[n] : v \in A /\ own[v] = n
      /\ \A n \in Good : \A j \in J : c[n][j] = Cardinality(PartOf(B[n], choice[n], j))
  BY DEF Tallied
<1>4. IsFiniteSet(1..N)
  <2>1. 1 \in Int /\ N \in Int
    OBVIOUS
  <2>. QED  BY <2>1, FS_Interval
<1> HIDE DEF A, place, for
<1>5. ASSUME NEW j \in J
      PROVE  total[j] = Cardinality(PartOf(A, for, j))
  <2> DEFINE Aj == PartOf(A, for, j)
             f == [n \in 1..N |-> IF n \in Good THEN c[n][j] ELSE 0]
  <2>1. IsFiniteSet(Aj)
    BY <1>1, PartsFinite
  <2>2. \A v : v \in Aj <=> v \in A /\ for[v] = j
    BY DEF PartOf
  <2>3. ASSUME NEW n \in 1..N
        PROVE  f[n] = Cardinality(PartOf(Aj, place, n))
    <3>1. CASE n \in Good
      <4>1. \A v : v \in PartOf(Aj, place, n) <=> v \in Aj /\ place[v] = n
        BY DEF PartOf
      <4>2. \A v : v \in PartOf(B[n], choice[n], j) <=> v \in B[n] /\ choice[n][v] = j
        BY DEF PartOf
      <4>3. PartOf(Aj, place, n) = PartOf(B[n], choice[n], j)
        <5> HIDE DEF Aj
        <5>1. \A v : v \in PartOf(Aj, place, n) <=> v \in PartOf(B[n], choice[n], j)
          BY <1>2, <1>3, <2>2, <3>1, <4>1, <4>2
        <5>. QED  BY <5>1
      <4>. QED  BY <1>3, <3>1, <4>3
    <3>2. CASE n \notin Good
      <4>1. PartOf(Aj, place, n) = {}
        BY <1>2, <2>2, <3>2 DEF PartOf
      <4>. QED  BY <3>2, <4>1, FS_EmptySet
    <3>. QED  BY <3>1, <3>2
  <2>4. DOMAIN f = 1..N
    OBVIOUS
  <2>5. total[j] = SumFunction(f)
    BY DEF Adding
  <2> HIDE DEF Aj, f
  <2>6. SumFunction(f) = Cardinality(PartsIn(Aj, place, 1..N))
    BY <1>4, <2>1, <2>3, <2>4, SumOfParts
  <2>7. PartsIn(Aj, place, 1..N) = Aj
    BY <1>2, <2>2 DEF PartsIn
  <2>. QED  BY <2>5, <2>6, <2>7 DEF Aj
<1>6. SumFunction(total) = Cardinality(PartsIn(A, for, J))
  <2>1. DOMAIN total = J
    BY DEF Adding
  <2>. QED  BY <1>1, <1>5, <2>1, SumOfParts
<1>7. PartsIn(A, for, J) = A
  BY <1>2 DEF PartsIn
<1>. QED  BY <1>1, <1>6, <1>7
=============================================================================
