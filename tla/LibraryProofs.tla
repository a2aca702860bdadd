---------------------------- MODULE LibraryProofs ----------------------------
(***************************************************************************)
(* For any set of threads and of sizes: all users of a size share one      *)
(* bundle, and a Lagrange basis is computed once per size.  For any number *)
(* of candidates, any scalars and any hash: labels are nonzero and         *)
(* distinct.  For any field, any size and any order of the parallel        *)
(* chunks: the group FFT returns the Lagrange basis.  For any field and    *)
(* any polynomials over it: the fast division finds the quotient.          *)
(***************************************************************************)
EXTENDS MCLibrary, CoreProofs

-----------------------------------------------------------------------------
(* The cache of proof parameters *)

\* A bundle with a basis, or with one under way, is the one in the map.
BasisOfCached ==
    \A bundle \in Cache!Bundles : lagrange_g1[bundle] # "unset" => cache[bundle.size] = bundle

\* A thread that computes has the cell of its bundle marked, and has it for itself.
OneComputes ==
    /\ \A t \in Threads : Cache!Working(t, "computes") => lagrange_g1[thread[t].x] = "computing"
    /\ \A t, u \in Threads : Cache!Working(t, "computes") /\ Cache!Working(u, "computes")
                                 /\ thread[t].x = thread[u].x => t = u

CacheInv == Cache!TypeOK /\ Cache!OneBundlePerSize /\ BasisOfCached /\ OneComputes

-----------------------------------------------------------------------------

LEMMA InitCache == Cache!Init => CacheInv
<1> SUFFICES ASSUME Cache!Init PROVE CacheInv
  OBVIOUS
<1>1. Cache!TypeOK
  BY DEF Cache!Init, Cache!TypeOK, Cache!Positions
<1>2. Cache!OneBundlePerSize /\ BasisOfCached /\ OneComputes
  BY DEF Cache!Init, Cache!OneBundlePerSize, BasisOfCached, OneComputes, Cache!Working
<1> QED
  BY <1>1, <1>2 DEF CacheInv

\* What the position of a thread says of the thing it works on.
LEMMA WorksOn ==
    ASSUME Cache!TypeOK, NEW t \in Threads
    PROVE  /\ Cache!Working(t, "builds") => thread[t].x \in Sizes
           /\ thread[t].pc \in {"holds", "computes", "has basis"} =>
                  thread[t].x \in Cache!Bundles
  BY DEF Cache!TypeOK, Cache!Positions, Cache!Working

\* A step that leaves the map and the cells alone and takes t to another position than
\* "computes", holding the bundle in the map or none, keeps the invariant.
LEMMA MoveStep ==
    ASSUME CacheInv, UNCHANGED <<cache, lagrange_g1>>,
           NEW t \in Threads, NEW pos, NEW x, Cache!Goes(t, pos, x),
           \/ pos = "idle" /\ x = None
           \/ pos = "builds" /\ x \in Sizes
           \/ pos \in {"holds", "has basis"} /\ x \in Cache!Bundles /\ x = cache[x.size]
    PROVE  CacheInv'
<1>1. Cache!TypeOK'
  BY DEF CacheInv, Cache!TypeOK, Cache!Positions, Cache!Goes
<1>2. Cache!OneBundlePerSize'
  BY DEF CacheInv, Cache!TypeOK, Cache!OneBundlePerSize, Cache!Goes
<1>3. BasisOfCached'
  BY DEF CacheInv, BasisOfCached
<1>4. OneComputes'
  BY DEF CacheInv, Cache!TypeOK, OneComputes, Cache!Working, Cache!Goes
<1> QED
  BY <1>1, <1>2, <1>3, <1>4 DEF CacheInv

LEMMA StoreStep ==
    ASSUME CacheInv, NEW t \in Threads, Cache!Store(t)
    PROVE  CacheInv'
<1> DEFINE n == thread[t].x
           bundle == IF cache[n] # None THEN cache[n] ELSE [size |-> n, builder |-> t]
<1> USE DEF CacheInv
<1>1. n \in Sizes
  BY WorksOn DEF Cache!Store
<1>2. bundle \in Cache!Bundles /\ bundle.size = n
  BY <1>1 DEF Cache!TypeOK, Cache!Bundles
<1>3. cache' = [cache EXCEPT ![n] = bundle] /\ UNCHANGED lagrange_g1
  BY DEF Cache!Store
<1>4. thread' = [thread EXCEPT ![t] = [pc |-> "holds", x |-> bundle]]
  BY DEF Cache!Store, Cache!Goes
<1>5. \A m \in Sizes : cache[m] # None => cache'[m] = cache[m]
  BY <1>3 DEF Cache!TypeOK
<1>6. Cache!TypeOK'
  BY <1>1, <1>2, <1>3, <1>4 DEF Cache!TypeOK, Cache!Positions
<1>7. Cache!OneBundlePerSize'
  <2> SUFFICES ASSUME NEW u \in Threads, thread'[u].pc \in {"holds", "computes", "has basis"}
               PROVE  thread'[u].x = cache'[thread'[u].x.size]
    BY DEF Cache!OneBundlePerSize
  <2>1. CASE u = t
    BY <2>1, <1>1, <1>2, <1>3, <1>4 DEF Cache!TypeOK
  <2>2. CASE u # t
    <3>1. thread'[u] = thread[u]
      BY <2>2, <1>4 DEF Cache!TypeOK
    <3>2. thread[u].x \in Cache!Bundles /\ thread[u].x = cache[thread[u].x.size]
      BY <3>1, WorksOn DEF Cache!OneBundlePerSize
    <3>3. thread[u].x.size \in Sizes /\ thread[u].x # None
      BY <3>2, CacheAssumption DEF Cache!Bundles
    <3> QED
      BY <3>1, <3>2, <3>3, <1>5
  <2> QED
    BY <2>1, <2>2
<1>8. BasisOfCached'
  <2> SUFFICES ASSUME NEW c \in Cache!Bundles, lagrange_g1'[c] # "unset"
               PROVE  cache'[c.size] = c
    BY DEF BasisOfCached
  <2>1. cache[c.size] = c /\ c # None /\ c.size \in Sizes
    BY <1>3, CacheAssumption DEF BasisOfCached, Cache!Bundles
  <2> QED
    BY <2>1, <1>5
<1>9. OneComputes'
  BY <1>3, <1>4 DEF OneComputes, Cache!Working, Cache!TypeOK
<1> QED
  BY <1>6, <1>7, <1>8, <1>9

\* The first to ask for the basis marks the cell.
LEMMA ComputeStep ==
    ASSUME CacheInv, NEW t \in Threads, Cache!Working(t, "holds"),
           lagrange_g1[thread[t].x] = "unset",
           lagrange_g1' = [lagrange_g1 EXCEPT ![thread[t].x] = "computing"],
           Cache!Goes(t, "computes", thread[t].x), UNCHANGED cache
    PROVE  CacheInv'
<1> DEFINE bundle == thread[t].x
<1> USE DEF CacheInv
<1>1. bundle \in Cache!Bundles /\ bundle = cache[bundle.size]
  BY WorksOn DEF Cache!OneBundlePerSize, Cache!Working
<1>2. Cache!TypeOK'
  BY <1>1 DEF Cache!TypeOK, Cache!Positions, Cache!Goes
<1>3. Cache!OneBundlePerSize'
  BY <1>1 DEF Cache!OneBundlePerSize, Cache!Goes, Cache!TypeOK
<1>4. BasisOfCached'
  BY <1>1 DEF BasisOfCached, Cache!TypeOK
<1>5. \A u \in Threads : Cache!Working(u, "computes") => thread[u].x # bundle
  BY DEF OneComputes
<1>6. OneComputes'
  BY <1>1, <1>5, WorksOn DEF OneComputes, Cache!Working, Cache!Goes, Cache!TypeOK
<1> QED
  BY <1>2, <1>3, <1>4, <1>6

\* t gives the cell of its bundle up, as cell.
Leaves(t, cell) == lagrange_g1' = [lagrange_g1 EXCEPT ![thread[t].x] = cell]

\* A computation that ends, with a basis or with a panic, gives up its cell.
LEMMA EndStep ==
    ASSUME CacheInv, UNCHANGED cache, NEW t \in Threads, Cache!Working(t, "computes"),
           NEW cell, Leaves(t, cell), cell \in {"unset", "set"},
           NEW pos, NEW x, Cache!Goes(t, pos, x),
           \/ pos = "idle" /\ x = None
           \/ pos = "has basis" /\ x = thread[t].x
    PROVE  CacheInv'
<1> DEFINE bundle == thread[t].x
<1> USE DEF CacheInv, Leaves
<1>1. bundle \in Cache!Bundles /\ bundle = cache[bundle.size]
  BY WorksOn DEF Cache!OneBundlePerSize, Cache!Working
<1>2. Cache!TypeOK'
  BY <1>1 DEF Cache!TypeOK, Cache!Positions, Cache!Goes
<1>3. Cache!OneBundlePerSize'
  BY <1>1 DEF Cache!OneBundlePerSize, Cache!Goes, Cache!TypeOK
<1>4. BasisOfCached'
  BY <1>1 DEF BasisOfCached, Cache!TypeOK
<1>5. \A u \in Threads : u # t /\ Cache!Working(u, "computes") => thread[u].x # bundle
  BY DEF OneComputes
<1>6. OneComputes'
  BY <1>1, <1>5, WorksOn DEF OneComputes, Cache!Working, Cache!Goes, Cache!TypeOK
<1> QED
  BY <1>2, <1>3, <1>4, <1>6

LEMMA NextCache == CacheInv /\ [Cache!Next]_srsVars => CacheInv'
<1> SUFFICES ASSUME CacheInv, [Cache!Next]_srsVars PROVE CacheInv'
  OBVIOUS
<1>1. ASSUME NEW t \in Threads, NEW n \in Sizes, Cache!get_or_create_srs(t, n) PROVE CacheInv'
  <2>1. CASE cache[n] # None
    <3>1. cache[n] \in Cache!Bundles /\ cache[n].size = n
      BY <2>1 DEF CacheInv, Cache!TypeOK
    <3> QED
      BY <3>1, <2>1, <1>1, MoveStep DEF Cache!get_or_create_srs
  <2>2. CASE cache[n] = None
    BY <2>2, <1>1, MoveStep DEF Cache!get_or_create_srs
  <2> QED
    BY <2>1, <2>2
<1>2. ASSUME NEW t \in Threads, Cache!BuildFails(t) PROVE CacheInv'
  BY <1>2, MoveStep DEF Cache!BuildFails
<1>3. ASSUME NEW t \in Threads, Cache!Store(t) PROVE CacheInv'
  BY <1>3, StoreStep
<1>4. ASSUME NEW t \in Threads, Cache!lagrange_basis(t) PROVE CacheInv'
  <2>1. CASE lagrange_g1[thread[t].x] = "set"
    <3>1. thread[t].x \in Cache!Bundles /\ thread[t].x = cache[thread[t].x.size]
      BY <1>4, WorksOn DEF Cache!lagrange_basis, CacheInv, Cache!OneBundlePerSize, Cache!Working
    <3> QED
      BY <3>1, <2>1, <1>4, MoveStep DEF Cache!lagrange_basis
  <2>2. CASE lagrange_g1[thread[t].x] # "set"
    BY <2>2, <1>4, ComputeStep DEF Cache!lagrange_basis
  <2> QED
    BY <2>1, <2>2
<1>5. ASSUME NEW t \in Threads, Cache!BasisDone(t) PROVE CacheInv'
  <2>1. Leaves(t, "set") /\ Cache!Working(t, "computes") /\ UNCHANGED cache
    BY <1>5 DEF Cache!BasisDone, Leaves
  <2>2. Cache!Goes(t, "has basis", thread[t].x)
    BY <1>5 DEF Cache!BasisDone
  <2> QED
    BY <2>1, <2>2, EndStep
<1>6. ASSUME NEW t \in Threads, Cache!BasisPanics(t) PROVE CacheInv'
  <2>1. Leaves(t, "unset") /\ Cache!Working(t, "computes") /\ UNCHANGED cache
    BY <1>6 DEF Cache!BasisPanics, Leaves
  <2>2. Cache!Goes(t, "idle", None)
    BY <1>6 DEF Cache!BasisPanics
  <2> QED
    BY <2>1, <2>2, EndStep
<1>7. ASSUME NEW t \in Threads, Cache!Drop(t) PROVE CacheInv'
  BY <1>7, MoveStep DEF Cache!Drop
<1>8. CASE UNCHANGED srsVars
  BY <1>8 DEF srsVars, CacheInv, Cache!TypeOK, Cache!OneBundlePerSize, BasisOfCached, OneComputes, Cache!Working
<1> QED
  BY <1>1, <1>2, <1>3, <1>4, <1>5, <1>6, <1>7, <1>8 DEF Cache!Next, Cache!Proceeds

-----------------------------------------------------------------------------
(* Labels *)

\* What is hashed has digests among the scalars, and so the labels are scalars.
LabelTypes ==
    /\ labels \in Seq(Scalars)
    /\ \A h \in hashed : h.digest \in Scalars

LabelsInv == LabelTypes /\ Derivation!LabelsDistinct

\* derive_distinct appends to the labels a scalar that is neither zero nor Derivation!taken, or leaves
\* them alone.
LEMMA DeriveExtends ==
    ASSUME LabelTypes, Derivation!derive_distinct
    PROVE  /\ LabelTypes'
           /\ \/ UNCHANGED labels
              \/ \E w \in Scalars \ Derivation!taken : w # 0 /\ labels' = Append(labels, w)
<1> DEFINE input == [source |-> Derivation!sources[Len(labels) + 1], counter |-> counter]
<1>1. PICK w \in Derivation!hash_to_fr(input) :
          /\ hashed' = hashed \cup {[input |-> input, digest |-> w]}
          /\ IF w # 0 /\ w \notin Derivation!taken
             THEN labels' = Append(labels, w)
             ELSE UNCHANGED labels
  BY DEF Derivation!derive_distinct
<1>2. w \in Scalars
  BY <1>1 DEF Derivation!hash_to_fr, LabelTypes
<1>3. \A h \in hashed' : h.digest \in Scalars
  BY <1>1, <1>2 DEF LabelTypes
<1>4. labels' \in Seq(Scalars)
  <2>1. labels \in Seq(Scalars)
    BY DEF LabelTypes
  <2>2. CASE w # 0 /\ w \notin Derivation!taken
    BY <1>1, <1>2, <2>1, <2>2
  <2>3. CASE ~(w # 0 /\ w \notin Derivation!taken)
    BY <1>1, <2>1, <2>3
  <2> QED
    BY <2>2, <2>3
<1> QED
  BY <1>1, <1>2, <1>3, <1>4 DEF LabelTypes

\* A label that is neither zero nor Derivation!taken keeps the labels nonzero and distinct.
LEMMA FreshLabel ==
    ASSUME LabelTypes, Derivation!LabelsDistinct, NEW w \in Scalars \ Derivation!taken, w # 0,
           labels' = Append(labels, w)
    PROVE  Derivation!LabelsDistinct'
<1> DEFINE last == Len(labels) + 1
<1>1. labels \in Seq(Scalars)
  BY DEF LabelTypes
<1>2. /\ DOMAIN labels = 1..Len(labels)
      /\ DOMAIN labels' = 1..last
      /\ labels'[last] = w
      /\ \A i \in 1..Len(labels) : labels'[i] = labels[i]
  BY <1>1
<1>3. \A i \in 1..Len(labels) : labels[i] # w
  BY <1>2 DEF Derivation!taken
<1>4. \A i \in DOMAIN labels' : labels'[i] # 0
  BY <1>1, <1>2 DEF Derivation!LabelsDistinct
<1>5. ASSUME NEW i \in DOMAIN labels', NEW j \in DOMAIN labels', i # j
      PROVE  labels'[i] # labels'[j]
  <2>1. Len(labels) \in Nat
    BY <1>1
  <2>2. CASE i = last
    BY <1>2, <1>3, <1>5, <2>1, <2>2
  <2>3. CASE j = last
    BY <1>2, <1>3, <1>5, <2>1, <2>3
  <2>4. CASE i # last /\ j # last
    <3>1. i \in 1..Len(labels) /\ j \in 1..Len(labels)
      BY <1>2, <2>1, <2>4
    <3> QED
      BY <1>2, <1>5, <3>1 DEF Derivation!LabelsDistinct
  <2> QED
    BY <2>2, <2>3, <2>4
<1> QED
  BY <1>4, <1>5 DEF Derivation!LabelsDistinct

LEMMA InitLabels == Derivation!Init => LabelsInv
BY DEF Derivation!Init, LabelsInv, LabelTypes, Derivation!LabelsDistinct

LEMMA NextLabels == LabelsInv /\ [Derivation!Next]_labelVars => LabelsInv'
<1> SUFFICES ASSUME LabelsInv, [Derivation!Next]_labelVars PROVE LabelsInv'
  OBVIOUS
<1>1. CASE Derivation!Next
  <2>1. LabelTypes' /\ (\/ UNCHANGED labels
                       \/ \E w \in Scalars \ Derivation!taken : w # 0 /\ labels' = Append(labels, w))
    BY <1>1, DeriveExtends DEF LabelsInv, Derivation!Next
  <2>2. CASE UNCHANGED labels
    BY <2>1, <2>2 DEF LabelsInv, Derivation!LabelsDistinct
  <2>3. CASE \E w \in Scalars \ Derivation!taken : w # 0 /\ labels' = Append(labels, w)
    <3>1. PICK w \in Scalars \ Derivation!taken : w # 0 /\ labels' = Append(labels, w)
      BY <2>3
    <3>2. Derivation!LabelsDistinct'
      BY <3>1, FreshLabel DEF LabelsInv
    <3> QED
      BY <2>1, <3>2 DEF LabelsInv
  <2> QED
    BY <2>1, <2>2, <2>3
<1>2. CASE UNCHANGED labelVars
  BY <1>2 DEF labelVars, LabelsInv, LabelTypes, Derivation!LabelsDistinct
<1> QED
  BY <1>1, <1>2

-----------------------------------------------------------------------------
(* The Lagrange basis *)

LEMMA FieldIs == IsField(P) /\ P > 1 /\ P \in Nat
BY FieldAssumption, RootAssumption DEF IsField

LEMMA TwosAre == IsTwo(FFT!two)
BY TwoIs DEF FFT!two

LEMMA ReversesAre == IsReverse(FFT!bit_reverse, FFT!two)
BY TwosAre, ReverseIs DEF FFT!bit_reverse

LEMMA ReversesOfDoubles == \A e \in Nat : Doubles(FFT!bit_reverse, FFT!two, e)
<1> DEFINE f == FFT!bit_reverse
           w == FFT!two
<1>1. IsReverse(f, w) /\ IsTwo(w)
  BY TwosAre, ReversesAre
<1> HIDE DEF f, w
<1>2. \A e \in Nat : Doubles(f, w, e)
  BY <1>1, ReverseOfDouble
<1>. QED  BY <1>2 DEF f, w

LEMMA PowersAre ==
    ASSUME NEW x \in Int
    PROVE  IsPower([k \in Nat |-> FFT!power(x, k)], x, P)
<1> DEFINE w == CHOOSE g : g = [k \in Nat |-> IF k = 0 THEN 1 ELSE (x * g[k - 1]) % P]
<1>1. \A k \in Nat : FFT!power(x, k) = w[k]
  BY DEF FFT!power
<1>2. IsPower(w, x, P)
  BY FieldIs, PowerIs
<1> HIDE DEF w
<1>3. w \in [Nat -> 0..(P - 1)]
  BY <1>2 DEF IsPower
<1>4. w = [k \in Nat |-> FFT!power(x, k)]
  BY <1>1, <1>3
<1>. QED  BY <1>2, <1>4

\* The generator of the domain of n elements, its powers, and those of its inverse.
Generator(n) == FFT!power(root, Order \div n)
Powers(n)    == [k \in Nat |-> FFT!power(Generator(n), k)]
Twiddles(n)  == [k \in Nat |-> FFT!power(FFT!Inv(Generator(n)), k)]

\* The sizes of domains divide the largest.
LEMMA SizesDivide ==
    ASSUME NEW n \in 1..Order, FFT!IsPowerOf2(n)
    PROVE  Order \div n \in 1..Order /\ (Order \div n) * n = Order
<1>1. PICK e \in 0..n : n = FFT!two[e]
  BY DEF FFT!IsPowerOf2
<1>2. PICK c \in 0..Order : Order = FFT!two[c]
  BY RootAssumption DEF FFT!IsPowerOf2
<1>3. n \in Nat /\ n > 0 /\ e \in Nat /\ c \in Nat /\ Order \in Nat
  BY RootAssumption, FieldIs
<1>4. e <= c
  <2>1. SUFFICES ASSUME c < e PROVE FALSE
    BY <1>3
  <2>2. FFT!two[c] < FFT!two[e]
    BY <1>3, <2>1, TwosAre, TwoIncreases
  <2>. QED  BY <1>1, <1>2, <1>3, <2>2
<1>5. PICK d \in Nat : d + e = c
  BY <1>3, <1>4
<1>6. PICK u \in Nat : u = FFT!two[d]
  BY TwosAre, TwoExceeds
<1>7. Order = u * n
  <2>1. \A i \in Nat : FFT!two[i + e] = FFT!two[i] * FFT!two[e]
    BY <1>3, TwosAre, TwoPlus
  <2>. QED  BY <1>1, <1>2, <1>5, <1>6, <2>1
<1>8. Order \div n = u /\ u \in 1..Order
  <2>1. u > 0
    BY <1>6, TwosAre, TwoExceeds
  <2>2. (u * n) \div n = u /\ u * n >= u
    BY <1>3, <2>1
  <2>. QED  BY <1>7, <2>1, <2>2
<1>. QED  BY <1>7, <1>8

LEMMA PowersOfRoot ==
    \E v : /\ IsPower(v, root, P)
           /\ \A k \in Nat : FFT!power(root, k) = v[k]
           /\ v[Order] = 1 /\ \A d \in 1..(Order - 1) : v[d] # 1
<1> DEFINE v == [k \in Nat |-> FFT!power(root, k)]
<1>1. root \in Int /\ Order \in Nat
  BY RootAssumption, FieldIs
<1>2. IsPower(v, root, P)
  BY <1>1, PowersAre
<1>3. \A k \in Nat : FFT!power(root, k) = v[k]
  OBVIOUS
<1>4. 1..(Order - 1) \subseteq Nat
  BY <1>1
<1> HIDE DEF v
<1>. QED  BY <1>1, <1>2, <1>3, <1>4, RootAssumption

\* The generator has an inverse, and the order n.
LEMMA GeneratorIs ==
    ASSUME NEW n \in 1..Order, FFT!IsPowerOf2(n)
    PROVE  /\ Generator(n) \in 1..(P - 1)
           /\ FFT!Inv(Generator(n)) \in 1..(P - 1)
           /\ RootOfUnity(Powers(n), Generator(n), Twiddles(n), FFT!Inv(Generator(n)), P, n)
<1> DEFINE c == Order \div n
           x == Generator(n)
           y == FFT!Inv(Generator(n))
<1>1. c \in 1..Order /\ c * n = Order /\ n \in Nat \ {0} /\ Order \in Nat /\ c \in Nat /\ c > 0
  BY SizesDivide, RootAssumption, FieldIs
<1>2. PICK v : /\ IsPower(v, root, P)
               /\ \A k \in Nat : FFT!power(root, k) = v[k]
               /\ v[Order] = 1 /\ \A d \in 1..(Order - 1) : v[d] # 1
  BY PowersOfRoot
<1>3. x = v[c]
  BY <1>1, <1>2 DEF Generator
<1>4. root \in Int /\ P \in Nat \ {0} /\ P > 1
  BY RootAssumption, FieldIs
<1>5. x \in 1..(P - 1)
  <2>1. x \in 0..(P - 1)
    BY <1>1, <1>2, <1>3 DEF IsPower
  <2>2. SUFFICES ASSUME x = 0 PROVE FALSE
    BY <1>4, <2>1
  <2>3. Order - c \in Nat /\ c + (Order - c) = Order
    BY <1>1
  <2>4. \A i \in Nat : v[c + i] = (v[c] * v[i]) % P
    <3> HIDE DEF c, x
    <3>. QED  BY <1>1, <1>2, <1>4, PowerPlus
  <2>5. 1 = (0 * v[Order - c]) % P
    BY <1>2, <1>3, <2>2, <2>3, <2>4
  <2>6. v[Order - c] \in 0..(P - 1)
    BY <1>2, <2>3 DEF IsPower
  <2>7. 0 * v[Order - c] = 0 /\ 0 % P = 0
    BY <1>4, <2>6, SmallRemainder
  <2>. QED  BY <2>5, <2>7
<1>6. y \in 1..(P - 1) /\ (x * y) % P = 1
  <2>1. \E z \in 1..(P - 1) : (x * z) % P = 1
    BY <1>5, FieldAssumption
  <2> HIDE DEF x
  <2>. QED  BY <2>1 DEF FFT!Inv, x
<1>7. x \in Int /\ y \in Int
  BY <1>4, <1>5, <1>6
<1>8. IsPower(Powers(n), x, P) /\ IsPower(Twiddles(n), y, P)
  BY <1>7, PowersAre DEF Powers, Twiddles
<1>9. \A k \in Nat : Powers(n)[k] = v[c * k]
  <2> HIDE DEF x, c
  <2>1. IsPower(Powers(n), v[c], P)
    BY <1>3, <1>8
  <2>. QED  BY <1>1, <1>2, <1>4, <2>1, PowerTimes
<1>10. Powers(n)[n] = 1
  BY <1>1, <1>2, <1>9
<1>11. ASSUME NEW d \in 1..(n - 1) PROVE Powers(n)[d] # 1
  <2> HIDE DEF c
  <2>1. d \in Nat /\ d > 0 /\ d < n
    BY <1>1
  <2>2. c * d \in Nat /\ c * d > 0 /\ c * d < c * n
    BY <1>1, <2>1
  <2>3. c * d \in 1..(Order - 1)
    BY <1>1, <2>2
  <2>. QED  BY <1>2, <1>9, <2>1, <2>3
<1> HIDE DEF x, y
<1>12. RootOfUnity(Powers(n), x, Twiddles(n), y, P, n)
  BY <1>1, <1>6, <1>7, <1>8, <1>10, <1>11, FieldIs DEF RootOfUnity
<1>. QED  BY <1>5, <1>6, <1>12 DEF x, y

\* What point i is when the blocks have m points: the one of its block's transform, which
\* is of the powers that have, modulo the number of blocks, the block's reverse.
Point(n, e, m, i) ==
    [k \in 0..(n - 1) |-> Value(Twiddles(n), FFT!two[e], FFT!bit_reverse[e][i \div m], i % m, k)]

\* Where i and i + m are when the blocks have m points and when they have twice as many.
Placed(i, m, c, j) ==
    /\ i \in Nat
    /\ i \div m = 2 * c /\ i % m = j
    /\ i \div (2 * m) = c /\ i % (2 * m) = j
    /\ (i + m) \div m = 2 * c + 1 /\ (i + m) % m = j
    /\ (i + m) \div (2 * m) = c /\ (i + m) % (2 * m) = j + m

LEMMA Places ==
    ASSUME NEW m \in Nat, m > 0, NEW c \in Nat, NEW j \in 0..(m - 1), NEW i, i = c * (2 * m) + j
    PROVE  Placed(i, m, c, j)
<1>1. ASSUME NEW h \in Nat, h > 0, NEW d \in Nat, NEW s \in 0..(h - 1)
      PROVE  (d * h + s) \div h = d /\ (d * h + s) % h = s /\ d * h + s \in Nat
  BY <1>1
<1> DEFINE h == 2 * m
<1>2. /\ h \in Nat /\ h > 0 /\ j \in 0..(h - 1) /\ j + m \in 0..(h - 1) /\ 2 * c \in Nat /\ 2 * c + 1 \in Nat
      /\ j \in Nat
  OBVIOUS
<1>3. /\ c * h = (2 * c) * m /\ c * h + m = (2 * c + 1) * m /\ c * h \in Nat
  OBVIOUS
<1> HIDE DEF h
<1>4. i = c * h + j /\ i = (2 * c) * m + j /\ i + m = (2 * c + 1) * m + j /\ i + m = c * h + (j + m)
  BY <1>2, <1>3 DEF h
<1>5. i \div m = 2 * c /\ i % m = j /\ i \in Nat
  BY <1>1, <1>2, <1>4
<1>6. i \div h = c /\ i % h = j
  BY <1>1, <1>2, <1>4
<1>7. (i + m) \div m = 2 * c + 1 /\ (i + m) % m = j
  BY <1>1, <1>2, <1>4
<1>8. (i + m) \div h = c /\ (i + m) % h = j + m
  BY <1>1, <1>2, <1>4
<1>. QED  BY <1>5, <1>6, <1>7, <1>8 DEF h, Placed

\* The twiddle in the middle of a domain of two elements or more is -1.
LEMMA HalfTwiddle ==
    ASSUME NEW n \in 1..Order, FFT!IsPowerOf2(n), NEW h \in Nat, n = 2 * h
    PROVE  Twiddles(n)[h] = P - 1
<1> DEFINE w == Twiddles(n)
           v == Powers(n)
           y == FFT!Inv(Generator(n))
           x == Generator(n)
<1>1. RootOfUnity(v, x, w, y, P, n)
  BY GeneratorIs
<1> HIDE DEF w, v, y, x
<1>2. /\ \A k \in Nat : (v[k] * w[k]) % P = 1
      /\ w[n] = 1
  BY <1>1, PowersInverse
<1>3. /\ y \in Int /\ IsPower(w, y, P) /\ IsPower(v, x, P)
      /\ \A d \in 1..(n - 1) : v[d] # 1
  BY <1>1 DEF RootOfUnity
<1>4. w[h] # 1
  <2>1. SUFFICES ASSUME w[h] = 1 PROVE FALSE
    OBVIOUS
  <2>2. (v[h] * 1) % P = 1
    BY <1>2, <2>1
  <2>3. v[h] \in 0..(P - 1)
    BY <1>3 DEF IsPower
  <2>4. v[h] * 1 = v[h] /\ v[h] % P = v[h]
    BY <2>3, FieldIs, SmallRemainder
  <2>5. h \in 1..(n - 1)
    BY RootAssumption, FieldIs
  <2>. QED  BY <1>3, <2>2, <2>4, <2>5
<1>5. w[2 * h] = 1
  BY <1>2
<1>. QED  BY <1>3, <1>4, <1>5, FieldIs, HalfWay DEF w

\* The sum of u and t is point i of the next round, their difference point i + m.
JoinsPoints(u, t, n, e, m, i) ==
    /\ [k \in 0..(n - 1) |-> (u[k] + t[k]) % P] = Point(n, e, 2 * m, i)
    /\ [k \in 0..(n - 1) |-> (u[k] + ((t[k] * (P - 1)) % P)) % P]
           = Point(n, e, 2 * m, i + m)

\* t is point i + m times the j-th twiddle of the round.
IsTwiddled(t, n, e, m, i, j) ==
    t = [k \in 0..(n - 1) |->
             (Point(n, e + 1, m, i + m)[k] * Twiddles(n)[FFT!two[e] * j]) % P]

\* A butterfly makes two points of a block from one of each of its halves.
LEMMA PointsOfChunk ==
    ASSUME NEW n \in 1..Order, FFT!IsPowerOf2(n), NEW e \in Nat, NEW m \in Nat, m > 0,
           FFT!two[e + 1] * m = n, NEW c \in Nat, NEW j \in 0..(m - 1),
           NEW i, i = c * (2 * m) + j,
           NEW u, u = Point(n, e + 1, m, i),
           NEW t, IsTwiddled(t, n, e, m, i, j)
    PROVE  JoinsPoints(u, t, n, e, m, i)
<1> DEFINE h == FFT!two[e]
           w == Twiddles(n)
           v == FFT!bit_reverse[e][c]
           y == FFT!Inv(Generator(n))
<1>1. h \in Nat \ {0} /\ FFT!two[e + 1] = 2 * h
  <2>1. h \in Nat /\ e < h
    BY TwosAre, TwoExceeds
  <2>. QED  BY <2>1, TwosAre DEF IsTwo
<1>2. v \in 0..(h - 1) /\ FFT!bit_reverse[e + 1][2 * c] = v /\ FFT!bit_reverse[e + 1][2 * c + 1] = v + h
  <2>1. v \in 0..(h - 1)
    BY TwosAre, ReversesAre, ReverseBounds
  <2>2. /\ FFT!bit_reverse[e + 1][2 * c] = FFT!bit_reverse[e][c]
        /\ FFT!bit_reverse[e + 1][2 * c + 1] = FFT!bit_reverse[e][c] + FFT!two[e]
    <3>1. Doubles(FFT!bit_reverse, FFT!two, e)
      BY ReversesOfDoubles
    <3>. QED  BY <3>1 DEF Doubles
  <2>. QED  BY <2>1, <2>2
<1>3. /\ i \div m = 2 * c /\ i % m = j
      /\ i \div (2 * m) = c /\ i % (2 * m) = j
      /\ (i + m) \div m = 2 * c + 1 /\ (i + m) % m = j
      /\ (i + m) \div (2 * m) = c /\ (i + m) % (2 * m) = j + m
  <2>1. Placed(i, m, c, j)
    BY Places
  <2>. QED  BY <2>1 DEF Placed
<1>4. y \in Int /\ IsPower(w, y, P)
  <2>1. RootOfUnity(Powers(n), Generator(n), w, y, P, n)
    BY GeneratorIs
  <2> HIDE DEF w, y
  <2>. QED  BY <2>1 DEF RootOfUnity
<1>5. w[h * m] = P - 1
  <2> DEFINE d == h * m
  <2>1. d \in Nat /\ n = 2 * d
    <3> HIDE DEF h
    <3>1. h * m \in Nat /\ (2 * h) * m = 2 * (h * m)
      BY <1>1
    <3>. QED  BY <1>1, <3>1
  <2> HIDE DEF d
  <2>2. Twiddles(n)[d] = P - 1
    BY <2>1, HalfTwiddle
  <2>. QED  BY <2>2 DEF d
<1>6. Point(n, e + 1, m, i) = [k \in 0..(n - 1) |-> Value(w, 2 * h, v, j, k)]
  BY <1>1, <1>2, <1>3 DEF Point
<1>7. Point(n, e + 1, m, i + m) = [k \in 0..(n - 1) |-> Value(w, 2 * h, v + h, j, k)]
  BY <1>1, <1>2, <1>3 DEF Point
<1>8. Point(n, e, 2 * m, i) = [k \in 0..(n - 1) |-> Value(w, h, v, j, k)]
  BY <1>3 DEF Point
<1>9. Point(n, e, 2 * m, i + m) = [k \in 0..(n - 1) |-> Value(w, h, v, j + m, k)]
  BY <1>3 DEF Point
<1> HIDE DEF h, w, v, y
<1>10. ASSUME NEW k \in 0..(n - 1)
       PROVE  /\ (u[k] + t[k]) % P = Value(w, h, v, j, k)
              /\ (u[k] + ((t[k] * (P - 1)) % P)) % P = Value(w, h, v, j + m, k)
  <2>1. u[k] = Value(w, 2 * h, v, j, k)
    BY <1>6
  <2>2. t[k] = (Value(w, 2 * h, v + h, j, k) * w[h * j]) % P
    BY <1>7 DEF w, h, IsTwiddled
  <2>3. k \in Nat /\ j \in Nat
    BY RootAssumption, FieldIs
  <2> DEFINE uk == u[k]
             tk == t[k]
  <2>4. uk = Value(w, 2 * h, v, j, k) /\ tk = (Value(w, 2 * h, v + h, j, k) * w[h * j]) % P
    BY <2>1, <2>2
  <2> HIDE DEF uk, tk
  <2>5. Joins(w, P, h, m, v, j, k, uk, tk)
    BY <1>1, <1>2, <1>4, <1>5, <2>3, <2>4, FieldIs, Butterfly
  <2>. QED  BY <2>5 DEF uk, tk, Joins
<1>. QED  BY <1>8, <1>9, <1>10 DEF JoinsPoints

\* The blocks have m points, and in the chunks worked on len, which is twice as many.
InRound(e, m) ==
    /\ len = 2 * m /\ FFT!two[e] * m = size
    /\ done \subseteq FFT!Chunks
    /\ done # {} => len <= size
    /\ points = [i \in FFT!Indices |->
           IF i - (i % len) \in done THEN Point(size, e - 1, len, i) ELSE Point(size, e, m, i)]

BasisInv ==
    /\ size \in 1..Order /\ FFT!IsPowerOf2(size)
    /\ \/ /\ pc = "called" /\ len = 2 /\ done = {}
          /\ points = [i \in FFT!Indices |-> [k \in FFT!Indices |-> IF k = i THEN 1 ELSE 0]]
       \/ /\ pc = "rounds"
          /\ \E e, m \in Nat : InRound(e, m)
       \/ /\ pc = "returned"
          /\ points = [i \in FFT!Indices |-> [k \in FFT!Indices |->
                          (Twiddles(size)[i * k] * FFT!Inv(size % P)) % P]]

LEMMA InitBasis == FFT!Init => BasisInv
BY DEF FFT!Init, BasisInv

LEMMA SwapStep ==
    ASSUME BasisInv, FFT!swap_all
    PROVE  BasisInv'
<1>0. size \in 1..Order /\ FFT!IsPowerOf2(size)
  BY DEF BasisInv
<1>2. size \in Nat /\ size > 0
  BY <1>0, RootAssumption, FieldIs
<1>3. PICK e \in Nat : e = FFT!log_n /\ FFT!two[e] = size
  BY <1>0, <1>2 DEF FFT!IsPowerOf2, FFT!log_n
<1> DEFINE w == Twiddles(size)
           rev(i) == FFT!bit_reverse[e][i]
<1>1. /\ pc' = "rounds" /\ UNCHANGED <<size, len, done>> /\ len = 2 /\ done = {}
      /\ size \in 1..Order /\ FFT!IsPowerOf2(size)
      /\ points = [i \in FFT!Indices |-> [k \in FFT!Indices |-> IF k = i THEN 1 ELSE 0]]
      /\ points' = [i \in FFT!Indices |-> points[rev(i)]]
  BY <1>3 DEF BasisInv, FFT!swap_all
<1>4. ASSUME NEW i \in 0..(size - 1) PROVE rev(i) \in 0..(size - 1)
  BY <1>2, <1>3, TwosAre, ReversesAre, ReverseBounds
<1>5. w[0] = 1
  <2>1. RootOfUnity(Powers(size), Generator(size), w, FFT!Inv(Generator(size)), P, size)
    BY <1>1, GeneratorIs
  <2> HIDE DEF w
  <2>. QED  BY <2>1 DEF RootOfUnity, IsPower
<1>6. ASSUME NEW i \in 0..(size - 1)
      PROVE  Point(size, e, 1, i) = [k \in 0..(size - 1) |-> IF k = rev(i) THEN 1 ELSE 0]
  <2>1. i \div 1 = i /\ i % 1 = 0
    BY <1>2
  <2>2. ASSUME NEW k \in 0..(size - 1)
        PROVE  Value(w, size, rev(i), 0, k) = IF k = rev(i) THEN 1 ELSE 0
    <3>1. k % size = k
      BY <1>2, SmallRemainder
    <3>2. (size * 0) * (k \div size) = 0
      <4>1. k \div size \in Int /\ size * 0 = 0
        BY <1>2
      <4>. QED  BY <4>1
    <3> HIDE DEF w, rev
    <3>. QED  BY <1>5, <3>1, <3>2 DEF Value
  <2>3. Point(size, e, 1, i) = [k \in 0..(size - 1) |-> Value(w, size, rev(i), 0, k)]
    BY <1>3, <2>1 DEF Point
  <2> HIDE DEF w, rev
  <2>. QED  BY <2>2, <2>3
<1>7. points' = [i \in FFT!Indices |-> Point(size, e, 1, i)]
  <2>1. ASSUME NEW i \in 0..(size - 1)
        PROVE  points[rev(i)] = [k \in 0..(size - 1) |-> IF k = rev(i) THEN 1 ELSE 0]
    BY <1>1, <1>4 DEF FFT!Indices
  <2> HIDE DEF rev
  <2>. QED  BY <1>1, <1>6, <2>1 DEF FFT!Indices
<1>8. InRound(e, 1)'
  <2>1. FFT!two[e] * 1 = size
    BY <1>2, <1>3
  <2>2. len' = 2 * 1 /\ size' = size /\ done' = {} /\ FFT!Indices' = FFT!Indices
    BY <1>1 DEF FFT!Indices
  <2>. QED  BY <1>7, <2>1, <2>2 DEF InRound
<1>9. size' \in 1..Order /\ FFT!IsPowerOf2(size)'
  BY <1>1 DEF FFT!IsPowerOf2
<1>. QED  BY <1>1, <1>3, <1>8, <1>9 DEF BasisInv

\* A round that works on chunks has blocks of half of their length.
LEMMA RoundIs ==
    ASSUME size \in 1..Order, NEW d \in Nat, NEW m \in Nat, InRound(d, m), len <= size
    PROVE  \E e \in Nat : /\ d = e + 1 /\ FFT!two[e + 1] = 2 * FFT!two[e] /\ FFT!two[e] \in Nat
                          /\ m > 0 /\ size = FFT!two[e] * len /\ len \div 2 = m
                          /\ size \div len = FFT!two[e]
<1>1. size \in Nat /\ size > 0 /\ FFT!two[d] \in Nat /\ len = 2 * m /\ FFT!two[d] * m = size
  BY RootAssumption, FieldIs, TwosAre DEF InRound, IsTwo
<1>2. m > 0
  BY <1>1
<1>3. d # 0
  <2>1. SUFFICES ASSUME d = 0 PROVE FALSE
    OBVIOUS
  <2>2. FFT!two[d] = 1
    BY <2>1, TwosAre DEF IsTwo
  <2>. QED  BY <1>1, <1>2, <2>2
<1>4. PICK e \in Nat : d = e + 1
  <2>1. d - 1 \in Nat /\ d = (d - 1) + 1
    BY <1>3
  <2>. QED  BY <2>1
<1>5. FFT!two[e + 1] = 2 * FFT!two[e] /\ FFT!two[e] \in Nat
  BY <1>4, TwosAre DEF IsTwo
<1> DEFINE h == FFT!two[e]
<1>6. h \in Nat /\ FFT!two[d] = 2 * h
  BY <1>4, <1>5
<1> HIDE DEF h
<1>7. size = h * len
  BY <1>1, <1>6
<1>8. size \div len = h
  <2>1. len \in Nat /\ len > 0
    BY <1>1, <1>2
  <2>2. (h * len) \div len = h
    BY <1>6, <2>1
  <2>. QED  BY <1>7, <2>2
<1>. QED  BY <1>1, <1>2, <1>4, <1>5, <1>7, <1>8 DEF h

\* The twiddles of a round are powers of that of the whole domain.
LEMMA TwiddlesOfRound ==
    ASSUME size \in 1..Order, FFT!IsPowerOf2(size), NEW h \in Nat, size \div len = h
    PROVE  \A j \in Nat : FFT!power(FFT!w_len, j) = Twiddles(size)[h * j]
<1> DEFINE w == Twiddles(size)
           y == FFT!Inv(Generator(size))
           x == FFT!w_len
           u == [k \in Nat |-> FFT!power(x, k)]
<1>1. IsPower(w, y, P) /\ y \in Int
  <2>1. RootOfUnity(Powers(size), Generator(size), w, y, P, size)
    BY GeneratorIs
  <2> HIDE DEF w, y
  <2>. QED  BY <2>1 DEF RootOfUnity
<1>2. x = w[h]
  BY DEF FFT!w_len, FFT!omega_inv, FFT!omega, Twiddles, Generator
<1> HIDE DEF w, y, x
<1>3. w[h] \in Int
  <2>1. w[h] \in 0..(P - 1)
    BY <1>1 DEF IsPower
  <2>. QED  BY <2>1, FieldIs
<1>4. IsPower(u, w[h], P)
  BY <1>2, <1>3, PowersAre
<1>5. \A j \in Nat : u[j] = w[h * j]
  <2> HIDE DEF u
  <2>. QED  BY <1>1, <1>4, FieldIs, PowerTimes
<1>. QED  BY <1>5 DEF w, x

\* A chunk lies in the domain, and its points are those whose chunk begins at the same place.
BeginsChunk(start, m, n) ==
    \E c \in Nat : start = c * (2 * m) /\ start + 2 * m <= n

LEMMA Chunk ==
    ASSUME NEW n \in Nat, NEW h \in Nat, NEW m \in Nat, m > 0, n = h * (2 * m), NEW start \in 0..(n - 1),
           start % (2 * m) = 0
    PROVE  BeginsChunk(start, m, n)
<1> DEFINE l2 == 2 * m
           c == start \div l2
<1>1. l2 \in Nat /\ l2 > 0 /\ start \in Nat /\ start < n
  OBVIOUS
<1> HIDE DEF l2
<1>2. start = c * l2 + (start % l2) /\ c \in Nat
  BY <1>1, Quotients
<1> HIDE DEF c
<1>3. start = c * l2
  <2>1. c * l2 \in Nat /\ start % l2 = 0
    BY <1>1, <1>2 DEF l2
  <2>. QED  BY <1>2, <2>1
<1>4. n = h * l2
  BY DEF l2
<1>5. c < h
  <2>1. SUFFICES ASSUME h <= c PROVE FALSE
    BY <1>2
  <2>2. h * l2 <= c * l2
    BY <1>1, <1>2, <2>1
  <2>3. c * l2 \in Nat /\ h * l2 \in Nat
    BY <1>1, <1>2
  <2>. QED  BY <1>1, <1>3, <1>4, <2>2, <2>3
<1>6. (c + 1) * l2 <= h * l2 /\ (c + 1) * l2 = c * l2 + l2 /\ c * l2 \in Nat
  BY <1>1, <1>2, <1>5
<1>. QED  BY <1>2, <1>3, <1>4, <1>6 DEF l2, BeginsChunk

LEMMA ButterfliesStep ==
    ASSUME BasisInv, NEW start \in FFT!Indices, FFT!butterflies(start)
    PROVE  BasisInv'
<1>0. /\ pc = "rounds" /\ len <= size /\ start \in FFT!Chunks \ done
      /\ done' = done \cup {start} /\ UNCHANGED <<pc, size, len>>
      /\ size \in 1..Order /\ FFT!IsPowerOf2(size) /\ start \in 0..(size - 1)
  BY DEF BasisInv, FFT!butterflies, FFT!Indices
<1>1. PICK d \in Nat, m \in Nat : InRound(d, m)
  BY <1>0 DEF BasisInv
<1>2. PICK e \in Nat : /\ d = e + 1 /\ FFT!two[e + 1] = 2 * FFT!two[e] /\ FFT!two[e] \in Nat
                       /\ m > 0 /\ size = FFT!two[e] * len /\ len \div 2 = m
                       /\ size \div len = FFT!two[e]
  BY <1>0, <1>1, RoundIs
<1>3. /\ len = 2 * m /\ FFT!two[e + 1] * m = size /\ done \subseteq FFT!Chunks /\ size \in Nat
      /\ points = [i \in 0..(size - 1) |->
             IF i - (i % len) \in done THEN Point(size, e, len, i) ELSE Point(size, e + 1, m, i)]
  <2>1. (e + 1) - 1 = e /\ size \in Nat
    BY <1>0, RootAssumption, FieldIs
  <2>2. InRound(e + 1, m)
    BY <1>1, <1>2
  <2>. QED  BY <2>1, <2>2 DEF InRound, FFT!Indices
<1>4. PICK c \in Nat : start = c * (2 * m) /\ start + 2 * m <= size
  <2>1. start % (2 * m) = 0
    BY <1>0, <1>3 DEF FFT!Chunks
  <2> DEFINE g == FFT!two[e]
  <2>2. g \in Nat /\ size = g * (2 * m) /\ m > 0 /\ size \in Nat /\ start \in 0..(size - 1)
    BY <1>0, <1>2, <1>3
  <2> HIDE DEF g
  <2>3. BeginsChunk(start, m, size)
    BY <2>1, <2>2, Chunk
  <2>. QED  BY <2>3 DEF BeginsChunk
<1> DEFINE w == Twiddles(size)
           h == FFT!two[e]
           t(j) == FFT!Mul(points[start + j + m], FFT!power(FFT!w_len, j))
           u(j) == points[start + j]
<1>5. points' = [i \in 0..(size - 1) |->
               CASE i - start \in 0..(m - 1) -> FFT!Add(u(i - start), t(i - start))
                 [] i - start \in m..(len - 1) -> FFT!Sub(u(i - start - m), t(i - start - m))
                 [] OTHER -> points[i]]
  BY <1>2 DEF FFT!butterflies, FFT!Indices
<1>6. ASSUME NEW j \in 0..(m - 1)
      PROVE  /\ FFT!Add(u(j), t(j)) = Point(size, e, len, start + j)
             /\ FFT!Sub(u(j), t(j)) = Point(size, e, len, start + j + m)
             /\ (start + j) - ((start + j) % len) = start
             /\ (start + j + m) - ((start + j + m) % len) = start
  <2> DEFINE i == start + j
  <2>1. i = c * (2 * m) + j /\ j \in Nat /\ i \in 0..(size - 1) /\ i + m \in 0..(size - 1) /\ start \in Nat
    <3>1. j \in Nat /\ start \in Nat /\ j < m
      BY <1>0, <1>3
    <3>2. start + j \in 0..(size - 1) /\ start + j + m \in 0..(size - 1)
      BY <1>3, <1>4, <3>1
    <3>. QED  BY <1>4, <3>1, <3>2
  <2> HIDE DEF i
  <2>2. Placed(i, m, c, j)
    BY <1>2, <2>1, Places
  <2>3. i % len = j /\ (i + m) % len = j + m
    BY <1>3, <2>2 DEF Placed
  <2>4. i - (i % len) = start /\ (i + m) - ((i + m) % len) = start
    <3>1. i = start + j
      BY DEF i
    <3>2. start \in Int /\ j \in Int /\ m \in Int
      BY <2>1
    <3>. QED  BY <2>3, <3>1, <3>2
  <2>5. points[i] = Point(size, e + 1, m, i) /\ points[i + m] = Point(size, e + 1, m, i + m)
    BY <1>0, <1>3, <2>1, <2>4
  <2>6. FFT!power(FFT!w_len, j) = Twiddles(size)[FFT!two[e] * j]
    BY <1>0, <1>2, <2>1, TwiddlesOfRound
  <2>7. u(j) = Point(size, e + 1, m, i)
    BY <2>5 DEF i
  <2>8. t(j) = [k \in 0..(size - 1) |->
                   (Point(size, e + 1, m, i + m)[k] * Twiddles(size)[FFT!two[e] * j]) % P]
    <3>1. t(j) = FFT!Mul(points[i + m], FFT!power(FFT!w_len, j))
      BY DEF i
    <3> HIDE DEF t
    <3>. QED  BY <2>5, <2>6, <3>1 DEF FFT!Mul, FFT!Indices
  <2> DEFINE x == u(j)
             y == t(j)
  <2> HIDE DEF u, t
  <2>9. FFT!Add(x, y) = [k \in 0..(size - 1) |-> (x[k] + y[k]) % P]
    BY DEF FFT!Add, FFT!Indices
  <2>10. FFT!Sub(x, y) = [k \in 0..(size - 1) |-> (x[k] + ((y[k] * (P - 1)) % P)) % P]
    BY DEF FFT!Add, FFT!Sub, FFT!Mul, FFT!Indices
  <2> HIDE DEF x, y
  <2>11. JoinsPoints(x, y, size, e, m, i)
    <3>1. x = Point(size, e + 1, m, i)
      BY <2>7 DEF x
    <3>2. IsTwiddled(y, size, e, m, i, j)
      BY <2>8 DEF y, IsTwiddled
    <3>. QED  BY <1>0, <1>2, <1>3, <2>1, <3>1, <3>2, PointsOfChunk
  <2>. QED  BY <1>3, <2>4, <2>9, <2>10, <2>11 DEF x, y, i, JoinsPoints
<1> HIDE DEF u, t
<1>7. ASSUME NEW i \in 0..(size - 1)
      PROVE  points'[i] = IF i - (i % len) \in done' THEN Point(size, e, len, i) ELSE Point(size, e + 1, m, i)
  <2>1. /\ points'[i] = CASE i - start \in 0..(m - 1) -> FFT!Add(u(i - start), t(i - start))
                          [] i - start \in m..(len - 1) -> FFT!Sub(u(i - start - m), t(i - start - m))
                          [] OTHER -> points[i]
        /\ i \in Nat /\ start \in Nat
    BY <1>0, <1>3, <1>5
  <2>2. CASE i - start \in 0..(m - 1)
    <3>1. points'[i] = FFT!Add(u(i - start), t(i - start))
      BY <2>1, <2>2
    <3>2. start + (i - start) = i
      BY <2>1
    <3>3. points'[i] = Point(size, e, len, i) /\ i - (i % len) = start
      BY <1>6, <2>2, <3>1, <3>2
    <3>. QED  BY <1>0, <3>3
  <2>3. CASE i - start \in m..(len - 1)
    <3>1. ~(i - start \in 0..(m - 1)) /\ i - start - m \in 0..(m - 1) /\ start + (i - start - m) + m = i
      <4>1. m \in Nat /\ len = 2 * m
        BY <1>3
      <4> DEFINE g == i - start
      <4>2. g \in m..(len - 1) /\ g \in Int
        BY <2>1, <2>3
      <4> HIDE DEF g
      <4>3. ~(g \in 0..(m - 1)) /\ g - m \in 0..(m - 1)
        BY <4>1, <4>2
      <4>4. start + (i - start - m) + m = i
        BY <2>1, <4>1
      <4>. QED  BY <4>3, <4>4 DEF g
    <3>2. points'[i] = FFT!Sub(u(i - start - m), t(i - start - m))
      BY <2>1, <2>3, <3>1
    <3>3. points'[i] = Point(size, e, len, i) /\ i - (i % len) = start
      BY <1>6, <3>1, <3>2
    <3>. QED  BY <1>0, <3>3
  <2>4. CASE ~(i - start \in 0..(m - 1)) /\ ~(i - start \in m..(len - 1))
    <3>1. points'[i] = points[i]
      BY <2>1, <2>4
    <3>2. i - (i % len) # start
      <4>1. SUFFICES ASSUME i - (i % len) = start PROVE FALSE
        OBVIOUS
      <4>2. i % len \in 0..(len - 1) /\ i % len \in Int
        <5>1. len \in Nat /\ len > 0
          BY <1>2, <1>3
        <5>. QED  BY <2>1, <5>1, Quotients
      <4>3. i - start = i % len
        BY <2>1, <4>1, <4>2
      <4>4. i - start \in 0..(len - 1)
        BY <4>2, <4>3
      <4>5. len = 2 * m /\ m \in Nat
        BY <1>3
      <4> DEFINE g == i - start
      <4>6. g \in 0..(len - 1) /\ ~(g \in 0..(m - 1)) /\ ~(g \in m..(len - 1))
        BY <2>4, <4>4
      <4> HIDE DEF g
      <4>. QED  BY <4>5, <4>6
    <3>. QED  BY <1>0, <1>3, <3>1, <3>2
  <2>. QED  BY <2>2, <2>3, <2>4
<1>8. points' = [i \in 0..(size - 1) |->
             IF i - (i % len) \in done' THEN Point(size, e, len, i) ELSE Point(size, e + 1, m, i)]
  BY <1>5, <1>7
<1>9. InRound(e + 1, m)'
  <2>1. /\ len' = 2 * m /\ len' = len /\ size' = size /\ FFT!two[e + 1] * m = size' /\ (e + 1) - 1 = e
        /\ len' <= size' /\ FFT!Indices' = 0..(size - 1)
    BY <1>0, <1>3 DEF FFT!Indices
  <2>2. done' \subseteq FFT!Chunks'
    BY <1>0, <1>3 DEF FFT!Chunks, FFT!Indices
  <2> HIDE DEF h, w
  <2>. QED  BY <1>8, <2>1, <2>2 DEF InRound
<1>10. size' \in 1..Order /\ FFT!IsPowerOf2(size)' /\ pc' = "rounds" /\ e + 1 \in Nat
  BY <1>0 DEF FFT!IsPowerOf2
<1>. QED  BY <1>9, <1>10 DEF BasisInv

LEMMA RoundStep ==
    ASSUME BasisInv, FFT!NextRound
    PROVE  BasisInv'
<1>0. /\ pc = "rounds" /\ len <= size /\ done = FFT!Chunks
      /\ len' = 2 * len /\ done' = {} /\ UNCHANGED <<pc, size, points>>
      /\ size \in 1..Order /\ FFT!IsPowerOf2(size)
  BY DEF BasisInv, FFT!NextRound
<1>1. PICK d \in Nat, m \in Nat : InRound(d, m)
  BY <1>0 DEF BasisInv
<1>2. PICK e \in Nat : /\ d = e + 1 /\ FFT!two[e + 1] = 2 * FFT!two[e] /\ FFT!two[e] \in Nat
                       /\ m > 0 /\ size = FFT!two[e] * len /\ len \div 2 = m
                       /\ size \div len = FFT!two[e]
  BY <1>0, <1>1, RoundIs
<1>3. /\ len = 2 * m /\ size \in Nat
      /\ points = [i \in 0..(size - 1) |->
             IF i - (i % len) \in done THEN Point(size, e, len, i) ELSE Point(size, e + 1, m, i)]
  <2>1. (e + 1) - 1 = e /\ size \in Nat
    BY <1>0, RootAssumption, FieldIs
  <2>2. InRound(e + 1, m)
    BY <1>1, <1>2
  <2>. QED  BY <2>1, <2>2 DEF InRound, FFT!Indices
<1>4. len \in Nat /\ len > 0
  BY <1>2, <1>3
<1>5. ASSUME NEW i \in 0..(size - 1) PROVE i - (i % len) \in done
  <2>1. i \in Nat
    BY <1>3
  <2> DEFINE c == i \div len
             s == i % len
  <2>2. i = c * len + s /\ s \in 0..(len - 1) /\ c \in Nat
    BY <1>4, <2>1, Quotients
  <2> HIDE DEF c, s
  <2>3. c * len \in Nat /\ i - s = c * len /\ c * len + 0 = c * len /\ 0 \in 0..(len - 1)
    BY <1>4, <2>2
  <2>4. (c * len) % len = 0
    <3>1. (c * len + 0) % len = 0
      <4>1. c \in Int /\ len \in Nat \ {0}
        BY <1>4, <2>2
      <4>. QED  BY <2>3, <4>1, RemainderIs
    <3>. QED  BY <2>3, <3>1
  <2>5. c * len \in 0..(size - 1)
    BY <1>3, <2>2, <2>3
  <2>6. c * len \in done
    BY <1>0, <2>4, <2>5 DEF FFT!Chunks, FFT!Indices
  <2>. QED  BY <2>3, <2>6 DEF s
<1>6. points = [i \in 0..(size - 1) |-> Point(size, e, len, i)]
  BY <1>3, <1>5
<1>7. PICK n \in Nat : n = len
  BY <1>4
<1>8. InRound(e, n)'
  <2>1. len' = 2 * n /\ FFT!two[e] * n = size' /\ done' = {} /\ size' = size /\ FFT!Indices' = 0..(size - 1)
    BY <1>0, <1>2, <1>7 DEF FFT!Indices
  <2>2. points' = [i \in 0..(size - 1) |-> Point(size, e, n, i)]
    BY <1>0, <1>6, <1>7
  <2>. QED  BY <2>1, <2>2 DEF InRound
<1>9. size' \in 1..Order /\ FFT!IsPowerOf2(size)' /\ pc' = "rounds"
  BY <1>0 DEF FFT!IsPowerOf2
<1>. QED  BY <1>8, <1>9 DEF BasisInv

LEMMA ScaleStep ==
    ASSUME BasisInv, FFT!ScaleAll
    PROVE  BasisInv'
<1>0. /\ pc = "rounds" /\ len > size /\ pc' = "returned" /\ UNCHANGED <<size, len, done>>
      /\ points' = [i \in FFT!Indices |-> FFT!Mul(points[i], FFT!Inv(size % P))]
      /\ size \in 1..Order /\ FFT!IsPowerOf2(size)
  BY DEF BasisInv, FFT!ScaleAll
<1>1. PICK e \in Nat, m \in Nat : InRound(e, m)
  BY <1>0 DEF BasisInv
<1>2. size \in Nat /\ size > 0
  BY <1>0, RootAssumption, FieldIs
<1>3. len = 2 * m /\ FFT!two[e] * m = size /\ FFT!two[e] \in Nat /\ e < FFT!two[e]
  BY <1>1, TwosAre, TwoExceeds DEF InRound
<1>4. FFT!two[e] = 1 /\ m = size
  <2> DEFINE h == FFT!two[e]
  <2>1. h \in Nat /\ h > 0 /\ h * m = size /\ 2 * m > size
    BY <1>0, <1>3
  <2> HIDE DEF h
  <2>2. h < 2
    <3>1. SUFFICES ASSUME h >= 2 PROVE FALSE
      BY <2>1
    <3>2. h * m >= 2 * m
      BY <2>1, <3>1
    <3>. QED  BY <1>2, <2>1, <3>2
  <2>3. h = 1
    BY <2>1, <2>2
  <2>. QED  BY <2>1, <2>3 DEF h
<1>5. e = 0
  BY <1>3, <1>4
<1>6. points = [i \in 0..(size - 1) |-> Point(size, 0, size, i)]
  <2>1. done = {}
    BY <1>0, <1>1, <1>2 DEF InRound, FFT!Chunks, FFT!Indices
  <2>2. InRound(0, size)
    BY <1>1, <1>4, <1>5
  <2>. QED  BY <2>1, <2>2 DEF InRound, FFT!Indices
<1>7. ASSUME NEW i \in 0..(size - 1), NEW k \in 0..(size - 1)
      PROVE  Point(size, 0, size, i)[k] = Twiddles(size)[i * k]
  <2>1. i % size = i /\ i \div size = 0 /\ i \in Nat /\ k \in Nat
    BY <1>2
  <2>2. FFT!bit_reverse[0][0] = 0 /\ FFT!two[0] = 1
    BY TwosAre, ReversesAre DEF IsTwo, IsReverse
  <2>3. Point(size, 0, size, i)[k] = Value(Twiddles(size), 1, 0, i, k)
    BY <2>1, <2>2 DEF Point
  <2>4. k % 1 = 0 /\ k \div 1 = k /\ 1 * i = i
    BY <2>1
  <2>. QED  BY <2>3, <2>4 DEF Value
<1>8. points' = [i \in FFT!Indices |-> [k \in FFT!Indices |->
                    (Twiddles(size)[i * k] * FFT!Inv(size % P)) % P]]
  <2>1. ASSUME NEW i \in 0..(size - 1)
        PROVE  FFT!Mul(points[i], FFT!Inv(size % P))
                   = [k \in 0..(size - 1) |-> (Twiddles(size)[i * k] * FFT!Inv(size % P)) % P]
    <3>1. points[i] = Point(size, 0, size, i)
      BY <1>6
    <3>. QED  BY <1>7, <3>1 DEF FFT!Mul, FFT!Indices
  <2>. QED  BY <1>0, <2>1 DEF FFT!Indices
<1>9. size' \in 1..Order /\ FFT!IsPowerOf2(size)' /\ size' = size /\ FFT!Indices' = FFT!Indices
  BY <1>0 DEF FFT!IsPowerOf2, FFT!Indices
<1>. QED  BY <1>0, <1>8, <1>9 DEF BasisInv

LEMMA NextBasis == BasisInv /\ [FFT!Next]_<<pc, fftVars>> => BasisInv'
<1> SUFFICES ASSUME BasisInv, [FFT!Next]_<<pc, fftVars>> PROVE BasisInv'
  OBVIOUS
<1>1. CASE FFT!swap_all
  BY <1>1, SwapStep
<1>2. ASSUME NEW start \in FFT!Indices, FFT!butterflies(start) PROVE BasisInv'
  BY <1>2, ButterfliesStep
<1>3. CASE FFT!NextRound
  BY <1>3, RoundStep
<1>4. CASE FFT!ScaleAll
  BY <1>4, ScaleStep
<1>5. CASE UNCHANGED <<pc, fftVars>>
  <2>0. UNCHANGED <<pc, size, points, len, done>>
    BY <1>5 DEF fftVars
  <2>1. ASSUME NEW e \in Nat, NEW m \in Nat, InRound(e, m) PROVE InRound(e, m)'
    BY <2>0, <2>1 DEF InRound, FFT!Indices, FFT!Chunks
  <2>2. size' \in 1..Order /\ FFT!IsPowerOf2(size)' /\ FFT!Indices' = FFT!Indices
    BY <2>0 DEF BasisInv, FFT!IsPowerOf2, FFT!Indices
  <2>. QED  BY <2>0, <2>1, <2>2 DEF BasisInv
<1>. QED  BY <1>1, <1>2, <1>3, <1>4, <1>5 DEF FFT!Next

LEMMA SumsAreSums ==
    ASSUME NEW f
    PROVE  FFT!SumFunction(f) = SumFunction(f)
BY DEF SumFunction, SumFunctionOnSet, FoldFunctionOnSet, MapThenFoldSet,
       FFT!SumFunction, FFT!SumFunctionOnSet, FFT!FoldFunctionOnSet, FFT!MapThenFoldSet

\* What is returned is the basis: the powers of a root of unity are orthogonal.
LEMMA ReturnsBasis == BasisInv => FFT!BasisIsLagrange
<1>0. SUFFICES ASSUME BasisInv, pc = "returned"
               PROVE  \A i, m \in FFT!Indices :
                          SumFunction([k \in FFT!Indices |->
                                          points[i][k] * FFT!power(FFT!omega, (m * k) % size)]) % P
                              = IF i = m THEN 1 ELSE 0
  <2>1. ASSUME NEW f PROVE FFT!SumFunction(f) = SumFunction(f)
    BY SumsAreSums
  <2>. QED  BY <2>1 DEF FFT!BasisIsLagrange
<1> TAKE i, m \in FFT!Indices
<1> DEFINE s == FFT!Inv(size % P)
           v == Powers(size)
           w == Twiddles(size)
           x == Generator(size)
           y == FFT!Inv(Generator(size))
           f == [k \in FFT!Indices |-> points[i][k] * FFT!power(FFT!omega, (m * k) % size)]
<1>1. /\ size \in 1..Order /\ FFT!IsPowerOf2(size)
      /\ points = [j \in FFT!Indices |-> [k \in FFT!Indices |-> (w[j * k] * s) % P]]
  BY <1>0 DEF BasisInv
<1>2. size \in 1..(P - 1) /\ size \in Nat /\ size > 0 /\ P \in Nat \ {0} /\ P > 1
  BY <1>1, RootAssumption, FieldIs
<1>3. RootOfUnity(v, x, w, y, P, size)
  BY <1>1, GeneratorIs
<1>4. s \in Int /\ (size * s) % P = 1
  <2>1. size % P = size
    BY <1>2, SmallRemainder
  <2>2. \E z \in 1..(P - 1) : (size * z) % P = 1
    BY <1>2, FieldAssumption
  <2>3. FFT!Inv(size) \in 1..(P - 1) /\ (size * FFT!Inv(size)) % P = 1
    BY <2>2 DEF FFT!Inv
  <2>. QED  BY <1>2, <2>1, <2>3
<1>5. ASSUME NEW k \in 0..(size - 1)
      PROVE  /\ f[k] = ((w[i * k] * s) % P) * v[(m * k) % size]
             /\ f[k] \in Int
  <2>1. k \in Nat /\ i \in Nat /\ m \in Nat
    BY <1>2 DEF FFT!Indices
  <2>2. m * k \in Nat /\ i * k \in Nat
    BY <2>1
  <2> DEFINE mk == m * k
             ik == i * k
  <2>3. mk \in Nat /\ ik \in Nat
    BY <2>2
  <2> HIDE DEF mk, ik
  <2>4. mk % size \in Nat
    BY <1>2, <2>3
  <2>5. FFT!power(FFT!omega, mk % size) = v[mk % size]
    BY <2>4 DEF Powers, Generator, FFT!omega
  <2>6. points[i][k] = (w[ik] * s) % P
    BY <1>1 DEF FFT!Indices, ik
  <2>7. f[k] = ((w[ik] * s) % P) * v[mk % size]
    <3>1. f[k] = points[i][k] * FFT!power(FFT!omega, mk % size)
      BY DEF FFT!Indices, mk
    <3>. QED  BY <2>5, <2>6, <3>1
  <2> HIDE DEF v, w, x, y, s, f
  <2>8. IsPower(v, x, P) /\ IsPower(w, y, P)
    BY <1>3 DEF RootOfUnity
  <2>9. w[ik] \in Int /\ v[mk % size] \in Int
    <3>1. w[ik] \in 0..(P - 1) /\ v[mk % size] \in 0..(P - 1)
      BY <2>3, <2>4, <2>8 DEF IsPower
    <3>. QED  BY <1>2, <3>1
  <2> DEFINE g == w[ik] * s
  <2>10. g \in Int
    BY <1>4, <2>9
  <2>11. g % P \in Int
    <3> HIDE DEF g
    <3>. QED  BY <1>2, <2>10, Remainder
  <2>12. (g % P) * v[mk % size] \in Int
    <3> HIDE DEF g
    <3>. QED  BY <2>9, <2>11
  <2>. QED  BY <2>7, <2>12 DEF mk, ik
<1>6. f \in [0..(size - 1) -> Int] /\ i \in 0..(size - 1) /\ m \in 0..(size - 1)
  <2>1. f = [k \in 0..(size - 1) |-> f[k]]
    BY DEF FFT!Indices
  <2> HIDE DEF f
  <2>. QED  BY <1>5, <2>1 DEF FFT!Indices
<1> HIDE DEF f, v, w, x, y, s
<1>7. SumFunction(f) % P = IF i = m THEN 1 ELSE 0
  <2>1. IsProductOfPowers(f, v, w, s, P, size, i, m)
    BY <1>5, <1>6 DEF IsProductOfPowers
  <2>. QED  BY <1>3, <1>4, <1>6, <2>1, Orthogonal
<1>. QED  BY <1>7 DEF f

-----------------------------------------------------------------------------
(* Polynomials *)

\* The series of the coefficients.
Coef(p) == [n \in Nat |-> Coefficient(p, n)]

IsPoly(p) == p \in Seq(Field) /\ (p # <<>> => p[Len(p)] # 0)

LEMMA InField == \A x \in Field : x \in Int /\ x \in Nat /\ x % P = x /\ x \in 0..(P - 1)
<1>1. P \in Nat \ {0}
  BY FieldIs
<1>2. \A x \in 0..(P - 1) : x \in Int /\ x \in Nat /\ x % P = x
  BY <1>1, SmallRemainder
<1>. QED  BY <1>2 DEF Field

LEMMA IntoField == \A x \in Int : x % P \in Field
<1>1. P \in Nat \ {0}
  BY FieldIs
<1>. QED  BY <1>1, Remainder DEF Field

LEMMA ZeroInField == 0 \in Field /\ 1 \in Field
BY FieldIs DEF Field

LEMMA CoefIs ==
    ASSUME NEW p \in Seq(Field)
    PROVE  /\ Coef(p) \in Series
           /\ \A n \in Nat : Coef(p)[n] \in Field
           /\ \A n \in Nat : n < Len(p) => Coef(p)[n] = p[n + 1] /\ p[n + 1] \in Field
           /\ \A n \in Nat : ~(n < Len(p)) => Coef(p)[n] = 0
<1>1. ASSUME NEW n \in Nat
      PROVE  /\ n < Len(p) => Coef(p)[n] = p[n + 1] /\ p[n + 1] \in Field
             /\ ~(n < Len(p)) => Coef(p)[n] = 0
  <2>1. n + 1 \in DOMAIN p <=> n < Len(p)
    OBVIOUS
  <2>. QED  BY <2>1 DEF Coef, Coefficient
<1>2. \A n \in Nat : Coef(p)[n] \in Field
  BY <1>1, ZeroInField
<1>3. Coef(p) \in Series
  <2>1. \A n \in Nat : Coef(p)[n] \in Int
    BY <1>2, InField
  <2>. QED  BY <2>1 DEF Coef, Series
<1>. QED  BY <1>1, <1>2, <1>3

LEMMA TakeIs ==
    ASSUME NEW s \in Seq(Field), NEW m \in Nat
    PROVE  /\ Take(s, m) \in Seq(Field)
           /\ Len(Take(s, m)) = IF m < Len(s) THEN m ELSE Len(s)
           /\ \A i \in 1..Len(Take(s, m)) : Take(s, m)[i] = s[i]
           /\ \A n \in Nat : n < m => Coef(Take(s, m))[n] = Coef(s)[n]
           /\ \A n \in Nat : n >= m => Coef(Take(s, m))[n] = 0
<1> DEFINE k == IF m < Len(s) THEN m ELSE Len(s)
           t == Take(s, m)
<1>1. k \in Nat /\ k <= Len(s) /\ k <= m
  OBVIOUS
<1>2. t = SubSeq(s, 1, k)
  BY DEF Take
<1>3. t \in Seq(Field) /\ Len(t) = k /\ \A i \in 1..k : t[i] = s[i]
  <2> HIDE DEF k
  <2>. QED  BY <1>1, <1>2
<1> HIDE DEF t
<1>4. ASSUME NEW n \in Nat, n < m PROVE Coef(t)[n] = Coef(s)[n]
  <2>1. CASE n < Len(s)
    <3>1. n < Len(t) /\ n + 1 \in 1..k
      BY <1>3, <1>4, <2>1
    <3>. QED  BY <1>3, <2>1, <3>1, CoefIs
  <2>2. CASE ~(n < Len(s))
    <3>1. ~(n < Len(t))
      BY <1>3, <2>2
    <3>. QED  BY <1>3, <2>2, <3>1, CoefIs
  <2>. QED  BY <2>1, <2>2
<1>5. ASSUME NEW n \in Nat, n >= m PROVE Coef(t)[n] = 0
  <2>1. ~(n < Len(t))
    BY <1>1, <1>3, <1>5
  <2>. QED  BY <1>3, <2>1, CoefIs
<1>. QED  BY <1>3, <1>4, <1>5 DEF t

LEMMA MaxIs ==
    ASSUME NEW n \in Nat, NEW S \in SUBSET (1..n), S # {}
    PROVE  Max(S) \in S /\ \A x \in S : x <= Max(S)
<1> DEFINE T == {n - x : x \in S}
<1>1. T \in SUBSET Nat /\ T # {}
  <2>1. \A x \in S : n - x \in Nat
    OBVIOUS
  <2>. QED  BY <2>1
<1>2. PICK t \in T : \A u \in T : t <= u
  <2> HIDE DEF T
  <2>. QED  BY <1>1, LeastElement
<1>3. PICK m \in S : t = n - m
  BY <1>2
<1>4. \A x \in S : m >= x
  <2> SUFFICES ASSUME NEW x \in S PROVE m >= x
    OBVIOUS
  <2>1. n - x \in T /\ x \in Nat /\ m \in Nat
    OBVIOUS
  <2>. QED  BY <1>2, <1>3, <2>1
<1>5. Max(S) \in S /\ \A y \in S : Max(S) >= y
  BY <1>4 DEF Max
<1>. QED  BY <1>5

LEMMA PolyIs ==
    ASSUME NEW s \in Seq(Field)
    PROVE  IsPoly(Poly(s)) /\ Coef(Poly(s)) = Coef(s) /\ Len(Poly(s)) <= Len(s)
<1> DEFINE nonzero == {i \in DOMAIN s : s[i] # 0}
           m == Max(nonzero)
<1>0. Len(s) \in Nat /\ DOMAIN s = 1..Len(s)
  OBVIOUS
<1>1. CASE nonzero = {}
  <2>1. Poly(s) = <<>>
    BY <1>1 DEF Poly
  <2>2. <<>> \in Seq(Field) /\ Len(<<>>) = 0
    OBVIOUS
  <2>3. ASSUME NEW n \in Nat PROVE Coef(<<>>)[n] = Coef(s)[n]
    <3>1. Coef(<<>>)[n] = 0
      <4>1. n + 1 \notin DOMAIN <<>>
        OBVIOUS
      <4>. QED  BY <4>1 DEF Coef, Coefficient
    <3>2. CASE n < Len(s)
      <4>1. n + 1 \in DOMAIN s
        BY <3>2
      <4>2. s[n + 1] = 0
        BY <1>1, <4>1
      <4>. QED  BY <3>1, <3>2, <4>2, CoefIs
    <3>3. CASE ~(n < Len(s))
      BY <3>1, <3>3, CoefIs
    <3>. QED  BY <3>2, <3>3
  <2>4. Coef(<<>>) \in Series /\ Coef(s) \in Series
    BY <2>2, CoefIs
  <2>5. Coef(<<>>) = Coef(s)
    BY <2>3, <2>4, SameSeries
  <2>. QED  BY <1>0, <2>1, <2>2, <2>5 DEF IsPoly
<1>2. CASE nonzero # {}
  <2>1. m \in nonzero /\ \A x \in nonzero : x <= m
    <3>1. nonzero \in SUBSET (1..Len(s))
      BY <1>0
    <3> HIDE DEF nonzero
    <3>. QED  BY <1>0, <1>2, <3>1, MaxIs
  <2>2. m \in 1..Len(s) /\ s[m] # 0 /\ m \in Nat
    BY <1>0, <2>1
  <2>3. Poly(s) = Take(s, m)
    BY <1>2 DEF Poly
  <2>4. \A i \in 1..Len(s) : i > m => s[i] = 0
    <3> SUFFICES ASSUME NEW i \in 1..Len(s), i > m PROVE s[i] = 0
      OBVIOUS
    <3>1. ~(i <= m)
      BY <2>2
    <3>. QED  BY <1>0, <2>1, <3>1
  <2> HIDE DEF m
  <2>5. /\ Take(s, m) \in Seq(Field)
        /\ Len(Take(s, m)) = m
        /\ Take(s, m)[m] = s[m]
    <3>1. Take(s, m) \in Seq(Field) /\ Len(Take(s, m)) = (IF m < Len(s) THEN m ELSE Len(s))
          /\ \A i \in 1..Len(Take(s, m)) : Take(s, m)[i] = s[i]
      BY <2>2, TakeIs
    <3>2. Len(Take(s, m)) = m
      BY <2>2, <3>1
    <3>. QED  BY <2>2, <3>1, <3>2
  <2>6. ASSUME NEW n \in Nat PROVE Coef(Take(s, m))[n] = Coef(s)[n]
    <3>1. CASE n < m
      BY <2>2, <3>1, TakeIs
    <3>2. CASE ~(n < m)
      <4>1. Coef(Take(s, m))[n] = 0
        <5>1. n >= m
          BY <2>2, <3>2
        <5>. QED  BY <2>2, <5>1, TakeIs
      <4>2. CASE n < Len(s)
        <5>1. n + 1 \in 1..Len(s) /\ n + 1 > m
          BY <2>2, <3>2, <4>2
        <5>. QED  BY <2>4, <4>1, <4>2, <5>1, CoefIs
      <4>3. CASE ~(n < Len(s))
        BY <4>1, <4>3, CoefIs
      <4>. QED  BY <4>2, <4>3
    <3>. QED  BY <3>1, <3>2
  <2>7. Coef(Take(s, m)) \in Series /\ Coef(s) \in Series
    BY <2>5, CoefIs
  <2>8. Coef(Take(s, m)) = Coef(s)
    BY <2>6, <2>7, SameSeries
  <2>. QED  BY <2>2, <2>3, <2>5, <2>8 DEF IsPoly
<1>. QED  BY <1>1, <1>2

\* Polynomials with the same coefficients are one sequence.
LEMMA SamePoly ==
    ASSUME NEW p, IsPoly(p), NEW s, IsPoly(s), \A n \in Nat : Coef(p)[n] = Coef(s)[n]
    PROVE  p = s
<1>1. ASSUME NEW u, IsPoly(u), NEW v, IsPoly(v), Len(u) < Len(v),
             \A n \in Nat : Coef(u)[n] = Coef(v)[n]
      PROVE  FALSE
  <2>1. u \in Seq(Field) /\ v \in Seq(Field) /\ Len(u) \in Nat /\ Len(v) \in Nat
    BY <1>1 DEF IsPoly
  <2>2. Len(v) - 1 \in Nat /\ Len(v) - 1 < Len(v) /\ ~(Len(v) - 1 < Len(u))
        /\ (Len(v) - 1) + 1 = Len(v)
    BY <1>1, <2>1
  <2>3. v # <<>>
    BY <1>1, <2>1
  <2>4. v[Len(v)] # 0
    BY <1>1, <2>3 DEF IsPoly
  <2>5. Coef(v)[Len(v) - 1] = v[Len(v)]
    BY <2>1, <2>2, CoefIs
  <2>6. Coef(u)[Len(v) - 1] = 0
    BY <2>1, <2>2, CoefIs
  <2>. QED  BY <1>1, <2>2, <2>4, <2>5, <2>6
<1>2. p \in Seq(Field) /\ s \in Seq(Field) /\ Len(p) \in Nat /\ Len(s) \in Nat
  BY DEF IsPoly
<1>3. Len(p) = Len(s)
  <2>1. ~(Len(p) < Len(s)) /\ ~(Len(s) < Len(p))
    BY <1>1
  <2>. QED  BY <1>2, <2>1
<1>4. ASSUME NEW i \in 1..Len(p) PROVE p[i] = s[i]
  <2>1. i - 1 \in Nat /\ i - 1 < Len(p) /\ (i - 1) + 1 = i
    BY <1>2
  <2>. QED  BY <1>2, <1>3, <2>1, CoefIs
<1>. QED  BY <1>2, <1>3, <1>4

LEMMA PolyIsSeq == \A p : IsPoly(p) => p \in Seq(Field)
BY DEF IsPoly

\* s lists the terms of f, which are zero after the k-th.
IsTerms(s, f, k) ==
    /\ k \in Nat /\ DOMAIN s = 1..k /\ s = [i \in 1..k |-> s[i]]
    /\ \A i \in 1..k : s[i] = f[i - 1]
    /\ \A n \in Nat : f[n] \in Field
    /\ \A n \in Nat : n >= k => f[n] = 0

LEMMA PolyOfTerms ==
    ASSUME NEW k, NEW s, NEW f, IsTerms(s, f, k)
    PROVE  IsPoly(Poly(s)) /\ (\A n \in Nat : Coef(Poly(s))[n] = f[n]) /\ Len(Poly(s)) <= k
<1>0. /\ k \in Nat /\ DOMAIN s = 1..k /\ s = [i \in 1..k |-> s[i]]
      /\ \A i \in 1..k : s[i] = f[i - 1]
      /\ \A n \in Nat : f[n] \in Field
      /\ \A n \in Nat : n >= k => f[n] = 0
  BY DEF IsTerms
<1>1. \A i \in 1..k : s[i] \in Field
  <2> SUFFICES ASSUME NEW i \in 1..k PROVE s[i] \in Field
    OBVIOUS
  <2>1. i - 1 \in Nat
    BY <1>0
  <2>. QED  BY <1>0, <2>1
<1>2. s \in Seq(Field) /\ Len(s) = k
  <2>1. s \in [1..k -> Field]
    BY <1>0, <1>1
  <2>. QED  BY <1>0, <2>1
<1>3. IsPoly(Poly(s)) /\ Coef(Poly(s)) = Coef(s) /\ Len(Poly(s)) <= Len(s)
  BY <1>2, PolyIs
<1>4. ASSUME NEW n \in Nat PROVE Coef(s)[n] = f[n]
  <2>1. CASE n < k
    <3>1. n + 1 \in 1..k /\ (n + 1) - 1 = n
      BY <1>0, <2>1
    <3>2. s[n + 1] = f[(n + 1) - 1]
      BY <1>0, <3>1
    <3>. QED  BY <1>2, <2>1, <3>1, <3>2, CoefIs
  <2>2. CASE ~(n < k)
    <3>1. n >= k
      BY <1>0, <2>2
    <3>. QED  BY <1>0, <1>2, <2>2, <3>1, CoefIs
  <2>. QED  BY <2>1, <2>2
<1>. QED  BY <1>2, <1>3, <1>4

LEMMA PlusPoly ==
    ASSUME NEW p \in Seq(Field), NEW s \in Seq(Field)
    PROVE  IsPoly(Plus(p, s)) /\ \A n \in Nat : Coef(Plus(p, s))[n] = (Coef(p)[n] + Coef(s)[n]) % P
<1> DEFINE k == Len(p) + Len(s)
           t == [i \in 1..k |-> (Coefficient(p, i - 1) + Coefficient(s, i - 1)) % P]
           f == [n \in Nat |-> (Coef(p)[n] + Coef(s)[n]) % P]
<1>1. k \in Nat /\ Len(p) \in Nat /\ Len(s) \in Nat
  OBVIOUS
<1>2. \A n \in Nat : Coef(p)[n] \in Int /\ Coef(s)[n] \in Int
  BY CoefIs, InField
<1>3. \A n \in Nat : f[n] \in Field
  BY <1>2, IntoField
<1>4. \A i \in 1..k : t[i] = f[i - 1]
  <2> SUFFICES ASSUME NEW i \in 1..k PROVE t[i] = f[i - 1]
    OBVIOUS
  <2>1. i - 1 \in Nat
    OBVIOUS
  <2>. QED  BY <2>1 DEF Coef
<1>5. \A n \in Nat : n >= k => f[n] = 0
  <2> SUFFICES ASSUME NEW n \in Nat, n >= k PROVE f[n] = 0
    OBVIOUS
  <2>1. ~(n < Len(p)) /\ ~(n < Len(s))
    BY <1>1
  <2>2. Coef(p)[n] = 0 /\ Coef(s)[n] = 0
    BY <2>1, CoefIs
  <2>3. (0 + 0) % P = 0
    BY ZeroInField, InField
  <2>. QED  BY <2>2, <2>3
<1>6. Plus(p, s) = Poly(t)
  BY DEF Plus
<1>7. DOMAIN t = 1..k /\ t = [i \in 1..k |-> t[i]]
  OBVIOUS
<1> HIDE DEF k, t
<1>8. IsPoly(Poly(t)) /\ \A n \in Nat : Coef(Poly(t))[n] = f[n]
  <2> HIDE DEF f
  <2>1. IsTerms(t, f, k)
    BY <1>1, <1>3, <1>4, <1>5, <1>7 DEF IsTerms
  <2>. QED  BY <2>1, PolyOfTerms
<1>. QED  BY <1>6, <1>8

LEMMA ScalePoly ==
    ASSUME NEW p \in Seq(Field), NEW x \in Int
    PROVE  IsPoly(Scale(p, x)) /\ \A n \in Nat : Coef(Scale(p, x))[n] = (Coef(p)[n] * x) % P
<1> DEFINE k == Len(p)
           t == [i \in DOMAIN p |-> (p[i] * x) % P]
           f == [n \in Nat |-> (Coef(p)[n] * x) % P]
<1>1. k \in Nat /\ DOMAIN p = 1..k
  OBVIOUS
<1>2. \A n \in Nat : Coef(p)[n] \in Int
  BY CoefIs, InField
<1>3. \A n \in Nat : f[n] \in Field
  <2> SUFFICES ASSUME NEW n \in Nat PROVE f[n] \in Field
    OBVIOUS
  <2>1. Coef(p)[n] * x \in Int
    BY <1>2
  <2>. QED  BY <2>1, IntoField
<1>4. \A i \in 1..k : t[i] = f[i - 1]
  <2> SUFFICES ASSUME NEW i \in 1..k PROVE t[i] = f[i - 1]
    OBVIOUS
  <2>1. i - 1 \in Nat /\ i - 1 < Len(p) /\ (i - 1) + 1 = i
    BY <1>1
  <2>2. Coef(p)[i - 1] = p[i]
    BY <2>1, CoefIs
  <2>. QED  BY <1>1, <2>1, <2>2
<1>5. \A n \in Nat : n >= k => f[n] = 0
  <2> SUFFICES ASSUME NEW n \in Nat, n >= k PROVE f[n] = 0
    OBVIOUS
  <2>1. ~(n < Len(p))
    BY <1>1
  <2>2. Coef(p)[n] = 0
    BY <2>1, CoefIs
  <2>3. (0 * x) % P = 0
    BY ZeroInField, InField
  <2>. QED  BY <2>2, <2>3
<1>6. Scale(p, x) = Poly(t)
  BY DEF Scale
<1>7. DOMAIN t = 1..k /\ t = [i \in 1..k |-> t[i]]
  BY <1>1
<1> HIDE DEF k, t
<1>8. IsPoly(Poly(t)) /\ \A n \in Nat : Coef(Poly(t))[n] = f[n]
  <2> HIDE DEF f
  <2>1. IsTerms(t, f, k)
    BY <1>1, <1>3, <1>4, <1>5, <1>7 DEF IsTerms
  <2>. QED  BY <2>1, PolyOfTerms
<1>. QED  BY <1>6, <1>8

LEMMA MinusPoly ==
    ASSUME NEW p \in Seq(Field), NEW s \in Seq(Field)
    PROVE  IsPoly(Minus(p, s))
           /\ \A n \in Nat : Coef(Minus(p, s))[n] = (Coef(p)[n] - Coef(s)[n]) % P
<1> DEFINE t == Scale(s, P - 1)
<1>1. P - 1 \in Int /\ P \in Nat /\ P > 1 /\ P \in Nat \ {0}
  BY FieldIs
<1>2. IsPoly(t) /\ \A n \in Nat : Coef(t)[n] = (Coef(s)[n] * (P - 1)) % P
  BY <1>1, ScalePoly
<1>3. Minus(p, s) = Plus(p, t)
  BY DEF Minus
<1> HIDE DEF t
<1>4. IsPoly(Plus(p, t)) /\ \A n \in Nat : Coef(Plus(p, t))[n] = (Coef(p)[n] + Coef(t)[n]) % P
  BY <1>2, PolyIsSeq, PlusPoly
<1>5. ASSUME NEW n \in Nat PROVE (Coef(p)[n] + Coef(t)[n]) % P = (Coef(p)[n] - Coef(s)[n]) % P
  <2> DEFINE x == Coef(p)[n]
             y == Coef(s)[n]
  <2>1. x \in Int /\ y \in Int
    BY CoefIs, InField
  <2>2. Coef(t)[n] = (y * (P - 1)) % P
    BY <1>2
  <2> HIDE DEF x, y
  <2>3. (y * (P - 1)) % P = (-y) % P
    BY <1>1, <2>1, MinusOne
  <2>4. (((-y) % P) + x) % P = ((-y) + x) % P
    <3> DEFINE z == -y
    <3>1. z \in Int
      BY <2>1
    <3> HIDE DEF z
    <3>2. ((z % P) + x) % P = (z + x) % P
      BY <1>1, <2>1, <3>1, ModPlus
    <3>. QED  BY <3>2 DEF z
  <2>5. (-y) % P \in Int /\ (-y) + x = x - y
    BY <1>1, <2>1
  <2>6. x + ((-y) % P) = ((-y) % P) + x
    BY <2>1, <2>5
  <2>7. (x + Coef(t)[n]) % P = (x - y) % P
    BY <2>2, <2>3, <2>4, <2>5, <2>6
  <2>. QED  BY <2>7 DEF x, y
<1>. QED  BY <1>3, <1>4, <1>5

LEMMA ProductTerms ==
    \A f, g \in Series : \A n \in Nat : Product(f, g)[n] \in Int /\ Product(f, g)[n] % P \in Field
<1> SUFFICES ASSUME NEW f \in Series, NEW g \in Series, NEW n \in Nat
             PROVE  Product(f, g)[n] \in Int /\ Product(f, g)[n] % P \in Field
  OBVIOUS
<1>1. Product(f, g)[n] \in Int
  BY ProductIs
<1>. QED  BY <1>1, IntoField

\* The sums that Times makes for the k-th coefficient.
IsTimesSum(w, p, s, k) ==
    w = CHOOSE g : g = [i \in 0..Len(p) |->
            IF i = 0 THEN 0 ELSE g[i - 1] + p[i] * Coefficient(s, k - i)]

LEMMA TimesSum ==
    ASSUME NEW p \in Seq(Field), NEW s \in Seq(Field), NEW k \in Nat \ {0}, NEW w,
           IsTimesSum(w, p, s, k)
    PROVE  w[Len(p)] = Product(Coef(p), Coef(s))[k - 1]
<1> DEFINE n == Len(p)
           u == [i \in 1..n |-> p[i] * Coefficient(s, k - i)]
           f == Coef(p)
           h == Coef(s)
<1>1. n \in Nat /\ DOMAIN p = 1..n /\ k - 1 \in Nat
  OBVIOUS
<1>2. f \in Series /\ h \in Series
  BY CoefIs
<1>3. ASSUME NEW i \in 1..n
      PROVE  /\ i - 1 \in Nat /\ p[i] = f[i - 1] /\ p[i] \in Int
             /\ Coefficient(s, k - i) = IF k - 1 < i - 1 THEN 0 ELSE h[(k - 1) - (i - 1)]
             /\ Coefficient(s, k - i) \in Int
  <2>1. i - 1 \in Nat /\ i - 1 < n /\ (i - 1) + 1 = i /\ (k - 1) - (i - 1) = k - i
    BY <1>1
  <2>2. p[i] = f[i - 1] /\ p[i] \in Int
    BY <2>1, CoefIs, InField
  <2>3. CASE k - 1 < i - 1
    <3>1. (k - i) + 1 \notin 1..Len(s)
      BY <1>1, <2>3
    <3>2. DOMAIN s = 1..Len(s)
      OBVIOUS
    <3>3. Coefficient(s, k - i) = 0
      BY <3>1, <3>2 DEF Coefficient
    <3>. QED  BY <2>1, <2>2, <2>3, <3>3
  <2>4. CASE ~(k - 1 < i - 1)
    <3>1. k - i \in Nat
      BY <1>1, <2>4
    <3>2. h[k - i] = Coefficient(s, k - i) /\ h[k - i] \in Int
      BY <3>1, CoefIs, InField DEF Coef
    <3>. QED  BY <2>1, <2>2, <2>4, <3>2
  <2>. QED  BY <2>3, <2>4
<1>4. u \in [1..n -> Int]
  <2> SUFFICES ASSUME NEW i \in 1..n PROVE p[i] * Coefficient(s, k - i) \in Int
    OBVIOUS
  <2> DEFINE x == p[i]
             y == Coefficient(s, k - i)
  <2>1. x \in Int /\ y \in Int
    BY <1>3
  <2> HIDE DEF x, y
  <2>2. x * y \in Int
    BY <2>1
  <2>. QED  BY <2>2 DEF x, y
<1> HIDE DEF n, f, h
<1>5. PICK v \in [0..n -> Int] : v = [i \in 0..n |-> IF i = 0 THEN 0 ELSE v[i - 1] + u[i]]
  <2> HIDE DEF u
  <2>. QED  BY <1>1, <1>4, RunningSum
<1>6. v = [i \in 0..n |-> IF i = 0 THEN 0 ELSE v[i - 1] + p[i] * Coefficient(s, k - i)]
  <2>1. \A i \in 0..n : i # 0 => i \in 1..n
    OBVIOUS
  <2>. QED  BY <1>5, <2>1
<1>7. w = [i \in 0..n |-> IF i = 0 THEN 0 ELSE w[i - 1] + p[i] * Coefficient(s, k - i)]
  BY <1>6 DEF n, IsTimesSum
<1>8. AddsProducts(w, f, h, k - 1, n)
  <2>1. w[0] = 0
    <3>1. 0 \in 0..n
      BY <1>1
    <3>. QED  BY <1>7, <3>1
  <2>2. ASSUME NEW i \in 0..(n - 1)
        PROVE  w[i + 1] = w[i] + f[i] * (IF k - 1 < i THEN 0 ELSE h[(k - 1) - i])
    <3>1. i + 1 \in 1..n /\ i + 1 \in 0..n /\ i + 1 # 0 /\ (i + 1) - 1 = i
      BY <1>1
    <3>2. w[i + 1] = w[i] + p[i + 1] * Coefficient(s, k - (i + 1))
      BY <1>7, <3>1
    <3> DEFINE j == i + 1
    <3> HIDE DEF j
    <3>3. p[j] = f[j - 1]
          /\ Coefficient(s, k - j) = IF k - 1 < j - 1 THEN 0 ELSE h[(k - 1) - (j - 1)]
      BY <1>3, <3>1 DEF j
    <3>4. j - 1 = i
      BY <3>1 DEF j
    <3>. QED  BY <3>2, <3>3, <3>4 DEF j
  <2>3. \A m \in Nat : m >= n => f[m] = 0
    <3> SUFFICES ASSUME NEW m \in Nat, m >= n PROVE f[m] = 0
      OBVIOUS
    <3>1. ~(m < Len(p))
      BY <1>1 DEF n
    <3>. QED  BY <3>1, CoefIs DEF f
  <2>. QED  BY <1>1, <2>1, <2>2, <2>3 DEF AddsProducts
<1>9. w[n] = Product(f, h)[k - 1]
  BY <1>2, <1>8, ProductByTerms
<1>. QED  BY <1>9 DEF n, f, h

LEMMA CoefBounded ==
    ASSUME NEW p \in Seq(Field), p # <<>>
    PROVE  Len(p) - 1 \in Nat /\ Bounded(Coef(p), Len(p) - 1)
<1>1. Len(p) \in Nat /\ Len(p) # 0
  OBVIOUS
<1>2. Len(p) - 1 \in Nat
  BY <1>1
<1>3. ASSUME NEW n \in Nat, n > Len(p) - 1 PROVE Coef(p)[n] = 0
  <2>1. ~(n < Len(p))
    BY <1>1, <1>3
  <2>. QED  BY <2>1, CoefIs
<1>. QED  BY <1>2, <1>3 DEF Bounded

LEMMA TimesPoly ==
    ASSUME NEW p \in Seq(Field), NEW s \in Seq(Field)
    PROVE  /\ IsPoly(Times(p, s))
           /\ \A n \in Nat : Coef(Times(p, s))[n] = Product(Coef(p), Coef(s))[n] % P
<1> DEFINE W(k) == CHOOSE g : g = [i \in 0..Len(p) |->
                       IF i = 0 THEN 0 ELSE g[i - 1] + p[i] * Coefficient(s, k - i)]
           m == Len(p) + Len(s)
           t == [k \in 1..m |-> W(k)[Len(p)] % P]
           f == [n \in Nat |-> Product(Coef(p), Coef(s))[n] % P]
<1>0. m \in Nat /\ Coef(p) \in Series /\ Coef(s) \in Series
  BY CoefIs
<1>1. Times(p, s) = Poly(t)
  BY DEF Times
<1>2. ASSUME NEW k \in 1..m PROVE t[k] = f[k - 1]
  <2>1. k \in Nat \ {0} /\ k - 1 \in Nat
    OBVIOUS
  <2> HIDE DEF W
  <2>2. W(k)[Len(p)] = Product(Coef(p), Coef(s))[k - 1]
    <3>1. IsTimesSum(W(k), p, s, k)
      BY DEF IsTimesSum, W
    <3>. QED  BY <2>1, <3>1, TimesSum
  <2>. QED  BY <2>1, <2>2
<1>3. \A n \in Nat : f[n] \in Field
  BY <1>0, ProductTerms
<1>4. ASSUME NEW n \in Nat, n >= m PROVE f[n] = 0
  <2>1. Product(Coef(p), Coef(s))[n] = 0
    <3>1. CASE p = <<>>
      <4>1. Coef(p) = Zero
        <5>1. \A i \in Nat : i + 1 \notin DOMAIN p
          BY <3>1
        <5>. QED  BY <5>1 DEF Coef, Coefficient, Zero
      <4>. QED  BY <1>0, <4>1, ProductOfZero
    <3>2. CASE s = <<>>
      <4>1. Coef(s) = Zero
        <5>1. \A i \in Nat : i + 1 \notin DOMAIN s
          BY <3>2
        <5>. QED  BY <5>1 DEF Coef, Coefficient, Zero
      <4>2. Product(Coef(p), Zero) = Product(Zero, Coef(p))
        BY <1>0, ZeroIs, ProductCommutes
      <4>. QED  BY <1>0, <4>1, <4>2, ProductOfZero
    <3>3. CASE p # <<>> /\ s # <<>>
      <4>1. /\ Len(p) - 1 \in Nat /\ Bounded(Coef(p), Len(p) - 1)
            /\ Len(s) - 1 \in Nat /\ Bounded(Coef(s), Len(s) - 1)
        BY <3>3, CoefBounded
      <4>2. Bounded(Product(Coef(p), Coef(s)), (Len(p) - 1) + (Len(s) - 1))
        BY <1>0, <4>1, ProductBounded
      <4>3. n > (Len(p) - 1) + (Len(s) - 1)
        BY <1>4, <4>1
      <4>. QED  BY <4>2, <4>3 DEF Bounded
    <3>. QED  BY <3>1, <3>2, <3>3
  <2>2. 0 % P = 0
    BY ZeroInField, InField
  <2>. QED  BY <2>1, <2>2
<1>5. DOMAIN t = 1..m /\ t = [k \in 1..m |-> t[k]]
  OBVIOUS
<1> HIDE DEF t, m
<1>6. IsPoly(Poly(t)) /\ \A n \in Nat : Coef(Poly(t))[n] = f[n]
  <2> HIDE DEF f
  <2>1. IsTerms(t, f, m)
    BY <1>0, <1>2, <1>3, <1>4, <1>5 DEF IsTerms
  <2>. QED  BY <2>1, PolyOfTerms
<1>. QED  BY <1>1, <1>6

LEMMA TimesLength ==
    ASSUME NEW p, IsPoly(p), p # <<>>, NEW s, IsPoly(s), s # <<>>
    PROVE  Len(Times(p, s)) = Len(p) + Len(s) - 1 /\ Times(p, s) # <<>>
<1> DEFINE m == Len(p) - 1
           k == Len(s) - 1
           t == Times(p, s)
           f == Coef(p)
           g == Coef(s)
<1>1. p \in Seq(Field) /\ s \in Seq(Field)
  BY DEF IsPoly
<1>2. /\ m \in Nat /\ Bounded(f, m) /\ f \in Series
      /\ k \in Nat /\ Bounded(g, k) /\ g \in Series
  BY <1>1, CoefBounded, CoefIs
<1>3. /\ f[m] # 0 /\ f[m] \in Field
      /\ g[k] # 0 /\ g[k] \in Field
  <2>1. m < Len(p) /\ m + 1 = Len(p) /\ k < Len(s) /\ k + 1 = Len(s)
    BY <1>1
  <2>2. f[m] = p[Len(p)] /\ g[k] = s[Len(s)]
    BY <1>1, <1>2, <2>1, CoefIs
  <2>. QED  BY <1>1, <1>2, <2>2, CoefIs DEF IsPoly
<1>4. IsPoly(t) /\ \A n \in Nat : Coef(t)[n] = Product(f, g)[n] % P
  BY <1>1, TimesPoly
<1>5. t \in Seq(Field) /\ Len(t) \in Nat
  BY <1>4 DEF IsPoly
<1>6. Len(p) + Len(s) - 1 = (m + k) + 1 /\ m + k \in Nat
  BY <1>1, <1>2
<1> HIDE DEF m, k, t, f, g
<1>7. Coef(t)[m + k] # 0
  <2>1. Product(f, g)[m + k] = f[m] * g[k]
    BY <1>2, LeadingTerm
  <2> DEFINE x == f[m]
             y == g[k]
  <2>2. x \in Int /\ y \in Int /\ x % P # 0 /\ y % P # 0
    BY <1>3, InField
  <2> HIDE DEF x, y
  <2>3. (x * y) % P # 0
    BY <2>2, FieldIs, NoZeroDivisors
  <2>. QED  BY <1>4, <1>6, <2>1, <2>3 DEF x, y
<1>8. \A n \in Nat : n > m + k => Coef(t)[n] = 0
  <2>1. Bounded(Product(f, g), m + k)
    BY <1>2, ProductBounded
  <2>2. 0 % P = 0
    BY ZeroInField, InField
  <2>. QED  BY <1>4, <2>1, <2>2 DEF Bounded
<1>9. m + k < Len(t)
  BY <1>5, <1>6, <1>7, CoefIs
<1>10. t # <<>>
  BY <1>6, <1>9
<1>11. Len(t) = (m + k) + 1
  <2>1. Len(t) - 1 \in Nat /\ Len(t) - 1 < Len(t) /\ (Len(t) - 1) + 1 = Len(t)
    BY <1>5, <1>6, <1>9
  <2>2. Coef(t)[Len(t) - 1] = t[Len(t)]
    BY <1>5, <2>1, CoefIs
  <2>3. t[Len(t)] # 0
    BY <1>4, <1>10 DEF IsPoly
  <2>4. ~(Len(t) - 1 > m + k)
    BY <1>8, <2>1, <2>2, <2>3
  <2>. QED  BY <1>5, <1>6, <1>9, <2>4
<1>. QED  BY <1>6, <1>10, <1>11 DEF t

LEMMA RemainderOne ==
    1 % P = 1 /\ 0 % P = 0 /\ \A n \in Nat : One[n] \in Field /\ One[n] % P = One[n]
<1>1. \A n \in Nat : One[n] = 1 \/ One[n] = 0
  BY DEF One
<1>. QED  BY <1>1, ZeroInField, InField

LEMMA OnePoly == IsPoly(<<1>>) /\ \A n \in Nat : Coef(<<1>>)[n] = One[n]
<1>1. <<1>> \in Seq(Field) /\ Len(<<1>>) = 1
  BY ZeroInField
<1>2. ASSUME NEW n \in Nat PROVE Coef(<<1>>)[n] = One[n]
  <2>1. CASE n = 0
    <3>1. 0 + 1 \in DOMAIN <<1>>
      OBVIOUS
    <3>. QED  BY <2>1, <3>1 DEF Coef, Coefficient, One
  <2>2. CASE n # 0
    <3>1. n + 1 \notin DOMAIN <<1>>
      BY <2>2
    <3>. QED  BY <2>2, <3>1 DEF Coef, Coefficient, One
  <2>. QED  BY <2>1, <2>2
<1>. QED  BY <1>1, <1>2 DEF IsPoly

LEMMA EmptyPoly == IsPoly(<<>>) /\ \A n \in Nat : Coef(<<>>)[n] = 0
<1>1. \A n \in Nat : n + 1 \notin DOMAIN <<>>
  OBVIOUS
<1>2. <<>> \in Seq(Field)
  OBVIOUS
<1>. QED  BY <1>1, <1>2 DEF IsPoly, Coef, Coefficient

-----------------------------------------------------------------------------
(* Inverses *)

\* f times g is one, below X^m.
InverseUpTo(f, g, m) == \A n \in Nat : n < m => Product(f, g)[n] % P = One[n]

LEMMA InverseNotEmpty ==
    ASSUME NEW p \in Seq(Field), NEW g \in Series, NEW m \in Nat \ {0}, InverseUpTo(Coef(p), g, m)
    PROVE  Coef(p)[0] # 0 /\ p # <<>>
<1> DEFINE f == Coef(p)
<1>1. f \in Series /\ 0 < m
  BY CoefIs
<1>2. Product(f, g)[0] % P = 1
  BY <1>1 DEF InverseUpTo, One
<1>3. Product(f, g)[0] = f[0] * g[0] /\ g[0] \in Int
  BY <1>1, ProductIs, TermIs
<1>4. f[0] # 0
  <2>1. 0 * g[0] = 0
    BY <1>3
  <2>. QED  BY <1>2, <1>3, <2>1, RemainderOne
<1>. QED  BY <1>4, EmptyPoly

\* What an inverse times a multiple of g is.
LEMMA InverseCancels ==
    ASSUME NEW f \in Series, NEW g \in Series, NEW h \in Series, NEW m \in Nat,
           InverseUpTo(f, g, m),
           NEW k \in Series, \A n \in Nat : k[n] % P = Product(g, h)[n] % P
    PROVE  \A n \in Nat : n < m => Product(f, k)[n] % P = h[n] % P
<1> SUFFICES ASSUME NEW n \in Nat, n < m PROVE Product(f, k)[n] % P = h[n] % P
  OBVIOUS
<1> DEFINE fg == Product(f, g)
           gh == Product(g, h)
<1>1. fg \in Series /\ gh \in Series /\ P \in Nat \ {0}
  BY ProductIs, FieldIs
<1>2. Congruent(k, gh, P, n) /\ Congruent(f, f, P, n) /\ Congruent(h, h, P, n)
  BY DEF Congruent
<1>3. Product(f, k)[n] % P = Product(f, gh)[n] % P
  BY <1>1, <1>2, ProductCongruent
<1>4. Product(f, gh) = Product(fg, h)
  BY ProductAssociates
<1>5. Congruent(fg, One, P, n)
  <2>1. ASSUME NEW i \in 0..n PROVE fg[i] % P = One[i] % P
    <3>1. i \in Nat /\ i < m
      BY <2>1
    <3>. QED  BY <3>1, RemainderOne DEF InverseUpTo
  <2>. QED  BY <2>1 DEF Congruent
<1>6. Product(fg, h)[n] % P = Product(One, h)[n] % P
  BY <1>1, <1>2, <1>5, OneIs, ProductCongruent
<1>7. Product(One, h) = h
  BY ProductOfOne
<1>. QED  BY <1>3, <1>4, <1>6, <1>7

\* new is one step of Hensel lifting away from f, an inverse of g modulo X^d: above it there is
\* what f and c make, where c is what the product of f and g has above X^d.
Lifted(new, f, g, c, d) ==
    /\ d \in Nat \ {0}
    /\ new \in Series /\ f \in Series /\ g \in Series /\ c \in Series
    /\ InverseUpTo(f, g, d)
    /\ \A n \in Nat : n >= d => f[n] = 0
    /\ \A n \in Nat : n < d => new[n] = f[n]
    /\ \A n \in Nat : n < d => c[n] % P = Product(f, g)[n + d] % P
    /\ \A n \in Nat : n < d => new[n + d] % P = (-Product(f, c)[n]) % P

LEMMA Lifting ==
    ASSUME NEW new, NEW f, NEW g, NEW c, NEW d, Lifted(new, f, g, c, d)
    PROVE  InverseUpTo(new, g, 2 * d)
<1>0. /\ d \in Nat \ {0}
      /\ new \in Series /\ f \in Series /\ g \in Series /\ c \in Series
      /\ InverseUpTo(f, g, d)
      /\ \A n \in Nat : n >= d => f[n] = 0
      /\ \A n \in Nat : n < d => new[n] = f[n]
      /\ \A n \in Nat : n < d => c[n] % P = Product(f, g)[n + d] % P
      /\ \A n \in Nat : n < d => new[n + d] % P = (-Product(f, c)[n]) % P
  BY DEF Lifted
<1> DEFINE w  == [n \in Nat |-> new[n + d]]
           sh == Shift(w, d)
           h  == Product(f, g)
           wg == Product(w, g)
<1>1. P \in Nat \ {0} /\ h \in Series
  BY <1>0, FieldIs, ProductIs
<1>2. w \in Series
  <2>1. \A n \in Nat : new[n + d] \in Int
    <3>1. \A n \in Nat : n + d \in Nat
      BY <1>0
    <3>. QED  BY <1>0, <3>1, TermIs
  <2>. QED  BY <2>1 DEF Series
<1>3. \A n \in Nat : w[n] = new[n + d]
  OBVIOUS
<1> HIDE DEF w
<1>4. sh \in Series /\ wg \in Series
  BY <1>0, <1>2, ShiftIs, ProductIs
<1>5. new = PlusSeries(f, sh)
  <2>1. PlusSeries(f, sh) \in Series /\ \A n \in Nat : PlusSeries(f, sh)[n] = f[n] + sh[n]
    BY <1>0, <1>4, PlusIs
  <2>2. ASSUME NEW n \in Nat PROVE new[n] = PlusSeries(f, sh)[n]
    <3>0. f[n] \in Int /\ new[n] \in Int
      BY <1>0, TermIs
    <3>1. CASE n < d
      <4>1. sh[n] = 0
        BY <3>1 DEF Shift
      <4>. QED  BY <1>0, <2>1, <3>0, <3>1, <4>1
    <3>2. CASE ~(n < d)
      <4>1. n >= d /\ n - d \in Nat /\ (n - d) + d = n
        BY <1>0, <3>2
      <4>2. sh[n] = w[n - d]
        BY <3>2 DEF Shift
      <4>3. w[n - d] = new[n]
        BY <1>3, <4>1
      <4>4. 0 + new[n] = new[n]
        BY <3>0
      <4>. QED  BY <1>0, <2>1, <4>1, <4>2, <4>3, <4>4
    <3>. QED  BY <3>1, <3>2
  <2>. QED  BY <1>0, <2>1, <2>2, SameSeries
<1>6. Product(sh, g) = Shift(wg, d)
  BY <1>0, <1>2, ProductOfShift
<1> HIDE DEF sh, h, wg
<1>7. \A n \in Nat : Product(new, g)[n] = h[n] + Shift(wg, d)[n]
  <2>1. \A n \in Nat : Product(PlusSeries(f, sh), g)[n] = Product(f, g)[n] + Product(sh, g)[n]
    BY <1>0, <1>4, ProductOfSum
  <2>. QED  BY <1>5, <1>6, <2>1 DEF h
<1>8. ASSUME NEW m \in Nat, m < d PROVE wg[m] % P = (-c[m]) % P
  <2>0. PICK e \in Int : e = -1
    OBVIOUS
  <2> DEFINE fc == Product(f, c)
             v  == ScaleSeries(e, fc)
  <2>1. fc \in Series
    BY <1>0, ProductIs
  <2>2. v \in Series /\ \A n \in Nat : v[n] = e * fc[n]
    BY <2>1, ScaleIs
  <2>3. Congruent(w, v, P, m)
    <3>1. ASSUME NEW i \in 0..m PROVE w[i] % P = v[i] % P
      <4>1. i \in Nat /\ i < d
        BY <1>0, <1>8
      <4>2. new[i + d] % P = (-fc[i]) % P
        BY <1>0, <4>1
      <4>3. fc[i] \in Int
        BY <2>1, <4>1, TermIs
      <4>4. e * fc[i] = -fc[i]
        BY <2>0, <4>3
      <4>. QED  BY <1>3, <2>2, <4>1, <4>2, <4>4
    <3>. QED  BY <3>1 DEF Congruent
  <2> HIDE DEF v
  <2>4. Congruent(g, g, P, m)
    BY DEF Congruent
  <2>5. wg[m] % P = Product(v, g)[m] % P
    BY <1>0, <1>1, <1>2, <2>2, <2>3, <2>4, ProductCongruent DEF wg
  <2>6. Product(v, g)[m] = e * Product(fc, g)[m]
    <3> HIDE DEF fc
    <3>. QED  BY <1>0, <2>1, ProductOfScaled DEF v
  <2>7. Product(fc, g) = Product(h, c)
    <3>1. fc = Product(c, f)
      BY <1>0, ProductCommutes
    <3>2. Product(Product(c, f), g) = Product(c, h)
      BY <1>0, ProductAssociates DEF h
    <3>3. Product(c, h) = Product(h, c)
      BY <1>0, <1>1, ProductCommutes
    <3>. QED  BY <3>1, <3>2, <3>3
  <2>8. Product(h, c)[m] % P = c[m] % P
    <3>1. Congruent(h, One, P, m)
      <4>1. ASSUME NEW i \in 0..m PROVE h[i] % P = One[i] % P
        <5>1. i \in Nat /\ i < d
          BY <1>0, <1>8
        <5>. QED  BY <1>0, <5>1, RemainderOne DEF InverseUpTo, h
      <4>. QED  BY <4>1 DEF Congruent
    <3>2. Congruent(c, c, P, m)
      BY DEF Congruent
    <3>3. Product(h, c)[m] % P = Product(One, c)[m] % P
      BY <1>0, <1>1, <3>1, <3>2, OneIs, ProductCongruent
    <3>. QED  BY <1>0, <3>3, ProductOfOne
  <2>9. (e * Product(h, c)[m]) % P = (e * c[m]) % P
    <3> DEFINE x == Product(h, c)[m]
               y == c[m]
    <3>1. x \in Int /\ y \in Int /\ SameMod(x, y, P)
      BY <1>0, <1>1, <2>8, ProductIs, TermIs DEF SameMod
    <3> HIDE DEF x, y
    <3>2. SameMod(e, e, P)
      BY DEF SameMod
    <3>3. SameMod(e * x, e * y, P)
      BY <1>1, <2>1, <3>1, <3>2, ModProduct
    <3>. QED  BY <3>3 DEF x, y, SameMod
  <2>10. e * c[m] = -c[m]
    <3>1. c[m] \in Int
      BY <1>0, TermIs
    <3>. QED  BY <2>0, <3>1
  <2>. QED  BY <2>5, <2>6, <2>7, <2>9, <2>10
<1>9. ASSUME NEW n \in Nat, n < 2 * d PROVE Product(new, g)[n] % P = One[n]
  <2>0. h[n] \in Int
    BY <1>1, TermIs
  <2>1. CASE n < d
    <3>1. Shift(wg, d)[n] = 0
      BY <2>1 DEF Shift
    <3>2. h[n] % P = One[n]
      BY <1>0, <2>1 DEF InverseUpTo, h
    <3>3. h[n] + 0 = h[n]
      BY <2>0
    <3>. QED  BY <1>7, <3>1, <3>2, <3>3
  <2>2. CASE ~(n < d)
    <3> DEFINE m == n - d
    <3>1. m \in Nat /\ m < d /\ m + d = n /\ n # 0
      BY <1>0, <1>9, <2>2
    <3>2. Shift(wg, d)[n] = wg[m]
      BY <2>2 DEF Shift
    <3> HIDE DEF m
    <3>3. SameMod(wg[m], -c[m], P)
      BY <1>8, <3>1 DEF SameMod
    <3>4. SameMod(h[n], c[m], P)
      <4>1. c[m] % P = h[m + d] % P
        BY <1>0, <3>1 DEF h
      <4>. QED  BY <3>1, <4>1 DEF SameMod
    <3>5. wg[m] \in Int /\ c[m] \in Int
      BY <1>0, <1>4, <3>1, TermIs
    <3> DEFINE x == h[n]
               y == wg[m]
               z == c[m]
    <3>6. x \in Int /\ y \in Int /\ z \in Int /\ -z \in Int /\ SameMod(x, z, P) /\ SameMod(y, -z, P)
      BY <2>0, <3>3, <3>4, <3>5
    <3> HIDE DEF x, y, z
    <3>7. SameMod(x + y, z + (-z), P)
      <4> DEFINE u == -z
      <4>1. u \in Int /\ SameMod(y, u, P)
        BY <3>6
      <4> HIDE DEF u
      <4>2. SameMod(x + y, z + u, P)
        BY <1>1, <3>6, <4>1, ModSum
      <4>. QED  BY <4>2 DEF u
    <3>8. z + (-z) = 0
      BY <3>6
    <3>9. (x + y) % P = 0
      BY <3>7, <3>8, RemainderOne DEF SameMod
    <3>10. One[n] = 0
      BY <3>1, OneIs
    <3>. QED  BY <1>7, <3>2, <3>9, <3>10 DEF x, y
  <2>. QED  BY <2>1, <2>2
<1>. QED  BY <1>9 DEF InverseUpTo

-----------------------------------------------------------------------------
(* Pieces of sequences *)

\* A piece of a sequence from d + 1 on has the coefficients from d on.
LEMMA PieceIs ==
    ASSUME NEW s \in Seq(Field), NEW d \in Nat, d < Len(s), NEW k,
           k = IF 2 * d < Len(s) THEN 2 * d ELSE Len(s)
    PROVE  /\ SubSeq(s, d + 1, k) \in Seq(Field)
           /\ \A n \in Nat : n < d => Coef(SubSeq(s, d + 1, k))[n] = Coef(s)[n + d]
<1> DEFINE t == SubSeq(s, d + 1, k)
<1>1. k \in Nat /\ k <= Len(s) /\ Len(s) \in Nat
  OBVIOUS
<1>2. t \in Seq(Field) /\ Len(t) = (IF d + 1 <= k THEN k - d ELSE 0)
      /\ \A i \in 1..Len(t) : t[i] = s[d + i]
  <2>1. t = [i \in 1..(IF d + 1 <= k THEN k - d ELSE 0) |-> s[d + i]]
    <3>1. t = [i \in 1..((k - (d + 1)) + 1) |-> s[((d + 1) + i) - 1]]
      BY <1>1
    <3>2. 1..((k - (d + 1)) + 1) = 1..(IF d + 1 <= k THEN k - d ELSE 0)
      BY <1>1
    <3>3. \A i \in Nat : ((d + 1) + i) - 1 = d + i
      OBVIOUS
    <3>. QED  BY <3>1, <3>2, <3>3
  <2>2. \A i \in 1..(IF d + 1 <= k THEN k - d ELSE 0) : d + i \in 1..Len(s)
    BY <1>1
  <2>3. (IF d + 1 <= k THEN k - d ELSE 0) \in Nat
    BY <1>1
  <2> DEFINE m == IF d + 1 <= k THEN k - d ELSE 0
  <2> HIDE DEF m, t
  <2>4. t = [i \in 1..m |-> s[d + i]] /\ m \in Nat /\ \A i \in 1..m : s[d + i] \in Field
    BY <2>1, <2>2, <2>3 DEF m
  <2>5. t \in Seq(Field) /\ Len(t) = m
    BY <2>4
  <2>. QED  BY <2>4, <2>5 DEF m
<1> HIDE DEF t
<1>3. ASSUME NEW n \in Nat, n < d PROVE Coef(t)[n] = Coef(s)[n + d]
  <2>1. n + d \in Nat /\ (n + d) + 1 = d + (n + 1)
    OBVIOUS
  <2>2. CASE n + d < Len(s)
    <3>1. n + d < k
      BY <1>3, <2>2
    <3>2. n < Len(t) /\ n + 1 \in 1..Len(t)
      <4>1. d + 1 <= k /\ k \in Nat
        BY <1>1, <3>1
      <4>2. Len(t) = k - d
        BY <1>2, <4>1
      <4>3. n < k - d /\ k - d \in Nat
        BY <3>1, <4>1
      <4>4. \A m \in Nat : n < m => n + 1 \in 1..m
        OBVIOUS
      <4>. QED  BY <4>2, <4>3, <4>4
    <3>3. t[n + 1] = s[d + (n + 1)]
      BY <1>2, <3>2
    <3>4. Coef(t)[n] = t[n + 1]
      BY <1>2, <3>2, CoefIs
    <3>5. Coef(s)[n + d] = s[(n + d) + 1]
      BY <2>1, <2>2, CoefIs
    <3>. QED  BY <2>1, <3>3, <3>4, <3>5
  <2>3. CASE ~(n + d < Len(s))
    <3>1. ~(n < Len(t))
      BY <1>1, <1>2, <2>3
    <3>. QED  BY <1>2, <2>1, <2>3, <3>1, CoefIs
  <2>. QED  BY <2>2, <2>3
<1>. QED  BY <1>2, <1>3 DEF t

\* Two pieces one after the other.
LEMMA JoinIs ==
    ASSUME NEW s \in Seq(Field), NEW t \in Seq(Field), NEW d \in Nat, Len(s) = d
    PROVE  /\ s \o t \in Seq(Field) /\ Len(s \o t) = d + Len(t)
           /\ \A n \in Nat : n < d => Coef(s \o t)[n] = Coef(s)[n]
           /\ \A n \in Nat : Coef(s \o t)[n + d] = Coef(t)[n]
<1> DEFINE j == s \o t
<1>1. /\ j \in Seq(Field) /\ Len(j) = d + Len(t) /\ Len(t) \in Nat
      /\ \A i \in 1..d : j[i] = s[i]
      /\ \A i \in 1..Len(t) : j[d + i] = t[i]
  OBVIOUS
<1> HIDE DEF j
<1>2. ASSUME NEW n \in Nat, n < d PROVE Coef(j)[n] = Coef(s)[n]
  <2>1. n + 1 \in 1..d /\ n < Len(j) /\ n < Len(s)
    BY <1>1, <1>2
  <2>. QED  BY <1>1, <2>1, CoefIs
<1>3. ASSUME NEW n \in Nat PROVE Coef(j)[n + d] = Coef(t)[n]
  <2>1. n + d \in Nat /\ (n + d) + 1 = d + (n + 1)
    OBVIOUS
  <2>2. CASE n < Len(t)
    <3>1. n + d < Len(j) /\ n + 1 \in 1..Len(t)
      BY <1>1, <2>2
    <3>2. j[d + (n + 1)] = t[n + 1]
      BY <1>1, <3>1
    <3>3. Coef(j)[n + d] = j[(n + d) + 1]
      BY <1>1, <2>1, <3>1, CoefIs
    <3>4. Coef(t)[n] = t[n + 1]
      BY <2>2, CoefIs
    <3>. QED  BY <2>1, <3>2, <3>3, <3>4
  <2>3. CASE ~(n < Len(t))
    <3>1. ~(n + d < Len(j))
      BY <1>1, <2>3
    <3>. QED  BY <1>1, <2>1, <2>3, <3>1, CoefIs
  <2>. QED  BY <2>2, <2>3
<1>. QED  BY <1>1, <1>2, <1>3 DEF j

\* A sequence filled up with zeros to a length that holds it.
LEMMA PaddedIs ==
    ASSUME NEW p \in Seq(Field), NEW k \in Nat, Len(p) <= k
    PROVE  LET s == [i \in 1..k |-> Coefficient(p, i - 1)]
           IN  s \in Seq(Field) /\ Len(s) = k /\ \A n \in Nat : Coef(s)[n] = Coef(p)[n]
<1> DEFINE s == [i \in 1..k |-> Coefficient(p, i - 1)]
<1>1. \A i \in 1..k : Coefficient(p, i - 1) \in Field
  <2> SUFFICES ASSUME NEW i \in 1..k PROVE Coefficient(p, i - 1) \in Field
    OBVIOUS
  <2>1. i - 1 \in Nat
    OBVIOUS
  <2>2. Coef(p)[i - 1] = Coefficient(p, i - 1)
    BY <2>1 DEF Coef
  <2>. QED  BY <2>1, <2>2, CoefIs
<1>2. s \in Seq(Field) /\ Len(s) = k
  <2>1. s \in [1..k -> Field]
    BY <1>1
  <2>. QED  BY <2>1
<1>3. ASSUME NEW n \in Nat PROVE Coef(s)[n] = Coef(p)[n]
  <2>1. CASE n < k
    <3>1. n + 1 \in 1..k /\ (n + 1) - 1 = n
      BY <2>1
    <3>2. s[n + 1] = Coefficient(p, n)
      BY <3>1
    <3> HIDE DEF s
    <3>3. Coef(s)[n] = s[n + 1]
      BY <1>2, <2>1, CoefIs
    <3>. QED  BY <3>2, <3>3 DEF Coef
  <2>2. CASE ~(n < k)
    <3>1. ~(n < Len(p))
      BY <2>2
    <3> HIDE DEF s
    <3>. QED  BY <1>2, <2>2, <3>1, CoefIs
  <2>. QED  BY <2>1, <2>2
<1>. QED  BY <1>2, <1>3

-----------------------------------------------------------------------------
(* Hensel lifting *)

\* The operators of the division are those of the polynomials.
LEMMA DivisionOperators ==
    /\ \A s : Division!Poly(s) = Poly(s)
    /\ \A s, k : Division!Take(s, k) = Take(s, k)
    /\ \A s, k : Division!Coefficient(s, k) = Coefficient(s, k)
    /\ \A s : Division!degree(s) = degree(s)
    /\ \A x : Division!Inv(x) = Inv(x)
    /\ \A p, s : Division!Times(p, s) = Times(p, s)
    /\ \A p, s : Division!Plus(p, s) = Plus(p, s)
    /\ \A p, s : Division!Minus(p, s) = Minus(p, s)
    /\ Division!Field = Field
<1>1. /\ \A s, k : Division!Take(s, k) = Take(s, k)
      /\ \A s, k : Division!Coefficient(s, k) = Coefficient(s, k)
      /\ \A s : Division!degree(s) = degree(s)
      /\ \A x : Division!Inv(x) = Inv(x)
      /\ Division!Field = Field
  BY DEF Division!Take, Take, Division!Coefficient, Coefficient, Division!degree, degree,
         Division!Inv, Inv, Division!Field, Field
<1>2. \A s : Division!Poly(s) = Poly(s)
  <2>1. \A S : Division!Max(S) = Max(S)
    BY DEF Division!Max, Max
  <2>. QED  BY <1>1, <2>1 DEF Division!Poly, Poly
<1>3. \A p, s : Division!Plus(p, s) = Plus(p, s)
  BY <1>2 DEF Division!Plus, Plus, Division!Coefficient, Coefficient
<1>4. \A p, x : Division!Scale(p, x) = Scale(p, x)
  BY <1>2 DEF Division!Scale, Scale
<1>5. \A p, s : Division!Minus(p, s) = Minus(p, s)
  BY <1>3, <1>4 DEF Division!Minus, Minus
<1>6. \A p, s : Division!Times(p, s) = Times(p, s)
  BY <1>2 DEF Division!Times, Times, Division!Coefficient, Coefficient
<1>. QED  BY <1>1, <1>2, <1>3, <1>5, <1>6

\* rev pads a polynomial and trims the pad: it reverses nothing.
LEMMA RevIs ==
    ASSUME NEW p, IsPoly(p), NEW k \in Nat, Len(p) <= k
    PROVE  Division!rev(p, k) = p
<1> DEFINE s == [i \in 1..k |-> Coefficient(p, i - 1)]
<1>1. Division!rev(p, k) = Poly(s)
  BY DivisionOperators DEF Division!rev
<1>2. s \in Seq(Field) /\ \A n \in Nat : Coef(s)[n] = Coef(p)[n]
  <2>1. p \in Seq(Field)
    BY PolyIsSeq
  <2>. QED  BY <2>1, PaddedIs
<1> HIDE DEF s
<1>3. IsPoly(Poly(s)) /\ Coef(Poly(s)) = Coef(s)
  BY <1>2, PolyIs
<1>. QED  BY <1>1, <1>2, <1>3, SamePoly

LEMMA NegativeIs == \A x \in Int : ((P - (x % P)) % P) % P = (-x) % P /\ (P - (x % P)) % P \in Field
<1> SUFFICES ASSUME NEW x \in Int
             PROVE  ((P - (x % P)) % P) % P = (-x) % P /\ (P - (x % P)) % P \in Field
  OBVIOUS
<1>1. P \in Nat \ {0}
  BY FieldIs
<1>2. PICK k \in Int : x = k * P + (x % P)
  BY <1>1, Remainder
<1> DEFINE y == P - (x % P)
           z == -x
           m == 1 + k
<1>3. y \in Int /\ z \in Int /\ m \in Int
  BY <1>1
<1>4. y = z + m * P
  <2> DEFINE u == x % P
  <2>1. u \in Int /\ x = k * P + u
    BY <1>1, <1>2
  <2> HIDE DEF u
  <2>2. P - u = (-x) + (1 + k) * P
    BY <1>1, <2>1
  <2>. QED  BY <2>2 DEF u
<1> HIDE DEF y, z, m
<1>5. y % P = z % P
  BY <1>1, <1>3, <1>4, SameRemainder
<1>6. y % P \in Field
  BY <1>3, IntoField
<1>. QED  BY <1>5, <1>6, InField DEF y, z

\* The negated terms of a sequence.
LEMMA NegatedIs ==
    ASSUME NEW s \in Seq(Field)
    PROVE  LET t == [i \in DOMAIN s |-> (P - s[i]) % P]
           IN  t \in Seq(Field) /\ Len(t) = Len(s)
               /\ \A n \in Nat : Coef(t)[n] % P = (-Coef(s)[n]) % P
<1> DEFINE t == [i \in DOMAIN s |-> (P - s[i]) % P]
<1>1. \A x \in Field : ((P - x) % P) % P = (-x) % P /\ (P - x) % P \in Field
  <2> SUFFICES ASSUME NEW x \in Field PROVE ((P - x) % P) % P = (-x) % P /\ (P - x) % P \in Field
    OBVIOUS
  <2>1. x \in Int /\ x % P = x
    BY InField
  <2>2. ((P - (x % P)) % P) % P = (-x) % P /\ (P - (x % P)) % P \in Field
    BY <2>1, NegativeIs
  <2>. QED  BY <2>1, <2>2
<1>2. DOMAIN s = 1..Len(s) /\ Len(s) \in Nat /\ \A i \in 1..Len(s) : s[i] \in Field
  OBVIOUS
<1>3. t \in Seq(Field) /\ Len(t) = Len(s)
  <2>1. t \in [1..Len(s) -> Field]
    BY <1>1, <1>2
  <2>. QED  BY <1>2, <2>1
<1>4. \A i \in 1..Len(s) : t[i] = (P - s[i]) % P
  BY <1>2
<1> HIDE DEF t
<1>5. ASSUME NEW n \in Nat PROVE Coef(t)[n] % P = (-Coef(s)[n]) % P
  <2>1. CASE n < Len(s)
    <3>1. n + 1 \in 1..Len(s)
      BY <1>2, <2>1
    <3>2. Coef(t)[n] = t[n + 1] /\ Coef(s)[n] = s[n + 1]
      BY <1>3, <2>1, CoefIs
    <3>. QED  BY <1>1, <1>2, <1>4, <3>1, <3>2
  <2>2. CASE ~(n < Len(s))
    <3>1. Coef(t)[n] = 0 /\ Coef(s)[n] = 0
      BY <1>3, <2>2, CoefIs
    <3> DEFINE x == Coef(s)[n]
    <3>2. x \in Int /\ x + x = x
      BY <3>1
    <3> HIDE DEF x
    <3>3. -x = x
      BY <3>2
    <3>. QED  BY <3>1, <3>3 DEF x
  <2>. QED  BY <2>1, <2>2
<1>. QED  BY <1>3, <1>5 DEF t

\* A step of hensel_lift doubles the number of right terms, whatever zeros the inverse has.
LEMMA HenselLift ==
    ASSUME NEW p, IsPoly(p), NEW inv, IsPoly(inv), NEW d \in Nat \ {0}, Len(inv) <= d,
           InverseUpTo(Coef(inv), Coef(p), d)
    PROVE  /\ IsPoly(Division!hensel_lift(p, inv, d))
           /\ Len(Division!hensel_lift(p, inv, d)) <= 2 * d
           /\ InverseUpTo(Coef(Division!hensel_lift(p, inv, d)), Coef(p), 2 * d)
<1> DEFINE D2 == 2 * d
           part1 == Take(p, D2)
           pt == Poly(part1)
           prod == Times(pt, inv)
           k == IF D2 < Len(prod) THEN D2 ELSE Len(prod)
           piece == SubSeq(prod, d + 1, k)
           c == Poly(piece)
           lower == [i \in 1..(IF Len(inv) < d THEN d ELSE Len(inv)) |-> Coefficient(inv, i - 1)]
           above == Take(Times(inv, c), d)
           neg == [i \in DOMAIN above |-> (P - above[i]) % P]
           joined == lower \o neg
           new == Division!hensel_lift(p, inv, d)
           f == Coef(inv)
           g == Coef(p)
<1>0. new = IF degree(prod) < d THEN inv ELSE Poly(joined)
  BY DivisionOperators DEF Division!hensel_lift
<1> HIDE DEF new
<1>1. P \in Nat \ {0} /\ D2 \in Nat /\ d \in Nat /\ d < D2
  BY FieldIs
<1>2. p \in Seq(Field) /\ inv \in Seq(Field) /\ f \in Series /\ g \in Series
  BY PolyIsSeq, CoefIs
<1>3. part1 \in Seq(Field) /\ \A n \in Nat : n < D2 => Coef(part1)[n] = g[n]
  BY <1>1, <1>2, TakeIs
<1> HIDE DEF D2, part1
<1>4. pt \in Seq(Field) /\ Coef(pt) \in Series /\ \A n \in Nat : n < D2 => Coef(pt)[n] = g[n]
  <2>1. IsPoly(pt) /\ Coef(pt) = Coef(part1)
    BY <1>3, PolyIs
  <2> HIDE DEF pt
  <2>. QED  BY <1>3, <2>1, PolyIsSeq, CoefIs
<1> HIDE DEF pt
<1>5. IsPoly(prod) /\ \A n \in Nat : Coef(prod)[n] = Product(Coef(pt), f)[n] % P
  BY <1>2, <1>4, TimesPoly
<1> HIDE DEF prod
<1>6. prod \in Seq(Field) /\ Coef(prod) \in Series
  BY <1>5, PolyIsSeq, CoefIs
<1>7. ASSUME NEW n \in Nat, n < D2 PROVE Coef(prod)[n] = Product(f, g)[n] % P
  <2> HIDE DEF f, g
  <2>1. Product(Coef(pt), f) = Product(f, Coef(pt))
    BY <1>2, <1>4, ProductCommutes
  <2>2. Congruent(Coef(pt), g, P, n) /\ Congruent(f, f, P, n)
    <3>1. ASSUME NEW i \in 0..n PROVE Coef(pt)[i] % P = g[i] % P
      <4>1. i \in Nat /\ i < D2
        BY <1>1, <1>7
      <4>. QED  BY <1>4, <4>1
    <3>. QED  BY <3>1 DEF Congruent
  <2>3. Product(f, Coef(pt))[n] % P = Product(f, g)[n] % P
    BY <1>1, <1>2, <1>4, <2>2, ProductCongruent
  <2>. QED  BY <1>5, <2>1, <2>3
<1>8. prod # <<>>
  <2>1. 0 < d /\ 0 < D2
    BY <1>1
  <2>2. Coef(prod)[0] = 1
    BY <1>7, <2>1, OneIs DEF InverseUpTo
  <2>. QED  BY <2>2, EmptyPoly
<1>9. Len(prod) \in Nat /\ Len(prod) # 0 /\ degree(prod) = Len(prod) - 1
  BY <1>6, <1>8 DEF degree
<1>10. CASE degree(prod) < d
  <2>1. new = inv /\ Len(prod) <= d
    BY <1>0, <1>9, <1>10
  <2>2. ASSUME NEW n \in Nat, n < D2 PROVE Product(f, g)[n] % P = One[n]
    <3>1. CASE n < d
      BY <3>1 DEF InverseUpTo
    <3>2. CASE ~(n < d)
      <4>1. ~(n < Len(prod)) /\ n # 0
        BY <1>9, <1>1, <2>1, <3>2
      <4>2. Coef(prod)[n] = 0
        BY <1>6, <4>1, CoefIs
      <4>. QED  BY <1>7, <2>2, <4>1, <4>2, OneIs
    <3>. QED  BY <3>1, <3>2
  <2>3. InverseUpTo(f, g, D2)
    BY <2>2 DEF InverseUpTo
  <2>4. Len(inv) <= D2
    <3>1. Len(inv) \in Nat
      BY <1>2
    <3>. QED  BY <1>1, <3>1
  <2>. QED  BY <2>1, <2>3, <2>4 DEF new, D2
<1>11. CASE ~(degree(prod) < d)
  <2>1. new = Poly(joined) /\ d < Len(prod)
    BY <1>0, <1>1, <1>9, <1>11
  <2>2. piece \in Seq(Field) /\ \A n \in Nat : n < d => Coef(piece)[n] = Coef(prod)[n + d]
    <3>1. k = IF 2 * d < Len(prod) THEN 2 * d ELSE Len(prod)
      BY DEF D2
    <3> HIDE DEF k
    <3>. QED  BY <1>1, <1>6, <2>1, <3>1, PieceIs
  <2> HIDE DEF piece
  <2>3. c \in Seq(Field) /\ Coef(c) \in Series /\ Coef(c) = Coef(piece)
    <3>1. IsPoly(c) /\ Coef(c) = Coef(piece)
      BY <2>2, PolyIs
    <3> HIDE DEF c
    <3>. QED  BY <3>1, PolyIsSeq, CoefIs
  <2> HIDE DEF c
  <2>4. lower \in Seq(Field) /\ Len(lower) = d /\ \A n \in Nat : Coef(lower)[n] = f[n]
    <3>1. (IF Len(inv) < d THEN d ELSE Len(inv)) = d
      BY <1>2
    <3>2. lower = [i \in 1..d |-> Coefficient(inv, i - 1)]
      BY <3>1
    <3> HIDE DEF lower
    <3>. QED  BY <1>1, <1>2, <3>2, PaddedIs
  <2>5. /\ above \in Seq(Field) /\ Len(above) <= d /\ Len(above) \in Nat
        /\ \A n \in Nat : n < d => Coef(above)[n] = Product(f, Coef(c))[n] % P
    <3> DEFINE w == Times(inv, c)
    <3>1. IsPoly(w) /\ \A n \in Nat : Coef(w)[n] = Product(f, Coef(c))[n] % P
      BY <1>2, <2>3, TimesPoly
    <3>2. w \in Seq(Field)
      <4> HIDE DEF w
      <4>. QED  BY <3>1, PolyIsSeq
    <3> HIDE DEF w
    <3>3. /\ Take(w, d) \in Seq(Field)
          /\ Len(Take(w, d)) = IF d < Len(w) THEN d ELSE Len(w)
          /\ \A n \in Nat : n < d => Coef(Take(w, d))[n] = Coef(w)[n]
      BY <1>1, <3>2, TakeIs
    <3>4. Len(Take(w, d)) <= d /\ Len(Take(w, d)) \in Nat
      <4>1. Len(w) \in Nat
        BY <3>2
      <4>. QED  BY <1>1, <3>3, <4>1
    <3>5. above = Take(w, d)
      BY DEF w
    <3> HIDE DEF above
    <3>. QED  BY <3>1, <3>3, <3>4, <3>5
  <2> HIDE DEF above
  <2>6. neg \in Seq(Field) /\ Len(neg) = Len(above)
        /\ \A n \in Nat : Coef(neg)[n] % P = (-Coef(above)[n]) % P
    BY <2>5, NegatedIs
  <2> HIDE DEF neg, lower
  <2>7. /\ joined \in Seq(Field) /\ Len(joined) = d + Len(neg)
        /\ \A n \in Nat : n < d => Coef(joined)[n] = Coef(lower)[n]
        /\ \A n \in Nat : Coef(joined)[n + d] = Coef(neg)[n]
    <3>1. /\ lower \in Seq(Field) /\ neg \in Seq(Field) /\ d \in Nat /\ Len(lower) = d
      BY <1>1, <2>4, <2>6
    <3> HIDE DEF f, g, new
    <3>2. /\ lower \o neg \in Seq(Field) /\ Len(lower \o neg) = d + Len(neg)
          /\ \A n \in Nat : n < d => Coef(lower \o neg)[n] = Coef(lower)[n]
          /\ \A n \in Nat : Coef(lower \o neg)[n + d] = Coef(neg)[n]
      BY ONLY <3>1, JoinIs
    <3>. QED  BY <3>2
  <2> HIDE DEF joined
  <2>8. IsPoly(new) /\ Coef(new) = Coef(joined) /\ Len(new) <= Len(joined)
    BY <2>1, <2>7, PolyIs
  <2>9. Coef(new) \in Series
    BY <2>7, <2>8, CoefIs
  <2>10. ASSUME NEW n \in Nat, n < d
         PROVE  /\ Coef(c)[n] % P = Product(f, g)[n + d] % P
                /\ Coef(new)[n + d] % P = (-Product(f, Coef(c))[n]) % P
    <3>1. n + d \in Nat /\ n + d < D2
      BY <1>1, <2>10 DEF D2
    <3>2. Coef(c)[n] = Product(f, g)[n + d] % P
      BY <1>7, <2>2, <2>3, <2>10, <3>1
    <3>3. Product(f, g)[n + d] % P \in Field
      BY <1>2, <3>1, ProductTerms
    <3>4. Coef(c)[n] % P = Product(f, g)[n + d] % P
      BY <3>2, <3>3, InField
    <3> DEFINE x == Product(f, Coef(c))[n]
    <3>5. x \in Int
      BY <1>2, <2>3, ProductIs
    <3>6. Coef(new)[n + d] % P = (-(x % P)) % P
      BY <2>5, <2>6, <2>7, <2>8, <2>10
    <3> HIDE DEF x
    <3>7. (-(x % P)) % P = (-x) % P
      <4> DEFINE y == x % P
      <4>1. y \in Int /\ y % P = y
        BY <3>5, IntoField, InField
      <4>2. ((P - (y % P)) % P) % P = (-y) % P
        BY <4>1, NegativeIs
      <4>3. ((P - (x % P)) % P) % P = (-x) % P
        BY <3>5, NegativeIs
      <4>4. (-y) % P = (-x) % P
        BY <4>1, <4>2, <4>3
      <4>. QED  BY <4>4
    <3>. QED  BY <3>4, <3>6, <3>7 DEF x
  <2>11. \A n \in Nat : n >= d => f[n] = 0
    <3> SUFFICES ASSUME NEW n \in Nat, n >= d PROVE f[n] = 0
      OBVIOUS
    <3>1. ~(n < Len(inv))
      BY <1>1, <1>2
    <3>. QED  BY <1>2, <3>1, CoefIs
  <2>12. \A n \in Nat : n < d => Coef(new)[n] = f[n]
    BY <2>4, <2>7, <2>8
  <2> HIDE DEF f, g
  <2>13. InverseUpTo(f, g, d)
    BY DEF f, g
  <2>14. Lifted(Coef(new), f, g, Coef(c), d)
    BY <1>2, <2>3, <2>9, <2>10, <2>11, <2>12, <2>13 DEF Lifted
  <2>15. InverseUpTo(Coef(new), g, 2 * d)
    BY <2>14, Lifting
  <2>16. Len(new) <= 2 * d
    <3>1. Len(new) \in Nat
      BY <2>8, PolyIsSeq
    <3>. QED  BY <1>1, <2>5, <2>6, <2>7, <2>8, <3>1
  <2>. QED  BY <2>8, <2>15, <2>16 DEF new, g
<1>. QED  BY <1>10, <1>11

-----------------------------------------------------------------------------
(* Quotients *)

\* Sequences with the difference zero have the same coefficients.
LEMMA NoDifference ==
    ASSUME NEW p \in Seq(Field), NEW s \in Seq(Field), Minus(p, s) = <<>>
    PROVE  \A n \in Nat : Coef(p)[n] = Coef(s)[n]
<1> SUFFICES ASSUME NEW n \in Nat PROVE Coef(p)[n] = Coef(s)[n]
  OBVIOUS
<1> DEFINE x == Coef(p)[n]
           y == Coef(s)[n]
<1>1. x \in Int /\ y \in Int /\ x % P = x /\ y % P = y /\ P \in Nat \ {0}
  BY CoefIs, InField, FieldIs
<1>2. (x - y) % P = 0
  BY MinusPoly, EmptyPoly
<1> HIDE DEF x, y
<1>3. PICK k \in Int : x - y = k * P + ((x - y) % P)
  <2>1. x - y \in Int
    BY <1>1
  <2>. QED  BY <1>1, <2>1, Remainder
<1>4. x = y + k * P
  BY <1>1, <1>2, <1>3
<1>5. x % P = y % P
  BY <1>1, <1>4, SameRemainder
<1>. QED  BY <1>1, <1>5 DEF x, y

LEMMA TimesEmpty ==
    ASSUME NEW p \in Seq(Field)
    PROVE  Times(p, <<>>) = <<>>
<1> DEFINE t == Times(p, <<>>)
           e == <<>>
           f == Coef(p)
<1>1. e \in Seq(Field) /\ Coef(e) \in Series /\ f \in Series /\ \A n \in Nat : Coef(e)[n] = 0
  BY EmptyPoly, PolyIsSeq, CoefIs
<1> HIDE DEF e
<1>2. IsPoly(Times(p, e)) /\ \A n \in Nat : Coef(Times(p, e))[n] = Product(f, Coef(e))[n] % P
  BY <1>1, TimesPoly
<1>3. Coef(e) = Zero
  BY <1>1, ZeroIs, SameSeries
<1>4. Product(f, Zero) = Product(Zero, f)
  BY <1>1, ZeroIs, ProductCommutes
<1>5. \A n \in Nat : Product(Zero, f)[n] = 0
  BY <1>1, ProductOfZero
<1>6. \A n \in Nat : Coef(Times(p, e))[n] = 0
  BY <1>2, <1>3, <1>4, <1>5, RemainderOne
<1>7. Times(p, e) = <<>>
  BY <1>2, <1>6, EmptyPoly, SamePoly
<1>. QED  BY <1>7 DEF e

\* The quotients g and h of one dividend, with the remainder s and without one.
TwoQuotients(p, g, h, s) ==
    /\ IsPoly(p) /\ p # <<>> /\ IsPoly(g) /\ IsPoly(h) /\ IsPoly(s)
    /\ s = <<>> \/ Len(s) < Len(p)
    /\ \A n \in Nat : (Product(Coef(p), Coef(g))[n] + Coef(s)[n]) % P
           = Product(Coef(p), Coef(h))[n] % P

LEMMA UniqueQuotient ==
    ASSUME NEW p, NEW g, NEW h, NEW s, TwoQuotients(p, g, h, s)
    PROVE  g = h /\ s = <<>>
<1> DEFINE diff == Minus(h, g)
           t == Times(p, diff)
           f == Coef(p)
           u == Coef(g)
           v == Coef(h)
<1>0. PICK e \in Int : e = -1
  OBVIOUS
<1> DEFINE eu == ScaleSeries(e, u)
           w == PlusSeries(v, eu)
<1>1. /\ IsPoly(p) /\ p # <<>> /\ IsPoly(g) /\ IsPoly(h) /\ IsPoly(s)
      /\ s = <<>> \/ Len(s) < Len(p)
      /\ \A n \in Nat : (Product(f, u)[n] + Coef(s)[n]) % P = Product(f, v)[n] % P
      /\ P \in Nat \ {0}
  BY FieldIs DEF TwoQuotients
<1>2. /\ p \in Seq(Field) /\ g \in Seq(Field) /\ h \in Seq(Field) /\ s \in Seq(Field)
      /\ f \in Series /\ u \in Series /\ v \in Series /\ Coef(s) \in Series
  BY <1>1, PolyIsSeq, CoefIs
<1>3. IsPoly(diff) /\ \A n \in Nat : Coef(diff)[n] = (v[n] - u[n]) % P
  BY <1>2, MinusPoly
<1> HIDE DEF diff
<1>4. diff \in Seq(Field) /\ Coef(diff) \in Series
  BY <1>3, PolyIsSeq, CoefIs
<1>5. IsPoly(t) /\ \A n \in Nat : Coef(t)[n] = Product(f, Coef(diff))[n] % P
  BY <1>2, <1>4, TimesPoly
<1> HIDE DEF t, f, u, v
<1>6. eu \in Series /\ \A n \in Nat : eu[n] = e * u[n]
  BY <1>2, ScaleIs
<1>7. w \in Series /\ \A n \in Nat : w[n] = v[n] + eu[n]
  <2> HIDE DEF eu
  <2>. QED  BY <1>2, <1>6, PlusIs
<1>8. \A n \in Nat : Product(w, f)[n] = Product(v, f)[n] + e * Product(u, f)[n]
  <2>1. \A n \in Nat : Product(eu, f)[n] = e * Product(u, f)[n]
    BY <1>2, ProductOfScaled
  <2>2. \A n \in Nat : Product(w, f)[n] = Product(v, f)[n] + Product(eu, f)[n]
    <3> HIDE DEF eu
    <3>. QED  BY <1>2, <1>6, ProductOfSum
  <2>. QED  BY <2>1, <2>2
<1> HIDE DEF eu, w
<1>9. \A n \in Nat : w[n] % P = Coef(diff)[n] % P
  <2> SUFFICES ASSUME NEW n \in Nat PROVE w[n] % P = Coef(diff)[n] % P
    OBVIOUS
  <2>1. u[n] \in Int /\ v[n] \in Int
    BY <1>2, TermIs
  <2>2. e * u[n] = -u[n]
    BY <1>0, <2>1
  <2>3. w[n] = v[n] - u[n]
    BY <1>6, <1>7, <2>1, <2>2
  <2>4. Coef(diff)[n] = (v[n] - u[n]) % P
    BY <1>3
  <2>5. Coef(diff)[n] % P = Coef(diff)[n]
    BY <1>4, CoefIs, InField
  <2>. QED  BY <2>3, <2>4, <2>5
<1>10. ASSUME NEW n \in Nat PROVE Coef(t)[n] = Coef(s)[n]
  <2>1. Congruent(Coef(diff), w, P, n) /\ Congruent(f, f, P, n)
    <3>1. ASSUME NEW i \in 0..n PROVE Coef(diff)[i] % P = w[i] % P
      BY <1>9
    <3>. QED  BY <3>1 DEF Congruent
  <2>2. Product(f, Coef(diff))[n] % P = Product(f, w)[n] % P
    BY <1>1, <1>2, <1>4, <1>7, <2>1, ProductCongruent
  <2>3. Product(f, w) = Product(w, f) /\ Product(f, v) = Product(v, f)
        /\ Product(f, u) = Product(u, f)
    BY <1>2, <1>7, ProductCommutes
  <2> DEFINE x == Product(u, f)[n]
             y == Product(v, f)[n]
             z == Coef(s)[n]
             ex == e * x
  <2>4. x \in Int /\ y \in Int /\ z \in Int
    BY <1>2, ProductIs, TermIs
  <2>5. Product(w, f)[n] = y + ex
    BY <1>8
  <2>6. (x + z) % P = y % P
    BY <1>1, <2>3
  <2>8. z % P = z
    BY <1>2, CoefIs, InField
  <2> HIDE DEF x, y, z
  <2>7. ex \in Int /\ ex = -x
    BY <1>0, <2>4
  <2> HIDE DEF ex
  <2>9. SameMod(x + z, y, P) /\ SameMod(ex, ex, P) /\ x + z \in Int
    BY <2>4, <2>6 DEF SameMod
  <2>10. SameMod((x + z) + ex, y + ex, P)
    <3> DEFINE xz == x + z
    <3> HIDE DEF xz
    <3>1. xz \in Int /\ SameMod(xz, y, P)
      BY <2>9 DEF xz
    <3>2. SameMod(xz + ex, y + ex, P)
      BY <1>1, <2>4, <2>7, <2>9, <3>1, ModSum
    <3>. QED  BY <3>2 DEF xz
  <2>11. (x + z) + ex = z
    BY <2>4, <2>7
  <2>12. z = (y + ex) % P
    BY <2>8, <2>10, <2>11 DEF SameMod
  <2>. QED  BY <1>5, <2>2, <2>3, <2>5, <2>12 DEF z
<1>11. t = s
  BY <1>1, <1>5, <1>10, SamePoly
<1>12. diff = <<>>
  <2> SUFFICES ASSUME diff # <<>> PROVE FALSE
    OBVIOUS
  <2>1. Len(t) = Len(p) + Len(diff) - 1 /\ t # <<>>
    BY <1>1, <1>3, TimesLength DEF t
  <2>2. Len(diff) \in Nat /\ Len(diff) # 0 /\ Len(p) \in Nat
    BY <1>2, <1>4
  <2>. QED  BY <1>1, <1>11, <2>1, <2>2
<1>13. s = <<>>
  BY <1>2, <1>11, <1>12, TimesEmpty DEF t
<1>14. g = h
  <2>1. \A n \in Nat : Coef(h)[n] = Coef(g)[n]
    BY <1>2, <1>12, NoDifference DEF diff
  <2>. QED  BY <1>1, <2>1, SamePoly
<1>. QED  BY <1>13, <1>14

\* An inverse that is long enough, cut and multiplied with p g, has g at its front.
LEMMA CutQuotient ==
    ASSUME NEW p, IsPoly(p), p # <<>>, NEW g, IsPoly(g), g # <<>>, NEW inv, IsPoly(inv),
           NEW k \in Nat, Len(g) <= k, InverseUpTo(Coef(inv), Coef(p), k),
           NEW d, d = Len(g), NEW product, product = Times(Poly(Take(inv, d + 1)), Times(p, g))
    PROVE  /\ IsPoly(product) /\ Len(product) >= d
           /\ Poly(Take(product, d)) = g
<1> DEFINE ct == Take(inv, d + 1)
           cut == Poly(ct)
           pg == Times(p, g)
           f == Coef(inv)
           u == Coef(p)
           v == Coef(g)
<1>1. /\ p \in Seq(Field) /\ g \in Seq(Field) /\ inv \in Seq(Field)
      /\ f \in Series /\ u \in Series /\ v \in Series /\ P \in Nat \ {0}
  BY PolyIsSeq, CoefIs, FieldIs
<1>2. d \in Nat \ {0} /\ d + 1 \in Nat /\ Len(p) \in Nat \ {0}
  BY <1>1
<1>3. ct \in Seq(Field) /\ \A n \in Nat : n < d + 1 => Coef(ct)[n] = f[n]
  <2> DEFINE m == d + 1
  <2>1. m \in Nat
    BY <1>2
  <2> HIDE DEF m
  <2>2. Take(inv, m) \in Seq(Field) /\ \A n \in Nat : n < m => Coef(Take(inv, m))[n] = Coef(inv)[n]
    BY <1>1, <2>1, TakeIs
  <2>. QED  BY <2>2 DEF m
<1> HIDE DEF ct
<1>4. IsPoly(cut) /\ Coef(cut) = Coef(ct)
  BY <1>3, PolyIs
<1> HIDE DEF cut
<1>5. cut \in Seq(Field) /\ Coef(cut) \in Series
  BY <1>4, PolyIsSeq, CoefIs
<1>6. InverseUpTo(Coef(cut), u, d)
  <2>1. ASSUME NEW n \in Nat, n < d PROVE Product(Coef(cut), u)[n] % P = One[n]
    <3>1. Congruent(Coef(cut), f, P, n) /\ Congruent(u, u, P, n)
      <4>1. ASSUME NEW i \in 0..n PROVE Coef(cut)[i] % P = f[i] % P
        <5>1. i \in Nat /\ i < d + 1
          BY <1>2, <2>1
        <5>. QED  BY <1>3, <1>4, <5>1
      <4>. QED  BY <4>1 DEF Congruent
    <3> HIDE DEF f, u
    <3>2. Product(Coef(cut), u)[n] % P = Product(f, u)[n] % P
      BY <1>1, <1>5, <3>1, ProductCongruent
    <3>3. n < k
      BY <1>2, <2>1
    <3>. QED  BY <3>2, <3>3 DEF InverseUpTo, f, u
  <2>. QED  BY <2>1 DEF InverseUpTo
<1>7. IsPoly(pg) /\ (\A n \in Nat : Coef(pg)[n] = Product(u, v)[n] % P) /\ pg # <<>>
      /\ Len(pg) = Len(p) + Len(g) - 1
  BY <1>1, TimesPoly, TimesLength
<1>8. product = Times(cut, pg)
  BY DEF cut, ct
<1> HIDE DEF pg
<1>9. pg \in Seq(Field) /\ Coef(pg) \in Series
  BY <1>7, PolyIsSeq, CoefIs
<1>10. \A n \in Nat : Coef(pg)[n] % P = Product(u, v)[n] % P
  <2> SUFFICES ASSUME NEW n \in Nat PROVE Coef(pg)[n] % P = Product(u, v)[n] % P
    OBVIOUS
  <2>1. Coef(pg)[n] % P = Coef(pg)[n]
    BY <1>9, CoefIs, InField
  <2>. QED  BY <1>7, <2>1
<1>11. IsPoly(product) /\ \A n \in Nat : Coef(product)[n] = Product(Coef(cut), Coef(pg))[n] % P
  BY <1>5, <1>8, <1>9, TimesPoly
<1>12. ASSUME NEW n \in Nat, n < d PROVE Coef(product)[n] = v[n]
  <2> HIDE DEF u
  <2>1. Product(Coef(cut), Coef(pg))[n] % P = v[n] % P
    <3> DEFINE e == Coef(cut)
               h == Coef(pg)
    <3>1. /\ e \in Series /\ h \in Series /\ d \in Nat /\ InverseUpTo(e, u, d)
          /\ \A m \in Nat : h[m] % P = Product(u, v)[m] % P
      BY <1>2, <1>5, <1>6, <1>9, <1>10
    <3> HIDE DEF v, e, h
    <3>2. \A m \in Nat : m < d => Product(e, h)[m] % P = v[m] % P
      BY <1>1, <3>1, InverseCancels
    <3>. QED  BY <1>12, <3>2 DEF e, h
  <2>2. v[n] % P = v[n]
    BY <1>1, CoefIs, InField
  <2>. QED  BY <1>11, <2>1, <2>2
<1>13. Len(product) >= d
  <2>1. cut # <<>>
    <3> HIDE DEF u
    <3>. QED  BY <1>1, <1>2, <1>5, <1>6, InverseNotEmpty
  <2>2. Len(product) = Len(cut) + Len(pg) - 1
    BY <1>4, <1>7, <1>8, <2>1, TimesLength
  <2>3. Len(cut) \in Nat /\ Len(cut) # 0
    BY <1>5, <2>1
  <2>. QED  BY <1>2, <1>7, <2>2, <2>3
<1>14. product \in Seq(Field)
  BY <1>11, PolyIsSeq
<1>15. /\ Take(product, d) \in Seq(Field)
       /\ \A n \in Nat : n < d => Coef(Take(product, d))[n] = Coef(product)[n]
       /\ \A n \in Nat : n >= d => Coef(Take(product, d))[n] = 0
  BY <1>2, <1>14, TakeIs
<1>16. IsPoly(Poly(Take(product, d))) /\ Coef(Poly(Take(product, d))) = Coef(Take(product, d))
  BY <1>15, PolyIs
<1>17. \A n \in Nat : Coef(Poly(Take(product, d)))[n] = Coef(g)[n]
  <2> SUFFICES ASSUME NEW n \in Nat PROVE Coef(Take(product, d))[n] = v[n]
    BY <1>16
  <2>1. CASE n < d
    BY <1>12, <1>15, <2>1
  <2>2. CASE ~(n < d)
    <3>1. n >= d /\ ~(n < Len(g))
      BY <1>2, <2>2
    <3>. QED  BY <1>1, <1>15, <3>1, CoefIs
  <2>. QED  BY <2>1, <2>2
<1>18. Poly(Take(product, d)) = g
  BY <1>16, <1>17, SamePoly
<1>. QED  BY <1>11, <1>13, <1>18

-----------------------------------------------------------------------------
(* The division *)

divisionVars == <<pc, divVars>>

\* While it is lifted, the inverse is one modulo X^l, with at most l terms.
Inverts ==
    /\ b # <<>> /\ degree(b) <= degree(a)
    /\ IsPoly(inverse) /\ l \in Nat \ {0} /\ Len(inverse) <= l
    /\ InverseUpTo(Coef(inverse), Coef(b), l)

\* What is returned is Euclidean division's, also before the remainder is looked at.
DivisionInv ==
    /\ IsPoly(a) /\ IsPoly(b) /\ IsPoly(quotient) /\ IsPoly(remainder)
    /\ a = Plus(Times(b, quotient), remainder)
    /\ remainder = <<>> \/ Len(remainder) < Len(b)
    /\ pc \in {"called", "lift", "divided", "returned", "panic"}
    /\ pc = "called" => q = <<>> /\ r = <<>>
    /\ pc = "lift" => Inverts
    /\ pc \in {"divided", "returned"} =>
           b # <<>> /\ IsPoly(q) /\ IsPoly(r) /\ r = Minus(a, Times(b, q))
    /\ pc = "returned" => r = <<>>
    /\ Division!Exact /\ Division!DivisorOfProver =>
           pc # "panic" /\ (pc \in {"divided", "returned"} => r = <<>>)

LEMMA PolyOfFew == \A k \in {MaxQuotient, MaxDivisor, MaxRemainder} :
                       \A s \in Division!PolysUpTo(k) : IsPoly(s)
<1> SUFFICES ASSUME NEW k \in {MaxQuotient, MaxDivisor, MaxRemainder},
                        NEW s \in Division!PolysUpTo(k)
             PROVE  IsPoly(s)
  OBVIOUS
<1>1. k \in Nat /\ Coefficients \subseteq Field
  BY DivisionAssumption
<1>2. PICK t \in [1..k -> Coefficients] : s = Poly(t)
  BY DivisionOperators DEF Division!PolysUpTo
<1>3. t \in Seq(Field)
  BY <1>1, <1>2
<1>. QED  BY <1>2, <1>3, PolyIs

LEMMA DividendIs ==
    ASSUME IsPoly(b), IsPoly(quotient), IsPoly(remainder), a = Plus(Times(b, quotient), remainder)
    PROVE  /\ IsPoly(a)
           /\ \A n \in Nat : Coef(a)[n]
                  = (Product(Coef(b), Coef(quotient))[n] + Coef(remainder)[n]) % P
<1> DEFINE t == Times(b, quotient)
           f == Product(Coef(b), Coef(quotient))
<1>1. b \in Seq(Field) /\ quotient \in Seq(Field) /\ remainder \in Seq(Field) /\ P \in Nat \ {0}
  BY PolyIsSeq, FieldIs
<1>2. IsPoly(t) /\ \A n \in Nat : Coef(t)[n] = f[n] % P
  BY <1>1, TimesPoly
<1>3. f \in Series
  BY <1>1, CoefIs, ProductIs
<1> HIDE DEF t, f
<1>4. t \in Seq(Field)
  BY <1>2, PolyIsSeq
<1>5. IsPoly(Plus(t, remainder))
      /\ \A n \in Nat : Coef(Plus(t, remainder))[n] = (Coef(t)[n] + Coef(remainder)[n]) % P
  BY <1>1, <1>4, PlusPoly
<1>6. ASSUME NEW n \in Nat
      PROVE  ((f[n] % P) + Coef(remainder)[n]) % P = (f[n] + Coef(remainder)[n]) % P
  <2> DEFINE x == f[n]
             y == Coef(remainder)[n]
  <2>1. x \in Int /\ y \in Int
    BY <1>1, <1>3, TermIs, CoefIs, InField
  <2> HIDE DEF x, y
  <2>2. ((x % P) + y) % P = (x + y) % P
    BY <1>1, <2>1, ModPlus
  <2>. QED  BY <2>2 DEF x, y
<1>. QED  BY <1>2, <1>5, <1>6 DEF t, f

\* Without a remainder, a is the product.
LEMMA ExactDividend ==
    ASSUME IsPoly(b), IsPoly(quotient), a = Plus(Times(b, quotient), remainder), remainder = <<>>
    PROVE  a = Times(b, quotient)
<1> DEFINE t == Times(b, quotient)
           e == <<>>
<1>1. IsPoly(t) /\ t \in Seq(Field)
  BY TimesPoly, PolyIsSeq
<1>2. e \in Seq(Field) /\ \A n \in Nat : Coef(e)[n] = 0
  BY EmptyPoly, PolyIsSeq
<1>3. a = Plus(t, e)
  OBVIOUS
<1> HIDE DEF t, e
<1>4. IsPoly(a) /\ \A n \in Nat : Coef(a)[n] = (Coef(t)[n] + Coef(e)[n]) % P
  BY <1>1, <1>2, <1>3, PlusPoly
<1>5. ASSUME NEW n \in Nat PROVE Coef(a)[n] = Coef(t)[n]
  <2>1. Coef(t)[n] \in Int /\ Coef(t)[n] % P = Coef(t)[n]
    BY <1>1, CoefIs, InField
  <2>2. Coef(t)[n] + 0 = Coef(t)[n]
    BY <2>1
  <2>. QED  BY <1>2, <1>4, <2>1, <2>2
<1>6. a = t
  BY <1>1, <1>4, <1>5, SamePoly
<1>. QED  BY <1>6 DEF t

LEMMA InitDivision == Division!Init => DivisionInv
<1> SUFFICES ASSUME Division!Init PROVE DivisionInv
  OBVIOUS
<1>1. /\ IsPoly(b) /\ IsPoly(quotient) /\ IsPoly(remainder)
      /\ remainder = <<>> \/ Len(remainder) < Len(b)
      /\ a = Plus(Times(b, quotient), remainder)
      /\ pc = "called" /\ q = <<>> /\ r = <<>>
  BY PolyOfFew, DivisionOperators DEF Division!Init
<1>2. IsPoly(a)
  BY <1>1, DividendIs
<1>. QED  BY <1>1, <1>2 DEF DivisionInv

LEMMA RevB == IsPoly(b) => Division!rev_b = b
<1> SUFFICES ASSUME IsPoly(b) PROVE Division!rev_b = b
  OBVIOUS
<1>1. b \in Seq(Field)
  BY PolyIsSeq
<1>2. degree(b) + 1 \in Nat /\ Len(b) <= degree(b) + 1
  BY <1>1 DEF degree
<1>3. Division!rev_b = Division!rev(b, degree(b) + 1)
  BY DivisionOperators DEF Division!rev_b
<1> DEFINE k == degree(b) + 1
<1>4. k \in Nat /\ Len(b) <= k
  BY <1>2
<1> HIDE DEF k
<1>5. Division!rev(b, k) = b
  BY <1>4, RevIs
<1>. QED  BY <1>3, <1>5 DEF k

LEMMA RevA == IsPoly(a) => Division!rev_a = a
<1> SUFFICES ASSUME IsPoly(a) PROVE Division!rev_a = a
  OBVIOUS
<1>1. a \in Seq(Field)
  BY PolyIsSeq
<1>2. degree(a) + 1 \in Nat /\ Len(a) <= degree(a) + 1
  BY <1>1 DEF degree
<1>3. Division!rev_a = Division!rev(a, degree(a) + 1)
  BY DivisionOperators DEF Division!rev_a
<1> DEFINE k == degree(a) + 1
<1>4. k \in Nat /\ Len(a) <= k
  BY <1>2
<1> HIDE DEF k
<1>5. Division!rev(a, k) = a
  BY <1>4, RevIs
<1>. QED  BY <1>3, <1>5 DEF k

\* The first inverse is that of the constant term.
LEMMA FirstInverse ==
    ASSUME NEW p, IsPoly(p), p # <<>>, p[1] # 0
    PROVE  /\ IsPoly(<<Inv(p[1])>>)
           /\ InverseUpTo(Coef(<<Inv(p[1])>>), Coef(p), 1)
<1> DEFINE x == Inv(p[1])
           s == <<x>>
<1>1. p \in Seq(Field) /\ p[1] \in Field /\ p[1] \in 1..(P - 1)
  <2>1. p \in Seq(Field)
    BY PolyIsSeq
  <2>2. Len(p) \in Nat /\ Len(p) # 0 /\ 1 \in 1..Len(p)
    BY <2>1
  <2>3. p[1] \in Field
    BY <2>1, <2>2
  <2>. QED  BY <2>1, <2>3, FieldIs DEF Field
<1>2. x \in 1..(P - 1) /\ (p[1] * x) % P = 1
  <2>1. \E y \in 1..(P - 1) : (p[1] * y) % P = 1
    BY <1>1, FieldAssumption
  <2>. QED  BY <2>1 DEF Inv
<1> HIDE DEF x
<1>3. x \in Field /\ x # 0 /\ x \in Int
  BY <1>2, FieldIs DEF Field
<1>4. s \in Seq(Field) /\ Len(s) = 1 /\ s[1] = x /\ s # <<>>
  BY <1>3
<1>5. IsPoly(s)
  BY <1>3, <1>4 DEF IsPoly
<1> HIDE DEF s
<1>6. Coef(s) \in Series /\ Coef(p) \in Series /\ Coef(s)[0] = x /\ Coef(p)[0] = p[1]
  <2>1. 0 < Len(s) /\ 0 < Len(p) /\ 0 + 1 = 1 /\ 0 \in Nat
    BY <1>1, <1>4
  <2>2. Coef(s)[0] = s[0 + 1]
    BY <1>4, <2>1, CoefIs
  <2>3. Coef(p)[0] = p[0 + 1]
    BY <1>1, <2>1, CoefIs
  <2>. QED  BY <1>1, <1>4, <2>1, <2>2, <2>3, CoefIs
<1>7. Product(Coef(s), Coef(p))[0] = x * p[1]
  BY <1>6, ProductIs
<1>8. x * p[1] = p[1] * x
  BY <1>1, <1>3, InField
<1>9. \A n \in Nat : n < 1 => n = 0
  OBVIOUS
<1>10. InverseUpTo(Coef(s), Coef(p), 1)
  BY <1>2, <1>7, <1>8, <1>9, OneIs DEF InverseUpTo
<1>. QED  BY <1>5, <1>10 DEF s, x

-----------------------------------------------------------------------------

\* What no step of a division touches.
LEMMA SameInput ==
    ASSUME DivisionInv, UNCHANGED <<a, b, quotient, remainder>>
    PROVE  /\ IsPoly(a') /\ IsPoly(b') /\ IsPoly(quotient') /\ IsPoly(remainder')
           /\ a' = Plus(Times(b', quotient'), remainder')
           /\ remainder' = <<>> \/ Len(remainder') < Len(b')
           /\ (Division!Exact)' = Division!Exact
           /\ (Division!DivisorOfProver)' = Division!DivisorOfProver
BY DEF DivisionInv, Division!Exact, Division!DivisorOfProver, Division!degree

LEMMA RefuseStep == DivisionInv /\ Division!Refuse => DivisionInv'
<1> SUFFICES ASSUME DivisionInv, Division!Refuse PROVE DivisionInv'
  OBVIOUS
<1>1. UNCHANGED <<a, b, quotient, remainder>> /\ pc' = "panic" /\ b = <<>>
  BY DEF Division!Refuse, Division!Panic, Division!input
<1>2. ~Division!DivisorOfProver
  BY <1>1 DEF Division!DivisorOfProver
<1>. QED  BY <1>1, <1>2, SameInput DEF DivisionInv

LEMMA TooShortStep == DivisionInv /\ Division!TooShort => DivisionInv'
<1> SUFFICES ASSUME DivisionInv, Division!TooShort PROVE DivisionInv'
  OBVIOUS
<1>1. /\ UNCHANGED <<a, b, quotient, remainder, q>> /\ pc = "called" /\ pc' = "divided" /\ r' = a
      /\ b # <<>> /\ degree(b) > degree(a) /\ q = <<>>
  BY DivisionOperators DEF Division!TooShort, Division!input, DivisionInv
<1>2. IsPoly(a) /\ IsPoly(b) /\ IsPoly(quotient) /\ IsPoly(remainder) /\ a \in Seq(Field)
      /\ b \in Seq(Field)
      /\ quotient \in Seq(Field) /\ a = Plus(Times(b, quotient), remainder)
  BY PolyIsSeq DEF DivisionInv
<1>3. a = Minus(a, Times(b, <<>>))
  <2>1. Times(b, <<>>) = <<>>
    BY <1>2, TimesEmpty
  <2> DEFINE e == <<>>
  <2>2. e \in Seq(Field) /\ \A n \in Nat : Coef(e)[n] = 0
    BY EmptyPoly, PolyIsSeq
  <2> HIDE DEF e
  <2>3. IsPoly(Minus(a, e)) /\ \A n \in Nat : Coef(Minus(a, e))[n] = (Coef(a)[n] - Coef(e)[n]) % P
    BY <1>2, <2>2, MinusPoly
  <2>4. ASSUME NEW n \in Nat PROVE Coef(a)[n] = Coef(Minus(a, e))[n]
    <3>1. Coef(a)[n] \in Int /\ Coef(a)[n] % P = Coef(a)[n]
      BY <1>2, CoefIs, InField
    <3>2. Coef(a)[n] - 0 = Coef(a)[n]
      BY <3>1
    <3>. QED  BY <2>2, <2>3, <3>1, <3>2
  <2>5. a = Minus(a, e)
    BY <1>2, <2>3, <2>4, SamePoly
  <2>. QED  BY <2>1, <2>5 DEF e
<1>4. ASSUME remainder = <<>> PROVE a = <<>>
  <2> DEFINE t == Times(b, quotient)
  <2>6. a = t
    BY <1>2, <1>4, ExactDividend
  <2>7. CASE quotient = <<>>
    BY <1>2, <2>6, <2>7, TimesEmpty DEF t
  <2>8. CASE quotient # <<>>
    <3>1. Len(t) = Len(b) + Len(quotient) - 1 /\ t # <<>>
      BY <1>1, <1>2, <2>8, TimesLength DEF t
    <3>2. Len(quotient) \in Nat /\ Len(quotient) # 0 /\ Len(b) \in Nat
      BY <1>2, <2>8
    <3>3. degree(a) = Len(a) - 1 /\ degree(b) = Len(b) - 1
      BY <1>1, <2>6, <3>1 DEF degree
    <3>. QED  BY <1>1, <2>6, <3>1, <3>2, <3>3
  <2>. QED  BY <2>7, <2>8
<1>5. Division!Exact => r' = <<>>
  BY <1>1, <1>4 DEF Division!Exact
<1>6. b' # <<>> /\ IsPoly(q') /\ IsPoly(r') /\ r' = Minus(a', Times(b', q'))
  BY <1>1, <1>2, <1>3, EmptyPoly
<1>. QED  BY <1>1, <1>5, <1>6, SameInput DEF DivisionInv

LEMMA StartInverseStep == DivisionInv /\ Division!StartInverse => DivisionInv'
<1> SUFFICES ASSUME DivisionInv, Division!StartInverse PROVE DivisionInv'
  OBVIOUS
<1>1. IsPoly(b) /\ pc = "called" /\ b # <<>> /\ degree(b) <= degree(a)
  BY DivisionOperators DEF Division!StartInverse, DivisionInv
<1>2. CASE b[1] = 0
  <2>1. UNCHANGED <<a, b, quotient, remainder>> /\ pc' = "panic"
    BY <1>1, <1>2, RevB DEF Division!StartInverse, Division!Panic, Division!input
  <2>2. ~Division!DivisorOfProver
    BY <1>2 DEF Division!DivisorOfProver
  <2>. QED  BY <2>1, <2>2, SameInput DEF DivisionInv
<1>3. CASE b[1] # 0
  <2>1. UNCHANGED <<a, b, quotient, remainder>> /\ pc' = "lift" /\ inverse' = <<Inv(b[1])>>
        /\ l' = 1
    BY <1>1, <1>3, RevB, DivisionOperators DEF Division!StartInverse, Division!input
  <2>2. Len(inverse') <= 1 /\ 1 \in Nat \ {0}
    BY <2>1
  <2>3. IsPoly(inverse') /\ InverseUpTo(Coef(inverse'), Coef(b), 1)
    BY <1>1, <1>3, <2>1, FirstInverse
  <2>4. Inverts'
    <3>1. b' # <<>> /\ (degree(b) <= degree(a))'
      BY <1>1, <2>1 DEF degree
    <3>2. Coef(b') = Coef(b)
      BY <2>1
    <3>3. InverseUpTo(Coef(inverse'), Coef(b'), l')
      BY <2>1, <2>3, <3>2
    <3>. QED  BY <2>1, <2>2, <2>3, <3>1, <3>3 DEF Inverts, Coef, InverseUpTo
  <2>. QED  BY <2>1, <2>4, SameInput DEF DivisionInv
<1>. QED  BY <1>2, <1>3

LEMMA LiftStep == DivisionInv /\ Division!Lift => DivisionInv'
<1> SUFFICES ASSUME DivisionInv, Division!Lift PROVE DivisionInv'
  OBVIOUS
<1>1. /\ IsPoly(b) /\ pc = "lift" /\ b # <<>> /\ degree(b) <= degree(a)
      /\ IsPoly(inverse) /\ l \in Nat \ {0} /\ Len(inverse) <= l
      /\ InverseUpTo(Coef(inverse), Coef(b), l)
  BY DEF Division!Lift, DivisionInv, Inverts
<1>2. /\ UNCHANGED <<a, b, quotient, remainder, pc>> /\ l' = 2 * l
      /\ inverse' = Division!hensel_lift(b, inverse, l)
  BY <1>1, RevB DEF Division!Lift, Division!input
<1>3. IsPoly(inverse') /\ Len(inverse') <= 2 * l /\ InverseUpTo(Coef(inverse'), Coef(b), 2 * l)
  BY <1>1, <1>2, HenselLift
<1>4. 2 * l \in Nat \ {0}
  BY <1>1
<1>5. Inverts'
  <2>1. b' # <<>> /\ (degree(b) <= degree(a))'
    BY <1>1, <1>2 DEF degree
  <2>2. Coef(b') = Coef(b)
    BY <1>2
  <2>3. InverseUpTo(Coef(inverse'), Coef(b'), l')
    BY <1>2, <1>3, <2>2
  <2>. QED  BY <1>2, <1>3, <1>4, <2>1, <2>3 DEF Inverts, Coef, InverseUpTo
<1>. QED  BY <1>1, <1>2, <1>5, SameInput DEF DivisionInv

\* How many coefficients the quotient has.
LEMMA LengthOfQuotient ==
    ASSUME DivisionInv, b # <<>>, degree(b) <= degree(a)
    PROVE  /\ Division!inversion_degree \in Nat \ {0}
           /\ Division!inversion_degree = degree(a) - degree(b) + 1
           /\ Division!Exact /\ Division!DivisorOfProver =>
                  a = Times(b, quotient) /\ quotient # <<>>
                  /\ Division!inversion_degree = Len(quotient)
<1> DEFINE D == Division!inversion_degree
<1>1. D = degree(a) - degree(b) + 1
  BY DivisionOperators DEF Division!inversion_degree
<1> HIDE DEF D
<1>2. IsPoly(a) /\ IsPoly(b) /\ IsPoly(quotient) /\ a = Plus(Times(b, quotient), remainder)
  BY DEF DivisionInv
<1>3. a \in Seq(Field) /\ b \in Seq(Field) /\ quotient \in Seq(Field)
  BY <1>2, PolyIsSeq
<1>4. Len(a) \in Nat /\ Len(b) \in Nat /\ Len(quotient) \in Nat /\ Len(b) # 0
      /\ degree(a) \in Nat /\ degree(b) = Len(b) - 1
  BY <1>3 DEF degree
<1>5. D \in Nat \ {0}
  BY <1>1, <1>4
<1>6. ASSUME Division!Exact, Division!DivisorOfProver
      PROVE  a = Times(b, quotient) /\ quotient # <<>> /\ D = Len(quotient)
  <2> DEFINE t == Times(b, quotient)
  <2>6. a = t
    BY <1>2, <1>6, ExactDividend DEF Division!Exact
  <2>7. CASE quotient = <<>>
    <3>1. a = <<>>
      BY <1>3, <2>6, <2>7, TimesEmpty DEF t
    <3>2. degree(a) = 0 /\ degree(b) > 0
      BY <1>6, <3>1, DivisionOperators DEF degree, Division!DivisorOfProver
    <3>. QED  BY <1>4, <3>2
  <2>8. CASE quotient # <<>>
    <3>1. Len(t) = Len(b) + Len(quotient) - 1 /\ t # <<>>
      BY <1>2, <2>8, TimesLength DEF t
    <3>2. degree(a) = Len(a) - 1
      BY <2>6, <3>1 DEF degree
    <3>3. D = Len(quotient)
      BY <1>1, <1>4, <2>6, <3>1, <3>2
    <3>. QED  BY <2>6, <2>8, <3>3 DEF t
  <2>. QED  BY <2>7, <2>8
<1>. QED  BY <1>1, <1>5, <1>6 DEF D

LEMMA DivideStep == DivisionInv /\ Division!Divide => DivisionInv'
<1> SUFFICES ASSUME DivisionInv, Division!Divide PROVE DivisionInv'
  OBVIOUS
<1> DEFINE D == Division!inversion_degree
           ct == Take(inverse, D + 1)
           cut == Poly(ct)
           product == Times(cut, a)
           tk == Take(product, D)
           cut_q == Division!rev(Poly(tk), D)
<1>1. /\ IsPoly(a) /\ IsPoly(b) /\ IsPoly(quotient) /\ pc = "lift" /\ b # <<>>
      /\ degree(b) <= degree(a)
      /\ IsPoly(inverse) /\ l \in Nat \ {0} /\ InverseUpTo(Coef(inverse), Coef(b), l)
  BY DEF Division!Divide, DivisionInv, Inverts
<1>2. /\ l >= D
      /\ \/ Len(product) < D /\ Division!Panic
         \/ /\ ~(Len(product) < D)
            /\ pc' = "divided" /\ q' = cut_q /\ r' = Minus(a, Times(b, cut_q))
            /\ UNCHANGED Division!input
  BY <1>1, RevA, DivisionOperators DEF Division!Divide, Division!QuotientLength
<1>3. D \in Nat \ {0} /\ (Division!Exact /\ Division!DivisorOfProver =>
          a = Times(b, quotient) /\ quotient # <<>> /\ D = Len(quotient))
  BY <1>1, LengthOfQuotient
<1> HIDE DEF D
<1>4. UNCHANGED <<a, b, quotient, remainder>>
  BY <1>2 DEF Division!Panic, Division!input
<1>5. a \in Seq(Field) /\ b \in Seq(Field) /\ inverse \in Seq(Field)
  BY <1>1, PolyIsSeq
<1>6. ct \in Seq(Field)
  <2> DEFINE m == D + 1
  <2>1. m \in Nat
    BY <1>3
  <2> HIDE DEF m
  <2>2. Take(inverse, m) \in Seq(Field)
    BY <1>5, <2>1, TakeIs
  <2>. QED  BY <2>2 DEF m
<1>7. cut \in Seq(Field)
  <2> HIDE DEF ct
  <2>1. IsPoly(cut)
    BY <1>6, PolyIs
  <2> HIDE DEF cut
  <2>. QED  BY <2>1, PolyIsSeq
<1>8. product \in Seq(Field)
  <2> HIDE DEF cut
  <2>1. IsPoly(product)
    BY <1>5, <1>7, TimesPoly
  <2> HIDE DEF product
  <2>. QED  BY <2>1, PolyIsSeq
<1>9. cut_q = Poly(tk) /\ IsPoly(cut_q)
  <2>1. tk \in Seq(Field) /\ Len(tk) <= D
    <3> HIDE DEF product
    <3>1. tk \in Seq(Field) /\ Len(tk) = IF D < Len(product) THEN D ELSE Len(product)
      BY <1>3, <1>8, TakeIs
    <3>2. Len(product) \in Nat
      BY <1>8
    <3>. QED  BY <1>3, <3>1, <3>2
  <2> DEFINE p == Poly(tk)
  <2> HIDE DEF tk
  <2>2. IsPoly(p) /\ Len(p) <= Len(tk)
    BY <2>1, PolyIs
  <2> HIDE DEF p
  <2>3. Len(p) <= D
    <3>1. Len(p) \in Nat /\ Len(tk) \in Nat
      BY <2>1, <2>2, PolyIsSeq
    <3>. QED  BY <1>3, <2>1, <2>2, <3>1
  <2>4. Division!rev(p, D) = p
    BY <1>3, <2>2, <2>3, RevIs
  <2>. QED  BY <2>2, <2>4 DEF p
<1>10. ASSUME Division!Exact, Division!DivisorOfProver
       PROVE  Len(product) >= D /\ cut_q = quotient
  <2>1. a = Times(b, quotient) /\ quotient # <<>> /\ D = Len(quotient)
    BY <1>3, <1>10
  <2>2. product = Times(Poly(Take(inverse, D + 1)), Times(b, quotient))
    BY <2>1
  <2>3. Len(quotient) <= l /\ l \in Nat
    BY <1>1, <1>2, <2>1
  <2> HIDE DEF product
  <2>4. Len(product) >= D /\ Poly(Take(product, D)) = quotient
    BY <1>1, <2>1, <2>2, <2>3, CutQuotient
  <2>. QED  BY <1>9, <2>4
<1>11. CASE Len(product) < D /\ Division!Panic
  <2>1. pc' = "panic"
    BY <1>11 DEF Division!Panic
  <2>2. ~(Division!Exact /\ Division!DivisorOfProver)
    <3>1. Len(product) \in Nat /\ D \in Nat
      BY <1>3, <1>8
    <3> HIDE DEF product
    <3>. QED  BY <1>10, <1>11, <3>1
  <2>. QED  BY <1>4, <2>1, <2>2, SameInput DEF DivisionInv
<1>12. CASE ~(Len(product) < D) /\ pc' = "divided" /\ q' = cut_q /\ r' = Minus(a, Times(b, cut_q))
  <2>1. /\ pc' = "divided" /\ q' = cut_q /\ r' = Minus(a, Times(b, cut_q))
    BY <1>12
  <2> HIDE DEF cut_q, product
  <2>2. Times(b, cut_q) \in Seq(Field)
    <3>1. IsPoly(Times(b, cut_q))
      BY <1>5, <1>9, PolyIsSeq, TimesPoly
    <3>. QED  BY <3>1, PolyIsSeq
  <2>3. IsPoly(r')
    <3> DEFINE t == Times(b, cut_q)
    <3>1. t \in Seq(Field)
      BY <2>2
    <3> HIDE DEF t
    <3>2. IsPoly(Minus(a, t))
      BY <1>5, <3>1, MinusPoly
    <3>. QED  BY <2>1, <3>2 DEF t
  <2>4. Division!Exact /\ Division!DivisorOfProver => r' = <<>>
    <3> SUFFICES ASSUME Division!Exact, Division!DivisorOfProver PROVE r' = <<>>
      OBVIOUS
    <3>1. a = Times(b, cut_q)
      BY <1>3, <1>10
    <3>2. r' = Minus(a, a)
      BY <2>1, <3>1
    <3>3. IsPoly(Minus(a, a)) /\ \A n \in Nat : Coef(Minus(a, a))[n] = (Coef(a)[n] - Coef(a)[n]) % P
      BY <1>5, MinusPoly
    <3>4. ASSUME NEW n \in Nat PROVE Coef(Minus(a, a))[n] = 0
      <4>1. Coef(a)[n] \in Int
        BY <1>5, CoefIs, InField
      <4>2. Coef(a)[n] - Coef(a)[n] = 0
        BY <4>1
      <4>. QED  BY <3>3, <4>2, RemainderOne
    <3>5. Minus(a, a) = <<>>
      BY <3>3, <3>4, EmptyPoly, SamePoly
    <3>. QED  BY <3>2, <3>5
  <2>5. b' # <<>> /\ IsPoly(q') /\ IsPoly(r') /\ r' = Minus(a', Times(b', q'))
    BY <1>1, <1>4, <1>9, <2>1, <2>3
  <2>. QED  BY <1>4, <2>1, <2>4, <2>5, SameInput DEF DivisionInv
<1>. QED  BY <1>2, <1>11, <1>12

LEMMA PolyDivStep == DivisionInv /\ Division!poly_div => DivisionInv'
<1> SUFFICES ASSUME DivisionInv, Division!poly_div PROVE DivisionInv'
  OBVIOUS
<1>1. UNCHANGED <<a, b, quotient, remainder>> /\ pc = "divided"
  BY DEF Division!poly_div, Division!Panic, Division!input
<1>2. CASE r # <<>>
  <2>1. pc' = "panic"
    BY <1>2 DEF Division!poly_div, Division!Panic
  <2>2. ~(Division!Exact /\ Division!DivisorOfProver)
    BY <1>1, <1>2 DEF DivisionInv
  <2>. QED  BY <1>1, <2>1, <2>2, SameInput DEF DivisionInv
<1>3. CASE r = <<>>
  <2>1. pc' = "returned" /\ UNCHANGED <<q, r>>
    BY <1>3 DEF Division!poly_div
  <2>2. b' # <<>> /\ IsPoly(q') /\ IsPoly(r') /\ r' = Minus(a', Times(b', q'))
    BY <1>1, <2>1 DEF DivisionInv
  <2>. QED  BY <1>1, <1>3, <2>1, <2>2, SameInput DEF DivisionInv
<1>. QED  BY <1>2, <1>3

LEMMA NextDivision == DivisionInv /\ [Division!Next]_divisionVars => DivisionInv'
<1>1. CASE UNCHANGED divisionVars
  BY <1>1 DEF divisionVars, divVars, DivisionInv, Inverts, Division!Exact, Division!DivisorOfProver,
              Division!degree, degree, Coef, InverseUpTo, IsPoly
<1>. QED  BY <1>1, RefuseStep, TooShortStep, StartInverseStep, LiftStep, DivideStep, PolyDivStep
          DEF Division!Next

LEMMA InverseIsOne == DivisionInv => Division!InverseSoFar
<1> SUFFICES ASSUME DivisionInv, pc = "lift"
             PROVE  Division!Poly(Division!Take(Division!Times(inverse, Division!rev_b), l)) = <<1>>
  BY DEF Division!InverseSoFar
<1> DEFINE t == Times(inverse, b)
           tk == Take(t, l)
<1>1. /\ IsPoly(b) /\ IsPoly(inverse) /\ l \in Nat \ {0} /\ InverseUpTo(Coef(inverse), Coef(b), l)
      /\ b \in Seq(Field) /\ inverse \in Seq(Field)
  BY PolyIsSeq DEF DivisionInv, Inverts
<1>2. t \in Seq(Field) /\ \A n \in Nat : Coef(t)[n] = Product(Coef(inverse), Coef(b))[n] % P
  BY <1>1, TimesPoly, PolyIsSeq
<1> HIDE DEF t
<1>3. /\ tk \in Seq(Field)
      /\ \A n \in Nat : n < l => Coef(tk)[n] = Coef(t)[n]
      /\ \A n \in Nat : n >= l => Coef(tk)[n] = 0
  BY <1>1, <1>2, TakeIs
<1> HIDE DEF tk
<1>4. IsPoly(Poly(tk)) /\ Coef(Poly(tk)) = Coef(tk)
  BY <1>3, PolyIs
<1>5. ASSUME NEW n \in Nat PROVE Coef(tk)[n] = One[n]
  <2>1. CASE n < l
    BY <1>1, <1>2, <1>3, <2>1 DEF InverseUpTo
  <2>2. CASE ~(n < l)
    <3>1. n >= l /\ n # 0
      BY <1>1, <2>2
    <3>. QED  BY <1>3, <3>1, OneIs
  <2>. QED  BY <2>1, <2>2
<1>6. Poly(tk) = <<1>>
  BY <1>4, <1>5, OnePoly, SamePoly
<1>. QED  BY <1>1, <1>6, RevB, DivisionOperators DEF t, tk

LEMMA ReturnsQuotient == DivisionInv => Division!ProverDivides
<1> SUFFICES ASSUME DivisionInv, Division!DivisorOfProver
             PROVE  /\ Division!Exact => pc # "panic"
                    /\ pc = "returned" => Division!Exact /\ q = quotient
  BY DEF Division!ProverDivides
<1>1. Division!Exact => pc # "panic"
  BY DEF DivisionInv
<1>2. ASSUME pc = "returned" PROVE Division!Exact /\ q = quotient
  <2>1. /\ IsPoly(a) /\ IsPoly(b) /\ IsPoly(quotient) /\ IsPoly(remainder) /\ IsPoly(q) /\ b # <<>>
        /\ remainder = <<>> \/ Len(remainder) < Len(b)
        /\ a = Plus(Times(b, quotient), remainder)
        /\ Minus(a, Times(b, q)) = <<>>
    BY <1>2 DEF DivisionInv
  <2>2. \A n \in Nat : Coef(a)[n] = (Product(Coef(b), Coef(quotient))[n] + Coef(remainder)[n]) % P
    BY <2>1, DividendIs
  <2>3. a \in Seq(Field) /\ b \in Seq(Field) /\ q \in Seq(Field)
    BY <2>1, PolyIsSeq
  <2>4. Times(b, q) \in Seq(Field)
        /\ \A n \in Nat : Coef(Times(b, q))[n] = Product(Coef(b), Coef(q))[n] % P
    BY <2>3, TimesPoly, PolyIsSeq
  <2>5. \A n \in Nat : Coef(a)[n] = Coef(Times(b, q))[n]
    <3> DEFINE t == Times(b, q)
    <3>1. t \in Seq(Field) /\ Minus(a, t) = <<>>
      BY <2>1, <2>4
    <3> HIDE DEF t
    <3>2. \A n \in Nat : Coef(a)[n] = Coef(t)[n]
      BY <2>3, <3>1, NoDifference
    <3>. QED  BY <3>2 DEF t
  <2>6. TwoQuotients(b, quotient, q, remainder)
    BY <2>1, <2>2, <2>4, <2>5 DEF TwoQuotients
  <2>7. quotient = q /\ remainder = <<>>
    BY <2>6, UniqueQuotient
  <2>. QED  BY <2>7 DEF Division!Exact
<1>. QED  BY <1>1, <1>2

-----------------------------------------------------------------------------
(* The ring of polynomials *)

\* The coefficients of p are the terms of f, modulo P.
Represents(p, f) == IsPoly(p) /\ f \in Series /\ \A n \in Nat : Coef(p)[n] = f[n] % P

\* A polynomial represents the series of its coefficients.
LEMMA RepresentsItself ==
    ASSUME NEW p, IsPoly(p)
    PROVE  Represents(p, Coef(p))
<1>1. p \in Seq(Field)
  BY PolyIsSeq
<1>2. Coef(p) \in Series /\ \A n \in Nat : Coef(p)[n] \in Field
  BY <1>1, CoefIs
<1> QED
  BY <1>2, InField DEF Represents

\* Sequences that represent series with the same remainders are one.
LEMMA RepresentsOne ==
    ASSUME NEW p, NEW f, Represents(p, f), NEW s, NEW g, Represents(s, g),
           \A n \in Nat : SameMod(f[n], g[n], P)
    PROVE  p = s
<1>1. \A n \in Nat : Coef(p)[n] = Coef(s)[n]
  BY DEF Represents, SameMod
<1> QED
  BY <1>1, SamePoly DEF Represents

LEMMA RepresentsSame ==
    ASSUME NEW p, NEW f, Represents(p, f), NEW s, Represents(s, f)
    PROVE  p = s
BY RepresentsOne DEF SameMod

\* The operations on polynomials are those on the series they represent.
LEMMA RepresentsTimes ==
    ASSUME NEW p, NEW f, Represents(p, f), NEW s, NEW g, Represents(s, g)
    PROVE  Represents(Times(p, s), Product(f, g))
<1>1. p \in Seq(Field) /\ s \in Seq(Field) /\ f \in Series /\ g \in Series
  BY PolyIsSeq DEF Represents
<1>2. /\ IsPoly(Times(p, s))
      /\ \A n \in Nat : Coef(Times(p, s))[n] = Product(Coef(p), Coef(s))[n] % P
  BY <1>1, TimesPoly
<1>3. Coef(p) \in Series /\ Coef(s) \in Series
  BY <1>1, CoefIs
<1>4. Product(f, g) \in Series
  BY <1>1, ProductIs
<1>5. P \in Nat \ {0}
  BY FieldIs
<1>6. \A n \in Nat : Coef(p)[n] % P = f[n] % P /\ Coef(s)[n] % P = g[n] % P
  <2>1. \A n \in Nat : Coef(p)[n] \in Field /\ Coef(s)[n] \in Field
    BY <1>1, CoefIs
  <2> QED
    BY <2>1, InField DEF Represents
<1>7. \A n \in Nat : Congruent(Coef(p), f, P, n) /\ Congruent(Coef(s), g, P, n)
  BY <1>6 DEF Congruent
<1>8. \A n \in Nat : Product(Coef(p), Coef(s))[n] % P = Product(f, g)[n] % P
  BY <1>1, <1>3, <1>5, <1>7, ProductCongruent
<1> QED
  BY <1>2, <1>4, <1>8 DEF Represents

LEMMA RepresentsPlus ==
    ASSUME NEW p, NEW f, Represents(p, f), NEW s, NEW g, Represents(s, g)
    PROVE  Represents(Plus(p, s), PlusSeries(f, g))
<1>1. p \in Seq(Field) /\ s \in Seq(Field) /\ f \in Series /\ g \in Series
  BY PolyIsSeq DEF Represents
<1>2. /\ IsPoly(Plus(p, s))
      /\ \A n \in Nat : Coef(Plus(p, s))[n] = (Coef(p)[n] + Coef(s)[n]) % P
  BY <1>1, PlusPoly
<1>3. PlusSeries(f, g) \in Series /\ \A n \in Nat : PlusSeries(f, g)[n] = f[n] + g[n]
  BY <1>1, PlusIs
<1>4. P \in Nat \ {0}
  BY FieldIs
<1>5. ASSUME NEW n \in Nat
      PROVE  (Coef(p)[n] + Coef(s)[n]) % P = (f[n] + g[n]) % P
  <2>1. Coef(p)[n] \in Field /\ Coef(s)[n] \in Field /\ f[n] \in Int /\ g[n] \in Int
    BY <1>1, CoefIs, TermIs
  <2>2. SameMod(Coef(p)[n], f[n], P) /\ SameMod(Coef(s)[n], g[n], P)
    BY <2>1, InField DEF Represents, SameMod
  <2>3. SameMod(Coef(p)[n] + Coef(s)[n], f[n] + g[n], P)
    BY <1>4, <2>1, <2>2, InField, ModSum
  <2> QED
    BY <2>3 DEF SameMod
<1> QED
  BY <1>2, <1>3, <1>5 DEF Represents

LEMMA RepresentsScale ==
    ASSUME NEW p, NEW f, Represents(p, f), NEW x \in Int
    PROVE  Represents(Scale(p, x), ScaleSeries(x, f))
<1>1. p \in Seq(Field) /\ f \in Series
  BY PolyIsSeq DEF Represents
<1>2. /\ IsPoly(Scale(p, x))
      /\ \A n \in Nat : Coef(Scale(p, x))[n] = (Coef(p)[n] * x) % P
  BY <1>1, ScalePoly
<1>3. ScaleSeries(x, f) \in Series /\ \A n \in Nat : ScaleSeries(x, f)[n] = x * f[n]
  BY <1>1, ScaleIs
<1>4. P \in Nat \ {0}
  BY FieldIs
<1>5. ASSUME NEW n \in Nat
      PROVE  (Coef(p)[n] * x) % P = (x * f[n]) % P
  <2>1. f[n] \in Int /\ Coef(p)[n] = f[n] % P
    BY <1>1, TermIs DEF Represents
  <2>2. ((f[n] % P) * x) % P = (f[n] * x) % P
    BY <1>4, <2>1, ModTimes
  <2>3. f[n] * x = x * f[n]
    BY <2>1
  <2> QED
    BY <2>1, <2>2, <2>3
<1> QED
  BY <1>2, <1>3, <1>5 DEF Represents

\* The ring laws of polynomials, from those of series.
LEMMA PolyTypes ==
    ASSUME NEW p, IsPoly(p), NEW s, IsPoly(s)
    PROVE  /\ IsPoly(Times(p, s)) /\ IsPoly(Plus(p, s)) /\ IsPoly(Minus(p, s))
           /\ \A x \in Int : IsPoly(Scale(p, x))
BY PolyIsSeq, TimesPoly, PlusPoly, MinusPoly, ScalePoly

LEMMA TimesCommutes ==
    ASSUME NEW p, IsPoly(p), NEW s, IsPoly(s)
    PROVE  Times(p, s) = Times(s, p)
<1>1. Represents(p, Coef(p)) /\ Represents(s, Coef(s))
  BY RepresentsItself
<1>2. Represents(Times(p, s), Product(Coef(p), Coef(s)))
      /\ Represents(Times(s, p), Product(Coef(s), Coef(p)))
  BY <1>1, RepresentsTimes
<1>3. Product(Coef(p), Coef(s)) = Product(Coef(s), Coef(p))
  BY <1>1, ProductCommutes DEF Represents
<1> QED
  BY <1>2, <1>3, RepresentsSame

LEMMA TimesAssociates ==
    ASSUME NEW p, IsPoly(p), NEW s, IsPoly(s), NEW t, IsPoly(t)
    PROVE  Times(Times(p, s), t) = Times(p, Times(s, t))
<1>1. Represents(p, Coef(p)) /\ Represents(s, Coef(s)) /\ Represents(t, Coef(t))
  BY RepresentsItself
<1>2. Represents(Times(p, s), Product(Coef(p), Coef(s)))
      /\ Represents(Times(s, t), Product(Coef(s), Coef(t)))
  BY <1>1, RepresentsTimes
<1>3. Represents(Times(Times(p, s), t), Product(Product(Coef(p), Coef(s)), Coef(t)))
      /\ Represents(Times(p, Times(s, t)), Product(Coef(p), Product(Coef(s), Coef(t))))
  BY <1>1, <1>2, RepresentsTimes
<1>4. Product(Product(Coef(p), Coef(s)), Coef(t)) = Product(Coef(p), Product(Coef(s), Coef(t)))
  BY <1>1, ProductAssociates DEF Represents
<1> QED
  BY <1>3, <1>4, RepresentsSame

LEMMA PlusCommutes ==
    ASSUME NEW p, IsPoly(p), NEW s, IsPoly(s)
    PROVE  Plus(p, s) = Plus(s, p)
<1>1. Represents(p, Coef(p)) /\ Represents(s, Coef(s))
  BY RepresentsItself
<1>2. Represents(Plus(p, s), PlusSeries(Coef(p), Coef(s)))
      /\ Represents(Plus(s, p), PlusSeries(Coef(s), Coef(p)))
  BY <1>1, RepresentsPlus
<1>3. PlusSeries(Coef(p), Coef(s)) = PlusSeries(Coef(s), Coef(p))
  <2>1. \A n \in Nat : Coef(p)[n] \in Int /\ Coef(s)[n] \in Int
    BY <1>1, TermIs DEF Represents
  <2> QED
    BY <2>1 DEF PlusSeries
<1> QED
  BY <1>2, <1>3, RepresentsSame

LEMMA PlusAssociates ==
    ASSUME NEW p, IsPoly(p), NEW s, IsPoly(s), NEW t, IsPoly(t)
    PROVE  Plus(Plus(p, s), t) = Plus(p, Plus(s, t))
<1> DEFINE f == Coef(p)
           g == Coef(s)
           h == Coef(t)
<1>1. Represents(p, f) /\ Represents(s, g) /\ Represents(t, h)
  BY RepresentsItself
<1>2. \A n \in Nat : f[n] \in Int /\ g[n] \in Int /\ h[n] \in Int
  BY <1>1, TermIs DEF Represents
<1> HIDE DEF f, g, h
<1>3. Represents(Plus(p, s), PlusSeries(f, g)) /\ Represents(Plus(s, t), PlusSeries(g, h))
  BY <1>1, RepresentsPlus
<1>4. Represents(Plus(Plus(p, s), t), PlusSeries(PlusSeries(f, g), h))
      /\ Represents(Plus(p, Plus(s, t)), PlusSeries(f, PlusSeries(g, h)))
  BY <1>1, <1>3, RepresentsPlus
<1>5. PlusSeries(PlusSeries(f, g), h) = PlusSeries(f, PlusSeries(g, h))
  BY <1>2 DEF PlusSeries
<1> QED
  BY <1>4, <1>5, RepresentsSame

LEMMA TimesDistributes ==
    ASSUME NEW p, IsPoly(p), NEW s, IsPoly(s), NEW t, IsPoly(t)
    PROVE  Times(p, Plus(s, t)) = Plus(Times(p, s), Times(p, t))
<1> DEFINE f == Coef(p)
           g == Coef(s)
           h == Coef(t)
<1>1. Represents(p, f) /\ Represents(s, g) /\ Represents(t, h)
  BY RepresentsItself
<1> HIDE DEF f, g, h
<1>2. f \in Series /\ g \in Series /\ h \in Series
  BY <1>1 DEF Represents
<1>3. Represents(Plus(s, t), PlusSeries(g, h)) /\ Represents(Times(p, s), Product(f, g))
      /\ Represents(Times(p, t), Product(f, h))
  BY <1>1, RepresentsPlus, RepresentsTimes
<1>4. Represents(Times(p, Plus(s, t)), Product(f, PlusSeries(g, h)))
      /\ Represents(Plus(Times(p, s), Times(p, t)), PlusSeries(Product(f, g), Product(f, h)))
  BY <1>1, <1>3, RepresentsPlus, RepresentsTimes
<1>5. Product(f, PlusSeries(g, h)) = PlusSeries(Product(f, g), Product(f, h))
  <2>1. PlusSeries(g, h) \in Series
    BY <1>2, PlusIs
  <2>2. /\ Product(f, PlusSeries(g, h)) = Product(PlusSeries(g, h), f)
        /\ Product(f, g) = Product(g, f) /\ Product(f, h) = Product(h, f)
    BY <1>2, <2>1, ProductCommutes
  <2>3. \A n \in Nat : Product(PlusSeries(g, h), f)[n] = Product(g, f)[n] + Product(h, f)[n]
    BY <1>2, ProductOfSum
  <2>4. /\ Product(PlusSeries(g, h), f) \in Series
        /\ Product(g, f) \in Series /\ Product(h, f) \in Series
    BY <1>2, <2>1, ProductIs
  <2>5. /\ PlusSeries(Product(g, f), Product(h, f)) \in Series
        /\ \A n \in Nat : PlusSeries(Product(g, f), Product(h, f))[n]
               = Product(g, f)[n] + Product(h, f)[n]
    BY <2>4, PlusIs
  <2>6. Product(PlusSeries(g, h), f) = PlusSeries(Product(g, f), Product(h, f))
    BY <2>3, <2>4, <2>5, SameSeries
  <2> QED
    BY <2>2, <2>6
<1> QED
  BY <1>4, <1>5, RepresentsSame

LEMMA ScaleOfProduct ==
    ASSUME NEW p, IsPoly(p), NEW s, IsPoly(s), NEW x \in Int
    PROVE  /\ Times(Scale(p, x), s) = Scale(Times(p, s), x)
           /\ Times(p, Scale(s, x)) = Scale(Times(p, s), x)
<1>1. ASSUME NEW u, IsPoly(u), NEW v, IsPoly(v)
      PROVE  Times(Scale(u, x), v) = Scale(Times(u, v), x)
  <2> DEFINE f == Coef(u)
             g == Coef(v)
  <2>1. Represents(u, f) /\ Represents(v, g)
    BY <1>1, RepresentsItself
  <2> HIDE DEF f, g
  <2>2. f \in Series /\ g \in Series
    BY <2>1 DEF Represents
  <2>3. Represents(Scale(u, x), ScaleSeries(x, f)) /\ Represents(Times(u, v), Product(f, g))
    BY <2>1, RepresentsScale, RepresentsTimes
  <2>4. Represents(Times(Scale(u, x), v), Product(ScaleSeries(x, f), g))
        /\ Represents(Scale(Times(u, v), x), ScaleSeries(x, Product(f, g)))
    BY <2>1, <2>3, RepresentsScale, RepresentsTimes
  <2>5. Product(ScaleSeries(x, f), g) = ScaleSeries(x, Product(f, g))
    <3>1. ScaleSeries(x, f) \in Series /\ Product(f, g) \in Series
      BY <2>2, ScaleIs, ProductIs
    <3>2. /\ ScaleSeries(x, Product(f, g)) \in Series
          /\ \A n \in Nat : ScaleSeries(x, Product(f, g))[n] = x * Product(f, g)[n]
      BY <3>1, ScaleIs
    <3>3. Product(ScaleSeries(x, f), g) \in Series
      BY <2>2, <3>1, ProductIs
    <3>4. \A n \in Nat : Product(ScaleSeries(x, f), g)[n] = x * Product(f, g)[n]
      BY <2>2, ProductOfScaled
    <3> QED
      BY <3>2, <3>3, <3>4, SameSeries
  <2> QED
    BY <2>4, <2>5, RepresentsSame
<1>2. IsPoly(Scale(s, x))
  BY PolyTypes
<1>3. Times(p, Scale(s, x)) = Times(Scale(s, x), p) /\ Times(s, p) = Times(p, s)
  BY <1>2, TimesCommutes
<1> QED
  BY <1>1, <1>3

LEMMA ScaleOfSum ==
    ASSUME NEW p, IsPoly(p), NEW s, IsPoly(s), NEW x \in Int
    PROVE  Scale(Plus(p, s), x) = Plus(Scale(p, x), Scale(s, x))
<1> DEFINE f == Coef(p)
           g == Coef(s)
<1>1. Represents(p, f) /\ Represents(s, g)
  BY RepresentsItself
<1>2. \A n \in Nat : f[n] \in Int /\ g[n] \in Int
  BY <1>1, TermIs DEF Represents
<1> HIDE DEF f, g
<1>3. Represents(Plus(p, s), PlusSeries(f, g)) /\ Represents(Scale(p, x), ScaleSeries(x, f))
      /\ Represents(Scale(s, x), ScaleSeries(x, g))
  BY <1>1, RepresentsPlus, RepresentsScale
<1>4. Represents(Scale(Plus(p, s), x), ScaleSeries(x, PlusSeries(f, g)))
      /\ Represents(Plus(Scale(p, x), Scale(s, x)),
                    PlusSeries(ScaleSeries(x, f), ScaleSeries(x, g)))
  BY <1>3, RepresentsPlus, RepresentsScale
<1>5. ScaleSeries(x, PlusSeries(f, g)) = PlusSeries(ScaleSeries(x, f), ScaleSeries(x, g))
  <2>1. \A n \in Nat : x * (f[n] + g[n]) = x * f[n] + x * g[n]
    BY <1>2
  <2> QED
    BY <1>2, <2>1 DEF PlusSeries, ScaleSeries
<1> QED
  BY <1>4, <1>5, RepresentsSame

\* Scaling twice scales with the product.
LEMMA ScaleTwice ==
    ASSUME NEW p, IsPoly(p), NEW x \in Int, NEW y \in Int, NEW z \in Int, SameMod(x * y, z, P)
    PROVE  Scale(Scale(p, x), y) = Scale(p, z)
<1> DEFINE f == Coef(p)
<1>1. Represents(p, f)
  BY RepresentsItself
<1>2. f \in Series /\ \A n \in Nat : f[n] \in Int
  BY <1>1, TermIs DEF Represents
<1> HIDE DEF f
<1>3. Represents(Scale(p, x), ScaleSeries(x, f)) /\ Represents(Scale(p, z), ScaleSeries(z, f))
  BY <1>1, RepresentsScale
<1>4. Represents(Scale(Scale(p, x), y), ScaleSeries(y, ScaleSeries(x, f)))
  BY <1>3, RepresentsScale
<1>5. ASSUME NEW n \in Nat
      PROVE  SameMod(ScaleSeries(y, ScaleSeries(x, f))[n], ScaleSeries(z, f)[n], P)
  <2>1. f[n] \in Int
    BY <1>2
  <2>2. ScaleSeries(y, ScaleSeries(x, f))[n] = y * (x * f[n]) /\ ScaleSeries(z, f)[n] = z * f[n]
    BY DEF ScaleSeries
  <2>3. y * (x * f[n]) = (x * y) * f[n] /\ x * y \in Int
    BY <2>1
  <2>4. P \in Nat \ {0} /\ SameMod(f[n], f[n], P)
    BY FieldIs DEF SameMod
  <2>5. \A u \in Int : SameMod(u, z, P) => SameMod(u * f[n], z * f[n], P)
    BY <2>1, <2>4, ModProduct
  <2> QED
    BY <2>2, <2>3, <2>5
<1> QED
  BY <1>3, <1>4, <1>5, RepresentsOne

LEMMA ScaleOne ==
    ASSUME NEW p, IsPoly(p)
    PROVE  Scale(p, 1) = p
<1>1. Represents(p, Coef(p)) /\ Represents(Scale(p, 1), ScaleSeries(1, Coef(p)))
  BY RepresentsItself, RepresentsScale
<1>2. \A n \in Nat : Coef(p)[n] \in Int
  BY <1>1, TermIs DEF Represents
<1>3. \A n \in Nat : SameMod(Coef(p)[n], ScaleSeries(1, Coef(p))[n], P)
  BY <1>2 DEF SameMod, ScaleSeries
<1> QED
  BY <1>1, <1>3, RepresentsOne

\* One and zero.
LEMMA TimesOne ==
    ASSUME NEW p, IsPoly(p)
    PROVE  Times(<<1>>, p) = p /\ Times(p, <<1>>) = p
<1>1. Represents(p, Coef(p)) /\ IsPoly(<<1>>)
  BY RepresentsItself, OnePoly
<1>2. Represents(<<1>>, One)
  BY OnePoly, OneIs, RemainderOne DEF Represents
<1>3. Represents(Times(<<1>>, p), Product(One, Coef(p)))
  BY <1>1, <1>2, RepresentsTimes
<1>4. Product(One, Coef(p)) = Coef(p)
  BY <1>1, ProductOfOne DEF Represents
<1>5. Times(<<1>>, p) = p
  BY <1>1, <1>3, <1>4, RepresentsSame
<1> QED
  BY <1>1, <1>5, TimesCommutes

LEMMA EmptyTerms ==
    ASSUME NEW p, IsPoly(p)
    PROVE  /\ Plus(p, <<>>) = p /\ Plus(<<>>, p) = p
           /\ Times(p, <<>>) = <<>> /\ Times(<<>>, p) = <<>>
           /\ \A x \in Int : Scale(<<>>, x) = <<>>
<1>1. IsPoly(<<>>) /\ p \in Seq(Field) /\ <<>> \in Seq(Field) /\ P \in Nat \ {0}
  BY EmptyPoly, PolyIsSeq, FieldIs
<1>2. Plus(p, <<>>) = p
  <2>1. IsPoly(Plus(p, <<>>))
        /\ \A n \in Nat : Coef(Plus(p, <<>>))[n] = (Coef(p)[n] + Coef(<<>>)[n]) % P
    BY <1>1, PlusPoly
  <2>2. \A n \in Nat : Coef(p)[n] \in Field /\ Coef(<<>>)[n] = 0
    BY <1>1, CoefIs, EmptyPoly
  <2>3. \A n \in Nat : Coef(Plus(p, <<>>))[n] = Coef(p)[n]
    BY <2>1, <2>2, InField
  <2> QED
    BY <2>1, <2>3, SamePoly
<1>3. Times(p, <<>>) = <<>>
  BY <1>1, TimesEmpty
<1>4. ASSUME NEW x \in Int
      PROVE  Scale(<<>>, x) = <<>>
  <2>1. IsPoly(Scale(<<>>, x))
        /\ \A n \in Nat : Coef(Scale(<<>>, x))[n] = (Coef(<<>>)[n] * x) % P
    BY <1>1, ScalePoly
  <2>2. \A n \in Nat : Coef(Scale(<<>>, x))[n] = Coef(<<>>)[n]
    BY <2>1, EmptyPoly, RemainderOne
  <2> QED
    BY <1>1, <2>1, <2>2, SamePoly
<1> QED
  BY <1>1, <1>2, <1>3, <1>4, PlusCommutes, TimesCommutes

\* A summand may be taken away again.
LEMMA MinusCancels ==
    ASSUME NEW p, IsPoly(p), NEW s, IsPoly(s)
    PROVE  /\ Minus(Plus(p, s), s) = p /\ Minus(Plus(s, p), s) = p
           /\ Plus(Minus(p, s), s) = p /\ Plus(s, Minus(p, s)) = p
           /\ Minus(p, p) = <<>>
<1>1. p \in Seq(Field) /\ s \in Seq(Field) /\ P \in Nat \ {0}
  BY PolyIsSeq, FieldIs
<1>2. /\ IsPoly(Plus(p, s)) /\ IsPoly(Minus(p, s))
      /\ \A n \in Nat : Coef(Plus(p, s))[n] = (Coef(p)[n] + Coef(s)[n]) % P
      /\ \A n \in Nat : Coef(Minus(p, s))[n] = (Coef(p)[n] - Coef(s)[n]) % P
  BY <1>1, PlusPoly, MinusPoly
<1>3. Plus(p, s) \in Seq(Field) /\ Minus(p, s) \in Seq(Field)
  BY <1>2, PolyIsSeq
<1>4. /\ IsPoly(Minus(Plus(p, s), s)) /\ IsPoly(Plus(Minus(p, s), s))
      /\ \A n \in Nat : Coef(Minus(Plus(p, s), s))[n] = (Coef(Plus(p, s))[n] - Coef(s)[n]) % P
      /\ \A n \in Nat : Coef(Plus(Minus(p, s), s))[n] = (Coef(Minus(p, s))[n] + Coef(s)[n]) % P
  BY <1>1, <1>3, PlusPoly, MinusPoly
<1>5. \A n \in Nat : Coef(p)[n] \in Field /\ Coef(s)[n] \in Field
  BY <1>1, CoefIs
<1>6. \A u, v \in Int : (((u + v) % P) - v) % P = u % P /\ (((u - v) % P) + v) % P = u % P
  <2> TAKE u \in Int, v \in Int
  <2>1. u + v \in Int /\ u - v \in Int /\ -v \in Int
    OBVIOUS
  <2>2. (((u + v) % P) + (-v)) % P = ((u + v) + (-v)) % P
    BY <1>1, <2>1, ModPlus
  <2>3. (((u - v) % P) + v) % P = ((u - v) + v) % P
    BY <1>1, <2>1, ModPlus
  <2>4. (u + v) + (-v) = u /\ (u - v) + v = u
    OBVIOUS
  <2>5. (u + v) % P \in Int
    BY <1>1, <2>1, Remainder
  <2>6. ((u + v) % P) + (-v) = ((u + v) % P) - v
    BY <2>5
  <2> QED
    BY <2>2, <2>3, <2>4, <2>6
<1>7. ASSUME NEW n \in Nat
      PROVE  /\ Coef(Minus(Plus(p, s), s))[n] = Coef(p)[n]
             /\ Coef(Plus(Minus(p, s), s))[n] = Coef(p)[n]
  <2>1. PICK u \in Field : u = Coef(p)[n]
    BY <1>5
  <2>2. PICK v \in Field : v = Coef(s)[n]
    BY <1>5
  <2>3. (((u + v) % P) - v) % P = u /\ (((u - v) % P) + v) % P = u
    BY <1>6, InField
  <2>4. /\ Coef(Minus(Plus(p, s), s))[n] = (((u + v) % P) - v) % P
        /\ Coef(Plus(Minus(p, s), s))[n] = (((u - v) % P) + v) % P
    BY <1>2, <1>4, <2>1, <2>2
  <2> QED
    BY <2>1, <2>3, <2>4
<1>8. Minus(Plus(p, s), s) = p /\ Plus(Minus(p, s), s) = p
  BY <1>4, <1>7, SamePoly
<1>9. Minus(p, p) = <<>>
  <2>1. IsPoly(Minus(p, p))
        /\ \A n \in Nat : Coef(Minus(p, p))[n] = (Coef(p)[n] - Coef(p)[n]) % P
    BY <1>1, MinusPoly
  <2>2. \A n \in Nat : Coef(Minus(p, p))[n] = Coef(<<>>)[n]
    BY <2>1, <1>5, InField, EmptyPoly, RemainderOne
  <2> QED
    BY <2>1, <2>2, EmptyPoly, SamePoly
<1> QED
  BY <1>2, <1>8, <1>9, PlusCommutes

\* A factor that is not zero may be left out.
LEMMA TimesCancels ==
    ASSUME NEW p, IsPoly(p), p # <<>>, NEW g, IsPoly(g), NEW h, IsPoly(h),
           Times(p, g) = Times(p, h)
    PROVE  g = h
<1>1. p \in Seq(Field) /\ g \in Seq(Field) /\ h \in Seq(Field)
  BY PolyIsSeq
<1>2. \A n \in Nat : /\ Product(Coef(p), Coef(g))[n] % P = Product(Coef(p), Coef(h))[n] % P
                     /\ Product(Coef(p), Coef(g))[n] \in Int
  BY <1>1, TimesPoly, ProductTerms, CoefIs
<1>3. \A n \in Nat : (Product(Coef(p), Coef(g))[n] + Coef(<<>>)[n]) % P
                         = Product(Coef(p), Coef(h))[n] % P
  BY <1>2, EmptyPoly
<1>4. TwoQuotients(p, g, h, <<>>)
  BY <1>3, EmptyPoly DEF TwoQuotients
<1> QED
  BY <1>4, UniqueQuotient

\* A polynomial with zeros from the k-th coefficient on is no longer than k.
LEMMA LengthBound ==
    ASSUME NEW p, IsPoly(p), NEW k \in Nat, \A i \in Nat : i >= k => Coef(p)[i] = 0
    PROVE  Len(p) <= k
<1> SUFFICES ASSUME ~(Len(p) <= k)
             PROVE  FALSE
  OBVIOUS
<1>1. p \in Seq(Field) /\ Len(p) \in Nat
  BY PolyIsSeq
<1>2. p # <<>> /\ Len(p) - 1 \in Nat /\ Len(p) - 1 >= k /\ Len(p) - 1 < Len(p)
  BY <1>1
<1>3. Coef(p)[Len(p) - 1] = p[(Len(p) - 1) + 1]
  BY <1>1, <1>2, CoefIs
<1>4. (Len(p) - 1) + 1 = Len(p)
  BY <1>1
<1> QED
  BY <1>2, <1>3, <1>4 DEF IsPoly

LEMMA LengthsBounded ==
    ASSUME NEW p, IsPoly(p), NEW s, IsPoly(s), NEW k \in Nat, Len(p) <= k, Len(s) <= k
    PROVE  /\ Len(Plus(p, s)) <= k /\ Len(Minus(p, s)) <= k
           /\ \A x \in Int : Len(Scale(p, x)) <= k
<1>1. p \in Seq(Field) /\ s \in Seq(Field) /\ Len(p) \in Nat /\ Len(s) \in Nat
  BY PolyIsSeq
<1>2. \A i \in Nat : i >= k => Coef(p)[i] = 0 /\ Coef(s)[i] = 0
  BY <1>1, CoefIs
<1>3. \A i \in Nat : i >= k => Coef(Plus(p, s))[i] = 0 /\ Coef(Minus(p, s))[i] = 0
  BY <1>1, <1>2, PlusPoly, MinusPoly, RemainderOne
<1>4. \A x \in Int : \A i \in Nat : i >= k => Coef(Scale(p, x))[i] = 0
  BY <1>1, <1>2, ScalePoly, RemainderOne
<1>5. Len(Plus(p, s)) <= k /\ Len(Minus(p, s)) <= k
  BY <1>3, PolyTypes, LengthBound
<1> QED
  BY <1>4, <1>5, PolyTypes, LengthBound

\* Constants and monomials.
LEMMA ConstantIs ==
    ASSUME NEW x \in Field
    PROVE  /\ Represents(Poly(<<x>>), ScaleSeries(x, One)) /\ Len(Poly(<<x>>)) <= 1
           /\ x # 0 => Poly(<<x>>) = <<x>> /\ IsPoly(<<x>>)
<1>1. <<x>> \in Seq(Field) /\ Len(<<x>>) = 1 /\ <<x>>[1] = x
  OBVIOUS
<1>2. IsPoly(Poly(<<x>>)) /\ Coef(Poly(<<x>>)) = Coef(<<x>>) /\ Len(Poly(<<x>>)) <= 1
  BY <1>1, PolyIs
<1>3. Coef(<<x>>)[0] = x /\ \A n \in Nat : n # 0 => Coef(<<x>>)[n] = 0
  <2>1. /\ \A n \in Nat : n < Len(<<x>>) => Coef(<<x>>)[n] = <<x>>[n + 1]
        /\ \A n \in Nat : ~(n < Len(<<x>>)) => Coef(<<x>>)[n] = 0
    BY <1>1, CoefIs
  <2>2. Coef(<<x>>)[0] = <<x>>[0 + 1] /\ 0 + 1 = 1
    BY <1>1, <2>1
  <2>3. \A n \in Nat : n # 0 => ~(n < Len(<<x>>))
    BY <1>1
  <2> QED
    BY <1>1, <2>1, <2>2, <2>3
<1>4. ScaleSeries(x, One) \in Series /\ \A n \in Nat : ScaleSeries(x, One)[n] = x * One[n]
  BY InField, OneIs, ScaleIs
<1>5. \A n \in Nat : Coef(<<x>>)[n] = ScaleSeries(x, One)[n] % P
  <2>1. x * 1 = x /\ x * 0 = 0 /\ x % P = x /\ 0 % P = 0
    BY InField, RemainderOne
  <2> QED
    BY <1>3, <1>4, <2>1, OneIs
<1>6. ASSUME x # 0
      PROVE  Poly(<<x>>) = <<x>> /\ IsPoly(<<x>>)
  <2>1. IsPoly(<<x>>)
    BY <1>1, <1>6 DEF IsPoly
  <2> QED
    BY <1>2, <2>1, SamePoly
<1> QED
  BY <1>2, <1>4, <1>5, <1>6 DEF Represents

\* To multiply with a constant is to scale.
LEMMA TimesConstant ==
    ASSUME NEW p, IsPoly(p), NEW x \in Field
    PROVE  Times(p, Poly(<<x>>)) = Scale(p, x)
<1> DEFINE f == Coef(p)
<1>1. Represents(p, f) /\ Represents(Poly(<<x>>), ScaleSeries(x, One)) /\ x \in Int
  BY RepresentsItself, ConstantIs, InField
<1> HIDE DEF f
<1>2. f \in Series /\ One \in Series
  BY <1>1, OneIs DEF Represents
<1>3. /\ Represents(Times(p, Poly(<<x>>)), Product(f, ScaleSeries(x, One)))
      /\ Represents(Scale(p, x), ScaleSeries(x, f))
  BY <1>1, RepresentsTimes, RepresentsScale
<1>4. Product(f, ScaleSeries(x, One)) = ScaleSeries(x, f)
  <2>1. ScaleSeries(x, One) \in Series /\ ScaleSeries(x, f) \in Series
        /\ \A n \in Nat : ScaleSeries(x, f)[n] = x * f[n]
    BY <1>1, <1>2, ScaleIs
  <2>2. Product(f, ScaleSeries(x, One)) = Product(ScaleSeries(x, One), f)
        /\ Product(ScaleSeries(x, One), f) \in Series
    BY <1>2, <2>1, ProductCommutes, ProductIs
  <2>3. \A n \in Nat : Product(ScaleSeries(x, One), f)[n] = x * Product(One, f)[n]
    BY <1>1, <1>2, ProductOfScaled
  <2>4. Product(One, f) = f
    BY <1>2, ProductOfOne
  <2> QED
    BY <2>1, <2>2, <2>3, <2>4, SameSeries
<1> QED
  BY <1>3, <1>4, RepresentsSame

LEMMA MonomialIs ==
    ASSUME NEW x \in Field, NEW k \in Nat
    PROVE  /\ IsPoly(Monomial(x, k)) /\ Len(Monomial(x, k)) <= k + 1
           /\ \A n \in Nat : Coef(Monomial(x, k))[n] = IF n = k THEN x ELSE 0
           /\ Represents(Monomial(x, k), ScaleSeries(x, Shift(One, k)))
<1> DEFINE s == [i \in 1..(k + 1) |-> IF i = k + 1 THEN x ELSE 0]
           f == [n \in Nat |-> IF n = k THEN x ELSE 0]
<1>1. IsTerms(s, f, k + 1)
  <2>1. k + 1 \in Nat /\ DOMAIN s = 1..(k + 1) /\ s = [i \in 1..(k + 1) |-> s[i]]
    OBVIOUS
  <2>2. \A i \in 1..(k + 1) : i - 1 \in Nat /\ (i = k + 1 <=> i - 1 = k)
    OBVIOUS
  <2>3. \A i \in 1..(k + 1) : s[i] = f[i - 1]
    BY <2>2
  <2>4. \A n \in Nat : f[n] \in Field
    BY ZeroInField
  <2>5. \A n \in Nat : n >= k + 1 => f[n] = 0
    OBVIOUS
  <2> QED
    BY <2>1, <2>3, <2>4, <2>5 DEF IsTerms
<1>2. \A n \in Nat : f[n] = IF n = k THEN x ELSE 0
  OBVIOUS
<1>3. Monomial(x, k) = Poly(s)
  BY DEF Monomial
<1> HIDE DEF s, f
<1>4. IsPoly(Poly(s)) /\ (\A n \in Nat : Coef(Poly(s))[n] = f[n]) /\ Len(Poly(s)) <= k + 1
  BY <1>1, PolyOfTerms
<1>5. /\ ScaleSeries(x, Shift(One, k)) \in Series
      /\ \A n \in Nat : ScaleSeries(x, Shift(One, k))[n] = x * Shift(One, k)[n]
  BY InField, OneIs, ShiftIs, ScaleIs
<1>6. ASSUME NEW n \in Nat
      PROVE  f[n] = ScaleSeries(x, Shift(One, k))[n] % P
  <2>1. x * 1 = x /\ x * 0 = 0 /\ x % P = x /\ 0 % P = 0
    BY InField, RemainderOne
  <2>2. CASE n < k
    <3>1. Shift(One, k)[n] = 0
      BY <2>2, OneIs, ShiftIs
    <3> QED
      BY <1>2, <1>5, <2>1, <2>2, <3>1
  <2>3. CASE ~(n < k)
    <3>1. Shift(One, k)[n] = One[n - k] /\ n - k \in Nat /\ (n - k = 0 <=> n = k)
      BY <2>3, OneIs, ShiftIs
    <3> QED
      BY <1>2, <1>5, <2>1, <2>3, <3>1, OneIs
  <2> QED
    BY <2>2, <2>3
<1> QED
  BY <1>2, <1>3, <1>4, <1>5, <1>6 DEF Represents

-----------------------------------------------------------------------------
(* The library *)

\* The parts that have no turn stay as they are.
LEMMA StepsOfParts ==
    ASSUME [LibraryNext]_libraryVars
    PROVE  /\ [Cache!Next]_srsVars
           /\ part = "labels" => [Derivation!Next]_labelVars
           /\ part = "division" => [Division!Next]_divisionVars
           /\ part = "basis" => [FFT!Next]_<<pc, fftVars>>
           /\ UNCHANGED part
<1>1. CASE LibraryNext
  BY <1>1 DEF LibraryNext, BenchmarkStep, ParametersStep, LabelsStep, DivisionStep,
              ProofStep, BasisStep, srsVars, divisionVars
<1>2. CASE UNCHANGED libraryVars
  BY <1>2 DEF libraryVars, srsVars, labelVars, fftVars, divisionVars, divVars
<1> QED
  BY <1>1, <1>2

\* The map, the cells and the threads agree, in every reachable state.
THEOREM CacheInvariance == LibrarySpec => []CacheInv
<1>1. LibraryInit => CacheInv
  BY InitCache DEF LibraryInit
<1>2. CacheInv /\ [LibraryNext]_libraryVars => CacheInv'
  BY NextCache, StepsOfParts
<1> QED
  BY <1>1, <1>2, PTL DEF LibrarySpec

\* Under each size the map has nothing or a bundle of that size, and threads hold bundles.
THEOREM CacheTypeCorrect == LibrarySpec => []Cache!TypeOK
<1>1. CacheInv => Cache!TypeOK
  BY DEF CacheInv
<1> QED
  BY <1>1, CacheInvariance, PTL

\* All users of a size share the bundle in the map, whoever built it.
THEOREM SharedBundle == LibrarySpec => []OneBundlePerSize
<1>1. CacheInv => OneBundlePerSize
  BY DEF CacheInv, OneBundlePerSize
<1> QED
  BY <1>1, CacheInvariance, PTL

\* A basis is computed by one thread, for one bundle of each size, and not again.
THEOREM BasisOnce == LibrarySpec => []BasisOncePerSize
<1>1. ASSUME CacheInv PROVE BasisOncePerSize
  <2>1. ASSUME NEW bundle \in Cache!Bundles, NEW c \in Cache!Bundles, lagrange_g1[bundle] # "unset",
               lagrange_g1[c] # "unset", bundle.size = c.size
        PROVE  bundle = c
    BY <1>1, <2>1 DEF CacheInv, BasisOfCached
  <2>2. ASSUME NEW t \in Threads, NEW u \in Threads, Cache!Working(t, "computes"),
               Cache!Working(u, "computes"), thread[t].x.size = thread[u].x.size
        PROVE  t = u
    <3>1. thread[t].x = thread[u].x
      BY <1>1, <2>2 DEF CacheInv, Cache!OneBundlePerSize, Cache!Working
    <3> QED
      BY <3>1, <1>1, <2>2 DEF CacheInv, OneComputes
  <2>3. \A t \in Threads : Cache!Working(t, "computes") => lagrange_g1[thread[t].x] = "computing"
    BY <1>1 DEF CacheInv, OneComputes
  <2> QED
    BY <2>1, <2>2, <2>3 DEF BasisOncePerSize, Cache!BasisOncePerSize
<1>2. CacheInv => BasisOncePerSize
  BY <1>1
<1> QED
  BY <1>2, CacheInvariance, PTL

\* "All labels must be nonzero and pairwise distinct", whatever digests collide and however
\* often a candidate is configured: distinct labels are what keeps partitions apart.
THEOREM DistinctLabels == LibrarySpec => []LabelsDistinct
<1> DEFINE I == part = "labels" => LabelsInv
<1>1. LibraryInit => I
  BY InitLabels DEF LibraryInit
<1>2. I /\ [LibraryNext]_libraryVars => I'
  BY NextLabels, StepsOfParts
<1>3. I => LabelsDistinct
  BY DEF LabelsInv, LabelsDistinct
<1> QED
  BY <1>1, <1>2, <1>3, PTL DEF LibrarySpec

\* The chunks worked on are transformed, the others are not yet, in every reachable state.
THEOREM BasisInvariance == LibrarySpec => [](part = "basis" => BasisInv)
<1> DEFINE I == part = "basis" => BasisInv
<1>1. LibraryInit => I
  BY InitBasis DEF LibraryInit
<1>2. I /\ [LibraryNext]_libraryVars => I'
  BY NextBasis, StepsOfParts
<1> QED
  BY <1>1, <1>2, PTL DEF LibrarySpec

\* The points returned commit to the Lagrange basis, for every field, every size and every
\* order in which the chunks are worked on: the commitments to witnesses are built from them.
THEOREM LagrangeBasis == LibrarySpec => []BasisIsLagrange
<1> DEFINE I == part = "basis" => BasisInv
<1>1. I => BasisIsLagrange
  BY ReturnsBasis DEF BasisIsLagrange
<1> HIDE DEF I
<1>2. LibrarySpec => []I
  BY BasisInvariance DEF I
<1> QED
  BY <1>1, <1>2, PTL

\* The inverse is one as far as it is lifted, and what is divided is what was to be divided.
THEOREM DivisionInvariance == LibrarySpec => [](part = "division" => DivisionInv)
<1> DEFINE I == part = "division" => DivisionInv
<1>1. LibraryInit => I
  BY InitDivision DEF LibraryInit
<1>2. I /\ [LibraryNext]_libraryVars => I'
  BY NextDivision, StepsOfParts
<1> QED
  BY <1>1, <1>2, PTL DEF LibrarySpec

\* Each round of Hensel lifting doubles the number of right coefficients of the inverse, for
\* every divisor and whatever zeros the inverse has.
THEOREM InverseIsRight == LibrarySpec => []InverseSoFar
<1> DEFINE I == part = "division" => DivisionInv
<1>1. I => InverseSoFar
  BY InverseIsOne DEF InverseSoFar
<1> HIDE DEF I
<1>2. LibrarySpec => []I
  BY DivisionInvariance DEF I
<1> QED
  BY <1>1, <1>2, PTL

\* The prover's exact divisions do not panic and return the quotient, all of it; a dividend with
\* a remainder is found out, so that no proof is made from a wrong quotient.
THEOREM DivisionReturnsQuotient == LibrarySpec => []ProverDivides
<1> DEFINE I == part = "division" => DivisionInv
<1>1. I => ProverDivides
  BY ReturnsQuotient DEF ProverDivides
<1> HIDE DEF I
<1>2. LibrarySpec => []I
  BY DivisionInvariance DEF I
<1> QED
  BY <1>1, <1>2, PTL
=============================================================================
