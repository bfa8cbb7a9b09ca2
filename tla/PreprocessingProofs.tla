------------------------- MODULE PreprocessingProofs -------------------------
(***************************************************************************)
(* For every mesh, every number of ranks and every assignment of elements, *)
(* about the files the two ways of preprocessing give the solver.          *)
(*                                                                         *)
(* The serial way: the element sets the decomposition builds separate what *)
(* needs a ghost from what does not, and name what has to be sent; and the *)
(* lists it builds from them, sorted, merged, searched and counted, make   *)
(* every message fit and fill every ghost with its element.  What is said  *)
(* of the lists excludes HDG with coupled interface elements, where they   *)
(* can lose elements.                                                      *)
(*                                                                         *)
(* The parallel way: whatever order the messages arrive in, a rank learns  *)
(* from them the same four parts, and numbers them with its own elements   *)
(* first and the neighbours of all it computes on.                         *)
(***************************************************************************)
EXTENDS Preprocessing, FiniteSetTheorems, SequenceTheorems, TLAPS

(* The mesh and the owners are inputs; the properties below are facts      *)
(* about them, so the invariant is what the input guarantees.              *)
InputsFixed ==
  /\ e2e \in [Elem -> SUBSET Elem]
  /\ Conforming(e2e)
  /\ elem2cpu \in [Elem -> Proc]

(* The mesh and its partition stay what they were.                         *)
THEOREM InputsStay == Spec => []InputsFixed
<1>1. Init => InputsFixed
  BY DEF Init, InputsFixed
<1>2. InputsFixed /\ [Next]_vars => InputsFixed'
  <2> SUFFICES ASSUME InputsFixed, [Next]_vars PROVE InputsFixed'
    OBVIOUS
  <2>1. UNCHANGED <<e2e, elem2cpu>>
    BY DEF Next, BuildPartition, CreateElemsend, vars
  <2> QED
    BY <2>1 DEF InputsFixed, Conforming
<1> QED
  BY <1>1, <1>2, PTL DEF Spec

(* An element of k next to an element of another rank p is in extelem(p)   *)
(* and in bndelem(k), whichever rank finds it first.                       *)
LEMMA AcrossRanks ==
  ASSUME InputsFixed, NEW p \in Proc, NEW k \in Proc, p # k,
         NEW e \in intelem(p), NEW f \in e2e[e], elem2cpu[f] = k
  PROVE  /\ f \in extelem(p) \cap intelem(k)
         /\ e \in extelem(k)
         /\ f \in bndelem(k)
<1>1. e \in Elem /\ f \in Elem /\ e \in e2e[f]
  BY DEF InputsFixed, Conforming, intelem
<1>2. f \in intelem(k) /\ f \notin intelem(p) /\ e \notin intelem(k)
  BY <1>1 DEF intelem
<1>3. f \in extelem(p) /\ e \in extelem(k)
  BY <1>1, <1>2 DEF extelem, neighboringelements
<1>4. f \in bndelem(k)
  BY <1>1, <1>2, <1>3 DEF bndelem, neighboringelements
<1> QED
  BY <1>2, <1>3, <1>4

(* Interior elements have no ghost across their faces.                     *)
LEMMA InteriorLocal ==
  ASSUME InputsFixed, NEW p \in Proc, NEW e \in intelem(p) \ bndelem(p)
  PROVE  e2e[e] \subseteq intelem(p)
<1> SUFFICES ASSUME NEW f \in e2e[e] PROVE f \in intelem(p)
  OBVIOUS
<1>1. e \in Elem /\ f \in Elem /\ elem2cpu[e] = p /\ elem2cpu[f] \in Proc
  BY DEF InputsFixed, intelem
<1>2. e \in e2e[f]
  BY <1>1 DEF InputsFixed, Conforming
<1>3. CASE elem2cpu[f] # p
  <2>1. e \in bndelem(p)
    BY AcrossRanks, <1>1, <1>2, <1>3 DEF intelem
  <2> QED
    BY <2>1
<1> QED
  BY <1>1, <1>3 DEF intelem

(* A ghost of p next to p, owned by k, is in the interface block of k.     *)
LEMMA GhostIsInterface ==
  ASSUME InputsFixed, NEW p \in Proc, NEW k \in Proc, p # k,
         NEW f \in extelem(p) \cap intelem(k)
  PROVE  f \in bndelem(k)
<1>1. PICK e \in intelem(p) : f \in e2e[e]
  BY DEF extelem, neighboringelements
<1>2. elem2cpu[f] = k
  BY DEF intelem
<1> QED
  BY AcrossRanks, <1>1, <1>2

(* Every element another rank needs from k is in the interface block of k. *)
THEOREM InterfaceCoversSends == Spec => []SentIsInterface
<1>1. InputsFixed => SentIsInterface
  BY GhostIsInterface DEF SentIsInterface
<1> QED
  BY <1>1, InputsStay, PTL

(* If p needs a ghost of k, so does k of p: over one layer of elements, as *)
(* HDG exchanges, and over the two layers of LDG.                          *)
LEMMA GhostsBackwards ==
  ASSUME InputsFixed, NEW p \in Proc, NEW k \in Proc,
         NEW f \in Ghosts(p) \cap intelem(k)
  PROVE  Ghosts(k) \cap intelem(p) # {}
<1>1. f \in Elem /\ f \notin intelem(p) /\ elem2cpu[f] = k /\ p # k
  BY DEF Ghosts, extelem, outelem, intelem
<1>2. CASE f \in extelem(p)
  <2>1. PICK e \in intelem(p) : f \in e2e[e]
    BY <1>2 DEF extelem, neighboringelements
  <2>2. e \in extelem(k)
    BY AcrossRanks, <1>1, <2>1
  <2> QED
    BY <2>1, <2>2 DEF Ghosts
<1>3. CASE f \notin extelem(p)
  <2>1. hybrid = 0 /\ f \in outelem(p)
    BY <1>3 DEF Ghosts
  <2>2. PICK g \in extelem(p) : f \in e2e[g]
    BY <2>1 DEF outelem, neighboringelements
  <2>3. PICK e \in intelem(p) : g \in e2e[e]
    BY <2>2 DEF extelem, neighboringelements
  <2>4. e \in Elem /\ g \in Elem /\ g \in e2e[f] /\ e \in e2e[g]
    BY <1>1, <2>2, <2>3 DEF InputsFixed, Conforming, intelem
  <2>5. CASE g \in intelem(k)
    <3>1. e \in extelem(k)
      BY AcrossRanks, <1>1, <2>3, <2>5 DEF intelem
    <3> QED
      BY <2>3, <3>1 DEF Ghosts
  <2>6. CASE g \notin intelem(k)
    <3>1. g \in extelem(k)
      BY <1>1, <2>4, <2>6 DEF extelem, neighboringelements, intelem
    <3>2. e \in neighboringelements(extelem(k))
      BY <2>4, <3>1 DEF neighboringelements
    <3>3. e \notin intelem(k)
      BY <1>1, <2>3 DEF intelem
    <3>4. e \in extelem(k) \cup outelem(k)
      BY <3>2, <3>3 DEF outelem
    <3> QED
      BY <2>1, <2>3, <3>4 DEF Ghosts
  <2> QED
    BY <2>5, <2>6
<1> QED
  BY <1>2, <1>3

(* The neighbour relation of the exchange is symmetric.                    *)
THEOREM ExchangeIsMutual == Spec => []NeighborsMutual
<1>1. InputsFixed => NeighborsMutual
  <2> SUFFICES ASSUME InputsFixed, NEW p \in Proc, NEW k \in Proc,
                      Ghosts(p) \cap intelem(k) # {}
               PROVE  Ghosts(k) \cap intelem(p) # {}
    BY DEF NeighborsMutual
  <2> QED
    BY GhostsBackwards
<1> QED
  BY <1>1, InputsStay, PTL

-----------------------------------------------------------------------------
(* Facts about numbers and finite sets.                                    *)

(* A non-empty set of natural numbers has a least element.                 *)
LEMMA LeastNatural ==
  ASSUME NEW T \in SUBSET Nat, T # {}
  PROVE  \E n \in T : \A m \in T : n <= m
<1> DEFINE R == OpToRel(<, Nat)
<1>1. IsWellFoundedOn(R, Nat)
  BY NatLessThanWellFounded
<1>2. PICK n \in T : \A m \in T : ~(<<m, n>> \in R)
  <2> HIDE DEF R
  <2> QED
    BY <1>1, WFMin
<1>3. \A m \in T : ~(m < n)
  BY <1>2 DEF OpToRel
<1> QED
  BY <1>3

(* A set of positions that has, with each one, all earlier ones is an      *)
(* initial segment.                                                        *)
LEMMA InitialSegment ==
  ASSUME NEW L \in Nat, NEW T \in SUBSET (1 .. L),
         \A x \in T : \A y \in 1 .. x : y \in T
  PROVE  /\ Cardinality(T) \in 0 .. L
         /\ T = 1 .. Cardinality(T)
<1> DEFINE M == {n \in Nat : n >= 1 /\ n \notin T}
<1>1. PICK c \in M : \A m \in M : c <= m
  <2>1. L + 1 \in M
    OBVIOUS
  <2> QED
    BY <2>1, LeastNatural
<1>2. T = 1 .. c - 1
  <2>1. \A x \in 1 .. c - 1 : x \in T
    BY <1>1
  <2>2. ASSUME NEW x \in T PROVE x \in 1 .. c - 1
    <3>1. x \in 1 .. L /\ c \in Nat /\ c >= 1 /\ c \notin T
      BY <1>1
    <3>2. ~(c <= x)
      BY <3>1
    <3> QED
      BY <3>1, <3>2
  <2> QED
    BY <2>1, <2>2
<1>3. Cardinality(1 .. c - 1) = c - 1
  BY FS_Interval, <1>1
<1>4. c - 1 <= L
  BY <1>1, <1>2
<1> QED
  BY <1>1, <1>2, <1>3, <1>4

(* An injection into a finite set of the same size reaches all of it.      *)
LEMMA InjectionOnto ==
  ASSUME NEW S, NEW T, IsFiniteSet(T), Cardinality(S) = Cardinality(T),
         NEW f \in [S -> T], \A x, y \in S : f[x] = f[y] => x = y
  PROVE  \A y \in T : \E x \in S : f[x] = y
<1>1. f \in Injection(S, T)
  BY DEF Injection, IsInjective
<1>2. f \in Surjection(S, T)
  BY <1>1, FS_Injection
<1> QED
  BY <1>2 DEF Surjection

(* Functions are what they map their arguments to.                         *)
LEMMA SameFunction ==
  ASSUME NEW D, NEW S, NEW f \in [D -> S], NEW h \in [D -> S],
         \A x \in D : f[x] = h[x]
  PROVE  f = h
  OBVIOUS

(* Two finite sets related by a one-to-one correspondence have one size.   *)
LEMMA SameSize ==
  ASSUME NEW S, NEW T, IsFiniteSet(S),
         NEW f \in [S -> T], \A x, y \in S : f[x] = f[y] => x = y,
         \A y \in T : \E x \in S : f[x] = y
  PROVE  IsFiniteSet(T) /\ Cardinality(T) = Cardinality(S)
<1>1. f \in Bijection(S, T)
  BY DEF Bijection, Injection, Surjection, IsInjective
<1>2. ExistsBijection(S, T)
  BY <1>1 DEF ExistsBijection
<1> QED
  BY <1>2, FS_Bijection

-----------------------------------------------------------------------------
(* Facts about the vectors the code sorts and searches.                    *)

(* What std::sort is used with: a strict total order on the elements.      *)
StrictOrder(S, Less) ==
  /\ \A x \in S : <<x, x>> \notin Less
  /\ \A x, y, z \in S : <<x, y>> \in Less /\ <<y, z>> \in Less => <<x, z>> \in Less
  /\ \A x, y \in S : x # y => <<x, y>> \in Less \/ <<y, x>> \in Less

(* The elements before x in the order.                                     *)
Below(x, S, Less) == {y \in S : <<y, x>> \in Less}

(* f lists S upwards, each element once.                                   *)
Listing(f, S, Less) ==
  /\ f \in [1 .. Cardinality(S) -> S]
  /\ \A j, l \in 1 .. Cardinality(S) : j < l => <<f[j], f[l]>> \in Less

(* The number of elements below tells two elements apart, and goes up      *)
(* with the order.                                                         *)
LEMMA RankGrows ==
  ASSUME NEW S, IsFiniteSet(S), NEW Less, StrictOrder(S, Less),
         NEW x \in S
  PROVE  /\ Cardinality(Below(x, S, Less)) \in 0 .. Cardinality(S) - 1
         /\ \A y \in S : <<x, y>> \in Less =>
              Cardinality(Below(x, S, Less)) < Cardinality(Below(y, S, Less))
<1>1. ASSUME NEW T \in SUBSET S, Below(x, S, Less) \subseteq T, x \in T
      PROVE  /\ Cardinality(Below(x, S, Less)) \in Nat
             /\ Cardinality(T) \in Nat
             /\ Cardinality(Below(x, S, Less)) < Cardinality(T)
  <2>1. x \notin Below(x, S, Less)
    BY DEF Below, StrictOrder
  <2>2. IsFiniteSet(T)
    BY FS_Subset
  <2>3. IsFiniteSet(Below(x, S, Less)) /\ Cardinality(Below(x, S, Less)) <= Cardinality(T)
    BY <1>1, <2>2, FS_Subset
  <2>4. Cardinality(Below(x, S, Less)) # Cardinality(T)
    BY <1>1, <2>1, <2>2, FS_Subset
  <2> QED
    BY <2>2, <2>3, <2>4, FS_CardinalityType
<1>2. Below(x, S, Less) \subseteq S
  BY DEF Below
<1>3. ASSUME NEW y \in S, <<x, y>> \in Less
      PROVE  Cardinality(Below(x, S, Less)) < Cardinality(Below(y, S, Less))
  <2>1. Below(y, S, Less) \subseteq S /\ x \in Below(y, S, Less)
    BY <1>3 DEF Below
  <2>2. Below(x, S, Less) \subseteq Below(y, S, Less)
    BY <1>3 DEF Below, StrictOrder
  <2> QED
    BY <1>1, <2>1, <2>2
<1>4. Cardinality(S) \in Nat /\ Cardinality(Below(x, S, Less)) \in Nat
      /\ Cardinality(Below(x, S, Less)) < Cardinality(S)
  BY <1>1, <1>2
<1> QED
  BY <1>3, <1>4

(* A listing shows every element once, the j-th one above j - 1 others.    *)
LEMMA ListingRanks ==
  ASSUME NEW S, IsFiniteSet(S), NEW Less, StrictOrder(S, Less),
         NEW f, Listing(f, S, Less)
  PROVE  /\ \A j, l \in 1 .. Cardinality(S) : f[j] = f[l] => j = l
         /\ \A j, l \in 1 .. Cardinality(S) : <<f[j], f[l]>> \in Less => j < l
         /\ \A x \in S : \E j \in 1 .. Cardinality(S) : f[j] = x
         /\ \A j \in 1 .. Cardinality(S) : Cardinality(Below(f[j], S, Less)) = j - 1
<1> DEFINE D == 1 .. Cardinality(S)
<1>1. Cardinality(S) \in Nat /\ f \in [D -> S]
  BY FS_CardinalityType DEF Listing
<1>2. ASSUME NEW j \in D, NEW l \in D, j < l
      PROVE  f[j] # f[l] /\ ~(<<f[l], f[j]>> \in Less)
  <2>1. <<f[j], f[l]>> \in Less
    BY <1>2 DEF Listing
  <2>2. f[j] \in S /\ f[l] \in S
    BY <1>1
  <2> QED
    BY <2>1, <2>2 DEF StrictOrder
<1>3. \A j \in D : <<f[j], f[j]>> \notin Less
  BY <1>1 DEF StrictOrder
<1>4. \A j, l \in D : j < l \/ l < j \/ j = l
  BY <1>1
<1>5. \A j, l \in D : f[j] = f[l] => j = l
  <2> HIDE DEF D
  <2> QED
    BY <1>2, <1>4
<1>6. \A j, l \in D : <<f[j], f[l]>> \in Less => j < l
  <2> HIDE DEF D
  <2> QED
    BY <1>2, <1>3, <1>4
<1>7. \A x \in S : \E j \in D : f[j] = x
  <2>1. Cardinality(D) = Cardinality(S)
    BY <1>1, FS_Interval
  <2> HIDE DEF D
  <2> QED
    BY <1>1, <1>5, <2>1, InjectionOnto
<1>8. ASSUME NEW j \in D PROVE Cardinality(Below(f[j], S, Less)) = j - 1
  <2> DEFINE E == 1 .. j - 1
             g == [l \in E |-> f[l]]
             B == Below(f[j], S, Less)
  <2>1. E \subseteq D /\ j \in Int
    BY <1>1
  <2>2. g \in [E -> B]
    BY <1>1, <2>1 DEF Listing, Below
  <2>3. \A x, y \in E : g[x] = g[y] => x = y
    BY <1>5, <2>1
  <2>4. ASSUME NEW y \in B PROVE \E l \in E : g[l] = y
    <3>1. PICK l \in D : f[l] = y
      BY <1>7 DEF Below
    <3>2. l < j
      BY <1>6, <3>1 DEF Below
    <3> QED
      BY <3>1, <3>2
  <2>5. IsFiniteSet(E) /\ Cardinality(E) = j - 1
    BY <2>1, FS_Interval
  <2> HIDE DEF E, g, B
  <2>6. Cardinality(B) = Cardinality(E)
    BY <2>2, <2>3, <2>4, <2>5, SameSize
  <2> QED
    BY <2>5, <2>6 DEF B
<1> QED
  BY <1>5, <1>6, <1>7, <1>8

(* Every finite set has a listing, and only one.                           *)
LEMMA InOrderLists ==
  ASSUME NEW S, IsFiniteSet(S), NEW Less, StrictOrder(S, Less)
  PROVE  /\ Listing(InOrder(S, Less), S, Less)
         /\ \A f : Listing(f, S, Less) => f = InOrder(S, Less)
<1> DEFINE N == Cardinality(S)
           rank == [x \in S |-> Cardinality(Below(x, S, Less)) + 1]
           g == [j \in 1 .. N |-> CHOOSE x \in S : rank[x] = j]
<1>1. N \in Nat
  BY FS_CardinalityType
<1>2. rank \in [S -> 1 .. N]
  BY <1>1, RankGrows
<1>3. ASSUME NEW x \in S, NEW y \in S, <<x, y>> \in Less PROVE rank[x] < rank[y]
  BY <1>1, <1>3, RankGrows
<1>4. ASSUME NEW x \in S, NEW y \in S, rank[x] = rank[y] PROVE x = y
  <2>1. rank[x] \in Int /\ rank[y] \in Int
    BY <1>2
  <2>2. ~(<<x, y>> \in Less) /\ ~(<<y, x>> \in Less)
    BY <1>3, <1>4, <2>1
  <2> QED
    BY <2>2 DEF StrictOrder
<1>5. \A j \in 1 .. N : \E x \in S : rank[x] = j
  <2>1. IsFiniteSet(1 .. N) /\ Cardinality(1 .. N) = N
    BY <1>1, FS_Interval
  <2> DEFINE D == 1 .. N
  <2>2. IsFiniteSet(D) /\ Cardinality(S) = Cardinality(D)
    BY <2>1
  <2>3. rank \in [S -> D]
    BY <1>2
  <2>4. \A x, y \in S : rank[x] = rank[y] => x = y
    BY <1>4
  <2>5. \A j \in D : \E x \in S : rank[x] = j
    <3> HIDE DEF rank, D
    <3> QED
      BY <2>2, <2>3, <2>4, InjectionOnto
  <2> QED
    BY <2>5
<1>6. \A j \in 1 .. N : g[j] \in S /\ rank[g[j]] = j
  BY <1>5
<1>7. Listing(g, S, Less)
  <2>1. g \in [1 .. N -> S]
    BY <1>6
  <2>2. ASSUME NEW j \in 1 .. N, NEW l \in 1 .. N, j < l
        PROVE  <<g[j], g[l]>> \in Less
    <3>1. g[j] # g[l] /\ ~(<<g[l], g[j]>> \in Less)
      BY <1>3, <1>6, <2>2
    <3> QED
      BY <1>6, <3>1 DEF StrictOrder
  <2> QED
    BY <2>1, <2>2 DEF Listing
<1>8. Listing(InOrder(S, Less), S, Less)
  <2>1. \A x \in S : rank[x] = Cardinality({y \in S : <<y, x>> \in Less}) + 1
    BY DEF Below
  <2>2. \A x \in S : Cardinality({y \in S : <<y, x>> \in Less}) \in Nat
    BY <1>1, RankGrows DEF Below
  <2> DEFINE G(j) == CHOOSE x \in S : Cardinality({y \in S : <<y, x>> \in Less}) = j - 1
  <2>3. InOrder(S, Less) = [j \in 1 .. N |-> G(j)]
    BY DEF InOrder
  <2>4. ASSUME NEW j \in 1 .. N PROVE g[j] = G(j)
    <3>1. \A x \in S : rank[x] = j <=> Cardinality({y \in S : <<y, x>> \in Less}) = j - 1
      BY <2>1, <2>2
    <3>2. (CHOOSE x \in S : rank[x] = j) = G(j)
      <4> HIDE DEF rank
      <4> QED
        BY <3>1
    <3> HIDE DEF G
    <3> QED
      BY <3>2
  <2>5. g = [j \in 1 .. N |-> g[j]]
    OBVIOUS
  <2>6. g = InOrder(S, Less)
    <3> HIDE DEF g, G
    <3> QED
      BY <2>3, <2>4, <2>5
  <2> QED
    BY <1>7, <2>6
<1>9. ASSUME NEW f, Listing(f, S, Less) PROVE f = InOrder(S, Less)
  <2> DEFINE h == InOrder(S, Less)
  <2>1. f \in [1 .. N -> S] /\ h \in [1 .. N -> S]
    BY <1>8, <1>9 DEF Listing
  <2>2. ASSUME NEW j \in 1 .. N PROVE f[j] = h[j]
    <3>1. f[j] \in S /\ h[j] \in S
      BY <2>1
    <3>2. /\ Cardinality(Below(f[j], S, Less)) = j - 1
          /\ Cardinality(Below(h[j], S, Less)) = j - 1
      <4> HIDE DEF h
      <4>1. Listing(h, S, Less)
        BY <1>8 DEF h
      <4> QED
        BY <1>9, <4>1, ListingRanks
    <3>3. rank[f[j]] = j /\ rank[h[j]] = j
      BY <1>1, <3>1, <3>2
    <3> QED
      BY <1>4, <2>1, <3>3
  <2> DEFINE D == 1 .. N
  <2>3. f \in [D -> S] /\ h \in [D -> S] /\ \A j \in D : f[j] = h[j]
    BY <2>1, <2>2
  <2>4. f = h
    <3> HIDE DEF h, D
    <3> QED
      BY <2>3, SameFunction
  <2> QED
    BY <2>4
<1> QED
  BY <1>8, <1>9

(* A vector of integers that goes up.                                      *)
Rising(f, n) ==
  /\ f \in [1 .. n -> Int]
  /\ \A j, l \in 1 .. n : j < l => f[j] < f[l]

(* Sorted(S) is the one vector that goes up and holds S.                   *)
LEMMA SortedLists ==
  ASSUME NEW S \in SUBSET Int, IsFiniteSet(S)
  PROVE  /\ Cardinality(S) \in Nat
         /\ Sorted(S) \in Seq(S)
         /\ Len(Sorted(S)) = Cardinality(S)
         /\ Rising(Sorted(S), Cardinality(S))
         /\ \A x \in S : \E j \in 1 .. Cardinality(S) : Sorted(S)[j] = x
<1> DEFINE Less == {q \in S \X S : q[1] < q[2]}
           N == Cardinality(S)
           s == Sorted(S)
<1>1. StrictOrder(S, Less)
  BY DEF StrictOrder
<1>2. N \in Nat
  BY FS_CardinalityType
<1>3. Listing(s, S, Less)
  <2> s = InOrder(S, Less)
    BY DEF Sorted
  <2> HIDE DEF Less
  <2> QED
    BY <1>1, InOrderLists
<1>4. \A x \in S : \E j \in 1 .. N : s[j] = x
  <2> HIDE DEF Less, s
  <2> QED
    BY <1>1, <1>3, ListingRanks
<1>5. s \in [1 .. N -> S]
  BY <1>3 DEF Listing
<1>6. s \in Seq(S) /\ Len(s) = N
  <2> HIDE DEF s, N
  <2> QED
    BY <1>2, <1>5
<1>7. \A j, l \in 1 .. N : j < l => s[j] < s[l]
  <2> HIDE DEF s
  <2> QED
    BY <1>3 DEF Listing
<1>8. s \in [1 .. N -> Int]
  <2> HIDE DEF s, N
  <2> QED
    BY <1>5
<1> HIDE DEF s
<1> QED
  BY <1>2, <1>4, <1>6, <1>7, <1>8 DEF Rising, s

(* An increasing vector with the elements of S is the sorted vector of     *)
(* S.                                                                      *)
LEMMA SortedOnly ==
  ASSUME NEW n \in Nat, NEW f, Rising(f, n),
         NEW S, \A x : x \in S <=> \E j \in 1 .. n : x = f[j]
  PROVE  /\ S \in SUBSET Int
         /\ IsFiniteSet(S)
         /\ Cardinality(S) = n
         /\ f = Sorted(S)
<1> DEFINE Less == {q \in S \X S : q[1] < q[2]}
           D == 1 .. n
<1>1. f \in [D -> S] /\ S \in SUBSET Int
  BY DEF Rising
<1>2. \A j, l \in D : f[j] = f[l] => j = l
  <2> SUFFICES ASSUME NEW j \in D, NEW l \in D, j # l PROVE f[j] # f[l]
    OBVIOUS
  <2>1. f[j] \in Int /\ f[l] \in Int
    BY <1>1
  <2>2. j < l \/ l < j
    OBVIOUS
  <2> QED
    BY <2>1, <2>2 DEF Rising
<1>3. IsFiniteSet(S) /\ Cardinality(S) = n
  <2>1. IsFiniteSet(D) /\ Cardinality(D) = n
    BY FS_Interval
  <2>2. \A x \in S : \E j \in D : f[j] = x
    OBVIOUS
  <2> HIDE DEF D
  <2> QED
    BY <1>1, <1>2, <2>1, <2>2, SameSize
<1>4. StrictOrder(S, Less)
  BY <1>1 DEF StrictOrder
<1>5. Listing(f, S, Less)
  BY <1>1, <1>3 DEF Listing, Rising
<1>6. f = InOrder(S, Less)
  <2> HIDE DEF Less
  <2> QED
    BY <1>3, <1>4, <1>5, InOrderLists
<1> QED
  BY <1>1, <1>3, <1>6 DEF Sorted

(* The sorted vector of no elements is empty.                              *)
LEMMA SortedNothing == Sorted({}) = <<>>
<1>1. IsFiniteSet({}) /\ Cardinality({}) = 0
  BY FS_EmptySet
<1>2. Sorted({}) \in Seq({}) /\ Len(Sorted({})) = 0
  BY <1>1, SortedLists
<1> QED
  BY <1>2

(* A value below all others comes first.                                   *)
LEMMA SortedFirst ==
  ASSUME NEW S \in SUBSET Int, IsFiniteSet(S), NEW x \in Int,
         \A y \in S : x < y
  PROVE  Sorted({x} \cup S) = <<x>> \o Sorted(S)
<1> DEFINE s == Sorted(S)
           n == Cardinality(S)
           f == <<x>> \o s
<1>1. n \in Nat /\ s \in Seq(S) /\ Len(s) = n /\ Rising(s, n)
      /\ \A y \in S : \E j \in 1 .. n : s[j] = y
  BY SortedLists
<1> HIDE DEF s, n
<1>2. /\ f \in [1 .. n + 1 -> Int]
      /\ f[1] = x
      /\ \A j \in 2 .. n + 1 : f[j] = s[j - 1] /\ f[j] \in S
  <2>1. <<x>> \in Seq(Int) /\ Len(<<x>>) = 1 /\ <<x>>[1] = x
    OBVIOUS
  <2>2. s \in Seq(Int) /\ Len(s) = n /\ \A j \in 1 .. n : s[j] \in S
    <3>1. s \in [1 .. n -> Int]
      BY <1>1 DEF Rising
    <3>2. s \in Seq(Int)
      BY <1>1, <3>1
    <3>3. \A j \in 1 .. n : s[j] \in S
      BY <1>1
    <3> QED
      BY <1>1, <3>2, <3>3
  <2>3. f \in Seq(Int) /\ Len(f) = n + 1
    BY <1>1, <2>1, <2>2
  <2>4. f \in [1 .. n + 1 -> Int]
    <3> HIDE DEF f
    <3> QED
      BY <2>3
  <2>5. f[1] = x
    BY <1>1, <2>1, <2>2
  <2>6. ASSUME NEW j \in 2 .. n + 1 PROVE f[j] = s[j - 1]
    BY <1>1, <2>1, <2>2
  <2>7. ASSUME NEW j \in 2 .. n + 1 PROVE s[j - 1] \in S
    BY <1>1, <2>2
  <2> QED
    BY <2>4, <2>5, <2>6, <2>7
<1> HIDE DEF f
<1>3. Rising(f, n + 1)
  <2> SUFFICES ASSUME NEW j \in 1 .. n + 1, NEW l \in 1 .. n + 1, j < l
               PROVE  f[j] < f[l]
    BY <1>2 DEF Rising
  <2>1. CASE j = 1
    <3>1. l \in 2 .. n + 1
      BY <1>1, <2>1
    <3> QED
      BY <1>2, <2>1, <3>1
  <2>2. CASE j # 1
    <3>1. j - 1 \in 1 .. n /\ l - 1 \in 1 .. n /\ j - 1 < l - 1
      BY <1>1, <2>2
    <3>2. f[j] = s[j - 1] /\ f[l] = s[l - 1]
      BY <1>2, <1>1, <3>1
    <3> QED
      BY <1>1, <3>1, <3>2 DEF Rising
  <2> QED
    BY <2>1, <2>2
<1>4. ASSUME NEW y PROVE y \in {x} \cup S <=> \E j \in 1 .. n + 1 : y = f[j]
  <2>1. ASSUME NEW j \in 1 .. n + 1 PROVE f[j] \in {x} \cup S
    <3>1. j = 1 \/ j \in 2 .. n + 1
      BY <1>1
    <3> QED
      BY <1>2, <3>1
  <2>2. ASSUME y = x PROVE \E j \in 1 .. n + 1 : y = f[j]
    <3>1. 1 \in 1 .. n + 1
      BY <1>1
    <3> QED
      BY <1>2, <2>2, <3>1
  <2>3. ASSUME y \in S PROVE \E j \in 1 .. n + 1 : y = f[j]
    <3>1. PICK j \in 1 .. n : s[j] = y
      BY <1>1, <2>3
    <3>2. j + 1 \in 2 .. n + 1 /\ j + 1 \in 1 .. n + 1 /\ (j + 1) - 1 = j
      BY <1>1
    <3> QED
      BY <1>2, <3>1, <3>2
  <2> QED
    BY <2>1, <2>2, <2>3
<1>5. f = Sorted({x} \cup S)
  <2>1. n + 1 \in Nat
    BY <1>1
  <2> QED
    BY <1>3, <1>4, <2>1, SortedOnly
<1> QED
  BY <1>5 DEF f, s

(* What is left of a vector from position j on.                            *)
After(f, n, j) == {f[l] : l \in j .. n}

(* The rest of an increasing vector is sorted, and loses its first value   *)
(* at each step of a merge.                                                *)
LEMMA AfterStep ==
  ASSUME NEW n \in Nat, NEW f, Rising(f, n), NEW j \in 1 .. n + 1
  PROVE  /\ After(f, n, j) \in SUBSET Int
         /\ IsFiniteSet(After(f, n, j))
         /\ SubSeq(f, j, n) = Sorted(After(f, n, j))
         /\ j <= n => /\ After(f, n, j) = {f[j]} \cup After(f, n, j + 1)
                      /\ \A y \in After(f, n, j + 1) : f[j] < y
                      /\ f[j] \in Int
         /\ j > n => After(f, n, j) = {}
<1> DEFINE g == SubSeq(f, j, n)
<1>1. /\ g \in [1 .. n - j + 1 -> Int]
      /\ n - j + 1 \in Nat
      /\ \A l \in 1 .. n - j + 1 : g[l] = f[j + l - 1]
  <2>1. \A l \in j .. n : f[l] \in Int
    BY DEF Rising
  <2>2. g \in Seq(Int) /\ Len(g) = (IF j <= n THEN n - j + 1 ELSE 0)
        /\ \A l \in 1 .. n - j + 1 : g[l] = f[j + l - 1]
    BY <2>1, SubSeqProperties
  <2>3. n - j + 1 \in Nat /\ (IF j <= n THEN n - j + 1 ELSE 0) = n - j + 1
    OBVIOUS
  <2> HIDE DEF g
  <2> QED
    BY <2>2, <2>3
<1> HIDE DEF g
<1>2. Rising(g, n - j + 1)
  <2> SUFFICES ASSUME NEW k \in 1 .. n - j + 1, NEW l \in 1 .. n - j + 1, k < l
               PROVE  g[k] < g[l]
    BY <1>1 DEF Rising
  <2>1. j + k - 1 \in 1 .. n /\ j + l - 1 \in 1 .. n /\ j + k - 1 < j + l - 1
    OBVIOUS
  <2> QED
    BY <1>1, <2>1 DEF Rising
<1>3. ASSUME NEW y PROVE y \in After(f, n, j) <=> \E l \in 1 .. n - j + 1 : y = g[l]
  <2>1. ASSUME NEW l \in j .. n PROVE \E k \in 1 .. n - j + 1 : f[l] = g[k]
    <3>1. l - j + 1 \in 1 .. n - j + 1 /\ j + (l - j + 1) - 1 = l
      OBVIOUS
    <3> QED
      BY <1>1, <3>1
  <2>2. ASSUME NEW k \in 1 .. n - j + 1 PROVE \E l \in j .. n : g[k] = f[l]
    <3>1. j + k - 1 \in j .. n
      OBVIOUS
    <3> QED
      BY <1>1, <3>1
  <2> QED
    BY <2>1, <2>2 DEF After
<1>4. /\ After(f, n, j) \in SUBSET Int
      /\ IsFiniteSet(After(f, n, j))
      /\ g = Sorted(After(f, n, j))
  BY <1>1, <1>2, <1>3, SortedOnly
<1>5. ASSUME j <= n
      PROVE  /\ After(f, n, j) = {f[j]} \cup After(f, n, j + 1)
             /\ \A y \in After(f, n, j + 1) : f[j] < y
             /\ f[j] \in Int
  <2>1. \A l : l \in j .. n <=> l = j \/ l \in j + 1 .. n
    BY <1>5
  <2>2. \A l \in j + 1 .. n : l \in 1 .. n /\ j < l
    OBVIOUS
  <2>3. j \in 1 .. n
    BY <1>5
  <2> QED
    BY <2>1, <2>2, <2>3 DEF After, Rising
<1>6. j > n => After(f, n, j) = {}
  BY DEF After
<1> QED
  BY <1>4, <1>5, <1>6 DEF g

-----------------------------------------------------------------------------
(* std::set_difference on sorted ranges.                                   *)

(* Where the pass stands in both ranges, one past the end included.        *)
Positions(a, b) == (1 .. Len(a) + 1) \X (1 .. Len(b) + 1)

(* What the pass gives from there on.                                      *)
DifferenceStep(a, b, f, at) ==
  IF at[1] > Len(a) THEN <<>>
  ELSE IF at[2] > Len(b) THEN SubSeq(a, at[1], Len(a))
  ELSE IF a[at[1]] < b[at[2]] THEN <<a[at[1]]>> \o f[<<at[1] + 1, at[2]>>]
  ELSE IF b[at[2]] < a[at[1]] THEN f[<<at[1], at[2] + 1>>]
  ELSE f[<<at[1] + 1, at[2] + 1>>]

(* f gives it from everywhere.                                             *)
DifferenceTable(a, b, f) ==
  f = [at \in Positions(a, b) |-> DifferenceStep(a, b, f, at)]

(* The equation of the pass has one solution: two would differ at a last   *)
(* pair of positions, and agree on all it looks at.                        *)
LEMMA OneDifferenceTable ==
  ASSUME NEW a, NEW b, Len(a) \in Nat, Len(b) \in Nat,
         NEW f, DifferenceTable(a, b, f), NEW g, DifferenceTable(a, b, g)
  PROVE  f = g
<1> DEFINE P == Positions(a, b)
           left(at) == (Len(a) + 1 - at[1]) + (Len(b) + 1 - at[2])
           D == {at \in P : f[at] # g[at]}
           T == {left(at) : at \in D}
<1>1. f = [at \in P |-> DifferenceStep(a, b, f, at)]
      /\ g = [at \in P |-> DifferenceStep(a, b, g, at)]
  BY DEF DifferenceTable
<1>2. SUFFICES ASSUME D # {} PROVE FALSE
  <2>1. \A at \in P : f[at] = g[at]
    BY <1>2
  <2>2. \A at \in P : DifferenceStep(a, b, f, at) = DifferenceStep(a, b, g, at)
    BY <1>1, <2>1
  <2> QED
    BY <1>1, <2>2
<1>3. \A at \in P : /\ at[1] \in 1 .. Len(a) + 1 /\ at[2] \in 1 .. Len(b) + 1
                    /\ at = <<at[1], at[2]>>
                    /\ left(at) \in Nat
  BY DEF Positions
<1>4. PICK at \in D : \A q \in D : left(at) <= left(q)
  <2>1. T \in SUBSET Nat /\ T # {}
    BY <1>2, <1>3
  <2>2. PICK n \in T : \A m \in T : n <= m
    <3> HIDE DEF T
    <3> QED
      BY <2>1, LeastNatural
  <2> QED
    BY <2>2
<1>5. ASSUME NEW q \in P, left(q) < left(at) PROVE f[q] = g[q]
  BY <1>3, <1>4, <1>5
<1>6. f[at] = DifferenceStep(a, b, f, at) /\ g[at] = DifferenceStep(a, b, g, at)
  BY <1>1
<1>7. ASSUME at[1] <= Len(a), at[2] <= Len(b)
      PROVE  /\ f[<<at[1] + 1, at[2]>>] = g[<<at[1] + 1, at[2]>>]
             /\ f[<<at[1], at[2] + 1>>] = g[<<at[1], at[2] + 1>>]
             /\ f[<<at[1] + 1, at[2] + 1>>] = g[<<at[1] + 1, at[2] + 1>>]
  <2> DEFINE q1 == <<at[1] + 1, at[2]>>
             q2 == <<at[1], at[2] + 1>>
             q3 == <<at[1] + 1, at[2] + 1>>
  <2>1. q1 \in P /\ q2 \in P /\ q3 \in P
    BY <1>3, <1>7 DEF Positions
  <2>2. left(q1) < left(at) /\ left(q2) < left(at) /\ left(q3) < left(at)
    BY <1>3, <1>7
  <2> QED
    BY <1>5, <2>1, <2>2
<1>8. DifferenceStep(a, b, f, at) = DifferenceStep(a, b, g, at)
  <2>1. CASE at[1] <= Len(a) /\ at[2] <= Len(b)
    BY <1>7, <2>1 DEF DifferenceStep
  <2>2. CASE ~(at[1] <= Len(a) /\ at[2] <= Len(b))
    <3>1. at[1] > Len(a) \/ at[2] > Len(b)
      BY <1>3, <2>2
    <3> QED
      BY <3>1 DEF DifferenceStep
  <2> QED
    BY <2>1, <2>2
<1> QED
  BY <1>4, <1>6, <1>8

(* On sorted ranges the merge pass gives the set difference, sorted.       *)
LEMMA MergeOfSorted ==
  ASSUME NEW S \in SUBSET Int, IsFiniteSet(S), NEW T \in SUBSET Int, IsFiniteSet(T)
  PROVE  MergeDifference(Sorted(S), Sorted(T)) = Sorted(S \ T)
<1> DEFINE a == Sorted(S)
           b == Sorted(T)
           n == Cardinality(S)
           m == Cardinality(T)
           rest(at) == After(a, n, at[1]) \ After(b, m, at[2])
           g == [at \in Positions(a, b) |-> Sorted(rest(at))]
<1>1. /\ n \in Nat /\ a \in Seq(S) /\ Len(a) = n /\ Rising(a, n)
      /\ \A x \in S : \E j \in 1 .. n : a[j] = x
  BY SortedLists
<1>2. /\ m \in Nat /\ b \in Seq(T) /\ Len(b) = m /\ Rising(b, m)
      /\ \A x \in T : \E j \in 1 .. m : b[j] = x
  BY SortedLists
<1> HIDE DEF a, b, n, m
<1>3. ASSUME NEW at \in Positions(a, b)
      PROVE  Sorted(rest(at)) = DifferenceStep(a, b, g, at)
  <2> DEFINE j == at[1]
             k == at[2]
             A == After(a, n, j)
             B == After(b, m, k)
             A1 == After(a, n, j + 1)
             B1 == After(b, m, k + 1)
  <2>1. j \in 1 .. n + 1 /\ k \in 1 .. m + 1
    BY <1>1, <1>2 DEF Positions
  <2>2. /\ A \in SUBSET Int /\ IsFiniteSet(A) /\ SubSeq(a, j, n) = Sorted(A)
        /\ j <= n => /\ A = {a[j]} \cup A1
                     /\ \A y \in A1 : a[j] < y
                     /\ a[j] \in Int
        /\ j > n => A = {}
    <3>1. SubSeq(a, j, n) = Sorted(A)
      <4> HIDE DEF j
      <4> QED
        BY <1>1, <2>1, AfterStep
    <3>2. A \in SUBSET Int /\ IsFiniteSet(A)
      BY <1>1, <2>1, AfterStep
    <3>3. j <= n => /\ A = {a[j]} \cup A1
                    /\ \A y \in A1 : a[j] < y
                    /\ a[j] \in Int
      BY <1>1, <2>1, AfterStep
    <3>4. j > n => A = {}
      BY <1>1, <2>1, AfterStep
    <3> QED
      BY <3>1, <3>2, <3>3, <3>4
  <2>3. /\ B \in SUBSET Int /\ IsFiniteSet(B)
        /\ k <= m => /\ B = {b[k]} \cup B1
                     /\ \A y \in B1 : b[k] < y
                     /\ b[k] \in Int
        /\ k > m => B = {}
    BY <1>2, <2>1, AfterStep
  <2>4. rest(at) = A \ B
    OBVIOUS
  <2>5. CASE j > n
    <3>1. Sorted(A \ B) = <<>>
      BY <2>2, <2>5, SortedNothing
    <3> QED
      BY <1>1, <2>5, <3>1 DEF DifferenceStep
  <2>6. CASE j <= n /\ k > m
    <3>1. A \ B = A
      BY <2>3, <2>6
    <3>2. ~(j > n)
      BY <1>1, <2>1, <2>6
    <3> QED
      BY <1>1, <1>2, <2>2, <2>6, <3>1, <3>2 DEF DifferenceStep
  <2>7. CASE j <= n /\ k <= m
    <3>1. /\ <<j + 1, k>> \in Positions(a, b)
          /\ <<j, k + 1>> \in Positions(a, b)
          /\ <<j + 1, k + 1>> \in Positions(a, b)
      BY <1>1, <1>2, <2>1, <2>7 DEF Positions
    <3>2. /\ g[<<j + 1, k>>] = Sorted(A1 \ B)
          /\ g[<<j, k + 1>>] = Sorted(A \ B1)
          /\ g[<<j + 1, k + 1>>] = Sorted(A1 \ B1)
      <4> HIDE DEF A, B, A1, B1
      <4>1. /\ rest(<<j + 1, k>>) = A1 \ B
            /\ rest(<<j, k + 1>>) = A \ B1
            /\ rest(<<j + 1, k + 1>>) = A1 \ B1
        BY DEF A, B, A1, B1
      <4> QED
        BY <3>1, <4>1
    <3>3. ~(j > Len(a)) /\ ~(k > Len(b))
      BY <1>1, <1>2, <2>1, <2>7
    <3>4. A1 \in SUBSET Int /\ IsFiniteSet(A1)
      <4>1. j + 1 \in 1 .. n + 1
        BY <1>1, <2>1, <2>7
      <4> QED
        BY <1>1, <4>1, AfterStep
    <3> HIDE DEF g, rest, A, B, A1, B1
    <3>5. CASE a[j] < b[k]
      <4>1. a[j] \notin B
        BY <2>2, <2>3, <2>7, <3>5
      <4>2. A \ B = {a[j]} \cup (A1 \ B)
        BY <2>2, <2>7, <4>1
      <4>3. Sorted({a[j]} \cup (A1 \ B)) = <<a[j]>> \o Sorted(A1 \ B)
        <5>1. IsFiniteSet(A1 \ B)
          BY <3>4, FS_Difference
        <5>2. A1 \ B \in SUBSET Int /\ a[j] \in Int /\ \A y \in A1 \ B : a[j] < y
          BY <2>2, <2>7, <3>4
        <5> QED
          BY <5>1, <5>2, SortedFirst
      <4> QED
        BY <2>4, <3>2, <3>3, <3>5, <4>2, <4>3 DEF DifferenceStep
    <3>6. CASE b[k] < a[j]
      <4>1. b[k] \notin A
        BY <2>2, <2>3, <2>7, <3>6
      <4>2. A \ B = A \ B1
        BY <2>3, <2>7, <4>1
      <4>3. ~(a[j] < b[k])
        BY <2>2, <2>3, <2>7, <3>6
      <4> QED
        BY <2>4, <3>2, <3>3, <3>6, <4>2, <4>3 DEF DifferenceStep
    <3>7. CASE ~(a[j] < b[k]) /\ ~(b[k] < a[j])
      <4>1. a[j] = b[k]
        BY <2>2, <2>3, <2>7, <3>7
      <4>2. b[k] \notin A1
        BY <2>2, <2>3, <2>7, <4>1
      <4>3. A \ B = A1 \ B1
        BY <2>2, <2>3, <2>7, <4>1, <4>2
      <4> QED
        BY <2>4, <3>2, <3>3, <3>7, <4>3 DEF DifferenceStep
    <3> QED
      BY <3>5, <3>6, <3>7
  <2>8. (j > n \/ j <= n) /\ (k > m \/ k <= m)
    BY <1>1, <1>2, <2>1
  <2> QED
    BY <2>5, <2>6, <2>7, <2>8
<1>4. DifferenceTable(a, b, g)
  BY <1>3 DEF DifferenceTable
<1>5. MergeDifference(a, b) = g[<<1, 1>>]
  <2>1. \A f : DifferenceTable(a, b, f) => f = g
    <3> HIDE DEF g
    <3> QED
      BY <1>1, <1>2, <1>4, OneDifferenceTable
  <2> HIDE DEF g
  <2> QED
    BY <1>4, <2>1 DEF MergeDifference, DifferenceTable, DifferenceStep, Positions
<1>6. g[<<1, 1>>] = Sorted(S \ T)
  <2>1. <<1, 1>> \in Positions(a, b)
    BY <1>1, <1>2 DEF Positions
  <2>2. After(a, n, 1) = S
    <3>1. \A j \in 1 .. n : a[j] \in S
      BY <1>1
    <3> QED
      BY <1>1, <3>1 DEF After
  <2>3. After(b, m, 1) = T
    <3>1. \A j \in 1 .. m : b[j] \in T
      BY <1>2
    <3> QED
      BY <1>2, <3>1 DEF After
  <2>4. rest(<<1, 1>>) = S \ T
    BY <2>2, <2>3
  <2> QED
    BY <2>1, <2>4
<1> QED
  BY <1>5, <1>6 DEF a, b

-----------------------------------------------------------------------------
(* Vectors that hold each element of a set once.                           *)

(* s has each element of S once and nothing else.                          *)
Holds(s, S) ==
  /\ s \in Seq(S)
  /\ \A j, l \in 1 .. Len(s) : s[j] = s[l] => j = l
  /\ \A x \in S : \E j \in 1 .. Len(s) : s[j] = x

(* An increasing vector has no value twice.                                *)
LEMMA RisingOneToOne ==
  ASSUME NEW n \in Nat, NEW f, Rising(f, n)
  PROVE  \A j, l \in 1 .. n : f[j] = f[l] => j = l
<1> SUFFICES ASSUME NEW j \in 1 .. n, NEW l \in 1 .. n, j # l PROVE f[j] # f[l]
  OBVIOUS
<1>1. f[j] \in Int /\ f[l] \in Int /\ (j < l \/ l < j)
  BY DEF Rising
<1> QED
  BY <1>1 DEF Rising

(* A sorted vector holds its set, each element once.                       *)
LEMMA SortedHolds ==
  ASSUME NEW S \in SUBSET Int, IsFiniteSet(S)
  PROVE  Holds(Sorted(S), S) /\ Len(Sorted(S)) = Cardinality(S) /\ Cardinality(S) \in Nat
<1>1. /\ Cardinality(S) \in Nat
      /\ Sorted(S) \in Seq(S)
      /\ Len(Sorted(S)) = Cardinality(S)
      /\ Rising(Sorted(S), Cardinality(S))
      /\ \A x \in S : \E j \in 1 .. Cardinality(S) : Sorted(S)[j] = x
  BY SortedLists
<1> QED
  BY <1>1, RisingOneToOne DEF Holds

(* Two blocks: s lists S in n positions, t lists T in the next m.          *)
Apart(S, T) == S \cap T = {}

OneAfterOther(u, s, n, t, m) ==
  /\ Len(u) = n + m
  /\ \A j \in 1 .. n + m : u[j] = IF j <= n THEN s[j] ELSE t[j - n]

Blocks(u, s, S, n, t, T, m) ==
  /\ Holds(u, S \cup T)
  /\ Len(u) = n + m
  /\ \A j \in 1 .. n : u[j] = s[j] /\ s[j] \in S
  /\ \A j \in 1 .. m : u[n + j] = t[j] /\ t[j] \in T

(* Two vectors of disjoint sets, one after the other, hold the union.      *)
LEMMA BlocksHold ==
  ASSUME NEW S, NEW T, Apart(S, T), NEW s, Holds(s, S), NEW t, Holds(t, T),
         NEW n \in Nat, Len(s) = n, NEW m \in Nat, Len(t) = m,
         NEW u, u \in Seq(S \cup T), OneAfterOther(u, s, n, t, m)
  PROVE  Blocks(u, s, S, n, t, T, m)
<1>0. S \cap T = {}
  BY DEF Apart
<1>1. n \in Nat /\ m \in Nat
  BY DEF Holds
<1>2. \A j \in 1 .. n : s[j] \in S
  BY DEF Holds
<1>3. \A j \in 1 .. m : t[j] \in T
  BY DEF Holds
<1>5. /\ Len(u) = n + m
      /\ \A j \in 1 .. n + m : u[j] = IF j <= n THEN s[j] ELSE t[j - n]
  BY DEF OneAfterOther
<1>6. \A j \in 1 .. n : u[j] = s[j]
  BY <1>1, <1>5
<1>7. ASSUME NEW j \in 1 .. m PROVE u[n + j] = t[j]
  <2>1. n + j \in 1 .. n + m /\ ~(n + j <= n) /\ (n + j) - n = j
    BY <1>1
  <2> QED
    BY <1>5, <2>1
<1>8. ASSUME NEW j \in 1 .. n + m PROVE j \in 1 .. n \/ (j - n \in 1 .. m /\ j = n + (j - n))
  BY <1>1
<1>9. ASSUME NEW j \in 1 .. n + m, NEW l \in 1 .. n + m, u[j] = u[l] PROVE j = l
  <2>1. CASE j \in 1 .. n /\ l \in 1 .. n
    BY <1>6, <1>9, <2>1 DEF Holds
  <2>2. CASE j \in 1 .. n /\ l - n \in 1 .. m /\ l = n + (l - n)
    <3>1. u[j] \in S /\ u[l] \in T
      BY <1>2, <1>3, <1>6, <1>7, <2>2
    <3> QED
      BY <1>0, <1>9, <3>1
  <2>3. CASE j - n \in 1 .. m /\ j = n + (j - n) /\ l \in 1 .. n
    <3>1. u[l] \in S /\ u[j] \in T
      BY <1>2, <1>3, <1>6, <1>7, <2>3
    <3> QED
      BY <1>0, <1>9, <3>1
  <2>4. CASE j - n \in 1 .. m /\ j = n + (j - n) /\ l - n \in 1 .. m /\ l = n + (l - n)
    <3>1. t[j - n] = t[l - n]
      BY <1>7, <1>9, <2>4
    <3>2. j - n = l - n
      BY <2>4, <3>1 DEF Holds
    <3> QED
      BY <1>1, <2>4, <3>2
  <2> QED
    BY <1>8, <2>1, <2>2, <2>3, <2>4
<1>10. ASSUME NEW x \in S \cup T PROVE \E j \in 1 .. n + m : u[j] = x
  <2>1. CASE x \in S
    <3>1. PICK j \in 1 .. n : s[j] = x
      BY <2>1 DEF Holds
    <3>2. j \in 1 .. n + m
      BY <1>1
    <3> QED
      BY <1>6, <3>1, <3>2
  <2>2. CASE x \in T
    <3>1. PICK j \in 1 .. m : t[j] = x
      BY <2>2 DEF Holds
    <3>2. n + j \in 1 .. n + m
      BY <1>1
    <3> QED
      BY <1>7, <3>1, <3>2
  <2> QED
    BY <2>1, <2>2
<1>11. Holds(u, S \cup T)
  BY <1>5, <1>9, <1>10 DEF Holds
<1> QED
  BY <1>2, <1>3, <1>5, <1>6, <1>7, <1>11 DEF Blocks

(* Two vectors, one after the other.                                       *)
Joined(s, t) == s \o t

(* The entries of two vectors put one after the other.                     *)
LEMMA JoinedEntries ==
  ASSUME NEW S, NEW s \in Seq(S), NEW t \in Seq(S)
  PROVE  /\ Joined(s, t) \in Seq(S)
         /\ Len(Joined(s, t)) = Len(s) + Len(t)
         /\ \A j \in 1 .. Len(s) + Len(t) :
              Joined(s, t)[j] = IF j <= Len(s) THEN s[j] ELSE t[j - Len(s)]
  BY ConcatProperties, Zenon DEF Joined

(* The same for vectors joined with \o.                                    *)
LEMMA JoinedHolds ==
  ASSUME NEW S, NEW T, Apart(S, T), NEW s, Holds(s, S), NEW t, Holds(t, T),
         NEW n \in Nat, Len(s) = n, NEW m \in Nat, Len(t) = m
  PROVE  Blocks(Joined(s, t), s, S, n, t, T, m)
<1>1. s \in Seq(S \cup T) /\ t \in Seq(S \cup T)
  BY SeqMonotonic DEF Holds
<1>2. Joined(s, t) \in Seq(S \cup T) /\ OneAfterOther(Joined(s, t), s, n, t, m)
  BY <1>1, JoinedEntries DEF OneAfterOther
<1> QED
  BY <1>2, BlocksHold

(* A search in such a vector finds the one position of the element.        *)
LEMMA SearchFinds ==
  ASSUME NEW S, NEW y, Holds(y, S), NEW j \in 1 .. Len(y)
  PROVE  xiny(y[j], y) = j - 1
<1>1. Len(y) \in Nat /\ DOMAIN y = 1 .. Len(y)
  BY DEF Holds
<1>2. y[j] \in ToSet(y)
  BY <1>1 DEF ToSet
<1>3. \A l \in DOMAIN y : y[l] = y[j] <=> l = j
  BY <1>1 DEF Holds
<1>4. \A l \in 1 .. j - 1 : l \in DOMAIN y /\ l # j
  BY <1>1
<1>5. (CHOOSE l \in DOMAIN y : y[l] = y[j] /\ \A k \in 1 .. l - 1 : y[k] # y[j]) = j
  BY <1>1, <1>3, <1>4
<1> QED
  BY <1>2, <1>5 DEF xiny

(* xiny returns -1 for a value a vector does not hold.                     *)
LEMMA SearchFails ==
  ASSUME NEW S, NEW y, Holds(y, S), NEW x, x \notin S
  PROVE  xiny(x, y) = -1
<1>1. x \notin ToSet(y)
  BY DEF Holds, ToSet
<1> QED
  BY <1>1 DEF xiny

-----------------------------------------------------------------------------
(* What one pass of the loop over ranks builds, when no interface elements *)
(* are put first (run dmd_coupled shows what happens when they are).       *)

(* The interface elements are sorted.                                      *)
Uncoupled == ~(hybrid = 1 /\ Coupled)

(* The first and the fourth block.                                         *)
inner(p) == intelem(p) \ bndelem(p)
outer(p) == IF hybrid = 0 THEN outelem(p) ELSE {}

End1(p) == Cardinality(inner(p))
End2(p) == End1(p) + Cardinality(bndelem(p))
End3(p) == End2(p) + Cardinality(extelem(p))
End4(p) == End3(p) + Cardinality(outer(p))

(* All four.                                                               *)
Stored(p) == intelem(p) \cup Ghosts(p)

(* The numbering of rank p: blocks of interior, interface, exterior and    *)
(* outer elements.                                                         *)
Numbering(e, p) ==
  /\ Holds(e, Stored(p))
  /\ Len(e) = End4(p)
  /\ \A m \in 1 .. End1(p) : e[m] \in inner(p)
  /\ \A m \in End1(p) + 1 .. End2(p) : e[m] \in bndelem(p)
  /\ \A m \in End2(p) + 1 .. End3(p) : e[m] \in extelem(p)
  /\ \A m \in End3(p) + 1 .. End4(p) : e[m] \in outer(p)

(* The four blocks are finite, disjoint, and make up the stored            *)
(* elements.                                                               *)
LEMMA PartSets ==
  ASSUME InputsFixed, NEW p \in Proc
  PROVE  /\ inner(p) \in SUBSET Int /\ IsFiniteSet(inner(p))
         /\ bndelem(p) \in SUBSET Int /\ IsFiniteSet(bndelem(p))
         /\ extelem(p) \in SUBSET Int /\ IsFiniteSet(extelem(p))
         /\ outer(p) \in SUBSET Int /\ IsFiniteSet(outer(p))
         /\ intelem(p) \in SUBSET Int /\ IsFiniteSet(intelem(p))
         /\ Stored(p) \in SUBSET Elem
         /\ inner(p) \cup bndelem(p) = intelem(p)
         /\ inner(p) \cup bndelem(p) \cup extelem(p) \cup outer(p) = Stored(p)
         /\ inner(p) \cap bndelem(p) = {}
         /\ intelem(p) \cap extelem(p) = {}
         /\ intelem(p) \cap outer(p) = {}
         /\ extelem(p) \cap outer(p) = {}
         /\ \A e \in Ghosts(p) : elem2cpu[e] \in Proc /\ elem2cpu[e] # p
<1>1. Elem \in SUBSET Int /\ IsFiniteSet(Elem)
  BY NeAssumption, FS_Interval DEF Elem
<1>2. intelem(p) \in SUBSET Elem
  BY DEF intelem
<1>3. extelem(p) \in SUBSET Elem
  BY <1>2 DEF InputsFixed, extelem, neighboringelements
<1>4. outelem(p) \in SUBSET Elem
  BY <1>3 DEF InputsFixed, outelem, neighboringelements
<1>5. bndelem(p) \in SUBSET intelem(p)
  BY DEF bndelem
<1>6. inner(p) \in SUBSET Elem /\ bndelem(p) \in SUBSET Elem /\ outer(p) \in SUBSET Elem
  BY <1>2, <1>4, <1>5 DEF inner, outer
<1>7. \A S \in SUBSET Elem : S \in SUBSET Int /\ IsFiniteSet(S)
  BY <1>1, FS_Subset
<1>8. intelem(p) \cap extelem(p) = {}
  BY DEF extelem
<1>9. intelem(p) \cap outer(p) = {} /\ extelem(p) \cap outer(p) = {}
  BY DEF outer, outelem
<1>10. inner(p) \cup bndelem(p) = intelem(p) /\ inner(p) \cap bndelem(p) = {}
  BY <1>5 DEF inner
<1>11. Ghosts(p) = extelem(p) \cup outer(p)
  BY DEF Ghosts, outer
<1>12. \A e \in Ghosts(p) : elem2cpu[e] \in Proc /\ elem2cpu[e] # p
  <2> SUFFICES ASSUME NEW e \in Ghosts(p) PROVE elem2cpu[e] \in Proc /\ elem2cpu[e] # p
    OBVIOUS
  <2>1. e \in Elem /\ e \notin intelem(p)
    BY <1>3, <1>6, <1>8, <1>9, <1>11
  <2> QED
    BY <2>1 DEF InputsFixed, intelem
<1> QED
  BY <1>2, <1>3, <1>6, <1>7, <1>8, <1>9, <1>10, <1>11, <1>12 DEF Stored

(* The merges of one pass return the set operations they stand for.        *)
LEMMA ElempartOf ==
  ASSUME InputsFixed, Uncoupled, NEW p \in Proc
  PROVE  /\ PartitionOf(p).elempart =
              Sorted(inner(p)) \o Sorted(bndelem(p)) \o Sorted(extelem(p)) \o Sorted(outer(p))
         /\ PartitionOf(p).elempartpts =
              <<Len(Sorted(inner(p))), Len(Sorted(bndelem(p))),
                Len(Sorted(extelem(p))), Len(Sorted(outer(p)))>>
         /\ PartitionOf(p).elemrecv =
              RecvRows(PartitionOf(p).elempart,
                       Len(Sorted(inner(p))) + Len(Sorted(bndelem(p))),
                       Sorted(extelem(p)) \o Sorted(outer(p)))
         /\ PartitionOf(p).nbsd =
              Sorted({PartitionOf(p).elemrecv[j][1] : j \in 1 .. Len(PartitionOf(p).elemrecv)})
         /\ PartitionOf(p).elemsend = <<>>
         /\ PartitionOf(p).elemsendpts = <<>>
         /\ PartitionOf(p).elemrecvpts = <<>>
<1>1. InterfaceVector(p) = Sorted(bndelem(p))
  BY DEF InterfaceVector, Uncoupled
<1>2. MergeDifference(Sorted(intelem(p)), Sorted(bndelem(p))) = Sorted(inner(p))
  BY PartSets, MergeOfSorted DEF inner
<1>3. (IF hybrid = 0 THEN Sorted(outelem(p)) ELSE <<>>) = Sorted(outer(p))
  BY SortedNothing DEF outer
<1> QED
  BY <1>1, <1>2, <1>3 DEF PartitionOf

(* The pass numbers the stored elements in four consecutive blocks.        *)
LEMMA NumberingOf ==
  ASSUME InputsFixed, Uncoupled, NEW p \in Proc
  PROVE  /\ Numbering(PartitionOf(p).elempart, p)
         /\ End1(p) \in Nat /\ End2(p) \in Nat /\ End3(p) \in Nat /\ End4(p) \in Nat
         /\ End1(p) <= End2(p) /\ End2(p) <= End3(p) /\ End3(p) <= End4(p)
         /\ PartitionOf(p).elempartpts =
              <<End1(p), End2(p) - End1(p), End3(p) - End2(p), End4(p) - End3(p)>>
         /\ LET recvelem == Sorted(extelem(p)) \o Sorted(outer(p))
            IN /\ recvelem \in Seq(Int)
               /\ Len(recvelem) = End4(p) - End2(p)
               /\ \A j \in 1 .. End4(p) - End2(p) :
                    recvelem[j] = PartitionOf(p).elempart[End2(p) + j]
<1> DEFINE s1 == Sorted(inner(p))
           s2 == Sorted(bndelem(p))
           s3 == Sorted(extelem(p))
           s4 == Sorted(outer(p))
           n1 == Cardinality(inner(p))
           n2 == Cardinality(bndelem(p))
           n3 == Cardinality(extelem(p))
           n4 == Cardinality(outer(p))
           u12 == Joined(s1, s2)
           u123 == Joined(u12, s3)
           e == Joined(u123, s4)
           r == Joined(s3, s4)
<1>1. Holds(s1, inner(p)) /\ Len(s1) = n1 /\ n1 \in Nat
  BY PartSets, SortedHolds
<1>2. Holds(s2, bndelem(p)) /\ Len(s2) = n2 /\ n2 \in Nat
  BY PartSets, SortedHolds
<1>3. Holds(s3, extelem(p)) /\ Len(s3) = n3 /\ n3 \in Nat
  BY PartSets, SortedHolds
<1>4. Holds(s4, outer(p)) /\ Len(s4) = n4 /\ n4 \in Nat
  BY PartSets, SortedHolds
<1> HIDE DEF s1, s2, s3, s4, n1, n2, n3, n4
<1>5. /\ Holds(u12, intelem(p)) /\ Len(u12) = n1 + n2
      /\ \A j \in 1 .. n1 : u12[j] = s1[j] /\ s1[j] \in inner(p)
      /\ \A j \in 1 .. n2 : u12[n1 + j] = s2[j] /\ s2[j] \in bndelem(p)
  <2>1. Apart(inner(p), bndelem(p)) /\ inner(p) \cup bndelem(p) = intelem(p)
    BY PartSets DEF Apart
  <2>2. Blocks(u12, s1, inner(p), n1, s2, bndelem(p), n2)
    BY <1>1, <1>2, <2>1, JoinedHolds
  <2> HIDE DEF u12
  <2> QED
    BY <2>1, <2>2 DEF Blocks
<1> HIDE DEF u12
<1>6. /\ Holds(u123, intelem(p) \cup extelem(p)) /\ Len(u123) = n1 + n2 + n3
      /\ \A j \in 1 .. n1 + n2 : u123[j] = u12[j]
      /\ \A j \in 1 .. n3 : u123[n1 + n2 + j] = s3[j] /\ s3[j] \in extelem(p)
  <2>1. Apart(intelem(p), extelem(p))
    BY PartSets DEF Apart
  <2>2. n1 + n2 \in Nat
    BY <1>1, <1>2
  <2>3. Blocks(u123, u12, intelem(p), n1 + n2, s3, extelem(p), n3)
    BY <1>3, <1>5, <2>1, <2>2, JoinedHolds
  <2> HIDE DEF u123
  <2> QED
    BY <2>3 DEF Blocks
<1> HIDE DEF u123
<1>7. /\ Holds(e, Stored(p)) /\ Len(e) = n1 + n2 + n3 + n4
      /\ \A j \in 1 .. n1 + n2 + n3 : e[j] = u123[j]
      /\ \A j \in 1 .. n4 : e[n1 + n2 + n3 + j] = s4[j] /\ s4[j] \in outer(p)
  <2>1. Apart(intelem(p) \cup extelem(p), outer(p))
    BY PartSets DEF Apart
  <2>2. (intelem(p) \cup extelem(p)) \cup outer(p) = Stored(p)
    BY PartSets
  <2>3. n1 + n2 + n3 \in Nat
    BY <1>1, <1>2, <1>3
  <2>4. Blocks(e, u123, intelem(p) \cup extelem(p), n1 + n2 + n3, s4, outer(p), n4)
    BY <1>4, <1>6, <2>1, <2>3, JoinedHolds
  <2> HIDE DEF e
  <2> QED
    BY <2>2, <2>4 DEF Blocks
<1>8. /\ Holds(r, extelem(p) \cup outer(p)) /\ Len(r) = n3 + n4
      /\ \A j \in 1 .. n3 : r[j] = s3[j]
      /\ \A j \in 1 .. n4 : r[n3 + j] = s4[j]
  <2>1. Apart(extelem(p), outer(p))
    BY PartSets DEF Apart
  <2>2. Blocks(r, s3, extelem(p), n3, s4, outer(p), n4)
    BY <1>3, <1>4, <2>1, JoinedHolds
  <2> HIDE DEF r
  <2> QED
    BY <2>2 DEF Blocks
<1> HIDE DEF e, r
<1>9. /\ End1(p) = n1 /\ End2(p) = n1 + n2 /\ End3(p) = n1 + n2 + n3
      /\ End4(p) = n1 + n2 + n3 + n4
  BY DEF End1, End2, End3, End4, n1, n2, n3, n4
<1>10. PartitionOf(p).elempart = e
  BY ElempartOf DEF e, u123, u12, s1, s2, s3, s4, Joined
<1>11. PartitionOf(p).elempartpts = <<n1, n2, n3, n4>>
  BY <1>1, <1>2, <1>3, <1>4, ElempartOf DEF s1, s2, s3, s4
<1>12. ASSUME NEW m \in 1 .. n1 PROVE e[m] \in inner(p)
  <2>1. m \in 1 .. n1 + n2 /\ m \in 1 .. n1 + n2 + n3
    BY <1>1, <1>2, <1>3
  <2> QED
    BY <1>5, <1>6, <1>7, <2>1
<1>13. ASSUME NEW m \in n1 + 1 .. n1 + n2 PROVE e[m] \in bndelem(p)
  <2>1. m \in 1 .. n1 + n2 /\ m \in 1 .. n1 + n2 + n3 /\ m - n1 \in 1 .. n2
        /\ m = n1 + (m - n1)
    BY <1>1, <1>2, <1>3
  <2> QED
    BY <1>5, <1>6, <1>7, <2>1
<1>14. ASSUME NEW m \in n1 + n2 + 1 .. n1 + n2 + n3
       PROVE e[m] \in extelem(p) /\ e[m] = r[m - (n1 + n2)]
  <2>1. m \in 1 .. n1 + n2 + n3 /\ m - (n1 + n2) \in 1 .. n3
        /\ m = n1 + n2 + (m - (n1 + n2))
    BY <1>1, <1>2, <1>3
  <2> QED
    BY <1>6, <1>7, <1>8, <2>1
<1>15. ASSUME NEW m \in n1 + n2 + n3 + 1 .. n1 + n2 + n3 + n4
       PROVE e[m] \in outer(p) /\ e[m] = r[m - (n1 + n2)]
  <2>1. m - (n1 + n2 + n3) \in 1 .. n4 /\ m = n1 + n2 + n3 + (m - (n1 + n2 + n3))
        /\ m - (n1 + n2) = n3 + (m - (n1 + n2 + n3))
    BY <1>1, <1>2, <1>3, <1>4
  <2> QED
    BY <1>7, <1>8, <2>1
<1>16. Numbering(e, p)
  BY <1>7, <1>9, <1>12, <1>13, <1>14, <1>15 DEF Numbering
<1>17. \A j \in 1 .. n3 + n4 : r[j] = e[n1 + n2 + j]
  <2> SUFFICES ASSUME NEW j \in 1 .. n3 + n4 PROVE r[j] = e[n1 + n2 + j]
    OBVIOUS
  <2>1. (n1 + n2 + j) - (n1 + n2) = j
        /\ (n1 + n2 + j \in n1 + n2 + 1 .. n1 + n2 + n3
            \/ n1 + n2 + j \in n1 + n2 + n3 + 1 .. n1 + n2 + n3 + n4)
    BY <1>1, <1>2, <1>3, <1>4
  <2> QED
    BY <1>14, <1>15, <2>1
<1>18. r \in Seq(Int)
  <2>1. extelem(p) \cup outer(p) \subseteq Int /\ r \in Seq(extelem(p) \cup outer(p))
    BY <1>8, PartSets DEF Holds
  <2> QED
    BY <2>1, SeqMonotonic
<1>19. /\ End1(p) \in Nat /\ End2(p) \in Nat /\ End3(p) \in Nat /\ End4(p) \in Nat
       /\ End1(p) <= End2(p) /\ End2(p) <= End3(p) /\ End3(p) <= End4(p)
       /\ n2 = End2(p) - End1(p) /\ n3 = End3(p) - End2(p) /\ n4 = End4(p) - End3(p)
       /\ n3 + n4 = End4(p) - End2(p)
  BY <1>1, <1>2, <1>3, <1>4, <1>9
<1>20. PartitionOf(p).elempartpts =
         <<End1(p), End2(p) - End1(p), End3(p) - End2(p), End4(p) - End3(p)>>
  BY <1>9, <1>11, <1>19
<1>21. /\ r \in Seq(Int) /\ Len(r) = End4(p) - End2(p)
       /\ \A j \in 1 .. End4(p) - End2(p) : r[j] = e[End2(p) + j]
  BY <1>8, <1>9, <1>17, <1>18, <1>19
<1> QED
  BY <1>10, <1>16, <1>19, <1>20, <1>21 DEF r, s3, s4, Joined

(* The rows of the elements rank p receives: the owner of a ghost, its     *)
(* position and its number.                                                *)
GhostRow(e, m) == <<elem2cpu[e[m]], m - 1, e[m]>>
GhostRows(e, p) == {GhostRow(e, m) : m \in End2(p) + 1 .. End4(p)}

(* The order of std::array<int,3> among the rows R.                        *)
RowOrder(R) == {q \in R \X R : RowLess(q[1], q[2])}

(* Rows are compared like the arrays of three integers they are.           *)
LEMMA RowsOrdered ==
  ASSUME NEW R \in SUBSET (Int \X Int \X Int)
  PROVE  StrictOrder(R, RowOrder(R))
<1>1. ASSUME NEW x \in R PROVE x = <<x[1], x[2], x[3]>> /\ x[1] \in Int /\ x[2] \in Int /\ x[3] \in Int
  OBVIOUS
<1>2. \A x, y \in R : <<x, y>> \in RowOrder(R) <=> RowLess(x, y)
  BY DEF RowOrder
<1>3. ASSUME NEW x \in R, NEW y \in R, NEW z \in R, RowLess(x, y), RowLess(y, z)
      PROVE RowLess(x, z)
  BY <1>1, <1>3 DEF RowLess
<1>4. ASSUME NEW x \in R, NEW y \in R, x # y PROVE RowLess(x, y) \/ RowLess(y, x)
  <2>1. x[1] # y[1] \/ x[2] # y[2] \/ x[3] # y[3]
    BY <1>1, <1>4
  <2> QED
    BY <1>1, <2>1 DEF RowLess
<1>5. \A x \in R : ~RowLess(x, x)
  BY <1>1 DEF RowLess
<1> QED
  BY <1>2, <1>3, <1>4, <1>5 DEF StrictOrder

(* The blocks follow one another.                                         *)
Ends(p) ==
  /\ End1(p) \in Nat /\ End2(p) \in Nat /\ End3(p) \in Nat /\ End4(p) \in Nat
  /\ End1(p) <= End2(p) /\ End2(p) <= End3(p) /\ End3(p) <= End4(p)

(* The ends of the four blocks are in order.                               *)
LEMMA EndsOrdered ==
  ASSUME InputsFixed, NEW p \in Proc
  PROVE  Ends(p)
<1>1. /\ Cardinality(inner(p)) \in Nat /\ Cardinality(bndelem(p)) \in Nat
      /\ Cardinality(extelem(p)) \in Nat /\ Cardinality(outer(p)) \in Nat
  BY PartSets, FS_CardinalityType
<1> QED
  BY <1>1 DEF Ends, End1, End2, End3, End4

(* The rows are as many as the ghosts.                                     *)
LEMMA GhostRowsOf ==
  ASSUME InputsFixed, NEW p \in Proc, NEW e, Numbering(e, p)
  PROVE  /\ GhostRows(e, p) \in SUBSET (Proc \X Nat \X Elem)
         /\ IsFiniteSet(GhostRows(e, p))
         /\ Cardinality(GhostRows(e, p)) = End4(p) - End2(p)
         /\ \A m \in End2(p) + 1 .. End4(p) : e[m] \in Ghosts(p)
         /\ \A x \in Ghosts(p) : \E m \in End2(p) + 1 .. End4(p) : e[m] = x
<1> DEFINE D == End2(p) + 1 .. End4(p)
           f == [m \in D |-> GhostRow(e, m)]
<1> USE EndsOrdered DEF Ends
<1>1. Ghosts(p) = extelem(p) \cup outer(p)
  BY DEF Ghosts, outer
<1>2. ASSUME NEW m \in D PROVE e[m] \in Ghosts(p)
  <2>1. m \in End2(p) + 1 .. End3(p) \/ m \in End3(p) + 1 .. End4(p)
    OBVIOUS
  <2> QED
    BY <1>1, <2>1 DEF Numbering
<1>3. ASSUME NEW x \in Ghosts(p) PROVE \E m \in D : e[m] = x
  <2>1. x \in Stored(p)
    BY <1>3 DEF Stored
  <2>2. PICK m \in 1 .. End4(p) : e[m] = x
    BY <2>1 DEF Numbering, Holds
  <2>3. x \notin intelem(p)
    BY <1>1, <1>3, PartSets
  <2>4. inner(p) \subseteq intelem(p) /\ bndelem(p) \subseteq intelem(p)
    BY DEF inner, bndelem
  <2>5. m \notin 1 .. End1(p) /\ m \notin End1(p) + 1 .. End2(p)
    BY <2>2, <2>3, <2>4 DEF Numbering
  <2>6. End1(p) \in Nat
    BY PartSets, FS_CardinalityType DEF End1
  <2>7. m \in D
    BY <2>5, <2>6
  <2> QED
    BY <2>2, <2>7
<1>4. Ghosts(p) \in SUBSET Elem
  BY PartSets DEF Stored
<1>5. \A m \in D : GhostRow(e, m) \in Proc \X Nat \X Elem
  <2> SUFFICES ASSUME NEW m \in D PROVE GhostRow(e, m) \in Proc \X Nat \X Elem
    OBVIOUS
  <2>1. e[m] \in Ghosts(p) /\ e[m] \in Elem /\ elem2cpu[e[m]] \in Proc
    BY <1>2, <1>4, PartSets
  <2>2. m - 1 \in Nat
    OBVIOUS
  <2> QED
    BY <2>1, <2>2 DEF GhostRow
<1>6. IsFiniteSet(D) /\ Cardinality(D) = End4(p) - End2(p)
  <2>1. IsFiniteSet(D)
    BY FS_Interval
  <2> DEFINE a == End2(p) + 1
             b == End4(p)
  <2>2. a \in Int /\ b \in Int
    OBVIOUS
  <2>3. D = a .. b
    OBVIOUS
  <2>4. Cardinality(a .. b) = IF a > b THEN 0 ELSE b - a + 1
    <3> HIDE DEF a, b
    <3> QED
      BY <2>2, FS_Interval
  <2> QED
    BY <2>1, <2>3, <2>4
<1>7. f \in [D -> GhostRows(e, p)]
  BY DEF GhostRows
<1>8. \A m, l \in D : f[m] = f[l] => m = l
  BY DEF GhostRow
<1>9. \A r \in GhostRows(e, p) : \E m \in D : f[m] = r
  BY DEF GhostRows
<1>10. IsFiniteSet(GhostRows(e, p)) /\ Cardinality(GhostRows(e, p)) = Cardinality(D)
  <2> HIDE DEF f, D
  <2> QED
    BY <1>6, <1>7, <1>8, <1>9, SameSize
<1> QED
  BY <1>2, <1>3, <1>5, <1>6, <1>10 DEF GhostRows

(* The vector of the elements to receive: the last blocks of the numbering. *)
GhostVector(r, e, p) ==
  /\ r \in Seq(Int) /\ Len(r) = End4(p) - End2(p)
  /\ \A j \in 1 .. End4(p) - End2(p) : r[j] = e[End2(p) + j]

(* Every element to receive is found where the numbering has it, so the    *)
(* loop leaves no row out, and the rows are sorted by owner.               *)
LEMMA RecvRowsLists ==
  ASSUME InputsFixed, NEW p \in Proc, NEW e, Numbering(e, p), NEW r, GhostVector(r, e, p)
  PROVE  RecvRows(e, End2(p), r) = InOrder(GhostRows(e, p), RowOrder(GhostRows(e, p)))
<1> DEFINE L == End4(p) - End2(p)
           found == {j \in DOMAIN r : xiny(r[j], e) >= 0}
           row(j) == <<elem2cpu[e[xiny(r[j], e) + 1]], End2(p) + j - 1, r[j]>>
           rows == {row(j) : j \in found}
<1> USE EndsOrdered DEF Ends
<1>1. /\ r \in Seq(Int) /\ Len(r) = End4(p) - End2(p)
      /\ DOMAIN r = 1 .. L /\ L \in Nat
      /\ \A j \in 1 .. L : r[j] = e[End2(p) + j]
  BY DEF GhostVector
<1>2. ASSUME NEW j \in 1 .. L PROVE xiny(r[j], e) = End2(p) + j - 1
  <2>1. End2(p) + j \in 1 .. Len(e) /\ Holds(e, Stored(p))
    BY <1>1 DEF Numbering
  <2>2. xiny(e[End2(p) + j], e) = End2(p) + j - 1
    BY <2>1, SearchFinds
  <2> QED
    BY <1>1, <2>2
<1>3. ASSUME NEW j \in 1 .. L PROVE j \in found /\ row(j) = GhostRow(e, End2(p) + j)
  <2>1. xiny(r[j], e) = End2(p) + j - 1 /\ r[j] = e[End2(p) + j]
    BY <1>1, <1>2
  <2>2. End2(p) + j - 1 >= 0 /\ (End2(p) + j - 1) + 1 = End2(p) + j
    OBVIOUS
  <2> QED
    BY <1>1, <2>1, <2>2 DEF GhostRow
<1>4. rows = GhostRows(e, p)
  <2>1. ASSUME NEW q \in rows PROVE q \in GhostRows(e, p)
    <3>1. PICK j \in found : q = row(j)
      OBVIOUS
    <3>2. j \in 1 .. L /\ End2(p) + j \in End2(p) + 1 .. End4(p)
      BY <1>1
    <3> QED
      BY <1>3, <3>1, <3>2 DEF GhostRows
  <2>2. ASSUME NEW q \in GhostRows(e, p) PROVE q \in rows
    <3>1. PICK m \in End2(p) + 1 .. End4(p) : q = GhostRow(e, m)
      BY DEF GhostRows
    <3>2. m - End2(p) \in 1 .. L /\ End2(p) + (m - End2(p)) = m
      OBVIOUS
    <3>3. m - End2(p) \in found /\ q = row(m - End2(p))
      BY <1>3, <3>1, <3>2
    <3> QED
      BY <3>3
  <2> HIDE DEF rows
  <2> QED
    BY <2>1, <2>2
<1>5. RecvRows(e, End2(p), r) = InOrder(rows, RowOrder(rows))
  BY DEF RecvRows, RowOrder
<1> HIDE DEF rows
<1> QED
  BY <1>4, <1>5

(* The ranks that own ghosts of p.                                         *)
Owners(p) == {elem2cpu[x] : x \in Ghosts(p)}

(* A record numbers the elements of rank p, in blocks of the sizes it says. *)
Numbered(d, p) ==
  /\ Numbering(d.elempart, p)
  /\ d.elempartpts[1] = End1(p)
  /\ d.elempartpts[2] = End2(p) - End1(p)
  /\ d.elempartpts[3] = End3(p) - End2(p)

(* A record of a finished pass: the numbering, a row for each ghost, and the *)
(* owners of the ghosts.                                                   *)
Partitioned(d, p) ==
  /\ Numbering(d.elempart, p)
  /\ d.elempartpts = <<End1(p), End2(p) - End1(p), End3(p) - End2(p), End4(p) - End3(p)>>
  /\ Listing(d.elemrecv, GhostRows(d.elempart, p), RowOrder(GhostRows(d.elempart, p)))
  /\ Cardinality(GhostRows(d.elempart, p)) = End4(p) - End2(p)
  /\ d.nbsd = Sorted(Owners(p))

(* The rows one by one: each stands for one ghost, no ghost is left out,   *)
(* and the owners do not go down.                                          *)
LEMMA RowsOneByOne ==
  ASSUME InputsFixed, NEW p \in Proc, NEW d, Numbering(d.elempart, p),
         Listing(d.elemrecv, GhostRows(d.elempart, p), RowOrder(GhostRows(d.elempart, p)))
  PROVE  /\ d.elemrecv \in Seq(Proc \X Nat \X Elem)
         /\ Len(d.elemrecv) = End4(p) - End2(p)
         /\ \A j \in 1 .. Len(d.elemrecv) : \E m \in End2(p) + 1 .. End4(p) :
              d.elemrecv[j] = GhostRow(d.elempart, m)
         /\ \A m \in End2(p) + 1 .. End4(p) : \E j \in 1 .. Len(d.elemrecv) :
              d.elemrecv[j] = GhostRow(d.elempart, m)
         /\ \A j, l \in 1 .. Len(d.elemrecv) : j < l => d.elemrecv[j][1] <= d.elemrecv[l][1]
<1> DEFINE e == d.elempart
           s == d.elemrecv
           R == GhostRows(e, p)
           N == Cardinality(R)
<1>1. /\ R \in SUBSET (Proc \X Nat \X Elem) /\ IsFiniteSet(R)
      /\ N = End4(p) - End2(p) /\ N \in Nat
  BY EndsOrdered, GhostRowsOf DEF Ends
<1>2. R \in SUBSET (Int \X Int \X Int)
  BY <1>1, NeAssumption, NprocAssumption DEF Proc, Elem
<1>3. StrictOrder(R, RowOrder(R))
  <2> HIDE DEF R
  <2> QED
    BY <1>2, RowsOrdered
<1>4. s \in [1 .. N -> R] /\ \A j, l \in 1 .. N : j < l => <<s[j], s[l]>> \in RowOrder(R)
  BY DEF Listing
<1>5. s \in Seq(R) /\ Len(s) = N
  <2> HIDE DEF R, s
  <2> QED
    BY <1>1, <1>4
<1>6. \A x \in R : \E j \in 1 .. N : s[j] = x
  <2>1. Listing(s, R, RowOrder(R))
    OBVIOUS
  <2> HIDE DEF R
  <2> QED
    BY <1>1, <1>3, <2>1, ListingRanks
<1>7. s \in Seq(Proc \X Nat \X Elem)
  <2> HIDE DEF R, s
  <2> QED
    BY <1>1, <1>5, SeqMonotonic
<1>8. ASSUME NEW j \in 1 .. N, NEW l \in 1 .. N, j < l PROVE s[j][1] <= s[l][1]
  <2>1. s[j] \in Int \X Int \X Int /\ s[l] \in Int \X Int \X Int /\ RowLess(s[j], s[l])
    BY <1>2, <1>4, <1>8 DEF RowOrder
  <2> HIDE DEF s
  <2>2. s[j][1] \in Int /\ s[l][1] \in Int
    BY <2>1
  <2> QED
    BY <2>1, <2>2 DEF RowLess
<1>9. \A j \in 1 .. N : \E m \in End2(p) + 1 .. End4(p) : s[j] = GhostRow(e, m)
  BY <1>4 DEF GhostRows
<1>10. \A m \in End2(p) + 1 .. End4(p) : \E j \in 1 .. N : s[j] = GhostRow(e, m)
  BY <1>6 DEF GhostRows
<1> QED
  BY <1>1, <1>5, <1>7, <1>8, <1>9, <1>10

(* One pass of the loop.                                                   *)
LEMMA OnePass ==
  ASSUME InputsFixed, Uncoupled, NEW p \in Proc
  PROVE  Partitioned(PartitionOf(p), p)
<1> DEFINE d == PartitionOf(p)
           e == d.elempart
           r == Sorted(extelem(p)) \o Sorted(outer(p))
<1>1. Ends(p)
  BY EndsOrdered
<1>2. /\ Numbering(e, p)
      /\ d.elempartpts = <<End1(p), End2(p) - End1(p), End3(p) - End2(p), End4(p) - End3(p)>>
      /\ GhostVector(r, e, p)
  BY NumberingOf DEF GhostVector
<1>3. Len(Sorted(inner(p))) + Len(Sorted(bndelem(p))) = End2(p)
  BY PartSets, SortedHolds DEF End1, End2
<1>4. d.elemrecv = RecvRows(e, End2(p), r)
  BY <1>3, ElempartOf
<1>8. d.nbsd = Sorted({d.elemrecv[j][1] : j \in 1 .. Len(d.elemrecv)})
  BY ElempartOf
<1> HIDE DEF d, e
<1>5. d.elemrecv = InOrder(GhostRows(e, p), RowOrder(GhostRows(e, p)))
  <2> HIDE DEF r
  <2> QED
    BY <1>1, <1>2, <1>4, RecvRowsLists DEF Ends
<1>6. /\ GhostRows(e, p) \in SUBSET (Int \X Int \X Int)
      /\ IsFiniteSet(GhostRows(e, p))
      /\ Cardinality(GhostRows(e, p)) = End4(p) - End2(p)
  <2>1. /\ GhostRows(e, p) \in SUBSET (Proc \X Nat \X Elem)
        /\ IsFiniteSet(GhostRows(e, p))
        /\ Cardinality(GhostRows(e, p)) = End4(p) - End2(p)
    BY <1>2, GhostRowsOf
  <2> QED
    BY <2>1, NeAssumption, NprocAssumption DEF Proc, Elem
<1>7. Listing(d.elemrecv, GhostRows(e, p), RowOrder(GhostRows(e, p)))
  BY <1>5, <1>6, RowsOrdered, InOrderLists
<1>9. {d.elemrecv[j][1] : j \in 1 .. Len(d.elemrecv)} = Owners(p)
  <2>1. ASSUME NEW j \in 1 .. Len(d.elemrecv) PROVE d.elemrecv[j][1] \in Owners(p)
    <3>1. PICK m \in End2(p) + 1 .. End4(p) : d.elemrecv[j] = GhostRow(e, m)
      BY <1>2, <1>7, RowsOneByOne DEF e
    <3>2. e[m] \in Ghosts(p)
      BY <1>1, <1>2, GhostRowsOf DEF Ends
    <3> QED
      BY <3>1, <3>2 DEF GhostRow, Owners
  <2>2. ASSUME NEW k \in Owners(p) PROVE \E j \in 1 .. Len(d.elemrecv) : d.elemrecv[j][1] = k
    <3>1. PICK x \in Ghosts(p) : k = elem2cpu[x]
      BY DEF Owners
    <3>2. PICK m \in End2(p) + 1 .. End4(p) : e[m] = x
      BY <1>1, <1>2, GhostRowsOf DEF Ends
    <3>3. PICK j \in 1 .. Len(d.elemrecv) : d.elemrecv[j] = GhostRow(e, m)
      BY <1>2, <1>7, RowsOneByOne DEF e
    <3> QED
      BY <3>1, <3>2, <3>3 DEF GhostRow
  <2> QED
    BY <2>1, <2>2
<1> QED
  BY <1>2, <1>6, <1>7, <1>8, <1>9 DEF Partitioned, d, e

-----------------------------------------------------------------------------
(* The invariant: the inputs stay, a rank whose turn is over has its       *)
(* blocks and rows, and in the end every rank has answered the requests.   *)
Answered(k) ==
  /\ dmd[k].elemsend = elemsend(k)
  /\ dmd[k].elemsendpts = PointsPerNeighbor(elemsend(k), dmd[k].nbsd)
  /\ dmd[k].elemrecvpts = PointsPerNeighbor(dmd[k].elemrecv, dmd[k].nbsd)

(* The scheme, what is read through inte, and the loop counter.            *)
Settings == hybrid \in {0, 1} /\ inte \in Seq(0 .. Ne) /\ i \in 0 .. Nproc + 1

(* The invariant of the two loops.                                         *)
DmdInv ==
  /\ InputsFixed
  /\ Settings
  /\ Uncoupled =>
       /\ dmd \in [Proc -> DmdType]
       /\ \A p \in Proc : p < i => Partitioned(dmd[p], p)
       /\ i = Nproc + 1 => \A k \in Proc : Answered(k)

-----------------------------------------------------------------------------
(* Types.                                                                  *)

(* A function on 1 .. n is a vector of length n.                           *)
LEMMA FunctionIsVector ==
  ASSUME NEW S, NEW n \in Nat, NEW f \in [1 .. n -> S]
  PROVE  f \in Seq(S) /\ Len(f) = n
  OBVIOUS

(* A vector has the type of its entries.                                   *)
LEMMA EntriesTyped ==
  ASSUME NEW S, NEW T, NEW s \in Seq(S), \A j \in 1 .. Len(s) : s[j] \in T
  PROVE  s \in Seq(T)
<1> DEFINE n == Len(s)
<1>1. n \in Nat /\ s \in [1 .. n -> S]
  OBVIOUS
<1> HIDE DEF n
<1>2. s \in [1 .. n -> T]
  BY <1>1 DEF n
<1> QED
  BY <1>1, <1>2

(* The mesh is finite and has Ne elements.                                 *)
LEMMA MeshSize == IsFiniteSet(Elem) /\ Cardinality(Elem) = Ne
<1>1. IsFiniteSet(Elem)
  BY NeAssumption, FS_Interval DEF Elem
<1> DEFINE b == Ne - 1
<1>2. b \in Int /\ Elem = 0 .. b
  BY NeAssumption DEF Elem
<1>3. Cardinality(0 .. b) = IF 0 > b THEN 0 ELSE b - 0 + 1
  <2> HIDE DEF b
  <2> QED
    BY <1>2, FS_Interval
<1> QED
  BY <1>1, <1>2, <1>3, NeAssumption

(* A rank stores at most the whole mesh.                                   *)
LEMMA StoredAtMostMesh ==
  ASSUME InputsFixed, NEW p \in Proc, NEW e, Numbering(e, p)
  PROVE  e \in Seq(Elem) /\ Len(e) = End4(p) /\ End4(p) <= Ne
<1> USE EndsOrdered DEF Ends
<1>1. Stored(p) \in SUBSET Elem /\ e \in Seq(Stored(p)) /\ Len(e) = End4(p)
  BY PartSets DEF Numbering, Holds
<1>2. e \in Seq(Elem)
  BY <1>1, SeqMonotonic
<1>3. e \in [1 .. End4(p) -> Elem] /\ \A j, l \in 1 .. End4(p) : e[j] = e[l] => j = l
  BY <1>1, <1>2 DEF Numbering, Holds
<1>4. IsFiniteSet(Elem) /\ Cardinality(Elem) = Ne
  BY MeshSize
<1>5. Cardinality(1 .. End4(p)) = End4(p)
  BY FS_Interval
<1>6. e \in Injection(1 .. End4(p), Elem)
  BY <1>3 DEF Injection, IsInjective
<1>7. Cardinality(1 .. End4(p)) <= Cardinality(Elem)
  BY <1>4, <1>6, FS_Injection
<1> QED
  BY <1>1, <1>2, <1>4, <1>5, <1>7

(* The sizes of the blocks and the rows have the types of the record.      *)
LEMMA PartitionedTyped ==
  ASSUME InputsFixed, NEW p \in Proc, NEW d, Partitioned(d, p)
  PROVE  /\ d.elempart \in Seq(Elem)
         /\ d.elempartpts \in Seq(0 .. 2 * Ne)
         /\ d.elemrecv \in Seq(Row)
         /\ Len(d.elemrecv) \in 0 .. Ne
         /\ d.nbsd \in Seq(Proc)
<1> DEFINE e == d.elempart
<1> USE EndsOrdered, NeAssumption, NprocAssumption DEF Ends
<1>1. Numbering(e, p)
  BY DEF Partitioned
<1>2. e \in Seq(Elem) /\ End4(p) <= Ne
  <2> HIDE DEF e
  <2> QED
    BY <1>1, StoredAtMostMesh
<1>3. d.elempartpts \in Seq(0 .. 2 * Ne)
  <2> DEFINE a == End1(p)
             b == End2(p) - End1(p)
             c == End3(p) - End2(p)
             f == End4(p) - End3(p)
  <2>1. a \in 0 .. 2 * Ne /\ b \in 0 .. 2 * Ne /\ c \in 0 .. 2 * Ne /\ f \in 0 .. 2 * Ne
    BY <1>2
  <2>2. d.elempartpts = <<a, b, c, f>>
    BY DEF Partitioned
  <2> HIDE DEF a, b, c, f
  <2> QED
    BY <2>1, <2>2
<1>4. /\ d.elemrecv \in Seq(Proc \X Nat \X Elem)
      /\ Len(d.elemrecv) = End4(p) - End2(p)
      /\ \A j \in 1 .. Len(d.elemrecv) : \E m \in End2(p) + 1 .. End4(p) :
           d.elemrecv[j] = GhostRow(e, m)
  BY <1>1, RowsOneByOne DEF Partitioned
<1>5. ASSUME NEW j \in 1 .. Len(d.elemrecv) PROVE d.elemrecv[j] \in Row
  <2>1. d.elemrecv[j] \in Proc \X Nat \X Elem
    BY <1>4
  <2>2. PICK m \in End2(p) + 1 .. End4(p) : d.elemrecv[j] = GhostRow(e, m)
    BY <1>4
  <2>3. d.elemrecv[j] = <<elem2cpu[e[m]], m - 1, e[m]>>
    BY <2>2 DEF GhostRow
  <2>4. elem2cpu[e[m]] \in Proc /\ e[m] \in Elem
    BY <2>1, <2>3
  <2>5. m - 1 \in 0 .. 2 * Ne
    BY <1>2
  <2> QED
    BY <2>3, <2>4, <2>5 DEF Row
<1>6. d.elemrecv \in Seq(Row)
  BY <1>4, <1>5, EntriesTyped
<1>7. d.nbsd \in Seq(Proc)
  <2>1. IsFiniteSet(Proc) /\ Proc \in SUBSET Int
    BY FS_Interval DEF Proc
  <2>2. Owners(p) \in SUBSET Proc
    BY PartSets DEF Owners
  <2>3. Sorted(Owners(p)) \in Seq(Owners(p))
    BY <2>1, <2>2, FS_Subset, SortedLists
  <2> QED
    BY <2>2, <2>3, SeqMonotonic DEF Partitioned
<1>8. Len(d.elemrecv) \in 0 .. Ne
  BY <1>2, <1>4
<1> QED
  BY <1>2, <1>3, <1>6, <1>7, <1>8

-----------------------------------------------------------------------------
(* What a finished pass says of the numbering.                             *)

(* It has numbered its elements.                                           *)
LEMMA PartitionedNumbered ==
  ASSUME NEW p, NEW d, Partitioned(d, p)
  PROVE  Numbered(d, p)
BY DEF Partitioned, Numbered

(* The owned elements come first in the numbering, and none is there       *)
(* twice.                                                                  *)
LEMMA OwnedFirst ==
  ASSUME InputsFixed, NEW p \in Proc, Numbered(dmd[p], p)
  PROVE  /\ IsInjective(dmd[p].elempart)
         /\ {dmd[p].elempart[m] : m \in 1 .. NOwned(p)} = intelem(p)
         /\ NOwned(p) = End2(p)
<1> DEFINE e == dmd[p].elempart
<1> USE EndsOrdered DEF Ends
<1>1. Numbering(e, p)
  BY DEF Numbered
<1>2. NOwned(p) = End2(p)
  BY DEF Numbered, NOwned
<1>3. /\ e \in Seq(Stored(p)) /\ Len(e) = End4(p)
      /\ \A j, l \in 1 .. End4(p) : e[j] = e[l] => j = l
      /\ \A x \in Stored(p) : \E j \in 1 .. End4(p) : e[j] = x
  BY <1>1 DEF Numbering, Holds
<1>4. IsInjective(e)
  <2>1. DOMAIN e = 1 .. End4(p)
    BY <1>3
  <2> HIDE DEF e
  <2> QED
    BY <1>3, <2>1 DEF IsInjective
<1>5. ASSUME NEW m \in 1 .. End2(p) PROVE e[m] \in intelem(p)
  <2>1. m \in 1 .. End1(p) \/ m \in End1(p) + 1 .. End2(p)
    OBVIOUS
  <2> QED
    BY <1>1, <2>1, PartSets DEF Numbering
<1>6. ASSUME NEW x \in intelem(p) PROVE \E m \in 1 .. End2(p) : e[m] = x
  <2>1. x \in Stored(p) /\ x \notin Ghosts(p)
    BY <1>6 DEF Stored, Ghosts, extelem, outelem
  <2>2. PICK m \in 1 .. End4(p) : e[m] = x
    BY <1>3, <2>1
  <2>3. m \notin End2(p) + 1 .. End4(p)
    BY <1>1, <2>1, <2>2, GhostRowsOf
  <2>4. m \in 1 .. End2(p)
    BY <2>3
  <2> QED
    BY <2>2, <2>4
<1> HIDE DEF e
<1>7. {e[m] : m \in 1 .. End2(p)} = intelem(p)
  BY <1>5, <1>6
<1> QED
  BY <1>2, <1>4, <1>7 DEF e

(* The neighbours of every element a rank computes on are stored.          *)
LEMMA StencilOf ==
  ASSUME InputsFixed, hybrid \in {0, 1}, NEW p \in Proc, Numbered(dmd[p], p),
         NEW m \in 1 .. NOwned(p) + IF hybrid = 0 THEN dmd[p].elempartpts[3] ELSE 0
  PROVE  e2e[dmd[p].elempart[m]] \subseteq ToSet(dmd[p].elempart)
<1> DEFINE e == dmd[p].elempart
<1> USE EndsOrdered DEF Ends
<1>1. Numbering(e, p) /\ NOwned(p) = End2(p) /\ dmd[p].elempartpts[3] = End3(p) - End2(p)
  BY OwnedFirst DEF Numbered
<1>2. ToSet(e) = Stored(p)
  <2>1. /\ DOMAIN e = 1 .. Len(e) /\ \A j \in 1 .. Len(e) : e[j] \in Stored(p)
        /\ \A x \in Stored(p) : \E j \in 1 .. Len(e) : e[j] = x
    BY <1>1 DEF Numbering, Holds
  <2> HIDE DEF e
  <2> QED
    BY <2>1 DEF ToSet
<1>3. CASE m \in 1 .. End2(p)
  <2>1. e[m] \in intelem(p)
    BY <1>1, <1>3, OwnedFirst
  <2>2. e2e[e[m]] \subseteq neighboringelements(intelem(p))
    BY <2>1 DEF neighboringelements
  <2>3. neighboringelements(intelem(p)) \subseteq Stored(p)
    BY DEF Stored, Ghosts, extelem
  <2> QED
    BY <1>2, <2>2, <2>3
<1>4. CASE m \in End2(p) + 1 .. End3(p) /\ hybrid = 0
  <2>1. e[m] \in extelem(p)
    BY <1>1, <1>4 DEF Numbering
  <2>2. e2e[e[m]] \subseteq neighboringelements(extelem(p))
    BY <2>1 DEF neighboringelements
  <2>3. neighboringelements(extelem(p)) \subseteq Stored(p)
    BY <1>4 DEF Stored, Ghosts, outelem
  <2> QED
    BY <1>2, <2>2, <2>3
<1>5. m \in 1 .. End2(p) \/ (m \in End2(p) + 1 .. End3(p) /\ hybrid = 0)
  <2>1. CASE hybrid = 0
    BY <1>1, <2>1
  <2>2. CASE hybrid # 0
    BY <1>1, <2>2
  <2> QED
    BY <2>1, <2>2
<1> QED
  BY <1>3, <1>4, <1>5

(* The elements numbered in the first block have their neighbours on the   *)
(* rank.                                                                   *)
LEMMA InteriorOf ==
  ASSUME InputsFixed, NEW p \in Proc, Numbered(dmd[p], p),
         NEW m \in 1 .. dmd[p].elempartpts[1]
  PROVE  e2e[dmd[p].elempart[m]] \subseteq intelem(p)
<1>1. dmd[p].elempart[m] \in inner(p)
  BY DEF Numbered, Numbering
<1> QED
  BY <1>1, InteriorLocal DEF inner

-----------------------------------------------------------------------------
(* Rows grouped by rank: the counts add up to where each group starts.     *)

(* key, which does not go down, takes only values of nb.                   *)
Grouped(key, L, nb, N) ==
  /\ L \in Nat /\ N \in Nat
  /\ key \in [1 .. L -> Int]
  /\ \A j, l \in 1 .. L : j < l => key[j] <= key[l]
  /\ Rising(nb, N)
  /\ \A j \in 1 .. L : \E n \in 1 .. N : key[j] = nb[n]

(* The rows of one rank, and those of the first n ranks.                   *)
Group(key, L, v) == {j \in 1 .. L : key[j] = v}
Before(key, L, nb, n) == {j \in 1 .. L : \E l \in 1 .. n : key[j] = nb[l]}

(* pts counts the rows of each rank.                                       *)
Counts(pts, key, L, nb, N) ==
  \A n \in 1 .. N : pts[n] = Cardinality(Group(key, L, nb[n]))

(* The partial sums of the counts count the rows of the first groups.      *)
LEMMA SumCounts ==
  ASSUME NEW key, NEW L, NEW nb, NEW N, Grouped(key, L, nb, N),
         NEW pts, Counts(pts, key, L, nb, N),
         NEW n \in 0 .. N
  PROVE  /\ SumUpTo(pts, n) = Cardinality(Before(key, L, nb, n))
         /\ Cardinality(Before(key, L, nb, n)) \in Nat
<1> DEFINE C(j) == Cardinality(Before(key, L, nb, j))
           g == [j \in 0 .. n |-> C(j)]
           Sums(f) == f = [j \in 0 .. n |-> IF j = 0 THEN 0 ELSE f[j - 1] + pts[j]]
<1>1. L \in Nat /\ N \in Nat /\ n \in Nat /\ IsFiniteSet(1 .. L)
  BY FS_Interval DEF Grouped
<1>2. \A j : IsFiniteSet(Before(key, L, nb, j)) /\ C(j) \in Nat
  <2>1. \A j : Before(key, L, nb, j) \in SUBSET (1 .. L)
    BY DEF Before
  <2> QED
    BY <1>1, <2>1, FS_Subset, FS_CardinalityType
<1>3. C(0) = 0
  <2>1. Before(key, L, nb, 0) = {}
    BY DEF Before
  <2> QED
    BY <2>1, FS_EmptySet
<1>4. ASSUME NEW j \in 1 .. n PROVE C(j) = C(j - 1) + pts[j]
  <2> DEFINE A == Before(key, L, nb, j - 1)
             B == Group(key, L, nb[j])
  <2>1. Before(key, L, nb, j) = A \cup B
    <3>1. \A l \in 1 .. j : l \in 1 .. j - 1 \/ l = j
      OBVIOUS
    <3>2. 1 .. j - 1 \subseteq 1 .. j /\ j \in 1 .. j
      OBVIOUS
    <3> QED
      BY <3>1, <3>2 DEF Before, Group
  <2>2. A \cap B = {}
    <3> SUFFICES ASSUME NEW x \in A, x \in B PROVE FALSE
      OBVIOUS
    <3>1. PICK l \in 1 .. j - 1 : nb[l] = nb[j]
      BY DEF Before, Group
    <3>2. l \in 1 .. N /\ j \in 1 .. N /\ l < j
      BY <1>1, <3>1
    <3>3. nb[l] < nb[j] /\ nb[l] \in Int
      BY <3>2 DEF Grouped, Rising
    <3> QED
      BY <3>1, <3>3
  <2>3. IsFiniteSet(A) /\ IsFiniteSet(B)
    <3>1. B \in SUBSET (1 .. L)
      BY DEF Group
    <3> QED
      BY <1>1, <1>2, <3>1, FS_Subset
  <2>4. Cardinality(A \cup B) = Cardinality(A) + Cardinality(B) - Cardinality(A \cap B)
    <3> HIDE DEF A, B
    <3> QED
      BY <2>3, FS_Union
  <2>5. pts[j] = Cardinality(B)
    <3>1. j \in 1 .. N
      BY <1>1
    <3> QED
      BY <3>1 DEF Counts
  <2>6. Cardinality(A \cap B) = 0
    BY <2>2, FS_EmptySet
  <2>7. Cardinality(A) \in Nat /\ Cardinality(B) \in Nat
    BY <2>3, FS_CardinalityType
  <2> HIDE DEF A, B
  <2>8. Cardinality(Before(key, L, nb, j)) = Cardinality(A) + pts[j]
    BY <2>1, <2>4, <2>5, <2>6, <2>7
  <2> QED
    BY <2>8 DEF A
<1> HIDE DEF C
<1>5. Sums(g)
  <2>1. \A j \in 0 .. n : g[j] = IF j = 0 THEN 0 ELSE g[j - 1] + pts[j]
    <3> SUFFICES ASSUME NEW j \in 0 .. n PROVE g[j] = IF j = 0 THEN 0 ELSE g[j - 1] + pts[j]
      OBVIOUS
    <3>1. j = 0 \/ (j # 0 /\ j \in 1 .. n /\ j - 1 \in 0 .. n)
      BY <1>1
    <3> QED
      BY <1>3, <1>4, <3>1
  <2> QED
    BY <2>1
<1>6. ASSUME NEW f, Sums(f) PROVE f[n] = C(n)
  <2> DEFINE T == {j \in 0 .. n : f[j] # C(j)}
  <2>1. T = {}
    <3> SUFFICES ASSUME T # {} PROVE FALSE
      OBVIOUS
    <3>1. T \in SUBSET Nat
      OBVIOUS
    <3>2. PICK j \in T : \A l \in T : j <= l
      <4> HIDE DEF T
      <4> QED
        BY <3>1, LeastNatural
    <3>3. f[j] = IF j = 0 THEN 0 ELSE f[j - 1] + pts[j]
      BY <1>6
    <3>4. j # 0
      BY <1>3, <3>3
    <3>5. j \in 1 .. n /\ j - 1 \in 0 .. n /\ ~(j <= j - 1)
      BY <1>1, <3>4
    <3>6. f[j - 1] = C(j - 1)
      BY <3>2, <3>5
    <3> QED
      BY <1>4, <3>3, <3>4, <3>5, <3>6
  <2>2. n \in 0 .. n
    BY <1>1
  <2> QED
    BY <2>1, <2>2
<1>7. SumUpTo(pts, n) = C(n)
  <2>1. \E f : Sums(f)
    BY <1>5
  <2>2. SumUpTo(pts, n) = (CHOOSE f : Sums(f))[n]
    BY DEF SumUpTo
  <2> HIDE DEF Sums, g
  <2>3. Sums(CHOOSE f : Sums(f))
    BY <2>1
  <2> QED
    BY <1>6, <2>2, <2>3
<1> QED
  BY <1>2, <1>7 DEF C

(* A group is the run of rows after those of the earlier groups.           *)
LEMMA GroupPlace ==
  ASSUME NEW key, NEW L, NEW nb, NEW N, Grouped(key, L, nb, N),
         NEW pts, Counts(pts, key, L, nb, N), NEW n \in 1 .. N
  PROVE  /\ SumUpTo(pts, n - 1) \in Nat /\ pts[n] \in Nat
         /\ Group(key, L, nb[n]) = SumUpTo(pts, n - 1) + 1 .. SumUpTo(pts, n - 1) + pts[n]
<1> DEFINE A == Before(key, L, nb, n - 1)
           B == Before(key, L, nb, n)
           G == Group(key, L, nb[n])
           a == SumUpTo(pts, n - 1)
           b == SumUpTo(pts, n)
<1>1. L \in Nat /\ N \in Nat /\ n \in Nat
  BY DEF Grouped
<1>2. n - 1 \in 0 .. N /\ n \in 0 .. N
  BY <1>1
<1>3. a = Cardinality(A) /\ a \in Nat /\ b = Cardinality(B) /\ b \in Nat
  BY <1>2, SumCounts
<1>4. ASSUME NEW m \in 0 .. N, NEW x \in Before(key, L, nb, m), NEW y \in 1 .. x
      PROVE  y \in Before(key, L, nb, m)
  <2>1. x \in 1 .. L /\ y \in 1 .. L /\ (y < x \/ y = x)
    BY <1>1 DEF Before
  <2>2. PICK l \in 1 .. m : key[x] = nb[l]
    BY DEF Before
  <2>3. PICK k \in 1 .. N : key[y] = nb[k]
    BY <2>1 DEF Grouped
  <2>4. l \in 1 .. N
    BY <1>1, <2>2
  <2>5. key[y] <= key[x] /\ key[x] \in Int /\ key[y] \in Int
    BY <2>1 DEF Grouped
  <2>6. k <= l
    <3> SUFFICES ASSUME ~(k <= l) PROVE FALSE
      OBVIOUS
    <3>1. l < k
      BY <2>3, <2>4
    <3>2. nb[l] < nb[k]
      BY <2>3, <2>4, <3>1 DEF Grouped, Rising
    <3> QED
      BY <2>2, <2>3, <2>5, <3>2
  <2>7. k \in 1 .. m
    BY <1>1, <2>2, <2>3, <2>6
  <2> QED
    BY <2>1, <2>3, <2>7 DEF Before
<1>5. A = 1 .. a /\ B = 1 .. b
  <2>1. \A m \in 0 .. N : Before(key, L, nb, m) = 1 .. Cardinality(Before(key, L, nb, m))
    <3> SUFFICES ASSUME NEW m \in 0 .. N
                 PROVE Before(key, L, nb, m) = 1 .. Cardinality(Before(key, L, nb, m))
      OBVIOUS
    <3> DEFINE T == Before(key, L, nb, m)
    <3>1. T \in SUBSET (1 .. L)
      BY DEF Before
    <3>2. \A x \in T : \A y \in 1 .. x : y \in T
      BY <1>4
    <3> HIDE DEF T
    <3>3. T = 1 .. Cardinality(T)
      BY <1>1, <3>1, <3>2, InitialSegment
    <3> QED
      BY <3>3 DEF T
  <2> QED
    BY <1>2, <1>3, <2>1
<1>6. B = A \cup G /\ A \cap G = {}
  <2>1. \A l \in 1 .. n : l \in 1 .. n - 1 \/ l = n
    BY <1>1
  <2>2. 1 .. n - 1 \subseteq 1 .. n /\ n \in 1 .. n
    BY <1>1
  <2>3. B = A \cup G
    BY <2>1, <2>2 DEF Before, Group
  <2>4. ASSUME NEW x \in A, x \in G PROVE FALSE
    <3>1. PICK l \in 1 .. n - 1 : nb[l] = nb[n]
      BY <2>4 DEF Before, Group
    <3>2. l \in 1 .. N /\ n \in 1 .. N /\ l < n
      BY <1>1, <3>1
    <3>3. nb[l] < nb[n] /\ nb[l] \in Int
      BY <3>2 DEF Grouped, Rising
    <3> QED
      BY <3>1, <3>3
  <2> QED
    BY <2>3, <2>4
<1>7. pts[n] = Cardinality(G)
  BY DEF Counts
<1> HIDE DEF A, B, G, a, b
<1>8. a <= b
  <2> SUFFICES ASSUME b < a PROVE FALSE
    BY <1>3
  <2>1. a \in 1 .. a /\ a \notin 1 .. b
    BY <1>3
  <2> QED
    BY <1>5, <1>6, <2>1
<1>9. G = a + 1 .. b
  <2>1. G = (1 .. b) \ (1 .. a)
    BY <1>5, <1>6
  <2>2. a \in Nat /\ b \in Nat
    BY <1>3
  <2>3. (1 .. b) \ (1 .. a) = a + 1 .. b
    BY <1>8, <2>2
  <2> QED
    BY <2>1, <2>3
<1>10. Cardinality(G) = b - a
  <2> DEFINE c == a + 1
  <2>1. c \in Int /\ b \in Int
    BY <1>3
  <2>2. Cardinality(c .. b) = IF c > b THEN 0 ELSE b - c + 1
    <3> HIDE DEF c
    <3> QED
      BY <2>1, FS_Interval
  <2> QED
    BY <1>3, <1>8, <1>9, <2>2
<1>11. a + pts[n] = b /\ pts[n] \in Nat
  BY <1>3, <1>7, <1>8, <1>10
<1> QED
  BY <1>3, <1>9, <1>11 DEF G, a

-----------------------------------------------------------------------------
(* The requests a rank answers.                                            *)

(* All ranks have had their turn.                                          *)
Assembled ==
  /\ InputsFixed /\ Settings /\ Uncoupled
  /\ dmd \in [Proc -> DmdType]
  /\ \A p \in Proc : Partitioned(dmd[p], p)

(* nbsd lists the owners of the ghosts, in increasing order.               *)
LEMMA NeighborsAre ==
  ASSUME Assembled, NEW p \in Proc
  PROVE  /\ Rising(dmd[p].nbsd, Len(dmd[p].nbsd)) /\ Len(dmd[p].nbsd) \in Nat
         /\ DOMAIN dmd[p].nbsd = 1 .. Len(dmd[p].nbsd)
         /\ Holds(dmd[p].nbsd, Owners(p))
         /\ ToSet(dmd[p].nbsd) = Owners(p)
         /\ Owners(p) \in SUBSET Proc
<1> DEFINE s == dmd[p].nbsd
<1>1. s = Sorted(Owners(p)) /\ InputsFixed
  BY DEF Assembled, Partitioned
<1>2. IsFiniteSet(Proc) /\ Proc \in SUBSET Int
  BY NprocAssumption, FS_Interval DEF Proc
<1>3. Owners(p) \in SUBSET Proc
  BY <1>1, PartSets DEF Owners
<1>4. Owners(p) \in SUBSET Int /\ IsFiniteSet(Owners(p))
  BY <1>2, <1>3, FS_Subset
<1>5. Holds(s, Owners(p)) /\ Rising(s, Len(s)) /\ Len(s) \in Nat
  <2> HIDE DEF s
  <2> QED
    BY <1>1, <1>4, SortedHolds, SortedLists
<1>6. DOMAIN s = 1 .. Len(s)
  BY <1>5 DEF Holds
<1>7. ToSet(s) = Owners(p)
  BY <1>5, <1>6 DEF ToSet, Holds
<1> QED
  BY <1>3, <1>5, <1>6, <1>7

(* The rows of p, with what they stand for.                                *)
LEMMA RowsOfRank ==
  ASSUME Assembled, NEW p \in Proc
  PROVE  /\ dmd[p].elemrecv \in Seq(Row)
         /\ Len(dmd[p].elemrecv) \in 0 .. Ne
         /\ DOMAIN dmd[p].elemrecv = 1 .. Len(dmd[p].elemrecv)
         /\ \A j \in 1 .. Len(dmd[p].elemrecv) :
              /\ dmd[p].elemrecv[j][3] \in Ghosts(p)
              /\ dmd[p].elemrecv[j][1] = elem2cpu[dmd[p].elemrecv[j][3]]
              /\ dmd[p].elemrecv[j][2] \in NOwned(p) .. Len(dmd[p].elempart) - 1
              /\ dmd[p].elempart[dmd[p].elemrecv[j][2] + 1] = dmd[p].elemrecv[j][3]
              /\ dmd[p].elemrecv[j][1] \in Owners(p)
         /\ \A g \in NOwned(p) .. Len(dmd[p].elempart) - 1 :
              \E j \in 1 .. Len(dmd[p].elemrecv) : dmd[p].elemrecv[j][2] = g
         /\ \A x \in Ghosts(p) :
              \E j \in 1 .. Len(dmd[p].elemrecv) : dmd[p].elemrecv[j][3] = x
         /\ \A j, l \in 1 .. Len(dmd[p].elemrecv) :
              j < l => dmd[p].elemrecv[j][1] <= dmd[p].elemrecv[l][1]
<1> DEFINE e == dmd[p].elempart
           s == dmd[p].elemrecv
<1>1. InputsFixed /\ Partitioned(dmd[p], p)
  BY DEF Assembled
<1>2. Numbering(e, p)
  BY <1>1 DEF Partitioned
<1>3. Ends(p)
  BY <1>1, EndsOrdered
<1>4. s \in Seq(Row) /\ Len(s) \in 0 .. Ne
  BY <1>1, PartitionedTyped
<1>5. /\ \A j \in 1 .. Len(s) : \E m \in End2(p) + 1 .. End4(p) : s[j] = GhostRow(e, m)
      /\ \A m \in End2(p) + 1 .. End4(p) : \E j \in 1 .. Len(s) : s[j] = GhostRow(e, m)
      /\ \A j, l \in 1 .. Len(s) : j < l => s[j][1] <= s[l][1]
  BY <1>1, <1>2, RowsOneByOne DEF Partitioned
<1>6. NOwned(p) = End2(p) /\ Len(e) = End4(p)
  BY <1>1, <1>2, OwnedFirst, PartitionedNumbered DEF Numbering
<1>7. /\ \A m \in End2(p) + 1 .. End4(p) : e[m] \in Ghosts(p)
      /\ \A x \in Ghosts(p) : \E m \in End2(p) + 1 .. End4(p) : e[m] = x
  BY <1>1, <1>2, GhostRowsOf
<1> HIDE DEF e, s
<1>8. \A m : GhostRow(e, m)[1] = elem2cpu[e[m]] /\ GhostRow(e, m)[2] = m - 1
             /\ GhostRow(e, m)[3] = e[m]
  BY DEF GhostRow
<1>9. ASSUME NEW j \in 1 .. Len(s)
      PROVE  /\ s[j][3] \in Ghosts(p) /\ s[j][1] = elem2cpu[s[j][3]]
             /\ s[j][2] \in NOwned(p) .. Len(e) - 1
             /\ e[s[j][2] + 1] = s[j][3]
             /\ s[j][1] \in Owners(p)
  <2>1. PICK m \in End2(p) + 1 .. End4(p) : s[j] = GhostRow(e, m)
    BY <1>5
  <2>2. m \in Int /\ (m - 1) + 1 = m /\ m - 1 \in End2(p) .. End4(p) - 1
    BY <1>3, <2>1 DEF Ends
  <2>3. s[j][1] = elem2cpu[e[m]] /\ s[j][2] = m - 1 /\ s[j][3] = e[m]
    BY <1>8, <2>1
  <2>4. e[m] \in Ghosts(p)
    BY <1>7
  <2>5. elem2cpu[e[m]] \in Owners(p)
    BY <2>4 DEF Owners
  <2> QED
    BY <1>6, <2>2, <2>3, <2>4, <2>5
<1>10. ASSUME NEW g \in NOwned(p) .. Len(e) - 1 PROVE \E j \in 1 .. Len(s) : s[j][2] = g
  <2>1. g + 1 \in End2(p) + 1 .. End4(p) /\ (g + 1) - 1 = g
    BY <1>3, <1>6 DEF Ends
  <2>2. PICK j \in 1 .. Len(s) : s[j] = GhostRow(e, g + 1)
    BY <1>5, <2>1
  <2>3. s[j][2] = (g + 1) - 1
    BY <1>8, <2>2
  <2> QED
    BY <2>1, <2>3
<1>11. ASSUME NEW x \in Ghosts(p) PROVE \E j \in 1 .. Len(s) : s[j][3] = x
  <2>1. PICK m \in End2(p) + 1 .. End4(p) : e[m] = x
    BY <1>7
  <2>2. PICK j \in 1 .. Len(s) : s[j] = GhostRow(e, m)
    BY <1>5
  <2> QED
    BY <1>8, <2>1, <2>2
<1>12. DOMAIN s = 1 .. Len(s)
  BY <1>4
<1> QED
  BY <1>4, <1>5, <1>9, <1>10, <1>11, <1>12 DEF e, s

(* A request names a row of another rank that shows k as the owner, and    *)
(* every such row is requested: the neighbours of a rank are the owners in *)
(* its rows.                                                               *)
LEMMA RequestsOf ==
  ASSUME Assembled, NEW k \in Proc
  PROVE  /\ Requests(k) \in SUBSET (Proc \X (1 .. Ne))
         /\ IsFiniteSet(Requests(k))
         /\ \A q \in Requests(k) :
              /\ q[1] \in Proc
              /\ q[2] \in 1 .. Len(dmd[q[1]].elemrecv)
              /\ dmd[q[1]].elemrecv[q[2]][1] = k
         /\ \A p \in Proc : \A j \in 1 .. Len(dmd[p].elemrecv) :
              dmd[p].elemrecv[j][1] = k => <<p, j>> \in Requests(k)
<1>1. ASSUME NEW q \in Requests(k)
      PROVE  /\ q \in Proc \X (1 .. Ne)
             /\ q[1] \in Proc
             /\ q[2] \in 1 .. Len(dmd[q[1]].elemrecv)
             /\ dmd[q[1]].elemrecv[q[2]][1] = k
  <2>1. PICK p \in Proc : \E j \in DOMAIN dmd[p].elemrecv :
             q = <<p, j>> /\ dmd[p].elemrecv[j][1] = k
    BY DEF Requests
  <2>2. PICK j \in DOMAIN dmd[p].elemrecv : q = <<p, j>> /\ dmd[p].elemrecv[j][1] = k
    BY <2>1
  <2>3. DOMAIN dmd[p].elemrecv = 1 .. Len(dmd[p].elemrecv) /\ Len(dmd[p].elemrecv) \in 0 .. Ne
    BY RowsOfRank
  <2>4. j \in 1 .. Len(dmd[p].elemrecv) /\ j \in 1 .. Ne
    <3> DEFINE n == Len(dmd[p].elemrecv)
    <3>1. n \in 0 .. Ne /\ j \in 1 .. n
      BY <2>2, <2>3
    <3> HIDE DEF n
    <3>2. j \in 1 .. n /\ j \in 1 .. Ne
      BY <3>1, NeAssumption
    <3> QED
      BY <3>2 DEF n
  <2> QED
    BY <2>2, <2>4
<1>2. ASSUME NEW p \in Proc, NEW j \in 1 .. Len(dmd[p].elemrecv), dmd[p].elemrecv[j][1] = k
      PROVE  <<p, j>> \in Requests(k)
  <2>1. j \in DOMAIN dmd[p].elemrecv
    BY RowsOfRank
  <2>2. k \in ToSet(dmd[p].nbsd)
    <3>1. k \in Owners(p)
      BY <1>2, RowsOfRank
    <3> QED
      BY <3>1, NeighborsAre
  <2> QED
    BY <1>2, <2>1, <2>2 DEF Requests
<1>3. IsFiniteSet(Proc \X (1 .. Ne))
  <2>1. IsFiniteSet(Proc) /\ IsFiniteSet(1 .. Ne)
    BY NeAssumption, NprocAssumption, FS_Interval DEF Proc
  <2> QED
    BY <2>1, FS_Product
<1>4. Requests(k) \in SUBSET (Proc \X (1 .. Ne))
  BY <1>1
<1>5. IsFiniteSet(Requests(k))
  BY <1>3, <1>4, FS_Subset
<1> QED
  BY <1>1, <1>2, <1>4, <1>5

(* They are answered rank by rank, row by row.                             *)
LEMMA RequestsListed ==
  ASSUME Assembled, NEW k \in Proc
  PROVE  LET s == RequestsInOrder(k)
         IN /\ s \in Seq(Requests(k)) /\ Len(s) \in Nat
            /\ \A j, l \in 1 .. Len(s) : j < l => RequestLess(s[j], s[l])
            /\ \A j, l \in 1 .. Len(s) : s[j] = s[l] => j = l
            /\ \A q \in Requests(k) : \E j \in 1 .. Len(s) : s[j] = q
<1> DEFINE R == Requests(k)
           Order == {q \in R \X R : RequestLess(q[1], q[2])}
           s == RequestsInOrder(k)
           N == Cardinality(R)
<1>1. R \in SUBSET (Int \X Int) /\ IsFiniteSet(R)
  <2>1. R \in SUBSET (Proc \X (1 .. Ne)) /\ IsFiniteSet(R)
    BY RequestsOf
  <2> HIDE DEF R
  <2> QED
    BY <2>1, NeAssumption, NprocAssumption DEF Proc
<1>2. s = InOrder(R, Order)
  BY DEF RequestsInOrder
<1> HIDE DEF R, s
<1>3. StrictOrder(R, Order)
  <2>1. ASSUME NEW x \in R PROVE x = <<x[1], x[2]>> /\ x[1] \in Int /\ x[2] \in Int
    BY <1>1
  <2>2. \A x, y \in R : <<x, y>> \in Order <=> RequestLess(x, y)
    OBVIOUS
  <2>3. ASSUME NEW x \in R, NEW y \in R, NEW z \in R, RequestLess(x, y), RequestLess(y, z)
        PROVE RequestLess(x, z)
    BY <2>1, <2>3 DEF RequestLess
  <2>4. ASSUME NEW x \in R, NEW y \in R, x # y PROVE RequestLess(x, y) \/ RequestLess(y, x)
    <3>1. x[1] # y[1] \/ x[2] # y[2]
      BY <2>1, <2>4
    <3> QED
      BY <2>1, <3>1 DEF RequestLess
  <2>5. \A x \in R : ~RequestLess(x, x)
    BY <2>1 DEF RequestLess
  <2> HIDE DEF Order
  <2> QED
    BY <2>2, <2>3, <2>4, <2>5 DEF StrictOrder
<1>4. /\ Listing(s, R, Order) /\ N \in Nat
      /\ \A j, l \in 1 .. N : s[j] = s[l] => j = l
      /\ \A q \in R : \E j \in 1 .. N : s[j] = q
  <2> HIDE DEF Order
  <2>1. Listing(s, R, Order)
    BY <1>1, <1>2, <1>3, InOrderLists
  <2>2. N \in Nat
    BY <1>1, FS_CardinalityType
  <2> QED
    BY <1>1, <1>3, <2>1, <2>2, ListingRanks
<1>5. s \in [1 .. N -> R] /\ \A j, l \in 1 .. N : j < l => RequestLess(s[j], s[l])
  BY <1>4 DEF Listing
<1>6. s \in Seq(R) /\ Len(s) = N
  BY <1>4, <1>5
<1> QED
  BY <1>4, <1>5, <1>6 DEF s, R

(* The element a rank is asked for is one it owns, found where its         *)
(* numbering has it.                                                       *)
LEMMA SendRowOf ==
  ASSUME Assembled, NEW k \in Proc, NEW q \in Requests(k)
  PROVE  /\ SendRow(k, q) \in Row
         /\ SendRow(k, q)[1] = q[1]
         /\ SendRow(k, q)[3] = dmd[q[1]].elemrecv[q[2]][3]
         /\ SendRow(k, q)[2] \in 0 .. NOwned(k) - 1
         /\ dmd[k].elempart[SendRow(k, q)[2] + 1] = SendRow(k, q)[3]
         /\ SendRow(k, q)[3] \in intelem(k)
         /\ SendRow(k, q)[3] \in Ghosts(q[1])
<1> DEFINE p == q[1]
           x == dmd[q[1]].elemrecv[q[2]][3]
           e == dmd[k].elempart
<1>1. p \in Proc /\ q[2] \in 1 .. Len(dmd[p].elemrecv) /\ dmd[p].elemrecv[q[2]][1] = k
  BY RequestsOf
<1>2. x \in Ghosts(p) /\ elem2cpu[x] = k
  BY <1>1, RowsOfRank
<1>3. InputsFixed /\ Partitioned(dmd[k], k)
  BY DEF Assembled
<1>4. Ghosts(p) \subseteq Elem
  BY <1>1, <1>3, PartSets DEF Stored
<1>5. x \in intelem(k) /\ x \in Elem
  BY <1>2, <1>4 DEF intelem
<1>6. NOwned(k) = End2(k) /\ Ends(k) /\ Numbering(e, k)
      /\ {e[m] : m \in 1 .. NOwned(k)} = intelem(k)
  BY <1>3, OwnedFirst, PartitionedNumbered, EndsOrdered DEF Partitioned
<1>7. PICK m \in 1 .. End2(k) : e[m] = x
  BY <1>5, <1>6
<1>8. m \in 1 .. Len(e) /\ Holds(e, Stored(k)) /\ Len(e) = End4(k) /\ End4(k) <= Ne
  <2>1. Holds(e, Stored(k)) /\ Len(e) = End4(k)
    BY <1>6 DEF Numbering
  <2>2. End4(k) <= Ne
    BY <1>3, <1>6, StoredAtMostMesh
  <2> QED
    BY <1>6, <2>1, <2>2 DEF Ends
<1>9. xiny(e[m], e) = m - 1
  BY <1>8, SearchFinds
<1>10. SendRow(k, q) = <<p, m - 1, x>>
  BY <1>7, <1>9 DEF SendRow
<1>11. m - 1 \in 0 .. End2(k) - 1 /\ (m - 1) + 1 = m /\ m - 1 \in 0 .. 2 * Ne
  BY <1>6, <1>8, NeAssumption DEF Ends
<1>12. <<p, m - 1, x>> \in Row
  BY <1>1, <1>5, <1>11 DEF Row
<1> QED
  BY <1>2, <1>5, <1>6, <1>7, <1>10, <1>11, <1>12

(* The rows a rank sends, one per request.                                 *)
LEMMA SendListOf ==
  ASSUME Assembled, NEW k \in Proc
  PROVE  /\ elemsend(k) \in Seq(Row)
         /\ Len(elemsend(k)) = Len(RequestsInOrder(k))
         /\ DOMAIN elemsend(k) = 1 .. Len(RequestsInOrder(k))
         /\ \A m \in 1 .. Len(RequestsInOrder(k)) :
              /\ RequestsInOrder(k)[m] \in Requests(k)
              /\ elemsend(k)[m] = SendRow(k, RequestsInOrder(k)[m])
<1> DEFINE s == RequestsInOrder(k)
           N == Len(s)
           t == elemsend(k)
<1>1. s \in Seq(Requests(k)) /\ N \in Nat
  BY RequestsListed
<1>2. t = [m \in DOMAIN s |-> SendRow(k, s[m])]
  BY DEF elemsend
<1> HIDE DEF s, t
<1>3. DOMAIN s = 1 .. N /\ \A m \in 1 .. N : s[m] \in Requests(k)
  BY <1>1
<1>4. \A m \in 1 .. N : SendRow(k, s[m]) \in Row
  BY <1>3, SendRowOf
<1>5. t \in [1 .. N -> Row]
  BY <1>2, <1>3, <1>4
<1>6. t \in Seq(Row) /\ Len(t) = N /\ DOMAIN t = 1 .. N
  <2> HIDE DEF N
  <2> QED
    BY <1>1, <1>5
<1>7. \A m \in 1 .. N : t[m] = SendRow(k, s[m])
  BY <1>2, <1>3
<1> QED
  BY <1>3, <1>6, <1>7 DEF s, t

(* A rank is asked for as many rows of p as p holds rows of its elements.  *)
LEMMA CountsAgree ==
  ASSUME Assembled, NEW p \in Proc, NEW k \in Proc
  PROVE  /\ CountRows(elemsend(k), p) = CountRows(dmd[p].elemrecv, k)
         /\ CountRows(dmd[p].elemrecv, k) \in 0 .. Ne
         /\ k \in Owners(p) => CountRows(dmd[p].elemrecv, k) > 0
<1> DEFINE r == dmd[p].elemrecv
           s == RequestsInOrder(k)
           t == elemsend(k)
           J == {j \in DOMAIN r : r[j][1] = k}
           M == {m \in DOMAIN t : t[m][1] = p}
           f == [j \in J |-> CHOOSE m \in M : s[m] = <<p, j>>]
<1>1. /\ s \in Seq(Requests(k)) /\ Len(s) \in Nat
      /\ \A j, l \in 1 .. Len(s) : s[j] = s[l] => j = l
      /\ \A q \in Requests(k) : \E j \in 1 .. Len(s) : s[j] = q
  BY RequestsListed
<1>2. DOMAIN t = 1 .. Len(s) /\ \A m \in 1 .. Len(s) : s[m] \in Requests(k) /\ t[m][1] = s[m][1]
  BY SendListOf, SendRowOf
<1>3. DOMAIN r = 1 .. Len(r) /\ Len(r) \in 0 .. Ne
  BY RowsOfRank
<1>4. \A j \in 1 .. Len(r) : r[j][1] = k => <<p, j>> \in Requests(k)
  BY RequestsOf
<1>5. \A q \in Requests(k) : q = <<q[1], q[2]>> /\ (q[1] = p => q[2] \in J)
  <2> SUFFICES ASSUME NEW q \in Requests(k)
               PROVE  q = <<q[1], q[2]>> /\ (q[1] = p => q[2] \in J)
    OBVIOUS
  <2>1. q \in Proc \X (1 .. Ne) /\ q[2] \in 1 .. Len(dmd[q[1]].elemrecv)
        /\ dmd[q[1]].elemrecv[q[2]][1] = k
    BY RequestsOf
  <2> QED
    BY <1>3, <2>1
<1> HIDE DEF r, s, t
<1>6. ASSUME NEW j \in J PROVE \E m \in M : s[m] = <<p, j>>
  <2>1. PICK m \in 1 .. Len(s) : s[m] = <<p, j>>
    BY <1>1, <1>3, <1>4
  <2>2. m \in M
    BY <1>2, <2>1
  <2> QED
    BY <2>1, <2>2
<1>7. ASSUME NEW j \in J PROVE f[j] \in M /\ s[f[j]] = <<p, j>>
  BY <1>6
<1>8. f \in [J -> M]
  BY <1>7
<1>9. ASSUME NEW j \in J, NEW l \in J, f[j] = f[l] PROVE j = l
  <2>1. <<p, j>> = <<p, l>>
    BY <1>7, <1>9
  <2> QED
    BY <2>1
<1>10. ASSUME NEW m \in M PROVE \E j \in J : f[j] = m
  <2>1. m \in 1 .. Len(s) /\ s[m] \in Requests(k) /\ s[m][1] = p
    BY <1>2
  <2>2. s[m][2] \in J /\ s[m] = <<p, s[m][2]>>
    BY <1>5, <2>1
  <2> DEFINE w == f[s[m][2]]
  <2>3. w \in M /\ s[w] = s[m]
    BY <1>7, <2>2
  <2>4. w \in 1 .. Len(s)
    BY <1>2, <2>3
  <2>5. w = m
    <3> HIDE DEF w
    <3> QED
      BY <1>1, <2>1, <2>3, <2>4
  <2> QED
    BY <2>2, <2>5
<1>11. IsFiniteSet(1 .. Len(r)) /\ Cardinality(1 .. Len(r)) = Len(r)
  <2> DEFINE n == Len(r)
  <2>1. n \in Nat
    BY <1>3
  <2> HIDE DEF n
  <2>2. IsFiniteSet(1 .. n) /\ Cardinality(1 .. n) = n
    BY <2>1, FS_Interval
  <2> QED
    BY <2>2 DEF n
<1>12. IsFiniteSet(J) /\ Cardinality(J) <= Len(r) /\ Cardinality(J) \in Nat
  BY <1>3, <1>11, FS_Subset, FS_CardinalityType
<1>13. Cardinality(M) = Cardinality(J)
  <2> HIDE DEF f, J, M
  <2> QED
    BY <1>8, <1>9, <1>10, <1>12, SameSize
<1>14. CountRows(t, p) = Cardinality(M) /\ CountRows(r, k) = Cardinality(J)
  BY DEF CountRows
<1>15. ASSUME k \in Owners(p) PROVE Cardinality(J) > 0
  <2>1. PICK x \in Ghosts(p) : elem2cpu[x] = k
    BY <1>15 DEF Owners
  <2>2. PICK j \in 1 .. Len(r) : r[j][3] = x
    BY <2>1, RowsOfRank DEF r
  <2>3. r[j][1] = k
    BY <2>1, <2>2, RowsOfRank DEF r
  <2>4. J # {}
    BY <1>3, <2>2, <2>3
  <2>5. Cardinality(J) # 0
    BY <1>12, <2>4, FS_EmptySet
  <2> QED
    BY <1>12, <2>5
<1> HIDE DEF J, M
<1>16. Cardinality(J) \in 0 .. Ne
  BY <1>3, <1>12, NeAssumption
<1> QED
  BY <1>13, <1>14, <1>15, <1>16 DEF r, t

(* Neighbours are mutual.                                                  *)
LEMMA OwnersMutual ==
  ASSUME InputsFixed, NEW p \in Proc, NEW k \in Proc, k \in Owners(p)
  PROVE  p \in Owners(k) /\ p # k
<1>1. PICK f \in Ghosts(p) : elem2cpu[f] = k
  BY DEF Owners
<1>2. f \in Elem /\ f \in intelem(k)
  BY <1>1, PartSets DEF Stored, intelem
<1>3. PICK g \in Ghosts(k) : g \in intelem(p)
  BY <1>2, GhostsBackwards
<1>4. elem2cpu[g] = p
  BY <1>3 DEF intelem
<1>5. elem2cpu[f] # p
  BY PartSets
<1> QED
  BY <1>1, <1>3, <1>4, <1>5 DEF Owners

-----------------------------------------------------------------------------
(* The exchange with the finished lists.                                   *)

(* Both loops are over.                                                    *)
Ready == Assembled /\ \A k \in Proc : Answered(k)

(* The search in nbsd finds exactly the owners of the ghosts.              *)
LEMMA NeighborPlace ==
  ASSUME Assembled, NEW p \in Proc, NEW k \in Proc
  PROVE  /\ k \in Owners(p) => /\ NeighborIndex(p, k) \in 1 .. Len(dmd[p].nbsd)
                               /\ dmd[p].nbsd[NeighborIndex(p, k)] = k
         /\ k \notin Owners(p) => NeighborIndex(p, k) = 0
<1> DEFINE s == dmd[p].nbsd
<1>1. Holds(s, Owners(p)) /\ Len(s) \in Nat
  BY NeighborsAre
<1>2. CASE k \in Owners(p)
  <2>1. PICK m \in 1 .. Len(s) : s[m] = k
    BY <1>1, <1>2 DEF Holds
  <2>2. xiny(s[m], s) = m - 1
    BY <1>1, SearchFinds
  <2>3. (m - 1) + 1 = m
    BY <1>1
  <2>4. NeighborIndex(p, k) = m
    BY <2>1, <2>2, <2>3 DEF NeighborIndex
  <2> QED
    BY <1>2, <2>1, <2>4
<1>3. CASE k \notin Owners(p)
  <2>1. xiny(k, s) = -1
    BY <1>1, <1>3, SearchFails
  <2> QED
    BY <1>3, <2>1 DEF NeighborIndex
<1> QED
  BY <1>2, <1>3

(* The counts of both sides, by neighbour.                                 *)
LEMMA PointsAre ==
  ASSUME Ready, NEW p \in Proc, NEW n \in 1 .. Len(dmd[p].nbsd)
  PROVE  /\ dmd[p].elemrecvpts[n] = CountRows(dmd[p].elemrecv, dmd[p].nbsd[n])
         /\ dmd[p].elemsendpts[n] = CountRows(elemsend(p), dmd[p].nbsd[n])
<1>1. Answered(p)
  BY DEF Ready
<1> QED
  BY <1>1 DEF Answered, PointsPerNeighbor

(* Both sides of a pair of ranks list each other and count the same        *)
(* rows.                                                                   *)
LEMMA PairsAgree ==
  ASSUME Ready, NEW p \in Proc, NEW k \in Proc
  PROVE  LET m == NeighborIndex(p, k)
             n == NeighborIndex(k, p)
         IN /\ m > 0 <=> n > 0
            /\ m > 0 => dmd[p].elemrecvpts[m] = dmd[k].elemsendpts[n]
            /\ m > 0 => dmd[p].elemrecvpts[m] > 0
<1>1. Assembled /\ InputsFixed
  BY DEF Ready, Assembled
<1>2. k \in Owners(p) <=> p \in Owners(k)
  BY <1>1, OwnersMutual
<1>3. /\ CountRows(elemsend(k), p) = CountRows(dmd[p].elemrecv, k)
      /\ k \in Owners(p) => CountRows(dmd[p].elemrecv, k) > 0
  BY <1>1, CountsAgree
<1> DEFINE m == NeighborIndex(p, k)
           n == NeighborIndex(k, p)
<1>4. CASE k \in Owners(p)
  <2>1. m \in 1 .. Len(dmd[p].nbsd) /\ dmd[p].nbsd[m] = k
    BY <1>1, <1>4, NeighborPlace
  <2>2. n \in 1 .. Len(dmd[k].nbsd) /\ dmd[k].nbsd[n] = p
    BY <1>1, <1>2, <1>4, NeighborPlace
  <2> HIDE DEF m, n
  <2>3. dmd[p].elemrecvpts[m] = CountRows(dmd[p].elemrecv, k)
    BY <2>1, PointsAre
  <2>4. dmd[k].elemsendpts[n] = CountRows(elemsend(k), p)
    BY <2>2, PointsAre
  <2>5. m > 0 /\ n > 0
    BY <2>1, <2>2
  <2> QED
    BY <1>3, <1>4, <2>3, <2>4, <2>5 DEF m, n
<1>5. CASE k \notin Owners(p)
  <2>1. m = 0 /\ n = 0
    BY <1>1, <1>2, <1>5, NeighborPlace
  <2> QED
    BY <2>1
<1> QED
  BY <1>4, <1>5

(* What HDG sends lies in the interface block.                             *)
LEMMA SentInInterface ==
  ASSUME Ready, hybrid = 1, NEW p \in Proc, NEW m \in 1 .. Len(dmd[p].elemsend)
  PROVE  dmd[p].elemsend[m][2] \in dmd[p].elempartpts[1] .. NOwned(p) - 1
<1> DEFINE q == RequestsInOrder(p)[m]
           row == SendRow(p, q)
           x == row[3]
           e == dmd[p].elempart
<1>1. Assembled /\ InputsFixed /\ Answered(p) /\ Partitioned(dmd[p], p)
  BY DEF Ready, Assembled
<1>2. m \in 1 .. Len(RequestsInOrder(p)) /\ dmd[p].elemsend = elemsend(p)
  BY <1>1, SendListOf DEF Answered
<1>3. q \in Requests(p) /\ dmd[p].elemsend[m] = row
  BY <1>1, <1>2, SendListOf
<1>4. /\ row[2] \in 0 .. NOwned(p) - 1 /\ e[row[2] + 1] = x
      /\ x \in intelem(p) /\ x \in Ghosts(q[1])
  BY <1>1, <1>3, SendRowOf
<1>5. q[1] \in Proc /\ q[1] # p
  <2>1. q[1] \in Proc
    BY <1>1, <1>3, RequestsOf
  <2>2. x \in Elem /\ elem2cpu[x] = p
    BY <1>4 DEF intelem
  <2>3. elem2cpu[x] # q[1]
    BY <1>1, <1>4, <2>1, PartSets
  <2> QED
    BY <2>1, <2>2, <2>3
<1>6. x \in bndelem(p)
  <2>1. x \in extelem(q[1])
    BY <1>4 DEF Ghosts
  <2> QED
    BY <1>1, <1>4, <1>5, <2>1, GhostIsInterface
<1>7. NOwned(p) = End2(p) /\ dmd[p].elempartpts[1] = End1(p) /\ Ends(p) /\ Numbering(e, p)
  BY <1>1, OwnedFirst, PartitionedNumbered, EndsOrdered DEF Partitioned
<1> HIDE DEF row, x, e
<1>8. row[2] + 1 \notin 1 .. End1(p)
  <2>1. x \notin inner(p)
    BY <1>6 DEF inner
  <2> QED
    BY <1>4, <1>7, <2>1 DEF Numbering
<1>9. row[2] \in End1(p) .. NOwned(p) - 1
  <2> DEFINE g == row[2]
             a == End1(p)
             b == NOwned(p)
  <2>1. g \in 0 .. b - 1 /\ g + 1 \notin 1 .. a /\ a \in Nat /\ b \in Nat
    BY <1>4, <1>7, <1>8 DEF Ends
  <2> HIDE DEF g, a, b
  <2>2. g \in a .. b - 1
    BY <2>1
  <2> QED
    BY <2>2 DEF g, a, b
<1> QED
  BY <1>3, <1>7, <1>9

(* Rows come in blocks of one owner, requests in blocks of one rank, both  *)
(* in the order of the neighbours.                                         *)
RecvKey(p) == [j \in 1 .. Len(dmd[p].elemrecv) |-> dmd[p].elemrecv[j][1]]
SendKey(k) == [m \in 1 .. Len(RequestsInOrder(k)) |-> RequestsInOrder(k)[m][1]]

(* The receive rows are grouped by neighbour, and elemrecvpts counts the   *)
(* groups.                                                                 *)
LEMMA RecvGrouped ==
  ASSUME Ready, NEW p \in Proc
  PROVE  /\ Grouped(RecvKey(p), Len(dmd[p].elemrecv), dmd[p].nbsd, Len(dmd[p].nbsd))
         /\ Counts(dmd[p].elemrecvpts, RecvKey(p), Len(dmd[p].elemrecv),
                   dmd[p].nbsd, Len(dmd[p].nbsd))
<1> DEFINE r == dmd[p].elemrecv
           L == Len(r)
           nb == dmd[p].nbsd
           N == Len(nb)
           key == RecvKey(p)
<1>1. Assembled
  BY DEF Ready
<1>2. /\ L \in Nat /\ DOMAIN r = 1 .. L
      /\ \A j \in 1 .. L : r[j][1] \in Owners(p)
      /\ \A j, l \in 1 .. L : j < l => r[j][1] <= r[l][1]
  BY <1>1, RowsOfRank, NeAssumption
<1>3. /\ Rising(nb, N) /\ N \in Nat /\ Holds(nb, Owners(p)) /\ Owners(p) \in SUBSET Proc
  BY <1>1, NeighborsAre
<1>4. \A n \in 1 .. N : dmd[p].elemrecvpts[n] = CountRows(r, nb[n])
  BY PointsAre
<1> HIDE DEF r, nb
<1>5. key = [j \in 1 .. L |-> r[j][1]]
  BY DEF RecvKey, r
<1>6. key \in [1 .. L -> Int]
  <2>1. Proc \subseteq Int
    BY DEF Proc
  <2>2. \A j \in 1 .. L : r[j][1] \in Int
    BY <1>2, <1>3, <2>1
  <2> QED
    BY <1>5, <2>2
<1>7. \A j, l \in 1 .. L : j < l => key[j] <= key[l]
  BY <1>2, <1>5
<1>8. \A j \in 1 .. L : \E n \in 1 .. N : key[j] = nb[n]
  <2> SUFFICES ASSUME NEW j \in 1 .. L PROVE \E n \in 1 .. N : key[j] = nb[n]
    OBVIOUS
  <2>1. r[j][1] \in Owners(p) /\ key[j] = r[j][1]
    BY <1>2, <1>5
  <2>2. PICK n \in 1 .. N : nb[n] = r[j][1]
    BY <1>3, <2>1 DEF Holds
  <2> QED
    BY <2>1, <2>2
<1>9. \A v : Group(key, L, v) = {j \in DOMAIN r : r[j][1] = v}
  BY <1>2, <1>5 DEF Group
<1>10. \A n \in 1 .. N : dmd[p].elemrecvpts[n] = Cardinality(Group(key, L, nb[n]))
  BY <1>4, <1>9 DEF CountRows
<1> HIDE DEF L, N, key
<1> QED
  BY <1>2, <1>3, <1>6, <1>7, <1>8, <1>10 DEF Grouped, Counts, r, L, nb, N, key

(* The requests are grouped by neighbour, and elemsendpts counts the       *)
(* groups.                                                                 *)
LEMMA SendGrouped ==
  ASSUME Ready, NEW k \in Proc
  PROVE  /\ Grouped(SendKey(k), Len(RequestsInOrder(k)), dmd[k].nbsd, Len(dmd[k].nbsd))
         /\ Counts(dmd[k].elemsendpts, SendKey(k), Len(RequestsInOrder(k)),
                   dmd[k].nbsd, Len(dmd[k].nbsd))
<1> DEFINE s == RequestsInOrder(k)
           t == elemsend(k)
           L == Len(s)
           nb == dmd[k].nbsd
           N == Len(nb)
           key == SendKey(k)
<1>1. Assembled /\ InputsFixed
  BY DEF Ready, Assembled
<1>2. /\ s \in Seq(Requests(k)) /\ L \in Nat
      /\ \A j, l \in 1 .. L : j < l => RequestLess(s[j], s[l])
  BY <1>1, RequestsListed
<1>3. DOMAIN t = 1 .. L /\ \A m \in 1 .. L : s[m] \in Requests(k) /\ t[m][1] = s[m][1]
  BY <1>1, SendListOf, SendRowOf
<1>4. \A q \in Requests(k) : q[1] \in Owners(k) /\ q[1] \in Int
  <2> SUFFICES ASSUME NEW q \in Requests(k) PROVE q[1] \in Owners(k) /\ q[1] \in Int
    OBVIOUS
  <2>1. q[1] \in Proc /\ q[2] \in 1 .. Len(dmd[q[1]].elemrecv)
        /\ dmd[q[1]].elemrecv[q[2]][1] = k
    BY <1>1, RequestsOf
  <2>2. k \in Owners(q[1])
    BY <1>1, <2>1, RowsOfRank
  <2>3. q[1] \in Owners(k)
    BY <1>1, <2>1, <2>2, OwnersMutual
  <2> QED
    BY <2>1, <2>3 DEF Proc
<1>5. /\ Rising(nb, N) /\ N \in Nat /\ Holds(nb, Owners(k))
  BY <1>1, NeighborsAre
<1>6. \A n \in 1 .. N : dmd[k].elemsendpts[n] = CountRows(t, nb[n])
  BY PointsAre
<1> HIDE DEF s, t, nb
<1>7. key = [m \in 1 .. L |-> s[m][1]]
  BY DEF SendKey, s
<1>8. key \in [1 .. L -> Int]
  BY <1>3, <1>4, <1>7
<1>9. \A j, l \in 1 .. L : j < l => key[j] <= key[l]
  <2> SUFFICES ASSUME NEW j \in 1 .. L, NEW l \in 1 .. L, j < l PROVE key[j] <= key[l]
    OBVIOUS
  <2>1. s[j][1] \in Int /\ s[l][1] \in Int /\ RequestLess(s[j], s[l])
    BY <1>2, <1>3, <1>4
  <2> QED
    BY <1>7, <2>1 DEF RequestLess
<1>10. \A j \in 1 .. L : \E n \in 1 .. N : key[j] = nb[n]
  <2> SUFFICES ASSUME NEW j \in 1 .. L PROVE \E n \in 1 .. N : key[j] = nb[n]
    OBVIOUS
  <2>1. s[j][1] \in Owners(k) /\ key[j] = s[j][1]
    BY <1>3, <1>4, <1>7
  <2>2. PICK n \in 1 .. N : nb[n] = s[j][1]
    BY <1>5, <2>1 DEF Holds
  <2> QED
    BY <2>1, <2>2
<1>11. \A v : Group(key, L, v) = {j \in DOMAIN t : t[j][1] = v}
  BY <1>3, <1>7 DEF Group
<1>12. \A n \in 1 .. N : dmd[k].elemsendpts[n] = Cardinality(Group(key, L, nb[n]))
  BY <1>6, <1>11 DEF CountRows
<1> HIDE DEF L, N, key
<1> QED
  BY <1>2, <1>5, <1>8, <1>9, <1>10, <1>12 DEF Grouped, Counts, s, L, nb, N, key

(* The m-th element of a message is the m-th row of its sender: both lists *)
(* are in the order of the receiver's rows.                                *)
Aligned(p, n) ==
  LET k == dmd[p].nbsd[n]
      c == dmd[p].elemrecvpts[n]
      a == SumUpTo(dmd[p].elemrecvpts, n - 1)
      b == SumUpTo(dmd[k].elemsendpts, NeighborIndex(k, p) - 1)
  IN /\ a \in Nat /\ b \in Nat /\ c \in Nat
     /\ Group(RecvKey(p), Len(dmd[p].elemrecv), k) = a + 1 .. a + c
     /\ c = dmd[k].elemsendpts[NeighborIndex(k, p)]
     /\ NeighborIndex(k, p) > 0
     /\ \A m \in 1 .. c :
          /\ b + m \in 1 .. Len(RequestsInOrder(k))
          /\ RequestsInOrder(k)[b + m] = <<p, a + m>>

(* The m-th element a rank receives from a neighbour is the m-th it is     *)
(* sent.                                                                   *)
LEMMA ListsAligned ==
  ASSUME Ready, NEW p \in Proc, NEW n \in 1 .. Len(dmd[p].nbsd)
  PROVE  dmd[p].nbsd[n] \in Proc /\ Aligned(p, n)
<1> DEFINE k == dmd[p].nbsd[n]
           h == NeighborIndex(k, p)
           s == RequestsInOrder(k)
           L == Len(s)
           c == dmd[p].elemrecvpts[n]
           d == dmd[k].elemsendpts[h]
           a == SumUpTo(dmd[p].elemrecvpts, n - 1)
           b == SumUpTo(dmd[k].elemsendpts, h - 1)
           r == dmd[p].elemrecv
<1>1. Assembled /\ InputsFixed
  BY DEF Ready, Assembled
<1>2. k \in Owners(p) /\ k \in Proc
  <2>1. Holds(dmd[p].nbsd, Owners(p)) /\ Owners(p) \in SUBSET Proc
    BY <1>1, NeighborsAre
  <2> QED
    BY <2>1 DEF Holds
<1>3. h \in 1 .. Len(dmd[k].nbsd) /\ dmd[k].nbsd[h] = p
  BY <1>1, <1>2, OwnersMutual, NeighborPlace
<1>4. c = d
  <2>1. c = CountRows(r, k)
    BY PointsAre
  <2>2. d = CountRows(elemsend(k), p)
    BY <1>2, <1>3, PointsAre
  <2> QED
    BY <1>1, <1>2, <2>1, <2>2, CountsAgree
<1>5. /\ a \in Nat /\ c \in Nat
      /\ Group(RecvKey(p), Len(r), k) = a + 1 .. a + c
  BY RecvGrouped, GroupPlace
<1>6. /\ b \in Nat
      /\ Group(SendKey(k), L, p) = b + 1 .. b + d
  <2> HIDE DEF L
  <2>1. /\ Grouped(SendKey(k), L, dmd[k].nbsd, Len(dmd[k].nbsd))
        /\ Counts(dmd[k].elemsendpts, SendKey(k), L, dmd[k].nbsd, Len(dmd[k].nbsd))
    BY <1>2, SendGrouped DEF L
  <2>2. /\ SumUpTo(dmd[k].elemsendpts, h - 1) \in Nat
        /\ Group(SendKey(k), L, dmd[k].nbsd[h])
             = SumUpTo(dmd[k].elemsendpts, h - 1) + 1
                 .. SumUpTo(dmd[k].elemsendpts, h - 1) + dmd[k].elemsendpts[h]
    <3> HIDE DEF h, k
    <3> QED
      BY <1>3, <2>1, GroupPlace
  <2> QED
    BY <1>3, <2>2
<1>7. /\ s \in Seq(Requests(k)) /\ L \in Nat
      /\ \A j, l \in 1 .. L : j < l => RequestLess(s[j], s[l])
      /\ \A q \in Requests(k) : \E j \in 1 .. L : s[j] = q
      /\ \A j \in 1 .. L : s[j] \in Requests(k)
  BY <1>1, <1>2, RequestsListed, SendListOf
<1>8. \A j \in 1 .. Len(r) : j \in Group(RecvKey(p), Len(r), k) <=> r[j][1] = k
  BY DEF Group, RecvKey
<1>9. \A j \in 1 .. L : j \in Group(SendKey(k), L, p) <=> s[j][1] = p
  BY DEF Group, SendKey
<1>10. /\ Group(RecvKey(p), Len(r), k) \subseteq 1 .. Len(r)
       /\ Group(SendKey(k), L, p) \subseteq 1 .. L
  BY DEF Group
<1>11. \A q \in Requests(k) : q = <<q[1], q[2]>> /\ q[2] \in Int
         /\ (q[1] = p => q[2] \in 1 .. Len(r) /\ r[q[2]][1] = k)
  <2> SUFFICES ASSUME NEW q \in Requests(k)
               PROVE  /\ q = <<q[1], q[2]>> /\ q[2] \in Int
                      /\ (q[1] = p => q[2] \in 1 .. Len(r) /\ r[q[2]][1] = k)
    OBVIOUS
  <2>1. q \in Proc \X (1 .. Ne) /\ q[2] \in 1 .. Len(dmd[q[1]].elemrecv)
        /\ dmd[q[1]].elemrecv[q[2]][1] = k
    BY <1>1, <1>2, RequestsOf
  <2> QED
    BY <2>1
<1>12. \A j \in 1 .. Len(r) : r[j][1] = k => <<p, j>> \in Requests(k)
  BY <1>1, <1>2, RequestsOf
<1> HIDE DEF k, h, s, L, c, d, a, b, r
<1> DEFINE f == [m \in 1 .. c |-> s[b + m][2]]
           g == [m \in 1 .. c |-> a + m]
           S == a + 1 .. a + c
<1>13. ASSUME NEW m \in 1 .. c
       PROVE  /\ b + m \in 1 .. L
              /\ s[b + m] \in Requests(k)
              /\ s[b + m] = <<p, s[b + m][2]>>
              /\ s[b + m][2] \in S /\ s[b + m][2] \in Int
  <2>1. b + m \in Group(SendKey(k), L, p)
    BY <1>4, <1>5, <1>6
  <2>2. b + m \in 1 .. L /\ s[b + m][1] = p
    BY <1>9, <1>10, <2>1
  <2>3. s[b + m] \in Requests(k)
    BY <1>7, <2>2
  <2>4. s[b + m] = <<p, s[b + m][2]>> /\ s[b + m][2] \in Int
        /\ s[b + m][2] \in 1 .. Len(r) /\ r[s[b + m][2]][1] = k
    BY <1>11, <2>2, <2>3
  <2>5. s[b + m][2] \in S
    BY <1>5, <1>8, <2>4
  <2> QED
    BY <2>2, <2>3, <2>4, <2>5
<1>14. Rising(f, c)
  <2>1. f \in [1 .. c -> Int]
    BY <1>13
  <2>2. ASSUME NEW m \in 1 .. c, NEW l \in 1 .. c, m < l PROVE f[m] < f[l]
    <3>1. b + m \in 1 .. L /\ b + l \in 1 .. L /\ b + m < b + l
      BY <1>6, <1>13, <2>2
    <3>2. RequestLess(s[b + m], s[b + l])
      BY <1>7, <3>1
    <3>3. s[b + m][1] = p /\ s[b + l][1] = p /\ p \in Int
      BY <1>13 DEF Proc
    <3>4. s[b + m][2] < s[b + l][2]
      BY <3>2, <3>3 DEF RequestLess
    <3> QED
      BY <3>4
  <2> HIDE DEF f
  <2> QED
    BY <2>1, <2>2 DEF Rising
<1>15. \A x : x \in S <=> \E m \in 1 .. c : x = f[m]
  <2>1. ASSUME NEW x \in S PROVE \E m \in 1 .. c : x = f[m]
    <3>1. x \in 1 .. Len(r) /\ r[x][1] = k
      BY <1>5, <1>8, <1>10
    <3>2. PICK l \in 1 .. L : s[l] = <<p, x>>
      BY <1>7, <1>12, <3>1
    <3>3. l \in b + 1 .. b + d
      BY <1>6, <1>9, <3>2
    <3>4. l - b \in 1 .. c /\ b + (l - b) = l
      BY <1>4, <1>5, <1>6, <3>3
    <3>5. f[l - b] = x
      BY <3>2, <3>4
    <3> QED
      BY <3>4, <3>5
  <2>2. ASSUME NEW m \in 1 .. c PROVE f[m] \in S
    BY <1>13
  <2> HIDE DEF f
  <2> QED
    BY <2>1, <2>2
<1>16. Rising(g, c)
  BY <1>5 DEF Rising
<1>17. \A x : x \in S <=> \E m \in 1 .. c : x = g[m]
  <2>1. ASSUME NEW x \in S PROVE x - a \in 1 .. c /\ x = g[x - a]
    BY <1>5
  <2>2. ASSUME NEW m \in 1 .. c PROVE g[m] \in S
    BY <1>5
  <2> HIDE DEF g, S
  <2> QED
    BY <2>1, <2>2
<1>18. f = g
  <2>1. f = Sorted(S)
    <3> HIDE DEF f, S
    <3> QED
      BY <1>5, <1>14, <1>15, SortedOnly
  <2>2. g = Sorted(S)
    <3> HIDE DEF g, S
    <3> QED
      BY <1>5, <1>16, <1>17, SortedOnly
  <2> QED
    BY <2>1, <2>2
<1>19. ASSUME NEW m \in 1 .. c PROVE b + m \in 1 .. L /\ s[b + m] = <<p, a + m>>
  <2>1. f[m] = s[b + m][2] /\ g[m] = a + m
    OBVIOUS
  <2>2. s[b + m][2] = a + m
    <3> HIDE DEF f, g
    <3> QED
      BY <1>18, <2>1
  <2> QED
    BY <1>13, <2>2
<1>20. h > 0
  BY <1>3
<1> QED
  BY <1>2, <1>4, <1>5, <1>6, <1>19, <1>20 DEF Aligned, k, h, s, L, c, d, a, b, r

(* Each message has the size its receiver posts and fills ghost positions  *)
(* with the elements that belong there.                                    *)
LEMMA MessageFills ==
  ASSUME Ready, NEW p \in Proc, NEW n \in 1 .. Len(dmd[p].nbsd)
  PROVE  /\ DOMAIN MessageTo(dmd[p].nbsd[n], p) = 1 .. dmd[p].elemrecvpts[n]
         /\ Len(MessageTo(dmd[p].nbsd[n], p)) = dmd[p].elemrecvpts[n]
         /\ \A m \in 1 .. dmd[p].elemrecvpts[n] :
              dmd[p].elempart[GhostPosition(p, n, m) + 1] = MessageTo(dmd[p].nbsd[n], p)[m]
<1> DEFINE k == dmd[p].nbsd[n]
           h == NeighborIndex(k, p)
           s == RequestsInOrder(k)
           c == dmd[p].elemrecvpts[n]
           a == SumUpTo(dmd[p].elemrecvpts, n - 1)
           b == SumUpTo(dmd[k].elemsendpts, h - 1)
           r == dmd[p].elemrecv
           message == MessageTo(k, p)
<1>1. Assembled
  BY DEF Ready
<1>2. /\ k \in Proc /\ a \in Nat /\ b \in Nat /\ c \in Nat
      /\ Group(RecvKey(p), Len(r), k) = a + 1 .. a + c
      /\ c = dmd[k].elemsendpts[h] /\ h > 0
      /\ \A m \in 1 .. c : b + m \in 1 .. Len(s) /\ s[b + m] = <<p, a + m>>
  BY ListsAligned DEF Aligned
<1>3. dmd[k].elemsend = elemsend(k)
  BY <1>2 DEF Ready, Answered
<1>4. ASSUME NEW m \in 1 .. c
      PROVE  /\ a + m \in 1 .. Len(r)
             /\ buffsend(k)[b + m] = r[a + m][3]
             /\ dmd[p].elempart[r[a + m][2] + 1] = r[a + m][3]
             /\ r[a + m][3] \in Elem
  <2>1. b + m \in 1 .. Len(s) /\ s[b + m] = <<p, a + m>>
    BY <1>2
  <2>2. /\ b + m \in DOMAIN elemsend(k)
        /\ elemsend(k)[b + m] = SendRow(k, s[b + m])
        /\ s[b + m] \in Requests(k)
    BY <1>1, <1>2, <2>1, SendListOf
  <2>3. buffsend(k)[b + m] = dmd[k].elempart[SendRow(k, s[b + m])[2] + 1]
    BY <1>3, <2>2 DEF buffsend
  <2>4. s[b + m][1] = p /\ s[b + m][2] = a + m
    BY <2>1
  <2>5. /\ dmd[k].elempart[SendRow(k, s[b + m])[2] + 1] = SendRow(k, s[b + m])[3]
        /\ SendRow(k, s[b + m])[3] = dmd[s[b + m][1]].elemrecv[s[b + m][2]][3]
        /\ SendRow(k, s[b + m])[3] \in intelem(k)
    BY <1>1, <1>2, <2>2, SendRowOf
  <2>6. buffsend(k)[b + m] = r[a + m][3] /\ r[a + m][3] \in Elem
    BY <2>3, <2>4, <2>5 DEF intelem
  <2>7. a + m \in 1 .. Len(r)
    <3>1. a + m \in Group(RecvKey(p), Len(r), k)
      <4> HIDE DEF k, h, s, c, a, b, r
      <4> QED
        BY <1>2
    <3> QED
      BY <3>1 DEF Group
  <2>8. dmd[p].elempart[r[a + m][2] + 1] = r[a + m][3]
    BY <1>1, <2>7, RowsOfRank
  <2> QED
    BY <2>6, <2>7, <2>8
<1>5. message = [m \in 1 .. c |-> buffsend(k)[b + m]]
  <2>1. h # 0
    <3>1. h > 0
      BY <1>2
    <3> HIDE DEF k, h, s, c, a, b, r, message
    <3> QED
      BY <3>1
  <2>2. message = [m \in 1 .. dmd[k].elemsendpts[h] |-> buffsend(k)[b + m]]
    <3> HIDE DEF k
    <3> QED
      BY <2>1 DEF MessageTo
  <2> HIDE DEF message, b, h, c, k
  <2> QED
    BY <1>2, <2>2
<1>6. \A m \in 1 .. c : GhostPosition(p, n, m) = r[a + m][2]
  BY DEF GhostPosition
<1> HIDE DEF k, h, s, c, a, b, r, message
<1>7. message \in [1 .. c -> Elem]
  BY <1>4, <1>5
<1>8. DOMAIN message = 1 .. c /\ Len(message) = c
  BY <1>2, <1>7
<1>9. \A m \in 1 .. c : dmd[p].elempart[GhostPosition(p, n, m) + 1] = message[m]
  BY <1>4, <1>5, <1>6
<1> QED
  BY <1>8, <1>9 DEF c, message, k

(* No ghost position is left out.                                          *)
LEMMA GhostsFilled ==
  ASSUME Ready, NEW p \in Proc, NEW g \in NOwned(p) .. Len(dmd[p].elempart) - 1
  PROVE  \E n \in 1 .. Len(dmd[p].nbsd) : \E m \in 1 .. dmd[p].elemrecvpts[n] :
           GhostPosition(p, n, m) = g
<1> DEFINE r == dmd[p].elemrecv
<1>1. Assembled
  BY DEF Ready
<1>2. PICK j \in 1 .. Len(r) : r[j][2] = g
  BY <1>1, RowsOfRank
<1>3. r[j][1] \in Owners(p)
  BY <1>1, <1>2, RowsOfRank
<1>4. PICK n \in 1 .. Len(dmd[p].nbsd) : dmd[p].nbsd[n] = r[j][1]
  <2>1. Holds(dmd[p].nbsd, Owners(p))
    BY <1>1, NeighborsAre
  <2> QED
    BY <1>3, <2>1 DEF Holds
<1> DEFINE c == dmd[p].elemrecvpts[n]
           a == SumUpTo(dmd[p].elemrecvpts, n - 1)
<1>5. /\ a \in Nat /\ c \in Nat
      /\ Group(RecvKey(p), Len(r), dmd[p].nbsd[n]) = a + 1 .. a + c
  BY ListsAligned DEF Aligned
<1>6. j \in Group(RecvKey(p), Len(r), dmd[p].nbsd[n])
  BY <1>2, <1>4 DEF Group, RecvKey
<1>7. \A m : GhostPosition(p, n, m) = r[a + m][2]
  BY DEF GhostPosition
<1> HIDE DEF c, a, r
<1>8. j - a \in 1 .. c /\ a + (j - a) = j
  BY <1>2, <1>5, <1>6
<1>9. GhostPosition(p, n, j - a) = g
  BY <1>2, <1>7, <1>8
<1> QED
  BY <1>4, <1>8, <1>9 DEF c

-----------------------------------------------------------------------------
(* The steps.                                                              *)

(* The element sets of a rank depend on the inputs alone, so a finished    *)
(* record stays right.                                                     *)
LEMMA PartitionStays ==
  ASSUME NEW p \in Proc, NEW d, Partitioned(d, p),
         UNCHANGED <<e2e, elem2cpu, hybrid>>,
         dmd'[p].elempart = d.elempart, dmd'[p].elempartpts = d.elempartpts,
         dmd'[p].elemrecv = d.elemrecv, dmd'[p].nbsd = d.nbsd
  PROVE  Partitioned(dmd[p], p)'
<1>1. intelem(p)' = intelem(p)
  BY DEF intelem
<1>2. extelem(p)' = extelem(p)
  BY <1>1 DEF extelem, neighboringelements
<1>3. bndelem(p)' = bndelem(p)
  BY <1>1, <1>2 DEF bndelem, neighboringelements
<1>4. outelem(p)' = outelem(p)
  BY <1>1, <1>2 DEF outelem, neighboringelements
<1>5. /\ inner(p)' = inner(p) /\ outer(p)' = outer(p)
      /\ Ghosts(p)' = Ghosts(p) /\ Stored(p)' = Stored(p)
  BY <1>1, <1>2, <1>3, <1>4 DEF inner, outer, Ghosts, Stored
<1>6. /\ End1(p)' = End1(p) /\ End2(p)' = End2(p)
      /\ End3(p)' = End3(p) /\ End4(p)' = End4(p)
  BY <1>2, <1>3, <1>5 DEF End1, End2, End3, End4
<1>7. Owners(p)' = Owners(p)
  BY <1>5 DEF Owners
<1>8. Numbering(d.elempart, p)
  BY DEF Partitioned
<1>9. Numbering(dmd[p].elempart, p)'
  BY <1>2, <1>3, <1>5, <1>6, <1>8 DEF Numbering, Holds
<1>10. GhostRows(dmd[p].elempart, p)' = GhostRows(d.elempart, p)
  BY <1>6 DEF GhostRows, GhostRow
<1>11. Listing(dmd[p].elemrecv, GhostRows(dmd[p].elempart, p), RowOrder(GhostRows(dmd[p].elempart, p)))'
  <2>1. Listing(d.elemrecv, GhostRows(d.elempart, p), RowOrder(GhostRows(d.elempart, p)))
    BY DEF Partitioned
  <2> QED
    BY <1>10, <2>1 DEF Listing, RowOrder
<1> QED
  BY <1>6, <1>7, <1>9, <1>10, <1>11 DEF Partitioned

(* What a rank is asked for depends on the rows and numberings alone.      *)
LEMMA RequestsStay ==
  ASSUME \A p \in Proc : /\ dmd'[p].elempart = dmd[p].elempart
                         /\ dmd'[p].elemrecv = dmd[p].elemrecv
                         /\ dmd'[p].nbsd = dmd[p].nbsd,
         Assembled, NEW k \in Proc
  PROVE  elemsend(k)' = elemsend(k)
<1>1. Requests(k)' = Requests(k)
  BY DEF Requests
<1>2. RequestsInOrder(k)' = RequestsInOrder(k)
  BY <1>1 DEF RequestsInOrder
<1>3. \A m \in DOMAIN RequestsInOrder(k) : RequestsInOrder(k)[m][1] \in Proc
  BY RequestsListed, SendListOf, RequestsOf
<1> QED
  BY <1>2, <1>3 DEF elemsend, SendRow

(* The coupled interface elements, read past their end, are numbers too.   *)
LEMMA InteTyped ==
  ASSUME NEW v \in InteReads
  PROVE  v \in Seq(0 .. Ne)
<1>1. CASE ~Coupled
  BY <1>1 DEF InteReads
<1>2. CASE Coupled
  <2>1. PICK S \in SUBSET Elem, w \in 0 .. Ne : v = InteRead(S, w)
    BY <1>2 DEF InteReads
  <2> DEFINE s == Sorted(S)
             n == Ne - Cardinality(S)
             t == [j \in 1 .. n |-> w]
  <2>2. IsFiniteSet(Elem) /\ Cardinality(Elem) = Ne
    BY MeshSize
  <2>3. S \in SUBSET Int /\ IsFiniteSet(S) /\ Cardinality(S) <= Ne
    <3>1. IsFiniteSet(S) /\ Cardinality(S) <= Cardinality(Elem)
      BY <2>2, FS_Subset
    <3>2. S \in SUBSET Int
      BY NeAssumption DEF Elem
    <3> QED
      BY <2>2, <3>1, <3>2
  <2>4. s \in Seq(S) /\ Len(s) = Cardinality(S) /\ Cardinality(S) \in Nat
    BY <2>3, SortedLists
  <2>5. S \subseteq 0 .. Ne
    BY NeAssumption DEF Elem
  <2>6. s \in Seq(0 .. Ne)
    <3> HIDE DEF s
    <3> QED
      BY <2>4, <2>5, SeqMonotonic
  <2>7. n \in Nat
    BY <2>3, <2>4, NeAssumption
  <2>8. t \in Seq(0 .. Ne)
    <3> HIDE DEF n
    <3> QED
      BY <2>7
  <2> HIDE DEF s, t
  <2>9. s \o t \in Seq(0 .. Ne)
    BY <2>6, <2>8, ConcatProperties
  <2> QED
    BY <2>1, <2>9 DEF s, t, InteRead
<1> QED
  BY <1>1, <1>2

(* The invariant holds at first: no record is built.                       *)
LEMMA InitDmdInv ==
  ASSUME Init
  PROVE  DmdInv
<1>1. InputsFixed
  BY DEF Init, InputsFixed
<1>2. Settings
  BY InteTyped, NprocAssumption DEF Init, Settings
<1>3. dmd \in [Proc -> DmdType]
  <2>1. \A S : <<>> \in Seq(S)
    OBVIOUS
  <2>2. NoDmd \in DmdType
    BY <2>1 DEF NoDmd, DmdType
  <2> QED
    BY <2>2 DEF Init
<1>4. \A p \in Proc : ~(p < i)
  BY DEF Init, Proc
<1>5. i # Nproc + 1
  BY NprocAssumption DEF Init
<1> QED
  BY <1>1, <1>2, <1>3, <1>4, <1>5 DEF DmdInv

(* A turn in the loop finishes one more record.                            *)
LEMMA BuildPartitionKeeps ==
  ASSUME DmdInv, BuildPartition
  PROVE  DmdInv'
<1>1. InputsFixed /\ Settings /\ InputsFixed' /\ Settings'
  <2>1. InputsFixed /\ Settings
    BY DEF DmdInv
  <2>2. InputsFixed'
    BY <2>1 DEF BuildPartition, InputsFixed, Conforming
  <2>3. i' \in 0 .. Nproc + 1
    BY <2>1, NprocAssumption DEF Settings, BuildPartition
  <2>4. Settings'
    BY <2>1, <2>3 DEF BuildPartition, Settings
  <2> QED
    BY <2>1, <2>2, <2>4
<1>2. i \in Proc /\ i' = i + 1 /\ i' # Nproc + 1
  BY <1>1, NprocAssumption DEF BuildPartition, Settings, Proc
<1>3. SUFFICES ASSUME Uncoupled'
               PROVE  /\ dmd' \in [Proc -> DmdType]
                      /\ \A p \in Proc : p < i' => Partitioned(dmd[p], p)'
  BY <1>1, <1>2 DEF DmdInv
<1>4. Uncoupled
  BY <1>3 DEF Uncoupled, BuildPartition
<1>5. Partitioned(PartitionOf(i), i)
  BY <1>1, <1>2, <1>4, OnePass
<1>6. PartitionOf(i) \in DmdType
  <2> DEFINE d == PartitionOf(i)
  <2> DEFINE a == d.elempart
             b == d.elempartpts
             r == d.elemrecv
             n == d.nbsd
  <2>1. d = [elempart |-> a, elempartpts |-> b, elemrecv |-> r, nbsd |-> n,
             elemsend |-> <<>>, elemsendpts |-> <<>>, elemrecvpts |-> <<>>]
    BY DEF PartitionOf
  <2>2. a \in Seq(Elem) /\ b \in Seq(0 .. 2 * Ne) /\ r \in Seq(Row) /\ n \in Seq(Proc)
    <3> HIDE DEF d
    <3> QED
      BY <1>1, <1>2, <1>5, PartitionedTyped DEF d
  <2>3. <<>> \in Seq(Row) /\ <<>> \in Seq(0 .. Ne)
    OBVIOUS
  <2> HIDE DEF d, a, b, r, n
  <2>4. d \in DmdType
    BY <2>1, <2>2, <2>3 DEF DmdType
  <2> QED
    BY <2>4 DEF d
<1>7. dmd \in [Proc -> DmdType] /\ dmd' = [dmd EXCEPT ![i] = PartitionOf(i)]
  BY <1>4 DEF DmdInv, BuildPartition
<1>8. dmd' \in [Proc -> DmdType]
  BY <1>6, <1>7
<1>9. ASSUME NEW p \in Proc, p < i' PROVE Partitioned(dmd[p], p)'
  <2>1. UNCHANGED <<e2e, elem2cpu, hybrid>>
    BY DEF BuildPartition
  <2>2. CASE p = i
    <3>1. dmd'[p] = PartitionOf(i)
      BY <1>2, <1>7, <2>2
    <3> QED
      BY <1>2, <1>5, <2>1, <2>2, <3>1, PartitionStays
  <2>3. CASE p # i
    <3>1. dmd'[p] = dmd[p]
      BY <1>7, <2>3
    <3>2. p < i
      BY <1>2, <1>9, <2>3 DEF Proc
    <3>3. Partitioned(dmd[p], p)
      BY <1>4, <3>2 DEF DmdInv
    <3> QED
      BY <2>1, <3>1, <3>3, PartitionStays
  <2> QED
    BY <2>2, <2>3
<1> QED
  BY <1>8, <1>9

(* Once the loop over ranks is over, every rank has its record.            *)
LEMMA AllAssembled ==
  ASSUME DmdInv, Uncoupled, i >= Nproc
  PROVE  Assembled
<1>1. \A p \in Proc : p < i
  BY NprocAssumption DEF Proc, DmdInv, Settings
<1> QED
  BY <1>1 DEF DmdInv, Assembled

(* The requests are answered, and the rest of the records left alone.      *)
LEMMA CreateElemsendKeeps ==
  ASSUME DmdInv, CreateElemsend
  PROVE  DmdInv'
<1>0. i = Nproc /\ i' = i + 1
  BY DEF CreateElemsend
<1>1. InputsFixed /\ Settings /\ InputsFixed' /\ Settings'
  <2>1. InputsFixed /\ Settings
    BY DEF DmdInv
  <2>2. InputsFixed'
    BY <2>1 DEF CreateElemsend, InputsFixed, Conforming
  <2>3. i' \in 0 .. Nproc + 1
    BY <1>0, NprocAssumption
  <2>4. Settings'
    BY <2>1, <2>3 DEF CreateElemsend, Settings
  <2> QED
    BY <2>1, <2>2, <2>4
<1>2. SUFFICES ASSUME Uncoupled'
               PROVE  /\ dmd' \in [Proc -> DmdType]
                      /\ \A p \in Proc : Partitioned(dmd[p], p)'
                      /\ \A k \in Proc : Answered(k)'
  BY <1>1 DEF DmdInv
<1>3. Uncoupled
  BY <1>2 DEF Uncoupled, CreateElemsend
<1>4. Assembled
  <2>1. i >= Nproc
    BY <1>0, NprocAssumption
  <2> QED
    BY <1>3, <2>1, AllAssembled
<1> DEFINE sendpts(k) == PointsPerNeighbor(elemsend(k), dmd[k].nbsd)
           recvpts(k) == PointsPerNeighbor(dmd[k].elemrecv, dmd[k].nbsd)
<1>5. dmd' = [k \in Proc |-> [dmd[k] EXCEPT !.elemsend = elemsend(k),
                                           !.elemsendpts = sendpts(k),
                                           !.elemrecvpts = recvpts(k)]]
  BY DEF CreateElemsend
<1>6. ASSUME NEW k \in Proc
      PROVE sendpts(k) \in Seq(0 .. Ne) /\ recvpts(k) \in Seq(0 .. Ne)
  <2> DEFINE nb == dmd[k].nbsd
  <2>1. nb \in Seq(Proc) /\ \A n \in 1 .. Len(nb) : nb[n] \in Proc
    BY <1>4, PartitionedTyped DEF Assembled
  <2>2. \A n \in 1 .. Len(nb) : /\ CountRows(elemsend(k), nb[n]) \in 0 .. Ne
                                /\ CountRows(dmd[k].elemrecv, nb[n]) \in 0 .. Ne
    BY <1>4, <2>1, CountsAgree
  <2>3. Len(nb) \in Nat
    BY <2>1
  <2> HIDE DEF nb
  <2> DEFINE n == Len(nb)
             a == [j \in 1 .. n |-> CountRows(elemsend(k), nb[j])]
             b == [j \in 1 .. n |-> CountRows(dmd[k].elemrecv, nb[j])]
  <2>4. n \in Nat /\ a \in [1 .. n -> 0 .. Ne] /\ b \in [1 .. n -> 0 .. Ne]
    BY <2>2, <2>3
  <2>5. sendpts(k) = a /\ recvpts(k) = b
    BY DEF PointsPerNeighbor, nb
  <2> HIDE DEF n, a, b
  <2>6. a \in Seq(0 .. Ne) /\ b \in Seq(0 .. Ne)
    BY <2>4, FunctionIsVector
  <2> QED
    BY <2>5, <2>6
<1> HIDE DEF sendpts, recvpts
<1>7. ASSUME NEW k \in Proc
      PROVE  /\ dmd'[k] \in DmdType
             /\ dmd'[k].elempart = dmd[k].elempart
             /\ dmd'[k].elempartpts = dmd[k].elempartpts
             /\ dmd'[k].elemrecv = dmd[k].elemrecv
             /\ dmd'[k].nbsd = dmd[k].nbsd
             /\ dmd'[k].elemsend = elemsend(k)
             /\ dmd'[k].elemsendpts = sendpts(k)
             /\ dmd'[k].elemrecvpts = recvpts(k)
  <2>1. dmd[k] \in DmdType
    BY <1>4 DEF Assembled
  <2>2. elemsend(k) \in Seq(Row)
    BY <1>4, SendListOf
  <2>3. dmd'[k] = [dmd[k] EXCEPT !.elemsend = elemsend(k), !.elemsendpts = sendpts(k),
                                !.elemrecvpts = recvpts(k)]
    BY <1>5
  <2> QED
    BY <1>6, <2>1, <2>2, <2>3 DEF DmdType
<1>8. dmd' \in [Proc -> DmdType]
  BY <1>5, <1>7
<1>9. ASSUME NEW p \in Proc PROVE Partitioned(dmd[p], p)'
  <2>1. Partitioned(dmd[p], p)
    BY <1>4 DEF Assembled
  <2>2. UNCHANGED <<e2e, elem2cpu, hybrid>>
    BY DEF CreateElemsend
  <2> QED
    BY <1>7, <2>1, <2>2, PartitionStays
<1>10. ASSUME NEW k \in Proc PROVE Answered(k)'
  <2>1. elemsend(k)' = elemsend(k)
    BY <1>4, <1>7, RequestsStay
  <2> QED
    BY <1>7, <2>1 DEF Answered, sendpts, recvpts
<1> QED
  BY <1>8, <1>9, <1>10

(* A stuttering step keeps the invariant.                                  *)
LEMMA StutterKeeps ==
  ASSUME DmdInv, UNCHANGED vars
  PROVE  DmdInv'
<1>1. UNCHANGED <<e2e, elem2cpu, hybrid, dmd, i>> /\ InputsFixed' /\ Settings'
  BY DEF DmdInv, InputsFixed, Conforming, Settings, vars
<1>2. SUFFICES ASSUME Uncoupled'
               PROVE  /\ dmd' \in [Proc -> DmdType]
                      /\ \A p \in Proc : p < i => Partitioned(dmd[p], p)'
                      /\ i = Nproc + 1 => \A k \in Proc : Answered(k)'
  BY <1>1 DEF DmdInv
<1>3. Uncoupled
  BY <1>1, <1>2 DEF Uncoupled
<1>4. ASSUME NEW p \in Proc, p < i PROVE Partitioned(dmd[p], p)'
  <2>1. Partitioned(dmd[p], p)
    BY <1>3, <1>4 DEF DmdInv
  <2> QED
    BY <1>1, <2>1, PartitionStays
<1>5. ASSUME i = Nproc + 1, NEW k \in Proc PROVE Answered(k)'
  <2>1. Assembled /\ Answered(k)
    BY <1>3, <1>5, AllAssembled, NprocAssumption DEF DmdInv
  <2>2. elemsend(k)' = elemsend(k)
    BY <1>1, <2>1, RequestsStay
  <2> QED
    BY <1>1, <2>1, <2>2 DEF Answered
<1> QED
  BY <1>1, <1>3, <1>4, <1>5 DEF DmdInv

-----------------------------------------------------------------------------
(* The theorems.  All but the first exclude the coupled HDG numbering,     *)
(* where ElempartIsPartition is false (run dmd_coupled).                   *)

(* The inputs stay; whenever no interface elements are put first, the      *)
(* records finished so far describe their ranks, and after create_elemsend *)
(* every rank answers the requests of the others.                          *)
THEOREM RecordsDescribeRanks == Spec => []DmdInv
<1>1. DmdInv /\ [Next]_vars => DmdInv'
  BY BuildPartitionKeeps, CreateElemsendKeeps, StutterKeeps DEF Next
<1> QED
  BY <1>1, InitDmdInv, PTL DEF Spec

(* No record ever holds a position that xiny did not find, and every field *)
(* of DMD has its type at every turn of the loops.                         *)
THEOREM RecordsTyped == Spec => [](Uncoupled => TypeOK)
<1>1. DmdInv => (Uncoupled => TypeOK)
  BY DEF DmdInv, InputsFixed, Settings, TypeOK
<1> QED
  BY <1>1, RecordsDescribeRanks, PTL

(* elempart numbers the owned elements first and no element twice.         *)
THEOREM NumberingIsPartition == Spec => [](Uncoupled => ElempartIsPartition)
<1>1. ASSUME DmdInv, Uncoupled PROVE ElempartIsPartition
  <2> SUFFICES ASSUME NEW p \in Proc, p < i
               PROVE  /\ IsInjective(dmd[p].elempart)
                      /\ {dmd[p].elempart[m] : m \in 1 .. NOwned(p)} = intelem(p)
    BY DEF ElempartIsPartition
  <2>1. InputsFixed /\ Partitioned(dmd[p], p)
    BY <1>1 DEF DmdInv
  <2> QED
    BY <2>1, OwnedFirst, PartitionedNumbered
<1> QED
  BY <1>1, RecordsDescribeRanks, PTL

(* After both loops the state is the one the exchange needs.               *)
LEMMA BuiltIsReady ==
  ASSUME DmdInv, Uncoupled, Built
  PROVE  Ready
<1>1. i = Nproc + 1 /\ i >= Nproc
  BY NprocAssumption DEF Built
<1>2. Assembled
  BY <1>1, AllAssembled
<1>3. \A k \in Proc : Answered(k)
  BY <1>1 DEF DmdInv
<1> QED
  BY <1>2, <1>3 DEF Ready

(* A rank stores the neighbours of every element it computes on: its own,  *)
(* and for LDG the exterior ones as well.                                  *)
THEOREM StencilIsStored == Spec => [](Uncoupled => StencilStored)
<1>1. ASSUME DmdInv, Uncoupled PROVE StencilStored
  <2> SUFFICES ASSUME Built, NEW p \in Proc,
                      NEW m \in 1 .. NOwned(p) + IF hybrid = 0 THEN dmd[p].elempartpts[3] ELSE 0
               PROVE  e2e[dmd[p].elempart[m]] \subseteq ToSet(dmd[p].elempart)
    BY DEF StencilStored
  <2>1. InputsFixed /\ hybrid \in {0, 1} /\ Partitioned(dmd[p], p)
    BY <1>1, BuiltIsReady DEF Ready, Assembled, Settings
  <2> QED
    BY <2>1, StencilOf, PartitionedNumbered
<1> QED
  BY <1>1, RecordsDescribeRanks, PTL

(* What a rank processes before the messages arrive, the first block of    *)
(* its numbering, reads no ghost.                                          *)
THEOREM InteriorIsLocal == Spec => [](Uncoupled => InteriorNeedsNoGhost)
<1>1. ASSUME DmdInv, Uncoupled PROVE InteriorNeedsNoGhost
  <2> SUFFICES ASSUME Built, NEW p \in Proc, NEW m \in 1 .. dmd[p].elempartpts[1]
               PROVE  e2e[dmd[p].elempart[m]] \subseteq intelem(p)
    BY DEF InteriorNeedsNoGhost
  <2>1. InputsFixed /\ Partitioned(dmd[p], p)
    BY <1>1, BuiltIsReady DEF Ready, Assembled
  <2> QED
    BY <2>1, InteriorOf, PartitionedNumbered
<1> QED
  BY <1>1, RecordsDescribeRanks, PTL

(* What HDG sends lies in the interface block, whose products it has       *)
(* computed by then.                                                       *)
THEOREM SentIsComputed == Spec => [](Uncoupled => SentWasComputed)
<1>1. ASSUME DmdInv, Uncoupled PROVE SentWasComputed
  BY <1>1, BuiltIsReady, SentInInterface DEF SentWasComputed
<1> QED
  BY <1>1, RecordsDescribeRanks, PTL

(* Both ends of every message are posted, with the same size.              *)
THEOREM MessagesArePaired == Spec => [](Uncoupled => MessagesPair)
<1>1. ASSUME DmdInv, Uncoupled PROVE MessagesPair
  BY <1>1, BuiltIsReady, PairsAgree DEF MessagesPair
<1> QED
  BY <1>1, RecordsDescribeRanks, PTL

(* The exchange by positions gives every ghost the element it stands for.  *)
THEOREM GhostsAreFilled == Spec => [](Uncoupled => ExchangeFillsGhosts)
<1>1. ASSUME DmdInv, Uncoupled PROVE ExchangeFillsGhosts
  <2> SUFFICES ASSUME Built, NEW p \in Proc
               PROVE
                 /\ \A n \in DOMAIN dmd[p].nbsd :
                      /\ Len(MessageTo(dmd[p].nbsd[n], p)) = dmd[p].elemrecvpts[n]
                      /\ \A m \in DOMAIN MessageTo(dmd[p].nbsd[n], p) :
                           dmd[p].elempart[GhostPosition(p, n, m) + 1]
                             = MessageTo(dmd[p].nbsd[n], p)[m]
                 /\ \A g \in NOwned(p) .. Len(dmd[p].elempart) - 1 :
                      \E n \in DOMAIN dmd[p].nbsd : \E m \in 1 .. dmd[p].elemrecvpts[n] :
                        GhostPosition(p, n, m) = g
    BY DEF ExchangeFillsGhosts
  <2>1. Ready
    BY <1>1, BuiltIsReady
  <2>2. DOMAIN dmd[p].nbsd = 1 .. Len(dmd[p].nbsd)
    BY <2>1, NeighborsAre DEF Ready
  <2>3. \A n \in 1 .. Len(dmd[p].nbsd) :
          /\ Len(MessageTo(dmd[p].nbsd[n], p)) = dmd[p].elemrecvpts[n]
          /\ \A m \in DOMAIN MessageTo(dmd[p].nbsd[n], p) :
               dmd[p].elempart[GhostPosition(p, n, m) + 1]
                 = MessageTo(dmd[p].nbsd[n], p)[m]
    BY <2>1, MessageFills
  <2> QED
    BY <2>1, <2>2, <2>3, GhostsFilled
<1> QED
  BY <1>1, RecordsDescribeRanks, PTL

-----------------------------------------------------------------------------
(* The parallel way.  It uses the operators of the serial one on its own   *)
(* variables, which are the same.                                          *)
LEMMA SameOperators ==
  /\ Par!Elem = Elem /\ Par!Proc = Proc
  /\ \A p : Par!Serial!intelem(p) = intelem(p)
  /\ \A p : Par!Serial!extelem(p) = extelem(p)
  /\ \A p : Par!Serial!bndelem(p) = bndelem(p)
  /\ \A p : Par!Serial!outelem(p) = outelem(p)
  /\ \A S, Less : Par!Serial!InOrder(S, Less) = InOrder(S, Less)
  /\ \A S : Par!Serial!Sorted(S) = Sorted(S)
  /\ \A pts, n : Par!Serial!SumUpTo(pts, n) = SumUpTo(pts, n)
<1>1. Par!Elem = Elem /\ Par!Proc = Proc
  BY DEF Par!Elem, Par!Proc, Elem, Proc
<1>2. \A S, Less : Par!Serial!InOrder(S, Less) = InOrder(S, Less)
  BY DEF Par!Serial!InOrder, InOrder, Par!Serial!Cardinality, Cardinality
<1>3. \A S : Par!Serial!Sorted(S) = Sorted(S)
  BY <1>2 DEF Par!Serial!Sorted, Sorted
<1>4. \A pts, n : Par!Serial!SumUpTo(pts, n) = SumUpTo(pts, n)
  BY DEF Par!Serial!SumUpTo, SumUpTo
<1>5. \A p : Par!Serial!intelem(p) = intelem(p)
  BY DEF Par!Serial!intelem, intelem, Par!Serial!Elem, Elem
<1>6. \A S : Par!Serial!neighboringelements(S) = neighboringelements(S)
  BY DEF Par!Serial!neighboringelements, neighboringelements
<1>7. \A p : Par!Serial!extelem(p) = extelem(p)
  BY <1>5, <1>6 DEF Par!Serial!extelem, extelem
<1>8. \A p : Par!Serial!bndelem(p) = bndelem(p)
  BY <1>5, <1>6, <1>7 DEF Par!Serial!bndelem, bndelem
<1>9. \A p : Par!Serial!outelem(p) = outelem(p)
  BY <1>5, <1>6, <1>7 DEF Par!Serial!outelem, outelem
<1> QED
  BY <1>1, <1>2, <1>3, <1>4, <1>5, <1>7, <1>8, <1>9

(* The mesh as the ranks read it: a rank reads a block, and the blocks are *)
(* the mesh, each element in one of them.                                  *)
LEMMA BlocksAreMesh ==
  /\ \A r \in Proc : Par!Block(r) \subseteq Elem
  /\ \A e \in Elem : \E r \in Proc : e \in Par!Block(r)
  /\ \A r, q \in Proc : r # q => Par!Block(r) \cap Par!Block(q) = {}
<1> DEFINE base == Ne \div Nproc
           rem == Ne % Nproc
           offset(r) == IF r < rem THEN r * (base + 1) ELSE rem + r * base
<1>1. Ne \in Nat /\ Nproc \in Nat /\ Nproc > 0
  BY NeAssumption, NprocAssumption
<1>2. base \in Nat /\ rem \in Nat /\ rem < Nproc /\ Ne = Nproc * base + rem
  BY <1>1
<1>3. \A r : Par!Block(r) = offset(r) .. offset(r) + base + (IF r < rem THEN 1 ELSE 0) - 1
  BY DEF Par!Block
<1> HIDE DEF base, rem
<1>4. ASSUME NEW r \in 0 .. Nproc PROVE r * base \in Nat /\ Nproc * base \in Nat /\ r * base <= Nproc * base
  <2>1. r * base \in Nat /\ Nproc * base \in Nat /\ (Nproc - r) * base \in Nat
    BY <1>1, <1>2
  <2>2. Nproc * base = r * base + (Nproc - r) * base
    BY <1>1, <1>2
  <2> QED
    BY <2>1, <2>2
<1>5. ASSUME NEW r \in 0 .. Nproc PROVE r * (base + 1) = r * base + r
  BY <1>1, <1>2
<1>6. ASSUME NEW r \in Nat, r < Nproc PROVE (r + 1) * base = r * base + base
  BY <1>1, <1>2
<1>7. \A r \in 0 .. Nproc : offset(r) \in 0 .. Ne
  BY <1>1, <1>2, <1>4, <1>5
<1>8. offset(0) = 0 /\ offset(Nproc) = Ne
  BY <1>1, <1>2
<1>9. ASSUME NEW r \in Nat, r < Nproc
      PROVE  offset(r + 1) = offset(r) + base + (IF r < rem THEN 1 ELSE 0)
  <2>1. r \in 0 .. Nproc /\ r + 1 \in 0 .. Nproc
    BY <1>1, <1>9
  <2>2. (r + 1) * base = r * base + base /\ r * base \in Nat
    BY <1>4, <1>6, <1>9, <2>1
  <2>3. r * (base + 1) = r * base + r /\ (r + 1) * (base + 1) = (r + 1) * base + (r + 1)
    BY <1>5, <2>1
  <2> QED
    BY <1>2, <1>9, <2>2, <2>3
<1> HIDE DEF offset
<1>10. ASSUME NEW r \in Nat, r < Nproc PROVE Par!Block(r) = offset(r) .. offset(r + 1) - 1
  <2>1. r \in 0 .. Nproc
    BY <1>1, <1>10
  <2>2. offset(r) \in Int /\ base \in Int
    BY <1>2, <1>7, <2>1
  <2>3. offset(r + 1) - 1 = offset(r) + base + (IF r < rem THEN 1 ELSE 0) - 1
    BY <1>9, <1>10, <2>2
  <2> QED
    BY <1>3, <2>3
<1>11. ASSUME NEW r \in Proc PROVE Par!Block(r) \subseteq Elem
  <2>1. r \in Nat /\ r < Nproc /\ r \in 0 .. Nproc /\ r + 1 \in 0 .. Nproc
    BY <1>1 DEF Proc
  <2>2. offset(r) \in 0 .. Ne /\ offset(r + 1) \in 0 .. Ne
    BY <1>7, <2>1
  <2> QED
    BY <1>1, <1>10, <2>1, <2>2 DEF Elem
<1>12. ASSUME NEW e \in Elem PROVE \E r \in Proc : e \in Par!Block(r)
  <2> DEFINE T == {r \in 1 .. Nproc : e < offset(r)}
  <2>1. T \in SUBSET Nat /\ Nproc \in T
    BY <1>1, <1>8 DEF Elem
  <2>2. PICK r \in T : \A l \in T : r <= l
    <3> HIDE DEF T
    <3> QED
      BY <2>1, LeastNatural
  <2>3. r - 1 \in Nat /\ r - 1 < Nproc /\ r - 1 \in 0 .. Nproc /\ r - 1 \in Proc
    BY <1>1 DEF Proc
  <2>4. offset(r - 1) <= e
    <3>1. CASE r = 1
      BY <1>8, <3>1 DEF Elem
    <3>2. CASE r # 1
      <4>1. r - 1 \in 1 .. Nproc /\ ~(r <= r - 1)
        BY <1>1, <3>2
      <4>2. ~(e < offset(r - 1))
        BY <2>2, <4>1
      <4> QED
        BY <1>1, <1>7, <2>3, <4>2 DEF Elem
    <3> QED
      BY <3>1, <3>2
  <2>5. (r - 1) + 1 = r /\ r \in 0 .. Nproc
    BY <1>1
  <2>6. e \in offset(r - 1) .. offset(r) - 1
    BY <1>1, <1>7, <2>3, <2>4, <2>5 DEF Elem
  <2> QED
    BY <1>10, <2>3, <2>5, <2>6
<1>13. ASSUME NEW r \in Proc, NEW q \in Proc, r < q PROVE offset(r + 1) <= offset(q)
  <2> DEFINE T == {l \in r + 1 .. q : offset(r + 1) > offset(l)}
  <2>1. r \in Nat /\ q \in Nat /\ r + 1 <= q /\ q < Nproc
    BY <1>1, <1>13 DEF Proc
  <2>2. T = {}
    <3> SUFFICES ASSUME T # {} PROVE FALSE
      OBVIOUS
    <3>1. T \in SUBSET Nat
      BY <2>1
    <3>2. PICK l \in T : \A k \in T : l <= k
      <4> HIDE DEF T
      <4> QED
        BY <3>1, LeastNatural
    <3>3. r + 1 \in 0 .. Nproc /\ l \in 0 .. Nproc /\ offset(r + 1) \in Nat /\ offset(l) \in Nat
      BY <1>1, <1>7, <2>1
    <3>4. l # r + 1
      BY <3>3
    <3>5. /\ l - 1 \in r + 1 .. q /\ l - 1 \in Nat /\ l - 1 < Nproc /\ l - 1 \in 0 .. Nproc
          /\ ~(l <= l - 1) /\ (l - 1) + 1 = l
      <4>1. l \in Nat /\ r + 1 <= l /\ l <= q
        BY <2>1
      <4> HIDE DEF T
      <4> QED
        BY <1>1, <2>1, <3>4, <4>1
    <3>6. ~(offset(r + 1) > offset(l - 1)) /\ offset(l - 1) \in Nat
      BY <1>7, <3>2, <3>5
    <3>7. offset(l) = offset(l - 1) + base + (IF l - 1 < rem THEN 1 ELSE 0)
      BY <1>9, <3>5
    <3> QED
      BY <1>2, <3>3, <3>6, <3>7
  <2>3. q \in r + 1 .. q /\ offset(r + 1) \in Nat /\ offset(q) \in Nat
    BY <1>1, <1>7, <2>1
  <2> QED
    BY <2>2, <2>3
<1>14. ASSUME NEW r \in Proc, NEW q \in Proc, r < q PROVE Par!Block(r) \cap Par!Block(q) = {}
  <2>1. r \in Nat /\ r < Nproc /\ q \in Nat /\ q < Nproc
    BY <1>1 DEF Proc
  <2>2. offset(r + 1) <= offset(q)
    BY <1>13, <1>14
  <2>3. offset(r) \in Nat /\ offset(r + 1) \in Nat /\ offset(q) \in Nat /\ offset(q + 1) \in Nat
    BY <1>1, <1>7, <2>1
  <2>4. /\ Par!Block(r) = offset(r) .. offset(r + 1) - 1
        /\ Par!Block(q) = offset(q) .. offset(q + 1) - 1
    BY <1>10, <2>1
  <2> QED
    BY <2>2, <2>3, <2>4
<1>15. ASSUME NEW r \in Proc, NEW q \in Proc, r # q PROVE Par!Block(r) \cap Par!Block(q) = {}
  <2>1. r < q \/ q < r
    BY <1>15 DEF Proc
  <2> QED
    BY <1>14, <2>1
<1> QED
  BY <1>11, <1>12, <1>15

(* After the elements have moved, a rank has those it owns, each once.     *)
LEMMA MigratedAre ==
  ASSUME NEW p \in Proc
  PROVE  /\ Par!Migrated(p) \in Seq(Elem)
         /\ \A j, l \in 1 .. Len(Par!Migrated(p)) :
              Par!Migrated(p)[j] = Par!Migrated(p)[l] => j = l
         /\ \A e : e \in intelem(p) <=> \E j \in 1 .. Len(Par!Migrated(p)) : Par!Migrated(p)[j] = e
<1> DEFINE A == Par!Arrivals(p)
           Less == {q \in A \X A : Par!Serial!RequestLess(q[1], q[2])}
           s == InOrder(A, Less)
           N == Cardinality(A)
<1>1. A = {q \in UNION {{r} \X Par!Block(r) : r \in Proc} : elem2cpu[q[2]] = p}
  BY SameOperators DEF Par!Arrivals
<1>2. A \subseteq Proc \X Elem
  BY <1>1, BlocksAreMesh
<1>3. \A e : e \in intelem(p) <=> \E q \in A : q[2] = e
  <2>1. ASSUME NEW e \in intelem(p) PROVE \E q \in A : q[2] = e
    <3>1. PICK r \in Proc : e \in Par!Block(r)
      BY BlocksAreMesh DEF intelem
    <3>2. <<r, e>> \in A
      BY <1>1, <3>1 DEF intelem
    <3> QED
      BY <3>2
  <2>2. ASSUME NEW q \in A PROVE q[2] \in intelem(p)
    BY <1>1, <1>2 DEF intelem
  <2> QED
    BY <2>1, <2>2
<1>4. \A q, r \in A : q[2] = r[2] => q = r
  <2> SUFFICES ASSUME NEW q \in A, NEW r \in A, q[2] = r[2] PROVE q = r
    OBVIOUS
  <2>1. /\ q = <<q[1], q[2]>> /\ q[1] \in Proc /\ q[2] \in Par!Block(q[1])
        /\ r = <<r[1], r[2]>> /\ r[1] \in Proc /\ r[2] \in Par!Block(r[1])
    BY <1>1
  <2>2. q[1] = r[1]
    BY <2>1, BlocksAreMesh
  <2> QED
    BY <2>1, <2>2
<1>5. IsFiniteSet(A)
  <2>1. IsFiniteSet(Proc) /\ IsFiniteSet(Elem)
    BY NprocAssumption, NeAssumption, FS_Interval DEF Proc, Elem
  <2>2. IsFiniteSet(Proc \X Elem)
    BY <2>1, FS_Product
  <2> QED
    BY <1>2, <2>2, FS_Subset
<1>6. StrictOrder(A, Less)
  <2>1. \A q \in A : q = <<q[1], q[2]>> /\ q[1] \in Int /\ q[2] \in Int
    BY <1>2, NprocAssumption, NeAssumption DEF Proc, Elem
  <2>2. \A q, r \in A : <<q, r>> \in Less <=> (q[1] < r[1] \/ (q[1] = r[1] /\ q[2] < r[2]))
    BY DEF Par!Serial!RequestLess
  <2> HIDE DEF A, Less
  <2>3. ASSUME NEW x \in A, NEW y \in A, x # y PROVE <<x, y>> \in Less \/ <<y, x>> \in Less
    <3>1. x[1] # y[1] \/ x[2] # y[2]
      BY <2>1, <2>3
    <3> QED
      BY <2>1, <2>2, <3>1
  <2>4. \A x \in A : <<x, x>> \notin Less
    BY <2>1, <2>2
  <2>5. ASSUME NEW x \in A, NEW y \in A, NEW z \in A, <<x, y>> \in Less, <<y, z>> \in Less
        PROVE  <<x, z>> \in Less
    BY <2>1, <2>2, <2>5
  <2> QED
    BY <2>3, <2>4, <2>5 DEF StrictOrder
<1>7. Par!Migrated(p) = [j \in 1 .. Len(s) |-> s[j][2]]
  BY SameOperators DEF Par!Migrated
<1> HIDE DEF A, Less
<1>8. /\ Listing(s, A, Less)
      /\ \A j, l \in 1 .. N : s[j] = s[l] => j = l
      /\ \A x \in A : \E j \in 1 .. N : s[j] = x
  BY <1>5, <1>6, InOrderLists, ListingRanks
<1>9. N \in Nat /\ s \in [1 .. N -> A]
  BY <1>5, <1>8, FS_CardinalityType DEF Listing
<1> HIDE DEF s, N
<1>10. Len(s) = N
  BY <1>9
<1>11. Par!Migrated(p) \in [1 .. N -> Elem]
  BY <1>2, <1>7, <1>9, <1>10
<1>12. Par!Migrated(p) \in Seq(Elem) /\ Len(Par!Migrated(p)) = N
  BY <1>9, <1>11
<1>13. \A j \in 1 .. N : Par!Migrated(p)[j] = s[j][2] /\ s[j] \in A
  BY <1>7, <1>9, <1>10
<1>14. \A j, l \in 1 .. N : Par!Migrated(p)[j] = Par!Migrated(p)[l] => j = l
  BY <1>8, <1>13, <1>4
<1> QED
  BY <1>3, <1>8, <1>12, <1>13, <1>14

-----------------------------------------------------------------------------
(* What the ranks know about the mesh.                                     *)

(* The inputs: periodic pairs are pairs of neighbours.                     *)
ParInputs ==
  /\ InputsFixed
  /\ hybrid \in {0, 1}
  /\ \A e, f : Par!IsPeriodic(e, f) => e \in Elem /\ f \in e2e[e]

(* Every rank has the elements it owns.                                    *)
Moved ==
  \A p \in Proc :
    /\ elemGlobalID[p] \in Seq(Elem)
    /\ \A j, l \in 1 .. Len(elemGlobalID[p]) : elemGlobalID[p][j] = elemGlobalID[p][l] => j = l
    /\ \A e : e \in intelem(p) <=> \E j \in 1 .. Len(elemGlobalID[p]) : elemGlobalID[p][j] = e

(* The faces joined so far: within a rank, then between ranks, then all,   *)
(* periodic ones included.                                                 *)
Found(stage, e, f) ==
  /\ f \in e2e[e]
  /\ stage < 3 => ~Par!IsPeriodic(e, f)
  /\ stage < 2 => elem2cpu[e] = elem2cpu[f]

(* t2t and nbinfo tell of exactly the faces joined so far.                 *)
Topology(stage) ==
  /\ \A e \in Elem :
       /\ DOMAIN t2t[e] = Par!Faces(e)
       /\ \A f \in Par!Faces(e) : t2t[e][f] = IF Found(stage, e, f) THEN f ELSE -1
  /\ \A p \in Proc : \A r :
       r \in nbinfo[p] <=>
         \E e \in intelem(p) : \E f \in e2e[e] :
           elem2cpu[f] # p /\ Found(stage, e, f) /\ r = <<e, f, elem2cpu[f]>>

(* The collective steps still to come.                                     *)
Early == {"migrate", "neighbors", "periodic"}

(* How far the collective steps have come.                                 *)
Collected ==
  \/ Par!AllAt("migrate") /\ nbinfo = [p \in Proc |-> {}]
  \/ Par!AllAt("neighbors") /\ Moved /\ Topology(1)
  \/ Par!AllAt("periodic") /\ Moved /\ Topology(2)
  \/ (\A p \in Proc : pc[p] \notin Early) /\ Moved /\ Topology(3)

(* No wall is an element.                                                  *)
LEMMA FacesOf ==
  ASSUME ParInputs, NEW e \in Elem
  PROVE  /\ e2e[e] \subseteq Par!Faces(e)
         /\ \A f \in Par!Faces(e) : f \in e2e[e] \/ (f = -1 /\ f \notin e2e[e])
         /\ \A f \in e2e[e] : f \in Elem /\ f # -1 /\ e \in e2e[f]
<1>1. \A f \in e2e[e] : f \in Elem /\ f # -1 /\ e \in e2e[f]
  BY NeAssumption DEF ParInputs, InputsFixed, Conforming, Elem
<1> QED
  BY <1>1 DEF Par!Faces

(* A collective call starts when every rank is in the one before it.       *)
LEMMA SomeRank == 0 \in Proc
  BY NprocAssumption DEF Proc

(* ParMETIS moves the elements, and the faces within a rank are found.     *)
LEMMA CallParMetisKeeps ==
  ASSUME ParInputs, Collected, Par!CallParMetis
  PROVE  Collected'
<1>1. nbinfo = [p \in Proc |-> {}]
  <2>1. Par!AllAt("migrate")
    BY DEF Par!CallParMetis
  <2>2. pc[0] = "migrate"
    BY <2>1, SomeRank, SameOperators DEF Par!AllAt
  <2> QED
    BY <2>2, SomeRank, SameOperators DEF Collected, Par!AllAt, Early
<1>2. /\ elemGlobalID' = [p \in Proc |-> Par!Migrated(p)]
      /\ t2t' = [e \in Elem |-> [f \in Par!Faces(e) |->
                   IF Par!SameNodes(e, f) /\ elem2cpu[f] = elem2cpu[e] THEN f ELSE -1]]
      /\ pc' = [p \in Proc |-> "neighbors"]
      /\ nbinfo' = nbinfo
      /\ UNCHANGED <<e2e, elem2cpu, hybrid, walls, periodic>>
  BY SameOperators DEF Par!CallParMetis, Par!inputs
<1>3. \A p : intelem(p)' = intelem(p)
  BY <1>2 DEF intelem
<1>4. \A e, f : Par!Faces(e)' = Par!Faces(e) /\ Found(1, e, f)' = Found(1, e, f)
  BY <1>2 DEF Par!Faces, Found, Par!IsPeriodic
<1>5. Moved'
  BY <1>2, <1>3, MigratedAre DEF Moved
<1>6. ASSUME NEW e \in Elem
      PROVE  /\ DOMAIN t2t'[e] = Par!Faces(e)
             /\ \A f \in Par!Faces(e) : t2t'[e][f] = IF Found(1, e, f) THEN f ELSE -1
  BY <1>2 DEF Found, Par!SameNodes
<1>7. ASSUME NEW p \in Proc, NEW r
      PROVE  (r \in nbinfo'[p] <=>
                \E e \in intelem(p) : \E f \in e2e[e] :
                  elem2cpu[f] # p /\ Found(1, e, f) /\ r = <<e, f, elem2cpu[f]>>)
  BY <1>1, <1>2 DEF Found, intelem
<1>8. Topology(1)'
  BY <1>2, <1>3, <1>4, <1>6, <1>7 DEF Topology
<1>9. Par!AllAt("neighbors")'
  BY <1>2, SameOperators DEF Par!AllAt
<1> QED
  BY <1>5, <1>8, <1>9 DEF Collected

(* The faces between ranks are found by both.                              *)
LEMMA FirstNeighborsKeep ==
  ASSUME ParInputs, Collected, Par!mke2e_fill_first_neighbors
  PROVE  Collected'
<1>1. Moved /\ Topology(1)
  <2>1. Par!AllAt("neighbors")
    BY DEF Par!mke2e_fill_first_neighbors
  <2>2. pc[0] = "neighbors"
    BY <2>1, SomeRank, SameOperators DEF Par!AllAt
  <2> QED
    BY <2>2, SomeRank, SameOperators DEF Collected, Par!AllAt, Early
<1>2. /\ t2t' = [e \in Elem |-> [f \in DOMAIN t2t[e] |->
                   IF f \in Elem /\ Par!Matched(e, f) THEN f ELSE t2t[e][f]]]
      /\ nbinfo' = [p \in Proc |->
           {<<pair[1], pair[2], elem2cpu[pair[2]]>> :
              pair \in {q \in Par!ToSet(elemGlobalID[p]) \X Elem : Par!Matched(q[1], q[2])}}]
      /\ pc' = [p \in Proc |-> "periodic"]
      /\ UNCHANGED <<e2e, elem2cpu, hybrid, walls, periodic, elemGlobalID>>
  BY SameOperators DEF Par!mke2e_fill_first_neighbors, Par!inputs
<1>3. \A p : intelem(p)' = intelem(p)
  BY <1>2 DEF intelem
<1>4. \A e, f : Par!Faces(e)' = Par!Faces(e) /\ Found(2, e, f)' = Found(2, e, f)
  BY <1>2 DEF Par!Faces, Found, Par!IsPeriodic
<1>5. Moved'
  BY <1>1, <1>2, <1>3 DEF Moved
<1>6. ASSUME NEW e \in Elem, NEW f \in Elem
      PROVE  Par!Matched(e, f) <=> Found(2, e, f) /\ elem2cpu[f] # elem2cpu[e]
  <2>1. CASE ~Par!SameNodes(e, f)
    BY <2>1 DEF Par!Matched, Par!SameNodes, Found
  <2>2. CASE Par!SameNodes(e, f)
    <3>1. f \in e2e[e] /\ e \in e2e[f] /\ f \in Par!Faces(e) /\ e \in Par!Faces(f)
      BY <2>2, FacesOf DEF Par!SameNodes
    <3>2. e # -1 /\ f # -1
      BY NeAssumption DEF Elem
    <3>3. Found(1, e, f) <=> elem2cpu[e] = elem2cpu[f]
      BY <2>2, <3>1 DEF Found, Par!SameNodes
    <3>4. Found(1, f, e) <=> elem2cpu[e] = elem2cpu[f]
      BY <2>2, <3>1 DEF Found, Par!SameNodes, Par!IsPeriodic
    <3>5. /\ t2t[e][f] = IF Found(1, e, f) THEN f ELSE -1
          /\ t2t[f][e] = IF Found(1, f, e) THEN e ELSE -1
      BY <1>1, <3>1 DEF Topology
    <3> QED
      BY <2>2, <3>1, <3>2, <3>3, <3>4, <3>5 DEF Par!Matched, Par!SameNodes, Found
  <2> QED
    BY <2>1, <2>2
<1>7. ASSUME NEW e \in Elem
      PROVE  /\ DOMAIN t2t'[e] = Par!Faces(e)
             /\ \A f \in Par!Faces(e) : t2t'[e][f] = IF Found(2, e, f) THEN f ELSE -1
  <2>1. DOMAIN t2t[e] = Par!Faces(e)
    BY <1>1 DEF Topology
  <2>2. ASSUME NEW f \in Par!Faces(e)
        PROVE  t2t'[e][f] = IF Found(2, e, f) THEN f ELSE -1
    <3>1. t2t[e][f] = IF Found(1, e, f) THEN f ELSE -1
      BY <1>1 DEF Topology
    <3>2. CASE f \in e2e[e]
      <4>1. f \in Elem
        BY <3>2, FacesOf
      <4>2. t2t'[e][f] = IF Par!Matched(e, f) THEN f ELSE t2t[e][f]
        BY <1>2, <2>1, <4>1
      <4> QED
        BY <1>6, <3>1, <4>1, <4>2 DEF Found
    <3>3. CASE f \notin e2e[e]
      <4>1. f = -1 /\ f \notin Elem
        BY <3>3, FacesOf, NeAssumption DEF Elem
      <4> QED
        BY <1>2, <2>1, <3>1, <4>1
    <3> QED
      BY <3>2, <3>3
  <2> QED
    BY <1>2, <2>1, <2>2
<1>8. ASSUME NEW p \in Proc, NEW r
      PROVE  (r \in nbinfo'[p] <=>
                \E e \in intelem(p) : \E f \in e2e[e] :
                  elem2cpu[f] # p /\ Found(2, e, f) /\ r = <<e, f, elem2cpu[f]>>)
  <2>1. \A e : e \in Par!ToSet(elemGlobalID[p]) <=> e \in intelem(p)
    <3>1. DOMAIN elemGlobalID[p] = 1 .. Len(elemGlobalID[p])
      BY <1>1 DEF Moved
    <3> QED
      BY <1>1, <3>1 DEF Moved, Par!ToSet
  <2>2. r \in nbinfo'[p] <=>
          \E e \in intelem(p) : \E f \in Elem : Par!Matched(e, f) /\ r = <<e, f, elem2cpu[f]>>
    <3> DEFINE own == Par!ToSet(elemGlobalID[p])
    <3>1. r \in nbinfo'[p] <=>
            \E q \in own \X Elem : Par!Matched(q[1], q[2]) /\ r = <<q[1], q[2], elem2cpu[q[2]]>>
      BY <1>2
    <3> HIDE DEF own
    <3>2. \A q \in own \X Elem : q[1] \in own /\ q[2] \in Elem
      OBVIOUS
    <3>3. ASSUME NEW e \in own, NEW f \in Elem
          PROVE  <<e, f>> \in own \X Elem /\ <<e, f>>[1] = e /\ <<e, f>>[2] = f
      OBVIOUS
    <3>4. \A e : e \in own <=> e \in intelem(p)
      BY <2>1 DEF own
    <3>5. ASSUME NEW e \in own, NEW f \in Elem, Par!Matched(e, f), r = <<e, f, elem2cpu[f]>>
          PROVE  \E q \in own \X Elem : Par!Matched(q[1], q[2]) /\ r = <<q[1], q[2], elem2cpu[q[2]]>>
      <4> WITNESS <<e, f>> \in own \X Elem
      <4> QED
        BY <3>3, <3>5
    <3>6. ASSUME NEW q \in own \X Elem, Par!Matched(q[1], q[2]), r = <<q[1], q[2], elem2cpu[q[2]]>>
          PROVE  \E e \in own : \E f \in Elem : Par!Matched(e, f) /\ r = <<e, f, elem2cpu[f]>>
      BY <3>2, <3>6
    <3> QED
      BY <3>1, <3>4, <3>5, <3>6
  <2>3. \A e \in intelem(p) : e \in Elem /\ elem2cpu[e] = p /\ e2e[e] \subseteq Elem
    BY DEF intelem, ParInputs, InputsFixed
  <2> QED
    BY <1>6, <2>2, <2>3 DEF Found
<1>9. Topology(2)'
  <2>1. \A p \in Proc : \A r :
          r \in nbinfo'[p] <=>
            \E e \in intelem(p)' : \E f \in e2e'[e] :
              elem2cpu'[f] # p /\ Found(2, e, f)' /\ r = <<e, f, elem2cpu'[f]>>
    BY <1>2, <1>3, <1>4, <1>8
  <2>2. \A e \in Elem :
          /\ DOMAIN t2t'[e] = Par!Faces(e)'
          /\ \A f \in Par!Faces(e)' : t2t'[e][f] = IF Found(2, e, f)' THEN f ELSE -1
    BY <1>4, <1>7
  <2> QED
    BY <2>1, <2>2 DEF Topology
<1>10. Par!AllAt("periodic")'
  BY <1>2, SameOperators DEF Par!AllAt
<1> QED
  BY <1>5, <1>9, <1>10 DEF Collected

(* The periodic faces complete what the ranks know.                        *)
LEMMA PeriodicFacesKeep ==
  ASSUME ParInputs, Collected, Par!setperiodicfaces
  PROVE  Collected'
<1>1. Moved /\ Topology(2)
  <2>1. Par!AllAt("periodic")
    BY DEF Par!setperiodicfaces
  <2>2. pc[0] = "periodic"
    BY <2>1, SomeRank, SameOperators DEF Par!AllAt
  <2> QED
    BY <2>2, SomeRank, SameOperators DEF Collected, Par!AllAt, Early
<1>2. /\ t2t' = [e \in Elem |-> [f \in DOMAIN t2t[e] |->
                   IF Par!IsPeriodic(e, f) THEN f ELSE t2t[e][f]]]
      /\ nbinfo' = [p \in Proc |-> nbinfo[p] \cup Par!PeriodicRecords(p)]
      /\ pc' = [p \in Proc |-> "classify"]
      /\ UNCHANGED <<e2e, elem2cpu, hybrid, walls, periodic, elemGlobalID>>
  BY SameOperators DEF Par!setperiodicfaces, Par!inputs
<1>3. \A p : intelem(p)' = intelem(p)
  BY <1>2 DEF intelem
<1>4. \A e, f : Par!Faces(e)' = Par!Faces(e) /\ Found(3, e, f)' = Found(3, e, f)
  BY <1>2 DEF Par!Faces, Found, Par!IsPeriodic
<1>5. Moved'
  BY <1>1, <1>2, <1>3 DEF Moved
<1>6. \A e, f : Found(3, e, f) <=> Found(2, e, f) \/ Par!IsPeriodic(e, f)
  BY DEF Found, ParInputs
<1>7. ASSUME NEW e \in Elem
      PROVE  /\ DOMAIN t2t'[e] = Par!Faces(e)
             /\ \A f \in Par!Faces(e) : t2t'[e][f] = IF Found(3, e, f) THEN f ELSE -1
  <2>1. /\ DOMAIN t2t[e] = Par!Faces(e)
        /\ \A f \in Par!Faces(e) : t2t[e][f] = IF Found(2, e, f) THEN f ELSE -1
    BY <1>1 DEF Topology
  <2>2. t2t'[e] = [f \in Par!Faces(e) |-> IF Par!IsPeriodic(e, f) THEN f ELSE t2t[e][f]]
    BY <1>2, <2>1
  <2> QED
    BY <1>6, <2>1, <2>2
<1>8. ASSUME NEW p \in Proc, NEW r
      PROVE  (r \in nbinfo'[p] <=>
                \E e \in intelem(p) : \E f \in e2e[e] :
                  elem2cpu[f] # p /\ Found(3, e, f) /\ r = <<e, f, elem2cpu[f]>>)
  <2>1. r \in nbinfo'[p] <=> r \in nbinfo[p] \/ r \in Par!PeriodicRecords(p)
    BY <1>2
  <2>2. r \in nbinfo[p] <=>
          \E e \in intelem(p) : \E f \in e2e[e] :
            elem2cpu[f] # p /\ Found(2, e, f) /\ r = <<e, f, elem2cpu[f]>>
    BY <1>1 DEF Topology
  <2>3. r \in Par!PeriodicRecords(p) <=>
          \E e \in Elem : \E f \in Elem :
            /\ Par!IsPeriodic(e, f) /\ elem2cpu[e] = p /\ elem2cpu[f] # p
            /\ r = <<e, f, elem2cpu[f]>>
    <3>1. r \in Par!PeriodicRecords(p) <=>
            \E q \in Elem \X Elem :
              /\ Par!IsPeriodic(q[1], q[2]) /\ elem2cpu[q[1]] = p /\ elem2cpu[q[2]] # p
              /\ r = <<q[1], q[2], elem2cpu[q[2]]>>
      BY SameOperators DEF Par!PeriodicRecords
    <3>2. \A q \in Elem \X Elem : q[1] \in Elem /\ q[2] \in Elem
      OBVIOUS
    <3>3. ASSUME NEW e \in Elem, NEW f \in Elem
          PROVE  <<e, f>> \in Elem \X Elem /\ <<e, f>>[1] = e /\ <<e, f>>[2] = f
      OBVIOUS
    <3> DEFINE Joins(e, f) == /\ Par!IsPeriodic(e, f) /\ elem2cpu[e] = p /\ elem2cpu[f] # p
                              /\ r = <<e, f, elem2cpu[f]>>
    <3>4. r \in Par!PeriodicRecords(p) <=> \E q \in Elem \X Elem : Joins(q[1], q[2])
      BY <3>1
    <3> HIDE DEF Joins
    <3>5. ASSUME NEW e \in Elem, NEW f \in Elem, Joins(e, f)
          PROVE  \E q \in Elem \X Elem : Joins(q[1], q[2])
      <4> WITNESS <<e, f>> \in Elem \X Elem
      <4> QED
        BY <3>3, <3>5
    <3>6. r \in Par!PeriodicRecords(p) <=> \E e \in Elem : \E f \in Elem : Joins(e, f)
      BY <3>2, <3>4, <3>5
    <3> QED
      BY <3>6 DEF Joins
  <2>4. \A e, f : Par!IsPeriodic(e, f) => e \in Elem /\ f \in e2e[e] /\ f \in Elem
    BY DEF ParInputs, InputsFixed
  <2>5. r \in Par!PeriodicRecords(p) <=>
          \E e \in intelem(p) : \E f \in e2e[e] :
            elem2cpu[f] # p /\ Par!IsPeriodic(e, f) /\ r = <<e, f, elem2cpu[f]>>
    BY <2>3, <2>4 DEF intelem
  <2> QED
    BY <1>6, <2>1, <2>2, <2>5
<1>9. Topology(3)'
  <2>1. \A p \in Proc : \A r :
          r \in nbinfo'[p] <=>
            \E e \in intelem(p)' : \E f \in e2e'[e] :
              elem2cpu'[f] # p /\ Found(3, e, f)' /\ r = <<e, f, elem2cpu'[f]>>
    BY <1>2, <1>3, <1>4, <1>8
  <2>2. \A e \in Elem :
          /\ DOMAIN t2t'[e] = Par!Faces(e)'
          /\ \A f \in Par!Faces(e)' : t2t'[e][f] = IF Found(3, e, f)' THEN f ELSE -1
    BY <1>4, <1>7
  <2> QED
    BY <2>1, <2>2 DEF Topology
<1>10. \A p \in Proc : pc'[p] \notin Early
  BY <1>2 DEF Early
<1> QED
  BY <1>5, <1>9, <1>10 DEF Collected

-----------------------------------------------------------------------------
(* The classification of the elements of a rank.                           *)

(* The elements of S, each with its owner.                                 *)
WithOwners(S) == {<<f, elem2cpu[f]>> : f \in S}

(* The local elements of a rank, and those in its interface.               *)
LocalIDs(p) == 0 .. Len(elemGlobalID[p]) - 1
OnInterface(p) == {l \in LocalIDs(p) : elemGlobalID[p][l + 1] \in bndelem(p)}

(* The classification: T, the elements at a wall, only orders the interior. *)
Classes(c, p) ==
  /\ \E T : /\ Holds(c.boundary, (LocalIDs(p) \ OnInterface(p)) \cap T)
            /\ Holds(c.interior, (LocalIDs(p) \ OnInterface(p)) \ T)
  /\ Holds(c.interface, OnInterface(p))
  /\ Holds(c.neighbor, WithOwners(extelem(p)))

(* The interface elements are those with a face on another rank, and the   *)
(* exterior ones lie across these faces.                                   *)
LEMMA RemoteFaces ==
  ASSUME InputsFixed, NEW p \in Proc
  PROVE  /\ \A e \in intelem(p) : e \in bndelem(p) <=> \E f \in e2e[e] : elem2cpu[f] # p
         /\ \A f : f \in extelem(p) <=> \E e \in intelem(p) : f \in e2e[e] /\ elem2cpu[f] # p
         /\ extelem(p) \subseteq Elem
<1>1. \A e \in intelem(p) : e \in Elem /\ elem2cpu[e] = p /\ e2e[e] \subseteq Elem
  BY DEF intelem, InputsFixed
<1>2. \A f : f \in extelem(p) <=> \E e \in intelem(p) : f \in e2e[e] /\ elem2cpu[f] # p
  BY <1>1 DEF extelem, neighboringelements, intelem
<1>3. ASSUME NEW e \in intelem(p), e \in bndelem(p)
      PROVE  \E f \in e2e[e] : elem2cpu[f] # p
  <2>1. PICK f \in extelem(p) : e \in e2e[f]
    BY <1>3 DEF bndelem, neighboringelements
  <2>2. elem2cpu[f] # p /\ f \in Elem
    BY <1>1, <1>2, <2>1
  <2>3. f \in e2e[e]
    BY <1>1, <2>1, <2>2 DEF InputsFixed, Conforming
  <2> QED
    BY <2>2, <2>3
<1>4. ASSUME NEW e \in intelem(p), NEW f \in e2e[e], elem2cpu[f] # p
      PROVE  e \in bndelem(p)
  <2>1. f \in extelem(p) /\ e \in e2e[f]
    BY <1>1, <1>2, <1>4 DEF InputsFixed, Conforming
  <2> QED
    BY <2>1 DEF bndelem, neighboringelements
<1>5. extelem(p) \subseteq Elem
  BY <1>1, <1>2
<1> QED
  BY <1>2, <1>3, <1>4, <1>5

(* A sorted vector lists its set.                                          *)
LEMMA SortedListsSet ==
  ASSUME NEW n \in Nat, NEW S \in SUBSET (0 .. n - 1)
  PROVE  Holds(Sorted(S), S)
<1>1. IsFiniteSet(S) /\ S \in SUBSET Int
  <2>1. IsFiniteSet(0 .. n - 1)
    BY FS_Interval
  <2>2. IsFiniteSet(S)
    BY <2>1, FS_Subset
  <2> QED
    BY <2>2
<1> QED
  BY <1>1, SortedHolds

(* The neighbors are kept with their owners, each once, by element.        *)
LEMMA ByElementLists ==
  ASSUME InputsFixed, NEW S \in SUBSET Elem
  PROVE  Holds(Par!ByElement(WithOwners(S)), WithOwners(S))
<1> DEFINE A == WithOwners(S)
           Less == {q \in A \X A : q[1][1] < q[2][1]}
           N == Cardinality(A)
<1>1. IsFiniteSet(A)
  <2>1. IsFiniteSet(S)
    BY MeshSize, FS_Subset
  <2> DEFINE h == [x \in S |-> <<x, elem2cpu[x]>>]
  <2>2. h \in [S -> A] /\ (\A x, y \in S : h[x] = h[y] => x = y)
        /\ (\A y \in A : \E x \in S : h[x] = y)
    BY DEF WithOwners
  <2> HIDE DEF h, A
  <2> QED
    BY <2>1, <2>2, SameSize
<1>2. StrictOrder(A, Less)
  <2>1. \A x \in A : x[1] \in Int /\ x = <<x[1], elem2cpu[x[1]]>>
    BY NeAssumption DEF WithOwners, Elem
  <2>2. \A x, y \in A : <<x, y>> \in Less <=> x[1] < y[1]
    OBVIOUS
  <2> HIDE DEF A, Less
  <2>3. \A x, y \in A : x # y => x[1] # y[1]
    BY <2>1
  <2>4. \A x, y \in A : x # y => <<x, y>> \in Less \/ <<y, x>> \in Less
    BY <2>1, <2>2, <2>3
  <2>5. \A x \in A : <<x, x>> \notin Less
    BY <2>1, <2>2
  <2>6. \A x, y, z \in A : <<x, y>> \in Less /\ <<y, z>> \in Less => <<x, z>> \in Less
    BY <2>1, <2>2
  <2> QED
    BY <2>4, <2>5, <2>6 DEF StrictOrder
<1>3. Par!ByElement(A) = InOrder(A, Less)
  BY SameOperators DEF Par!ByElement
<1> HIDE DEF A, Less
<1>4. /\ Listing(InOrder(A, Less), A, Less)
      /\ \A j, l \in 1 .. N : InOrder(A, Less)[j] = InOrder(A, Less)[l] => j = l
      /\ \A x \in A : \E j \in 1 .. N : InOrder(A, Less)[j] = x
  BY <1>1, <1>2, InOrderLists, ListingRanks
<1> DEFINE s == InOrder(A, Less)
<1>5. N \in Nat /\ s \in [1 .. N -> A]
  BY <1>1, <1>4, FS_CardinalityType DEF Listing
<1> HIDE DEF s, N
<1>6. s \in Seq(A) /\ Len(s) = N
  BY <1>5
<1>7. Holds(s, A)
  BY <1>4, <1>6 DEF Holds, s, N
<1> QED
  BY <1>3, <1>7 DEF s, A

(* What ElementClassification finds.                                       *)
LEMMA ClassificationOf ==
  ASSUME ParInputs, Moved, Topology(3), NEW p \in Proc
  PROVE  /\ Classes(Par!Classification(p), p)
         /\ Par!Classification(p).outer = <<>>
         /\ DOMAIN Par!Classification(p) = {"boundary", "interior", "interface", "neighbor", "outer"}
<1> DEFINE c == Par!Classification(p)
           n == Len(elemGlobalID[p])
           own == 0 .. n - 1
           element(l) == elemGlobalID[p][l + 1]
           remote(l) == \E r \in nbinfo[p] : r[1] = element(l)
           T == {l \in own : \E f \in Par!Faces(element(l)) : t2t[element(l)][f] < 0}
           pairs == {<<r[2], r[3]>> : r \in nbinfo[p]}
<1>1. /\ c.boundary = Sorted({l \in own : ~remote(l) /\ l \in T})
      /\ c.interior = Sorted({l \in own : ~remote(l) /\ l \notin T})
      /\ c.interface = Sorted({l \in own : remote(l)})
      /\ c.neighbor = Par!ByElement(pairs)
      /\ c.outer = <<>>
      /\ DOMAIN c = {"boundary", "interior", "interface", "neighbor", "outer"}
  <2>1. /\ {l \in own : ~remote(l) /\ l \in T}
             = {l \in own : ~remote(l) /\ \E f \in Par!Faces(element(l)) : t2t[element(l)][f] < 0}
        /\ {l \in own : ~remote(l) /\ l \notin T}
             = {l \in own : ~remote(l) /\ ~\E f \in Par!Faces(element(l)) : t2t[element(l)][f] < 0}
    OBVIOUS
  <2> HIDE DEF T
  <2> QED
    BY <2>1, SameOperators DEF Par!Classification
<1>2. n \in Nat /\ \A l \in own : element(l) \in intelem(p)
  <2>1. elemGlobalID[p] \in Seq(Elem) /\ \A j \in 1 .. n : elemGlobalID[p][j] \in intelem(p)
    BY DEF Moved
  <2>2. n \in Nat
    BY <2>1
  <2>3. \A l \in own : l + 1 \in 1 .. n
    BY <2>2
  <2> QED
    BY <2>1, <2>2, <2>3
<1>3. \A r : r \in nbinfo[p] <=>
         \E e \in intelem(p) : \E f \in e2e[e] : elem2cpu[f] # p /\ r = <<e, f, elem2cpu[f]>>
  BY DEF Topology, Found
<1>4. ASSUME NEW l \in own PROVE remote(l) <=> element(l) \in bndelem(p)
  <2>1. element(l) \in intelem(p)
    BY <1>2
  <2>2. remote(l) <=> \E f \in e2e[element(l)] : elem2cpu[f] # p
    <3> HIDE DEF element, own
    <3>1. ASSUME NEW f \in e2e[element(l)], elem2cpu[f] # p PROVE remote(l)
      <4>1. <<element(l), f, elem2cpu[f]>> \in nbinfo[p]
        BY <1>3, <2>1, <3>1
      <4> QED
        BY <4>1
    <3>2. ASSUME NEW r \in nbinfo[p], r[1] = element(l)
          PROVE  \E f \in e2e[element(l)] : elem2cpu[f] # p
      BY <1>3, <3>2
    <3> QED
      BY <3>1, <3>2
  <2> QED
    BY <2>1, <2>2, RemoteFaces DEF ParInputs
<1>5. /\ {l \in own : ~remote(l) /\ l \in T} = (LocalIDs(p) \ OnInterface(p)) \cap T
      /\ {l \in own : ~remote(l) /\ l \notin T} = (LocalIDs(p) \ OnInterface(p)) \ T
      /\ {l \in own : remote(l)} = OnInterface(p)
  <2> HIDE DEF T, remote
  <2> QED
    BY <1>4 DEF LocalIDs, OnInterface
<1>6. pairs = WithOwners(extelem(p))
  <2>1. ASSUME NEW r \in nbinfo[p] PROVE <<r[2], r[3]>> \in WithOwners(extelem(p))
    <3>1. PICK e \in intelem(p) : \E f \in e2e[e] : elem2cpu[f] # p /\ r = <<e, f, elem2cpu[f]>>
      BY <1>3
    <3>3. PICK f \in e2e[e] : elem2cpu[f] # p /\ r = <<e, f, elem2cpu[f]>>
      BY <3>1
    <3>2. f \in extelem(p)
      BY <3>3, RemoteFaces DEF ParInputs
    <3> QED
      BY <3>2, <3>3 DEF WithOwners
  <2>2. ASSUME NEW f \in extelem(p) PROVE <<f, elem2cpu[f]>> \in pairs
    <3>1. PICK e \in intelem(p) : f \in e2e[e] /\ elem2cpu[f] # p
      BY RemoteFaces DEF ParInputs
    <3>2. <<e, f, elem2cpu[f]>> \in nbinfo[p]
      BY <1>3, <3>1
    <3> QED
      BY <3>2
  <2> QED
    BY <2>1, <2>2 DEF WithOwners
<1>7. Holds(c.boundary, (LocalIDs(p) \ OnInterface(p)) \cap T)
  BY <1>1, <1>2, <1>5, SortedListsSet DEF LocalIDs
<1>8. Holds(c.interior, (LocalIDs(p) \ OnInterface(p)) \ T)
  BY <1>1, <1>2, <1>5, SortedListsSet DEF LocalIDs
<1>9. Holds(c.interface, OnInterface(p))
  BY <1>1, <1>2, <1>5, SortedListsSet DEF LocalIDs, OnInterface
<1>10. Holds(c.neighbor, WithOwners(extelem(p)))
  <2>1. extelem(p) \in SUBSET Elem
    BY RemoteFaces DEF ParInputs
  <2> HIDE DEF c, pairs
  <2> QED
    BY <1>1, <1>6, <2>1, ByElementLists DEF ParInputs
<1> HIDE DEF c, T
<1>11. Classes(c, p)
  BY <1>7, <1>8, <1>9, <1>10 DEF Classes
<1> QED
  BY <1>1, <1>11 DEF c

(* Vectors that list pairs of element and owner.                           *)
LEMMA ListedOwners ==
  ASSUME NEW S, NEW s, Holds(s, WithOwners(S))
  PROVE  \A x : x \in Par!ToSet(s) <=> \E f \in S : x = <<f, elem2cpu[f]>>
<1>1. DOMAIN s = 1 .. Len(s) /\ \A j \in 1 .. Len(s) : s[j] \in WithOwners(S)
  BY DEF Holds
<1>2. \A x : x \in Par!ToSet(s) <=> x \in WithOwners(S)
  BY <1>1 DEF Par!ToSet, Holds
<1> QED
  BY <1>2 DEF WithOwners

(* A rank has the elements it owns in its local order.                     *)
LEMMA OwnElements ==
  ASSUME Moved, NEW p \in Proc
  PROVE  \A e : e \in Par!ToSet(elemGlobalID[p]) <=> e \in intelem(p)
<1>1. DOMAIN elemGlobalID[p] = 1 .. Len(elemGlobalID[p])
  BY DEF Moved
<1> QED
  BY <1>1 DEF Moved, Par!ToSet

-----------------------------------------------------------------------------
(* The second layer.  A row of rank k tells what lies around an element of *)
(* k that p sees.                                                          *)

(* x tells of an element next to e, or of a wall.                          *)
Around(e, x) ==
  \/ \E g \in e2e[e] : x = <<g, elem2cpu[g]>>
  \/ e \in walls /\ x = <<-1, -1>>

(* A message of rows from k to p: about elements of p, and telling all that *)
(* lies around the elements of k that have a neighbour on p.               *)
RowsTell(body, k, p) ==
  /\ \A row \in body : row[1] \in intelem(p)
  /\ \A x : (\E row \in body : x \in row[2]) <=>
              \E e \in intelem(k) : (\E f \in e2e[e] : elem2cpu[f] = p) /\ Around(e, x)

(* All messages of rows so far are of this kind.                           *)
RowsSent ==
  \A m \in msgs["rows"] :
    /\ m.from \in Proc /\ m.to \in Proc /\ m.from # m.to
    /\ RowsTell(m.body, m.from, m.to)

(* A rank knows the owner of its elements and of those next to them.       *)
LEMMA OwnerKnown ==
  ASSUME ParInputs, Moved, NEW p \in Proc, Holds(cls[p].neighbor, WithOwners(extelem(p))),
         NEW e \in intelem(p) \cup extelem(p)
  PROVE  Par!Owner(p, e) = elem2cpu[e]
<1> DEFINE known == {n \in Par!ToSet(cls[p].neighbor) : n[1] = e}
<1>1. \A x : x \in Par!ToSet(cls[p].neighbor) <=> \E f \in extelem(p) : x = <<f, elem2cpu[f]>>
  BY ListedOwners
<1>2. Par!Owner(p, e) = IF known # {} THEN (CHOOSE n \in known : TRUE)[2]
                        ELSE IF e \in Par!ToSet(elemGlobalID[p]) THEN p ELSE -1
  BY DEF Par!Owner
<1>3. \A n \in known : n[2] = elem2cpu[e]
  BY <1>1
<1>4. CASE e \in extelem(p)
  <2>1. <<e, elem2cpu[e]>> \in known
    BY <1>1, <1>4
  <2> HIDE DEF known
  <2> QED
    BY <1>2, <1>3, <2>1
<1>5. CASE e \notin extelem(p)
  <2>1. known = {}
    BY <1>1, <1>5
  <2>2. e \in intelem(p) /\ elem2cpu[e] = p
    BY <1>5 DEF intelem
  <2> HIDE DEF known
  <2> QED
    BY <1>2, <2>1, <2>2, OwnElements
<1> QED
  BY <1>4, <1>5

(* The row of an element names the elements across its faces.              *)
LEMMA RowOf ==
  ASSUME ParInputs, Moved, Topology(3),
         NEW p \in Proc, Holds(cls[p].neighbor, WithOwners(extelem(p))),
         NEW e \in intelem(p)
  PROVE  \A x : x \in Par!Row(p, e) <=> Around(e, x)
<1>1. e \in Elem /\ elem2cpu[e] = p
  BY DEF intelem
<1>2. \A f \in Par!Faces(e) : t2t[e][f] = IF f \in e2e[e] THEN f ELSE -1
  BY <1>1 DEF Topology, Found
<1>3. ASSUME NEW f \in e2e[e] PROVE f \in Par!Faces(e) /\ ~(f < 0) /\ Par!Owner(p, f) = elem2cpu[f]
  <2>1. f \in Elem /\ f \in Par!Faces(e)
    BY <1>1, FacesOf
  <2>2. f \in intelem(p) \cup extelem(p)
    BY <2>1, RemoteFaces DEF intelem, ParInputs
  <2> QED
    BY <2>1, <2>2, OwnerKnown, NeAssumption DEF Elem
<1>4. \A x : x \in Par!Row(p, e) <=>
        \E f \in Par!Faces(e) :
          x = <<t2t[e][f], IF t2t[e][f] < 0 THEN -1 ELSE Par!Owner(p, t2t[e][f])>>
  BY DEF Par!Row
<1>5. \A f : f \in Par!Faces(e) <=> f \in e2e[e] \/ (e \in walls /\ f = -1)
  BY DEF Par!Faces
<1>6. -1 \notin e2e[e]
  BY <1>1, FacesOf
<1>7. ASSUME NEW x, Around(e, x) PROVE x \in Par!Row(p, e)
  <2>1. CASE \E g \in e2e[e] : x = <<g, elem2cpu[g]>>
    BY <1>2, <1>3, <1>4, <2>1
  <2>2. CASE e \in walls /\ x = <<-1, -1>>
    <3>1. -1 \in Par!Faces(e) /\ t2t[e][-1] = -1
      BY <1>2, <1>5, <1>6, <2>2
    <3> QED
      BY <1>4, <2>2, <3>1
  <2> QED
    BY <1>7, <2>1, <2>2 DEF Around
<1>8. ASSUME NEW x \in Par!Row(p, e) PROVE Around(e, x)
  <2>1. PICK f \in Par!Faces(e) :
          x = <<t2t[e][f], IF t2t[e][f] < 0 THEN -1 ELSE Par!Owner(p, t2t[e][f])>>
    BY <1>4
  <2>2. CASE f \in e2e[e]
    BY <1>2, <1>3, <2>1, <2>2 DEF Around
  <2>3. CASE f \notin e2e[e]
    BY <1>2, <1>5, <2>1, <2>3 DEF Around
  <2> QED
    BY <2>2, <2>3
<1> QED
  BY <1>7, <1>8

(* The rows a rank sends tell the receiver what it asked for.              *)
LEMMA RowsOf ==
  ASSUME ParInputs, Moved, Topology(3),
         NEW k \in Proc, Holds(cls[k].neighbor, WithOwners(extelem(k))),
         NEW p \in Par!RowNeighbors(k)
  PROVE  p \in Proc /\ p # k /\ RowsTell(Par!Rows(k, p), k, p)
<1>1. \A r : r \in nbinfo[k] <=>
        \E e \in intelem(k) : \E f \in e2e[e] : elem2cpu[f] # k /\ r = <<e, f, elem2cpu[f]>>
  BY DEF Topology, Found
<1>2. \A e \in intelem(k) : e \in Elem /\ e2e[e] \subseteq Elem
  BY DEF intelem, ParInputs, InputsFixed
<1>3. p \in Proc /\ p # k
  <2>1. PICK r \in nbinfo[k] : p = r[3]
    BY DEF Par!RowNeighbors
  <2>2. PICK e \in intelem(k) : \E f \in e2e[e] : elem2cpu[f] # k /\ r = <<e, f, elem2cpu[f]>>
    BY <1>1
  <2>3. PICK f \in e2e[e] : elem2cpu[f] # k /\ r = <<e, f, elem2cpu[f]>>
    BY <2>2
  <2>4. f \in Elem
    BY <1>2
  <2> QED
    BY <2>1, <2>3, <2>4 DEF ParInputs, InputsFixed
<1>4. \A row : row \in Par!Rows(k, p) <=>
        \E e \in intelem(k) : \E f \in e2e[e] :
          elem2cpu[f] = p /\ row = <<f, Par!Row(k, e)>>
  <2>1. \A row : row \in Par!Rows(k, p) <=>
          \E r \in nbinfo[k] : r[3] = p /\ row = <<r[2], Par!Row(k, r[1])>>
    BY DEF Par!Rows
  <2>2. ASSUME NEW row \in Par!Rows(k, p)
        PROVE  \E e \in intelem(k) : \E f \in e2e[e] : elem2cpu[f] = p /\ row = <<f, Par!Row(k, e)>>
    <3>1. PICK r \in nbinfo[k] : r[3] = p /\ row = <<r[2], Par!Row(k, r[1])>>
      BY <2>1
    <3>2. PICK e \in intelem(k) : \E f \in e2e[e] : elem2cpu[f] # k /\ r = <<e, f, elem2cpu[f]>>
      BY <1>1
    <3> QED
      BY <3>1, <3>2
  <2>3. ASSUME NEW e \in intelem(k), NEW f \in e2e[e], elem2cpu[f] = p
        PROVE  <<f, Par!Row(k, e)>> \in Par!Rows(k, p)
    <3>1. <<e, f, elem2cpu[f]>> \in nbinfo[k]
      BY <1>1, <1>3, <2>3
    <3> QED
      BY <2>1, <2>3, <3>1
  <2> QED
    BY <2>2, <2>3
<1>5. \A row \in Par!Rows(k, p) : row[1] \in intelem(p)
  BY <1>2, <1>4 DEF intelem
<1>6. ASSUME NEW x
      PROVE  ((\E row \in Par!Rows(k, p) : x \in row[2]) <=>
                \E e \in intelem(k) : (\E f \in e2e[e] : elem2cpu[f] = p) /\ Around(e, x))
  <2>1. \A e \in intelem(k) : x \in Par!Row(k, e) <=> Around(e, x)
    BY RowOf
  <2>2. ASSUME NEW row \in Par!Rows(k, p), x \in row[2]
        PROVE  \E e \in intelem(k) : (\E f \in e2e[e] : elem2cpu[f] = p) /\ Around(e, x)
    <3>1. PICK e \in intelem(k) : \E f \in e2e[e] : elem2cpu[f] = p /\ row = <<f, Par!Row(k, e)>>
      BY <1>4
    <3> QED
      BY <2>1, <2>2, <3>1
  <2>3. ASSUME NEW e \in intelem(k), NEW f \in e2e[e], elem2cpu[f] = p, Around(e, x)
        PROVE  \E row \in Par!Rows(k, p) : x \in row[2]
    <3>1. <<f, Par!Row(k, e)>> \in Par!Rows(k, p)
      BY <1>4, <2>3
    <3> QED
      BY <2>1, <2>3, <3>1
  <2> QED
    BY <2>2, <2>3
<1> QED
  BY <1>3, <1>5, <1>6 DEF RowsTell

(* What a rank keeps of the rows of another: the elements around those it  *)
(* sees there that it neither owns nor sees.                               *)
LEMMA OuterFromOne ==
  ASSUME ParInputs, Moved, RowsSent,
         NEW p \in Proc, Holds(cls[p].neighbor, WithOwners(extelem(p))),
         NEW k, Par!FromTo("rows", k, p, 1) # {}
  PROVE  \A x : x \in Par!OuterFrom(p, k) <=>
           \E g \in outelem(p) :
             /\ x = <<g, elem2cpu[g]>>
             /\ \E e \in intelem(k) : (\E f \in e2e[e] : elem2cpu[f] = p) /\ g \in e2e[e]
<1> DEFINE body == Par!Received("rows", p, k, 1)
           Near(g) == \E e \in intelem(k) : (\E f \in e2e[e] : elem2cpu[f] = p) /\ g \in e2e[e]
<1>1. RowsTell(body, k, p) /\ k \in Proc /\ k # p
  <2>1. Par!FromTo("rows", k, p, 1)
          = {m \in msgs["rows"] : m.from = k /\ m.to = p /\ m.round = 1}
    BY DEF Par!FromTo
  <2>2. PICK m \in Par!FromTo("rows", k, p, 1) : body = m.body
    BY DEF Par!Received
  <2>3. m \in msgs["rows"] /\ m.from = k /\ m.to = p
    BY <2>1, <2>2
  <2> QED
    BY <2>2, <2>3 DEF RowsSent
<1>2. \A x : x \in Par!OuterFrom(p, k) <=>
        \E row \in body : /\ x \in row[2] /\ x[1] >= 0 /\ x[2] >= 0 /\ x[2] # p /\ x[1] # row[1]
                          /\ x \notin Par!ToSet(cls[p].neighbor)
                          /\ x[1] \notin Par!ToSet(elemGlobalID[p])
  <2> DEFINE C == {c \in UNION {{<<row[1], n>> : n \in row[2]} : row \in body} :
                     /\ c[2][1] >= 0 /\ c[2][2] >= 0 /\ c[2][2] # p
                     /\ c[2][1] # c[1]
                     /\ c[2] \notin Par!ToSet(cls[p].neighbor)
                     /\ c[2][1] \notin Par!ToSet(elemGlobalID[p])}
  <2>1. Par!Candidates(p, k) = C
    BY DEF Par!Candidates
  <2>2. \A x : x \in Par!OuterFrom(p, k) <=> \E c \in C : x = c[2]
    BY <2>1 DEF Par!OuterFrom
  <2> HIDE DEF body
  <2>3. ASSUME NEW x, NEW c \in C, x = c[2]
        PROVE  \E row \in body : /\ x \in row[2] /\ x[1] >= 0 /\ x[2] >= 0 /\ x[2] # p /\ x[1] # row[1]
                                 /\ x \notin Par!ToSet(cls[p].neighbor)
                                 /\ x[1] \notin Par!ToSet(elemGlobalID[p])
    <3>1. PICK row \in body : \E n \in row[2] : c = <<row[1], n>>
      OBVIOUS
    <3> QED
      BY <2>3, <3>1
  <2>4. ASSUME NEW x, NEW row \in body,
               x \in row[2], x[1] >= 0, x[2] >= 0, x[2] # p, x[1] # row[1],
               x \notin Par!ToSet(cls[p].neighbor), x[1] \notin Par!ToSet(elemGlobalID[p])
        PROVE  \E c \in C : x = c[2]
    <3>1. <<row[1], x>> \in C
      BY <2>4
    <3> QED
      BY <3>1
  <2> HIDE DEF C
  <2> QED
    BY <2>2, <2>3, <2>4
<1> HIDE DEF body
<1>3. \A e \in intelem(k) : e2e[e] \subseteq Elem
  BY DEF intelem, ParInputs, InputsFixed
<1>4. ASSUME NEW g \in Elem
      PROVE  /\ elem2cpu[g] \in Proc /\ g >= 0 /\ elem2cpu[g] >= 0
             /\ <<g, elem2cpu[g]>> \in Par!ToSet(cls[p].neighbor) <=> g \in extelem(p)
             /\ g \in Par!ToSet(elemGlobalID[p]) <=> g \in intelem(p)
             /\ elem2cpu[g] = p <=> g \in intelem(p)
  <2>1. <<g, elem2cpu[g]>> \in Par!ToSet(cls[p].neighbor) <=> g \in extelem(p)
    BY ListedOwners
  <2>2. g >= 0 /\ elem2cpu[g] >= 0 /\ elem2cpu[g] \in Proc
    BY NeAssumption, NprocAssumption DEF Elem, Proc, ParInputs, InputsFixed
  <2> QED
    BY <2>1, <2>2, OwnElements DEF intelem
<1>5. ASSUME NEW g, Near(g)
      PROVE  g \in Elem /\ (g \in outelem(p) <=> g \notin intelem(p) \cup extelem(p))
  <2>1. PICK e \in intelem(k) : (\E f \in e2e[e] : elem2cpu[f] = p) /\ g \in e2e[e]
    BY <1>5
  <2>2. PICK f \in e2e[e] : elem2cpu[f] = p
    BY <2>1
  <2>3. e \in Elem /\ f \in Elem /\ elem2cpu[e] = k /\ e \in e2e[f]
    BY <2>2, FacesOf DEF intelem
  <2>4. e \in extelem(p)
    BY <1>1, <2>2, <2>3, RemoteFaces DEF intelem, ParInputs
  <2> QED
    BY <1>3, <2>1, <2>4 DEF outelem, neighboringelements
<1>6. ASSUME NEW x \in Par!OuterFrom(p, k)
      PROVE  \E g \in outelem(p) : x = <<g, elem2cpu[g]>> /\ Near(g)
  <2>1. PICK row \in body :
           /\ x \in row[2] /\ x[1] >= 0 /\ x[2] >= 0 /\ x[2] # p /\ x[1] # row[1]
           /\ x \notin Par!ToSet(cls[p].neighbor)
           /\ x[1] \notin Par!ToSet(elemGlobalID[p])
    BY <1>2
  <2>2. PICK e \in intelem(k) : (\E f \in e2e[e] : elem2cpu[f] = p) /\ Around(e, x)
    BY <1>1, <2>1 DEF RowsTell
  <2>3. x # <<-1, -1>>
    BY <2>1
  <2>4. PICK g \in e2e[e] : x = <<g, elem2cpu[g]>>
    BY <2>2, <2>3 DEF Around
  <2>5. Near(g) /\ g \in Elem
    BY <1>3, <2>2, <2>4
  <2>6. g \notin intelem(p) \cup extelem(p)
    BY <1>4, <2>1, <2>4, <2>5
  <2>7. g \in outelem(p)
    <3> HIDE DEF Near
    <3> QED
      BY <1>5, <2>5, <2>6
  <2> QED
    BY <2>4, <2>5, <2>7
<1>7. ASSUME NEW g \in outelem(p), Near(g) PROVE <<g, elem2cpu[g]>> \in Par!OuterFrom(p, k)
  <2> DEFINE x == <<g, elem2cpu[g]>>
  <2>1. PICK e \in intelem(k) : (\E f \in e2e[e] : elem2cpu[f] = p) /\ g \in e2e[e]
    BY <1>7
  <2>2. PICK row \in body : x \in row[2]
    <3>1. Around(e, x)
      BY <2>1 DEF Around
    <3> QED
      BY <1>1, <2>1, <3>1 DEF RowsTell
  <2>3. g \in Elem /\ g \notin intelem(p) /\ g \notin extelem(p)
    BY <1>5, <1>7
  <2>4. row[1] \in intelem(p)
    BY <1>1 DEF RowsTell
  <2>5. x[1] = g /\ x[2] = elem2cpu[g]
    OBVIOUS
  <2> HIDE DEF x
  <2>6. /\ x[1] >= 0 /\ x[2] >= 0 /\ x[2] # p /\ x[1] # row[1]
        /\ x \notin Par!ToSet(cls[p].neighbor)
        /\ x[1] \notin Par!ToSet(elemGlobalID[p])
    BY <1>4, <2>3, <2>4, <2>5 DEF x
  <2>7. x \in Par!OuterFrom(p, k)
    BY <1>2, <2>2, <2>6
  <2> QED
    BY <2>7 DEF x
<1> QED
  BY <1>6, <1>7

(* All rows together hold the second layer of a rank and nothing else.     *)
LEMMA OuterAre ==
  ASSUME ParInputs, Moved, Topology(3), RowsSent,
         NEW p \in Proc, Holds(cls[p].neighbor, WithOwners(extelem(p))),
         Par!Arrived("rows", p, Par!RowNeighbors(p), 1)
  PROVE  UNION {Par!OuterFrom(p, k) : k \in Par!RowNeighbors(p)} = WithOwners(outelem(p))
<1> DEFINE ranks == Par!RowNeighbors(p)
           Near(g, k) == \E e \in intelem(k) : (\E f \in e2e[e] : elem2cpu[f] = p) /\ g \in e2e[e]
<1>1. \A k \in ranks : Par!FromTo("rows", k, p, 1) # {}
  BY DEF Par!Arrived
<1>2. ASSUME NEW k \in ranks, NEW x
      PROVE  x \in Par!OuterFrom(p, k) <=>
               \E g \in outelem(p) : x = <<g, elem2cpu[g]>> /\ Near(g, k)
  BY <1>1, OuterFromOne
<1>3. ASSUME NEW g \in outelem(p) PROVE \E k \in ranks : Near(g, k)
  <2>1. PICK e \in extelem(p) : g \in e2e[e]
    BY DEF outelem, neighboringelements
  <2>2. PICK f \in intelem(p) : e \in e2e[f] /\ elem2cpu[e] # p
    BY RemoteFaces DEF ParInputs
  <2>3. f \in Elem /\ elem2cpu[f] = p /\ e \in Elem /\ f \in e2e[e]
    BY <2>2, FacesOf DEF intelem
  <2>4. <<f, e, elem2cpu[e]>> \in nbinfo[p]
    BY <2>2 DEF Topology, Found
  <2>5. elem2cpu[e] \in ranks
    BY <2>4 DEF Par!RowNeighbors
  <2>6. e \in intelem(elem2cpu[e])
    BY <2>3 DEF intelem
  <2> QED
    BY <2>1, <2>3, <2>5, <2>6
<1> HIDE DEF Near, ranks
<1>4. \A x : x \in WithOwners(outelem(p)) <=> \E g \in outelem(p) : x = <<g, elem2cpu[g]>>
  BY DEF WithOwners
<1>5. \A x : x \in UNION {Par!OuterFrom(p, k) : k \in ranks} <=> \E k \in ranks : x \in Par!OuterFrom(p, k)
  OBVIOUS
<1>6. \A x : x \in UNION {Par!OuterFrom(p, k) : k \in ranks} <=> x \in WithOwners(outelem(p))
  BY <1>2, <1>3, <1>4, <1>5
<1> QED
  BY <1>6 DEF ranks

(* Whatever order the hash table of the sender gives, they are listed.     *)
LEMMA OuterOrdersList ==
  ASSUME InputsFixed, NEW p \in Proc,
         UNION {Par!OuterFrom(p, k) : k \in Par!RowNeighbors(p)} = WithOwners(outelem(p)),
         NEW s \in Par!OuterOrders(p)
  PROVE  Holds(s, WithOwners(outelem(p)))
<1> DEFINE A == WithOwners(outelem(p))
           N == Cardinality(A)
           D == 1 .. N
<1>1. s \in Par!SetToSeqs(A)
  BY DEF Par!OuterOrders
<1>2. outelem(p) \subseteq Elem
  <2>1. \A e \in extelem(p) : e2e[e] \subseteq Elem
    BY RemoteFaces DEF InputsFixed
  <2> QED
    BY <2>1 DEF outelem, neighboringelements
<1>3. IsFiniteSet(A)
  <2> DEFINE S == outelem(p)
             h == [x \in S |-> <<x, elem2cpu[x]>>]
  <2>1. IsFiniteSet(S)
    BY <1>2, MeshSize, FS_Subset
  <2>2. h \in [S -> A] /\ (\A x, y \in S : h[x] = h[y] => x = y)
        /\ (\A y \in A : \E x \in S : h[x] = y)
    BY DEF WithOwners
  <2> HIDE DEF h, A, S
  <2> QED
    BY <2>1, <2>2, SameSize
<1>4. s \in [D -> A] /\ \A j, l \in D : j # l => s[j] # s[l]
  <2>1. Par!SetToSeqs(A) = {f \in [D -> A] : \A j, l \in D : j # l => f[j] # f[l]}
    BY DEF Par!SetToSeqs, Par!Cardinality, Cardinality
  <2> HIDE DEF A, D
  <2> QED
    BY <1>1, <2>1
<1>5. N \in Nat /\ IsFiniteSet(D) /\ Cardinality(D) = N
  <2>1. N \in Nat
    BY <1>3, FS_CardinalityType
  <2> HIDE DEF N
  <2> QED
    BY <2>1, FS_Interval
<1>6. \A x \in A : \E j \in D : s[j] = x
  <2>1. \A j, l \in D : s[j] = s[l] => j = l
    BY <1>4
  <2>2. Cardinality(D) = Cardinality(A)
    BY <1>5
  <2> HIDE DEF A, D, N
  <2> QED
    BY <1>3, <1>4, <2>1, <2>2, InjectionOnto
<1>7. s \in Seq(A) /\ Len(s) = N
  <2> HIDE DEF A, N
  <2> QED
    BY <1>4, <1>5
<1> QED
  BY <1>4, <1>6, <1>7 DEF Holds

-----------------------------------------------------------------------------
(* The parts of elempart.                                                  *)

(* Running sums are the sums of the first entries.                         *)
LEMMA SumIs ==
  ASSUME NEW pts, NEW n \in Nat, NEW t, t[0] = 0,
         \A j \in 1 .. n : t[j] = t[j - 1] + pts[j]
  PROVE  SumUpTo(pts, n) = t[n]
<1> DEFINE g == [j \in 0 .. n |-> t[j]]
           Sums(f) == f = [j \in 0 .. n |-> IF j = 0 THEN 0 ELSE f[j - 1] + pts[j]]
<1>1. Sums(g)
  <2>1. \A j \in 0 .. n : g[j] = IF j = 0 THEN 0 ELSE g[j - 1] + pts[j]
    <3> SUFFICES ASSUME NEW j \in 0 .. n PROVE g[j] = IF j = 0 THEN 0 ELSE g[j - 1] + pts[j]
      OBVIOUS
    <3>1. j = 0 \/ (j # 0 /\ j \in 1 .. n /\ j - 1 \in 0 .. n)
      OBVIOUS
    <3> QED
      BY <3>1
  <2> QED
    BY <2>1
<1>2. ASSUME NEW f, Sums(f) PROVE f[n] = t[n]
  <2> DEFINE T == {j \in 0 .. n : f[j] # t[j]}
  <2>1. T = {}
    <3> SUFFICES ASSUME T # {} PROVE FALSE
      OBVIOUS
    <3>1. T \in SUBSET Nat
      OBVIOUS
    <3>2. PICK j \in T : \A l \in T : j <= l
      <4> HIDE DEF T
      <4> QED
        BY <3>1, LeastNatural
    <3>3. f[j] = IF j = 0 THEN 0 ELSE f[j - 1] + pts[j]
      BY <1>2
    <3>4. j # 0
      BY <3>3
    <3>5. j \in 1 .. n /\ j - 1 \in 0 .. n /\ ~(j <= j - 1)
      BY <3>4
    <3>6. f[j - 1] = t[j - 1]
      BY <3>2, <3>5
    <3> QED
      BY <3>3, <3>4, <3>5, <3>6
  <2>2. n \in 0 .. n
    OBVIOUS
  <2> QED
    BY <2>1, <2>2
<1>3. \E f : Sums(f)
  BY <1>1
<1>4. SumUpTo(pts, n) = (CHOOSE f : Sums(f))[n]
  BY DEF SumUpTo
<1> HIDE DEF Sums, g
<1>5. Sums(CHOOSE f : Sums(f))
  BY <1>3
<1> QED
  BY <1>2, <1>4, <1>5

(* Sums of up to four parts.                                               *)
LEMMA PartEnds ==
  ASSUME NEW pts, NEW N \in 0 .. 4, \A j \in 1 .. N : pts[j] \in Nat
  PROVE  /\ SumUpTo(pts, 0) = 0
         /\ N >= 1 => SumUpTo(pts, 1) = pts[1]
         /\ N >= 2 => SumUpTo(pts, 2) = pts[1] + pts[2]
         /\ N >= 3 => SumUpTo(pts, 3) = pts[1] + pts[2] + pts[3]
         /\ N >= 4 => SumUpTo(pts, 4) = pts[1] + pts[2] + pts[3] + pts[4]
<1> DEFINE t == [j \in 0 .. 4 |->
                   IF j = 0 THEN 0
                   ELSE IF j = 1 THEN pts[1]
                   ELSE IF j = 2 THEN pts[1] + pts[2]
                   ELSE IF j = 3 THEN pts[1] + pts[2] + pts[3]
                   ELSE pts[1] + pts[2] + pts[3] + pts[4]]
<1>1. /\ t[0] = 0 /\ t[1] = pts[1] /\ t[2] = pts[1] + pts[2]
      /\ t[3] = pts[1] + pts[2] + pts[3] /\ t[4] = pts[1] + pts[2] + pts[3] + pts[4]
  OBVIOUS
<1> HIDE DEF t
<1>2. ASSUME NEW j \in 1 .. N PROVE t[j] = t[j - 1] + pts[j]
  <2>1. j = 1 \/ j = 2 \/ j = 3 \/ j = 4
    OBVIOUS
  <2>2. CASE j = 1
    <3>1. pts[1] \in Nat /\ j - 1 = 0
      BY <2>2
    <3> QED
      BY <1>1, <2>2, <3>1
  <2>3. CASE j = 2
    BY <1>1, <2>3
  <2>4. CASE j = 3
    BY <1>1, <2>4
  <2>5. CASE j = 4
    BY <1>1, <2>5
  <2> QED
    BY <2>1, <2>2, <2>3, <2>4, <2>5
<1>3. ASSUME NEW n \in 0 .. N PROVE SumUpTo(pts, n) = t[n]
  <2>1. n \in Nat /\ \A j \in 1 .. n : t[j] = t[j - 1] + pts[j]
    BY <1>2
  <2> QED
    BY <1>1, <2>1, SumIs
<1> QED
  BY <1>1, <1>3

(* The four parts the rank writes down, at their places in elempart.       *)
PartHolds(u, pts, n, V) ==
  Par!ToSet(SubSeq(u, SumUpTo(pts, n - 1) + 1, SumUpTo(pts, n))) = V

(* The k entries of u behind the first m list V.                           *)
Fills(u, m, k, V) ==
  /\ u \in Seq(Elem) /\ m \in Nat /\ k \in Nat /\ m + k <= Len(u)
  /\ \A j \in 1 .. k : u[m + j] \in V
  /\ \A x \in V : \E j \in 1 .. k : u[m + j] = x

(* A part that lists V holds V.                                            *)
LEMMA StretchHolds ==
  ASSUME NEW u, NEW m, NEW k, NEW V, Fills(u, m, k, V),
         NEW pts, NEW n, SumUpTo(pts, n - 1) = m, SumUpTo(pts, n) = m + k
  PROVE  PartHolds(u, pts, n, V)
<1> DEFINE s == SubSeq(u, m + 1, m + k)
<1>1. s = [j \in 1 .. k |-> u[m + j]]
  <2>1. Len(u) \in Nat
    BY DEF Fills
  <2>2. /\ s \in Seq(Elem)
        /\ Len(s) = k
        /\ \A j \in 1 .. k : s[j] = u[m + j]
    <3>1. CASE k = 0
      BY <2>1, <3>1 DEF Fills
    <3>2. CASE k # 0
      BY <2>1, <3>2 DEF Fills
    <3> QED
      BY <3>1, <3>2
  <2> QED
    BY <2>2
<1>2. Par!ToSet(s) = V
  <2> HIDE DEF s
  <2>1. DOMAIN s = 1 .. k
    BY <1>1
  <2>2. \A j \in 1 .. k : s[j] = u[m + j]
    BY <1>1
  <2>3. \A x : x \in {s[j] : j \in DOMAIN s} <=> \E j \in 1 .. k : x = u[m + j]
    BY <2>1, <2>2
  <2>4. \A x : (\E j \in 1 .. k : x = u[m + j]) <=> x \in V
    BY DEF Fills
  <2>5. \A x : x \in {s[j] : j \in DOMAIN s} <=> x \in V
    BY <2>3, <2>4
  <2>6. {s[j] : j \in DOMAIN s} = V
    BY <2>5, Zenon
  <2> QED
    BY <2>6 DEF Par!ToSet
<1> HIDE DEF s
<1>3. SubSeq(u, SumUpTo(pts, n - 1) + 1, SumUpTo(pts, n)) = s
  BY DEF s
<1> QED
  BY <1>2, <1>3 DEF PartHolds

(* A vector that holds S has elements of S.                                *)
LEMMA HeldWithin ==
  ASSUME NEW S, NEW s, Holds(s, S)
  PROVE  /\ Len(s) \in Nat
         /\ \A j \in 1 .. Len(s) : s[j] \in S
BY DEF Holds

(* The parts one after the other, with no element twice.                   *)
Outermost(pts) == IF Len(pts) > 3 THEN pts[4] ELSE 0

(* elempart of rank p: its four blocks, and each element once.             *)
Filled(u, pts, p) ==
  /\ Len(pts) >= 3
  /\ Len(pts) > 3 => pts[4] # 0
  /\ Fills(u, 0, pts[1], inner(p))
  /\ Fills(u, pts[1], pts[2], bndelem(p))
  /\ Fills(u, pts[1] + pts[2], pts[3], extelem(p))
  /\ Fills(u, pts[1] + pts[2] + pts[3], Outermost(pts), outer(p))
  /\ Len(u) = pts[1] + pts[2] + pts[3] + Outermost(pts)
  /\ Holds(u, Stored(p))

(* The second layer is listed, if the scheme needs one.                    *)
OuterListed(c, p) == Holds(c.outer, WithOwners(outer(p)))

(* The numbers of local elements, and of pairs, held class by class.       *)
LEMMA OwnedNumbers ==
  ASSUME Moved, NEW p \in Proc, NEW s, Holds(s, LocalIDs(p))
  PROVE  /\ Len(Par!Global(p, s)) = Len(s)
         /\ \A j \in 1 .. Len(s) : Par!Global(p, s)[j] = elemGlobalID[p][s[j] + 1]
         /\ Holds(Par!Global(p, s), intelem(p))
<1> DEFINE gid == elemGlobalID[p]
           L == LocalIDs(p)
           A == Par!Global(p, s)
           N == Len(s)
<1>1. /\ gid \in Seq(Elem) /\ Len(gid) \in Nat
      /\ \A j, l \in 1 .. Len(gid) : gid[j] = gid[l] => j = l
      /\ \A e : e \in intelem(p) <=> \E j \in 1 .. Len(gid) : gid[j] = e
      /\ \A l : l \in L <=> l \in 0 .. Len(gid) - 1
  BY DEF Moved, LocalIDs
<1>2. A = [j \in 1 .. N |-> gid[s[j] + 1]]
  BY DEF Par!Global
<1> HIDE DEF gid, L
<1>3. /\ N \in Nat /\ \A j \in 1 .. N : s[j] \in L
      /\ \A j, l \in 1 .. N : s[j] = s[l] => j = l
      /\ \A x \in L : \E j \in 1 .. N : s[j] = x
  BY HeldWithin DEF Holds, L
<1> HIDE DEF A, N
<1>4. \A l \in L : l \in Int /\ l + 1 \in 1 .. Len(gid)
  BY <1>1
<1>5. \A j \in 1 .. N : A[j] = gid[s[j] + 1] /\ A[j] \in intelem(p)
  BY <1>1, <1>2, <1>3, <1>4
<1>6. A \in Seq(intelem(p)) /\ Len(A) = N
  BY <1>2, <1>3, <1>5
<1>7. ASSUME NEW j \in 1 .. N, NEW l \in 1 .. N, A[j] = A[l] PROVE j = l
  <2>1. /\ s[j] \in L /\ s[l] \in L
        /\ s[j] + 1 \in 1 .. Len(gid) /\ s[l] + 1 \in 1 .. Len(gid)
    BY <1>3, <1>4
  <2>2. gid[s[j] + 1] = gid[s[l] + 1]
    BY <1>5, <1>7
  <2>3. s[j] + 1 = s[l] + 1
    BY <1>1, <2>1, <2>2
  <2>4. s[j] = s[l]
    BY <1>4, <2>1, <2>3
  <2> QED
    BY <1>3, <2>4
<1>8. ASSUME NEW x \in intelem(p) PROVE \E j \in 1 .. N : A[j] = x
  <2>1. PICK g \in 1 .. Len(gid) : gid[g] = x
    BY <1>1
  <2>2. g - 1 \in L /\ (g - 1) + 1 = g
    BY <1>1
  <2>3. PICK j \in 1 .. N : s[j] = g - 1
    BY <1>3, <2>2
  <2> QED
    BY <1>5, <2>1, <2>2, <2>3
<1>9. Holds(A, intelem(p))
  BY <1>6, <1>7, <1>8 DEF Holds
<1> QED
  BY <1>5, <1>6, <1>9 DEF A, N, gid

(* The same for pairs of an element and its owner.                         *)
LEMMA GhostNumbers ==
  ASSUME NEW S, NEW s, Holds(s, WithOwners(S))
  PROVE  /\ Len(Par!GlobalIDs(s)) = Len(s)
         /\ \A j \in 1 .. Len(s) : Par!GlobalIDs(s)[j] = s[j][1]
         /\ Holds(Par!GlobalIDs(s), S)
<1> DEFINE B == Par!GlobalIDs(s)
           N == Len(s)
<1>1. B = [j \in 1 .. N |-> s[j][1]]
  BY DEF Par!GlobalIDs
<1>2. /\ N \in Nat /\ \A j \in 1 .. N : s[j] \in WithOwners(S)
      /\ \A j, l \in 1 .. N : s[j] = s[l] => j = l
      /\ \A x \in WithOwners(S) : \E j \in 1 .. N : s[j] = x
  BY HeldWithin DEF Holds
<1> HIDE DEF B, N
<1>3. \A j \in 1 .. N : B[j] = s[j][1] /\ B[j] \in S /\ s[j] = <<B[j], elem2cpu[B[j]]>>
  BY <1>1, <1>2 DEF WithOwners
<1>4. B \in Seq(S) /\ Len(B) = N
  BY <1>1, <1>2, <1>3
<1>5. \A j, l \in 1 .. N : B[j] = B[l] => j = l
  BY <1>2, <1>3
<1>6. \A x \in S : \E j \in 1 .. N : B[j] = x
  <2> SUFFICES ASSUME NEW x \in S PROVE \E j \in 1 .. N : B[j] = x
    OBVIOUS
  <2>1. PICK j \in 1 .. N : s[j] = <<x, elem2cpu[x]>>
    BY <1>2 DEF WithOwners
  <2> QED
    BY <1>3, <2>1
<1>7. Holds(B, S)
  BY <1>4, <1>5, <1>6 DEF Holds
<1> QED
  BY <1>3, <1>4, <1>7 DEF B, N

(* buildElempart lists the elements class by class, buildElempartpts says  *)
(* how many there are of each.                                             *)
LEMMA PartitionFilled ==
  ASSUME ParInputs, Moved, NEW p \in Proc, Classes(cls[p], p), OuterListed(cls[p], p)
  PROVE  Filled(Par!buildElempart(p), Par!buildElempartpts(p), p)
<1> DEFINE b == cls[p].boundary
           t == cls[p].interior
           f == cls[p].interface
           nb == cls[p].neighbor
           out == cls[p].outer
           L == LocalIDs(p)
           I == OnInterface(p)
           gid == elemGlobalID[p]
           low == Joined(b, t)
           own == Joined(low, f)
           ghosts == Joined(nb, out)
           A == Par!Global(p, own)
           B == Par!GlobalIDs(ghosts)
           u == Par!buildElempart(p)
           pts == Par!buildElempartpts(p)
           n1 == Len(b) + Len(t)
           N == Len(own)
<1>1. PICK T : /\ Holds(b, (L \ I) \cap T)
               /\ Holds(t, (L \ I) \ T)
               /\ Holds(f, I)
               /\ Holds(nb, WithOwners(extelem(p)))
               /\ Holds(out, WithOwners(outer(p)))
  BY DEF Classes, OuterListed
<1>2. /\ gid \in Seq(Elem) /\ Len(gid) \in Nat
      /\ \A e : e \in intelem(p) <=> \E j \in 1 .. Len(gid) : gid[j] = e
      /\ \A l : l \in L <=> l \in 0 .. Len(gid) - 1
      /\ I = {l \in L : gid[l + 1] \in bndelem(p)}
  BY DEF Moved, LocalIDs, OnInterface
<1>3. u = Joined(A, B)
  BY DEF Par!buildElempart, Par!elempart_local, Par!GhostPairs, Joined
<1>4. pts = Joined(<<n1, Len(f), Len(nb)>>, IF out = <<>> THEN <<>> ELSE <<Len(out)>>)
  BY DEF Par!buildElempartpts, Joined
<1> HIDE DEF L, I, gid, b, t, f, nb, out, u, pts
<1>5. /\ Len(b) \in Nat /\ Len(t) \in Nat /\ Len(f) \in Nat
      /\ Len(nb) \in Nat /\ Len(out) \in Nat /\ n1 \in Nat
  BY <1>1, HeldWithin
<1>6. Holds(low, L \ I) /\ Len(low) = n1
  <2>1. Apart((L \ I) \cap T, (L \ I) \ T)
    BY DEF Apart
  <2>2. Blocks(low, b, (L \ I) \cap T, Len(b), t, (L \ I) \ T, Len(t))
    BY <1>1, <1>5, <2>1, JoinedHolds
  <2>3. ((L \ I) \cap T) \cup ((L \ I) \ T) = L \ I
    OBVIOUS
  <2> QED
    BY <2>2, <2>3 DEF Blocks
<1> HIDE DEF low
<1>7. /\ Holds(own, L) /\ N = n1 + Len(f)
      /\ \A j \in 1 .. n1 : own[j] = low[j]
      /\ \A j \in 1 .. Len(f) : own[n1 + j] = f[j]
  <2>1. Apart(L \ I, I) /\ (L \ I) \cup I = L
    BY <1>2 DEF Apart
  <2> HIDE DEF n1
  <2>2. Blocks(own, low, L \ I, n1, f, I, Len(f))
    BY <1>1, <1>5, <1>6, <2>1, JoinedHolds
  <2> QED
    BY <2>1, <2>2 DEF Blocks
<1>8. Ghosts(p) = extelem(p) \cup outer(p) /\ Stored(p) = intelem(p) \cup Ghosts(p)
      /\ extelem(p) \cap outer(p) = {} /\ Apart(intelem(p), Ghosts(p))
      /\ inner(p) = intelem(p) \ bndelem(p) /\ bndelem(p) \subseteq intelem(p)
  BY DEF Ghosts, Stored, outer, outelem, extelem, inner, bndelem, Apart
<1>9. /\ Holds(ghosts, WithOwners(Ghosts(p))) /\ Len(ghosts) = Len(nb) + Len(out)
      /\ \A j \in 1 .. Len(nb) : ghosts[j] = nb[j] /\ nb[j] \in WithOwners(extelem(p))
      /\ \A j \in 1 .. Len(out) : ghosts[Len(nb) + j] = out[j] /\ out[j] \in WithOwners(outer(p))
  <2>1. /\ Apart(WithOwners(extelem(p)), WithOwners(outer(p)))
        /\ WithOwners(extelem(p)) \cup WithOwners(outer(p)) = WithOwners(Ghosts(p))
    BY <1>8 DEF Apart, WithOwners
  <2>2. Blocks(ghosts, nb, WithOwners(extelem(p)), Len(nb), out, WithOwners(outer(p)), Len(out))
    BY <1>1, <1>5, <2>1, JoinedHolds
  <2> QED
    BY <2>1, <2>2 DEF Blocks
<1> HIDE DEF own, ghosts
<1>10. /\ Len(A) = N /\ \A j \in 1 .. N : A[j] = gid[own[j] + 1]
       /\ Holds(A, intelem(p))
  BY <1>7, OwnedNumbers DEF L, gid
<1>11. /\ Len(B) = Len(ghosts) /\ \A j \in 1 .. Len(ghosts) : B[j] = ghosts[j][1]
       /\ Holds(B, Ghosts(p))
  BY <1>9, GhostNumbers
<1> HIDE DEF A, B
<1>12. /\ Holds(u, Stored(p)) /\ Len(u) = N + Len(ghosts) /\ N \in Nat
       /\ \A j \in 1 .. N : u[j] = gid[own[j] + 1]
       /\ \A j \in 1 .. Len(ghosts) : u[N + j] = ghosts[j][1]
  <2>1. N \in Nat /\ Len(ghosts) \in Nat
    BY <1>5, <1>7, <1>9
  <2>2. Blocks(u, A, intelem(p), N, B, Ghosts(p), Len(ghosts))
    BY <1>3, <1>8, <1>10, <1>11, <2>1, JoinedHolds
  <2> QED
    BY <1>8, <1>10, <1>11, <2>1, <2>2 DEF Blocks
<1>13. u \in Seq(Elem) /\ Len(u) = n1 + Len(f) + Len(nb) + Len(out)
  <2>1. Stored(p) \subseteq Elem
    BY PartSets DEF ParInputs
  <2>2. u \in Seq(Stored(p))
    BY <1>12 DEF Holds
  <2> QED
    BY <1>5, <1>7, <1>9, <1>12, <2>1, <2>2, SeqMonotonic
<1>14. /\ Len(pts) >= 3 /\ pts[1] = n1 /\ pts[2] = Len(f) /\ pts[3] = Len(nb)
       /\ Outermost(pts) = Len(out)
       /\ Len(pts) > 3 => pts[4] # 0
  <2> DEFINE three == <<n1, Len(f), Len(nb)>>
             more == IF out = <<>> THEN <<>> ELSE <<Len(out)>>
  <2>1. three \in Seq(Nat) /\ Len(three) = 3
    BY <1>5
  <2>2. three[1] = n1 /\ three[2] = Len(f) /\ three[3] = Len(nb)
    OBVIOUS
  <2>3. CASE out = <<>>
    <3>1. more = <<>>
      BY <2>3
    <3>2. more \in Seq(Nat) /\ Len(more) = 0
      BY <3>1
    <3> HIDE DEF three, more
    <3>3. /\ Len(Joined(three, more)) = Len(three) + Len(more)
          /\ \A j \in 1 .. Len(three) + Len(more) :
               Joined(three, more)[j] = IF j <= Len(three) THEN three[j] ELSE more[j - Len(three)]
      BY <2>1, <3>2, JoinedEntries, Zenon
    <3>4. pts = Joined(three, more)
      BY <1>4 DEF three, more
    <3>5. /\ Len(pts) = 3
          /\ pts[1] = three[1] /\ pts[2] = three[2] /\ pts[3] = three[3]
      BY <2>1, <3>2, <3>3, <3>4
    <3>6. Len(out) = 0
      BY <2>3
    <3> QED
      BY <2>2, <3>5, <3>6 DEF Outermost
  <2>4. CASE out # <<>>
    <3>1. more = <<Len(out)>>
      BY <2>4
    <3>2. more \in Seq(Nat) /\ Len(more) = 1 /\ more[1] = Len(out)
      BY <1>5, <3>1
    <3> HIDE DEF three, more
    <3>3. /\ Len(Joined(three, more)) = Len(three) + Len(more)
          /\ \A j \in 1 .. Len(three) + Len(more) :
               Joined(three, more)[j] = IF j <= Len(three) THEN three[j] ELSE more[j - Len(three)]
      BY <2>1, <3>2, JoinedEntries, Zenon
    <3>4. pts = Joined(three, more)
      BY <1>4 DEF three, more
    <3>5. /\ Len(pts) = 4
          /\ pts[1] = three[1] /\ pts[2] = three[2] /\ pts[3] = three[3] /\ pts[4] = more[1]
      BY <2>1, <3>2, <3>3, <3>4
    <3>6. Len(out) # 0
      BY <1>1, <2>4 DEF Holds
    <3> QED
      BY <2>2, <3>2, <3>5, <3>6 DEF Outermost
  <2> QED
    BY <2>3, <2>4
<1>15. Fills(u, 0, n1, inner(p))
  <2>1. \A j \in 1 .. n1 : u[0 + j] \in inner(p)
    <3> SUFFICES ASSUME NEW j \in 1 .. n1 PROVE u[j] \in inner(p)
      BY <1>5
    <3>0. low[j] \in L \ I
      BY <1>6, HeldWithin
    <3>1. own[j] \in L \ I /\ j \in 1 .. N
      BY <1>5, <1>7, <3>0
    <3>2. own[j] + 1 \in 1 .. Len(gid)
      BY <1>2, <3>1
    <3> QED
      BY <1>2, <1>8, <1>12, <3>1, <3>2
  <2>2. \A x \in inner(p) : \E j \in 1 .. n1 : u[0 + j] = x
    <3> SUFFICES ASSUME NEW x \in inner(p) PROVE \E j \in 1 .. n1 : u[j] = x
      BY <1>5
    <3>1. PICK g \in 1 .. Len(gid) : gid[g] = x
      BY <1>2, <1>8
    <3>2. g - 1 \in L \ I /\ (g - 1) + 1 = g
      BY <1>2, <1>8, <3>1
    <3>3. PICK j \in 1 .. n1 : low[j] = g - 1
      BY <1>6, <3>2 DEF Holds
    <3>4. j \in 1 .. N
      BY <1>5, <1>7
    <3>5. u[j] = gid[(g - 1) + 1]
      BY <1>7, <1>12, <3>3, <3>4
    <3> QED
      BY <3>1, <3>2, <3>5
  <2> QED
    BY <1>5, <1>13, <2>1, <2>2 DEF Fills
<1>16. Fills(u, n1, Len(f), bndelem(p))
  <2>1. \A j \in 1 .. Len(f) : u[n1 + j] \in bndelem(p)
    <3> SUFFICES ASSUME NEW j \in 1 .. Len(f) PROVE u[n1 + j] \in bndelem(p)
      OBVIOUS
    <3>1. own[n1 + j] = f[j] /\ f[j] \in I /\ n1 + j \in 1 .. N
      BY <1>1, <1>5, <1>7, HeldWithin
    <3>2. u[n1 + j] = gid[f[j] + 1]
      BY <1>12, <3>1
    <3> QED
      BY <1>2, <3>1, <3>2
  <2>2. \A x \in bndelem(p) : \E j \in 1 .. Len(f) : u[n1 + j] = x
    <3> SUFFICES ASSUME NEW x \in bndelem(p) PROVE \E j \in 1 .. Len(f) : u[n1 + j] = x
      OBVIOUS
    <3>1. PICK g \in 1 .. Len(gid) : gid[g] = x
      BY <1>2, <1>8
    <3>2. g - 1 \in I /\ (g - 1) + 1 = g
      BY <1>2, <3>1
    <3>3. PICK j \in 1 .. Len(f) : f[j] = g - 1
      BY <1>1, <3>2 DEF Holds
    <3>4. n1 + j \in 1 .. N
      BY <1>5, <1>7
    <3>5. u[n1 + j] = gid[(g - 1) + 1]
      BY <1>7, <1>12, <3>3, <3>4
    <3> QED
      BY <3>1, <3>2, <3>5
  <2> QED
    BY <1>5, <1>13, <2>1, <2>2 DEF Fills
<1>17. Fills(u, N, Len(nb), extelem(p))
  <2>1. \A j \in 1 .. Len(nb) : u[N + j] = nb[j][1] /\ nb[j][1] \in extelem(p)
    BY <1>5, <1>9, <1>12 DEF WithOwners
  <2>2. \A x \in extelem(p) : \E j \in 1 .. Len(nb) : u[N + j] = x
    <3> SUFFICES ASSUME NEW x \in extelem(p) PROVE \E j \in 1 .. Len(nb) : u[N + j] = x
      OBVIOUS
    <3>1. PICK j \in 1 .. Len(nb) : nb[j] = <<x, elem2cpu[x]>>
      BY <1>1 DEF Holds, WithOwners
    <3> QED
      BY <2>1, <3>1
  <2>3. N \in Nat /\ N + Len(nb) <= Len(u)
    BY <1>5, <1>7, <1>13
  <2>4. \A j \in 1 .. Len(nb) : u[N + j] \in extelem(p)
    BY <2>1
  <2> QED
    BY <1>5, <1>13, <2>2, <2>3, <2>4 DEF Fills
<1>18. Fills(u, N + Len(nb), Len(out), outer(p))
  <2>1. \A j \in 1 .. Len(out) : u[(N + Len(nb)) + j] = out[j][1] /\ out[j][1] \in outer(p)
    <3> SUFFICES ASSUME NEW j \in 1 .. Len(out)
                 PROVE  u[(N + Len(nb)) + j] = out[j][1] /\ out[j][1] \in outer(p)
      OBVIOUS
    <3> DEFINE h == Len(nb) + j
    <3>1. h \in 1 .. Len(ghosts) /\ (N + Len(nb)) + j = N + h
      BY <1>5, <1>9, <1>12
    <3>2. ghosts[h] = out[j] /\ out[j] \in WithOwners(outer(p))
      BY <1>9
    <3> HIDE DEF h
    <3>3. u[N + h] = ghosts[h][1]
      BY <1>12, <3>1
    <3> QED
      BY <3>1, <3>2, <3>3 DEF WithOwners
  <2>2. \A x \in outer(p) : \E j \in 1 .. Len(out) : u[(N + Len(nb)) + j] = x
    <3> SUFFICES ASSUME NEW x \in outer(p)
                 PROVE  \E j \in 1 .. Len(out) : u[(N + Len(nb)) + j] = x
      OBVIOUS
    <3>1. PICK j \in 1 .. Len(out) : out[j] = <<x, elem2cpu[x]>>
      BY <1>1 DEF Holds, WithOwners
    <3> QED
      BY <2>1, <3>1
  <2>3. N + Len(nb) \in Nat /\ (N + Len(nb)) + Len(out) <= Len(u)
    BY <1>5, <1>7, <1>13
  <2>4. \A j \in 1 .. Len(out) : u[(N + Len(nb)) + j] \in outer(p)
    BY <2>1
  <2> QED
    BY <1>5, <1>13, <2>2, <2>3, <2>4 DEF Fills
<1>19. N = pts[1] + pts[2] /\ N + Len(nb) = pts[1] + pts[2] + pts[3]
  BY <1>7, <1>14
<1>20. Len(u) = pts[1] + pts[2] + pts[3] + Outermost(pts)
  BY <1>13, <1>14
<1> HIDE DEF n1, N
<1>21. /\ Fills(u, 0, pts[1], inner(p)) /\ Fills(u, pts[1], pts[2], bndelem(p))
       /\ Fills(u, pts[1] + pts[2], pts[3], extelem(p))
       /\ Fills(u, pts[1] + pts[2] + pts[3], Outermost(pts), outer(p))
  BY <1>14, <1>15, <1>16, <1>17, <1>18, <1>19
<1>22. Filled(u, pts, p)
  BY <1>12, <1>14, <1>20, <1>21 DEF Filled
<1> QED
  BY <1>22 DEF u, pts

(* Parts with their elements have the sizes of their sets.                 *)
LEMMA FilledSize ==
  ASSUME NEW u, \A j, l \in 1 .. Len(u) : u[j] = u[l] => j = l,
         NEW m, NEW k, NEW V, Fills(u, m, k, V)
  PROVE  Cardinality(V) = k
<1> DEFINE h == [j \in 1 .. k |-> u[m + j]]
<1>1. m \in Nat /\ k \in Nat /\ Len(u) \in Nat
  BY DEF Fills
<1>2. h \in [1 .. k -> V] /\ \A y \in V : \E j \in 1 .. k : h[j] = y
  BY DEF Fills
<1>3. ASSUME NEW j \in 1 .. k, NEW l \in 1 .. k, h[j] = h[l] PROVE j = l
  <2>1. m + j \in 1 .. Len(u) /\ m + l \in 1 .. Len(u)
    BY <1>1 DEF Fills
  <2>2. m + j = m + l
    BY <1>3, <2>1
  <2> QED
    BY <1>1, <2>2
<1> HIDE DEF h
<1>4. IsFiniteSet(1 .. k) /\ Cardinality(1 .. k) = k
  BY <1>1, FS_Interval
<1> QED
  BY <1>2, <1>3, <1>4, SameSize

(* Blocks of the sizes of their sets are the numbering of the serial way.  *)
LEMMA FilledNumbered ==
  ASSUME InputsFixed, NEW p \in Proc, NEW d, Filled(d.elempart, d.elempartpts, p)
  PROVE  Numbered(d, p)
<1> DEFINE u == d.elempart
           pts == d.elempartpts
           n4 == Outermost(pts)
<1>1. /\ Fills(u, 0, pts[1], inner(p)) /\ Fills(u, pts[1], pts[2], bndelem(p))
      /\ Fills(u, pts[1] + pts[2], pts[3], extelem(p))
      /\ Fills(u, pts[1] + pts[2] + pts[3], n4, outer(p))
      /\ Len(u) = pts[1] + pts[2] + pts[3] + n4
      /\ Holds(u, Stored(p))
  BY DEF Filled
<1> HIDE DEF u, pts, n4
<1>2. pts[1] \in Nat /\ pts[2] \in Nat /\ pts[3] \in Nat /\ n4 \in Nat
  BY <1>1 DEF Fills
<1>3. \A j, l \in 1 .. Len(u) : u[j] = u[l] => j = l
  BY <1>1 DEF Holds
<1>4. /\ pts[1] = Cardinality(inner(p)) /\ pts[2] = Cardinality(bndelem(p))
      /\ pts[3] = Cardinality(extelem(p)) /\ n4 = Cardinality(outer(p))
  BY <1>1, <1>3, FilledSize
<1>5. /\ End1(p) = pts[1] /\ End2(p) = pts[1] + pts[2] /\ End3(p) = pts[1] + pts[2] + pts[3]
      /\ End4(p) = pts[1] + pts[2] + pts[3] + n4
  BY <1>4 DEF End1, End2, End3, End4
<1>6. \A m \in 1 .. End1(p) : u[m] \in inner(p)
  BY <1>1, <1>2, <1>5 DEF Fills
<1>7. ASSUME NEW m \in Nat, NEW k \in Nat, NEW V, Fills(u, m, k, V), NEW j \in m + 1 .. m + k
      PROVE  u[j] \in V
  <2>1. j - m \in 1 .. k /\ m + (j - m) = j
    OBVIOUS
  <2>2. \A l \in 1 .. k : u[m + l] \in V
    BY <1>7 DEF Fills
  <2>3. u[m + (j - m)] \in V
    BY <2>1, <2>2
  <2> QED
    BY <2>1, <2>3
<1>8. \A m \in End1(p) + 1 .. End2(p) : u[m] \in bndelem(p)
  BY <1>1, <1>2, <1>5, <1>7
<1>9. \A m \in End2(p) + 1 .. End3(p) : u[m] \in extelem(p)
  <2>1. pts[1] + pts[2] \in Nat
    BY <1>2
  <2> QED
    BY <1>1, <1>2, <1>5, <1>7, <2>1
<1>10. \A m \in End3(p) + 1 .. End4(p) : u[m] \in outer(p)
  <2>1. pts[1] + pts[2] + pts[3] \in Nat
    BY <1>2
  <2> QED
    BY <1>1, <1>2, <1>5, <1>7, <2>1
<1>11. Numbering(u, p)
  BY <1>1, <1>5, <1>6, <1>8, <1>9, <1>10 DEF Numbering
<1>12. pts[1] = End1(p) /\ pts[2] = End2(p) - End1(p) /\ pts[3] = End3(p) - End2(p)
  BY <1>2, <1>5
<1> QED
  BY <1>11, <1>12 DEF Numbered, u, pts

(* Blocks of the sizes their lengths say are what the property compares.   *)
LEMMA PartsAre ==
  ASSUME hybrid \in {0, 1}, NEW p \in Proc, Filled(dmd[p].elempart, dmd[p].elempartpts, p)
  PROVE  Par!PartsAsSerial(p)
<1> DEFINE u == dmd[p].elempart
           pts == dmd[p].elempartpts
<1>1. /\ Len(pts) > 3 => pts[4] # 0
      /\ Fills(u, 0, pts[1], inner(p)) /\ Fills(u, pts[1], pts[2], bndelem(p))
      /\ Fills(u, pts[1] + pts[2], pts[3], extelem(p))
      /\ Fills(u, pts[1] + pts[2] + pts[3], Outermost(pts), outer(p))
  BY DEF Filled
<1>2. \A n, V : PartHolds(u, pts, n, V) => Par!Part(p, n) = V
  BY SameOperators DEF Par!Part, PartHolds
<1> HIDE DEF u, pts
<1>3. pts[1] \in Nat /\ pts[2] \in Nat /\ pts[3] \in Nat /\ Outermost(pts) \in Nat
  BY <1>1 DEF Fills
<1>4. /\ SumUpTo(pts, 1 - 1) = 0 /\ SumUpTo(pts, 1) = 0 + pts[1]
      /\ SumUpTo(pts, 2 - 1) = pts[1] /\ SumUpTo(pts, 2) = pts[1] + pts[2]
      /\ SumUpTo(pts, 3 - 1) = pts[1] + pts[2]
      /\ SumUpTo(pts, 3) = (pts[1] + pts[2]) + pts[3]
  <2>1. \A j \in 1 .. 3 : pts[j] \in Nat
    BY <1>3
  <2>2. 3 \in 0 .. 4
    OBVIOUS
  <2>3. SumUpTo(pts, 0) = 0 /\ SumUpTo(pts, 1) = pts[1] /\ SumUpTo(pts, 2) = pts[1] + pts[2]
        /\ SumUpTo(pts, 3) = pts[1] + pts[2] + pts[3]
    BY <2>1, <2>2, PartEnds
  <2> QED
    BY <1>3, <2>3
<1>5. Par!Part(p, 1) = inner(p)
  <2>1. Fills(u, 0, pts[1], inner(p))
    BY <1>1
  <2>2. PartHolds(u, pts, 1, inner(p))
    BY <1>4, <2>1, StretchHolds
  <2> QED
    BY <1>2, <2>2
<1>6. Par!Part(p, 2) = bndelem(p)
  <2>1. Fills(u, pts[1], pts[2], bndelem(p))
    BY <1>1
  <2>2. PartHolds(u, pts, 2, bndelem(p))
    BY <1>4, <2>1, StretchHolds
  <2> QED
    BY <1>2, <2>2
<1>7. Par!Part(p, 3) = extelem(p)
  <2>1. Fills(u, pts[1] + pts[2], pts[3], extelem(p))
    BY <1>1
  <2>2. PartHolds(u, pts, 3, extelem(p))
    BY <1>4, <2>1, StretchHolds
  <2> QED
    BY <1>2, <2>2
<1>8. ASSUME Len(pts) > 3 PROVE hybrid = 0 /\ Par!Part(p, 4) = outelem(p)
  <2>1. Outermost(pts) = pts[4] /\ pts[4] # 0
    BY <1>1, <1>8 DEF Outermost
  <2>2. outer(p) # {}
    <3>1. 1 \in 1 .. pts[4]
      BY <1>3, <2>1
    <3> QED
      BY <1>1, <2>1, <3>1 DEF Fills
  <2>3. hybrid = 0 /\ outer(p) = outelem(p)
    BY <2>2 DEF outer
  <2>4. \A j \in 1 .. 4 : pts[j] \in Nat
    BY <1>3, <2>1
  <2>5. 4 \in 0 .. 4
    OBVIOUS
  <2>6. SumUpTo(pts, 3) = pts[1] + pts[2] + pts[3]
        /\ SumUpTo(pts, 4) = pts[1] + pts[2] + pts[3] + pts[4]
    BY <2>4, <2>5, PartEnds
  <2>7. SumUpTo(pts, 4 - 1) = pts[1] + pts[2] + pts[3]
        /\ SumUpTo(pts, 4) = (pts[1] + pts[2] + pts[3]) + Outermost(pts)
    BY <1>3, <2>1, <2>6
  <2> QED
    BY <1>1, <1>2, <2>3, <2>7, StretchHolds
<1>9. ASSUME ~(Len(pts) > 3) PROVE hybrid = 1 \/ outelem(p) = {}
  <2>1. Outermost(pts) = 0
    BY <1>9 DEF Outermost
  <2>2. outer(p) = {}
    BY <1>1, <2>1 DEF Fills
  <2> QED
    BY <2>2 DEF outer
<1>10. inner(p) = intelem(p) \ bndelem(p)
  BY DEF inner
<1> QED
  BY <1>5, <1>6, <1>7, <1>8, <1>9, <1>10, SameOperators DEF Par!PartsAsSerial, u, pts

-----------------------------------------------------------------------------
(* The steps of a rank.                                                    *)

(* The calls of the rounds for the second layer, and those after PartitionOf. *)
Waiting == {"rowcounts", "rows"}
Recorded == {"reqcounts", "requests", "fields", "done"}

(* What a rank has at its place in the procedure.                          *)
RankReady(p) ==
  /\ DOMAIN cls[p] = {"boundary", "interior", "interface", "neighbor", "outer"}
  /\ {"elempart", "elempartpts"} \subseteq DOMAIN dmd[p]
  /\ pc[p] \in Waiting \cup {"partition"} \cup Recorded => Classes(cls[p], p)
  /\ pc[p] \in Waiting => hybrid = 0
  /\ pc[p] \in {"partition"} \cup Recorded => OuterListed(cls[p], p)
  /\ pc[p] \in Recorded => Filled(dmd[p].elempart, dmd[p].elempartpts, p)

(* Every rank, and every tag, has its entry.                               *)
Functions ==
  DOMAIN msgs = Par!Tags /\ DOMAIN pc = Proc /\ DOMAIN cls = Proc /\ DOMAIN dmd = Proc

(* The invariant of the parallel way.                                      *)
ParInv ==
  /\ ParInputs
  /\ Collected
  /\ Functions
  /\ RowsSent
  /\ \A p \in Proc : RankReady(p)

(* The steps between the collective ones leave alone what is known of the  *)
(* mesh, and all a rank changes there is its own.                          *)
MeshKept == UNCHANGED <<e2e, elem2cpu, hybrid, walls, periodic, elemGlobalID, t2t, nbinfo>>

(* The other ranks stay where they are.                                    *)
OthersKept(p) ==
  \A q \in Proc \ {p} : cls'[q] = cls[q] /\ dmd'[q] = dmd[q] /\ pc'[q] = pc[q]

(* The element sets stay.                                                  *)
LEMMA SetsKept ==
  ASSUME MeshKept
  PROVE  /\ \A p : intelem(p)' = intelem(p) /\ extelem(p)' = extelem(p)
         /\ \A p : bndelem(p)' = bndelem(p) /\ outelem(p)' = outelem(p)
         /\ \A p : LocalIDs(p)' = LocalIDs(p) /\ OnInterface(p)' = OnInterface(p)
<1>1. \A p : intelem(p)' = intelem(p)
  BY DEF MeshKept, intelem
<1>2. \A p : extelem(p)' = extelem(p)
  BY <1>1 DEF MeshKept, extelem, neighboringelements
<1>3. \A p : bndelem(p)' = bndelem(p)
  BY <1>1, <1>2 DEF MeshKept, bndelem, neighboringelements
<1>4. \A p : outelem(p)' = outelem(p)
  BY <1>1, <1>2 DEF MeshKept, outelem, neighboringelements
<1>5. \A p : LocalIDs(p)' = LocalIDs(p)
  BY DEF MeshKept, LocalIDs
<1>6. \A p : OnInterface(p)' = OnInterface(p)
  BY <1>3, <1>5 DEF MeshKept, OnInterface
<1> QED
  BY <1>1, <1>2, <1>3, <1>4, <1>5, <1>6

(* The inputs stay.                                                        *)
LEMMA InputsKept ==
  ASSUME UNCHANGED <<e2e, elem2cpu, hybrid, periodic>>, ParInputs
  PROVE  ParInputs'
BY DEF ParInputs, InputsFixed, Conforming, Par!IsPeriodic

(* So does what a classification says,                                     *)
LEMMA ClassesKept ==
  ASSUME MeshKept, NEW p \in Proc, NEW c, Classes(c, p), cls'[p] = c
  PROVE  Classes(cls[p], p)'
<1>1. WithOwners(extelem(p))' = WithOwners(extelem(p))
  BY SetsKept DEF MeshKept, WithOwners
<1> QED
  BY <1>1, SetsKept DEF Classes

(* the second layer,                                                       *)
LEMMA OuterKept ==
  ASSUME MeshKept, NEW p \in Proc, NEW c, OuterListed(c, p), cls'[p] = c
  PROVE  OuterListed(cls[p], p)'
<1>1. WithOwners(outer(p))' = WithOwners(outer(p))
  BY SetsKept DEF MeshKept, WithOwners, outer
<1> QED
  BY <1>1 DEF OuterListed

(* a numbering,                                                            *)
LEMMA FilledKept ==
  ASSUME MeshKept, NEW p \in Proc, NEW u, NEW pts, Filled(u, pts, p),
         dmd'[p].elempart = u, dmd'[p].elempartpts = pts
  PROVE  Filled(dmd[p].elempart, dmd[p].elempartpts, p)'
<1>1. hybrid' = hybrid
  BY DEF MeshKept
<1>2. /\ inner(p)' = inner(p) /\ outer(p)' = outer(p) /\ Stored(p)' = Stored(p)
      /\ bndelem(p)' = bndelem(p) /\ extelem(p)' = extelem(p)
  BY <1>1, SetsKept DEF inner, outer, Stored, Ghosts
<1> QED
  BY <1>2 DEF Filled

(* what the rows tell,                                                     *)
LEMMA RowsKept ==
  ASSUME UNCHANGED <<e2e, elem2cpu, walls>>, RowsSent,
         \A m \in msgs'["rows"] :
           \/ m \in msgs["rows"]
           \/ /\ m.from \in Proc /\ m.to \in Proc /\ m.from # m.to
              /\ RowsTell(m.body, m.from, m.to)
  PROVE  RowsSent'
<1>1. \A e, x : Around(e, x)' <=> Around(e, x)
  BY DEF Around
<1>2. UNCHANGED <<e2e, elem2cpu>> /\ \A p : intelem(p)' = intelem(p)
  BY DEF intelem
<1>3. ASSUME NEW m \in msgs'["rows"]
      PROVE  /\ m.from \in Proc /\ m.to \in Proc /\ m.from # m.to
             /\ RowsTell(m.body, m.from, m.to)
  BY DEF RowsSent
<1>4. ASSUME NEW body, NEW k, NEW p, RowsTell(body, k, p)
      PROVE  RowsTell(body, k, p)'
  BY <1>1, <1>2, <1>4 DEF RowsTell
<1> QED
  BY <1>3, <1>4 DEF RowsSent

(* and what is known of the faces.                                         *)
LEMMA TopologyKept ==
  ASSUME MeshKept, Moved, Topology(3)
  PROVE  (Moved /\ Topology(3))'
<1>1. Moved'
  BY SetsKept DEF MeshKept, Moved
<1>2. \A e : Par!Faces(e)' = Par!Faces(e)
  BY DEF MeshKept, Par!Faces
<1>3. \A e, f : Found(3, e, f)' <=> Found(3, e, f)
  BY DEF MeshKept, Found, Par!IsPeriodic
<1>4. UNCHANGED <<e2e, elem2cpu, t2t, nbinfo>> /\ \A p : intelem(p)' = intelem(p)
  BY SetsKept DEF MeshKept
<1>5. Topology(3)'
  BY <1>2, <1>3, <1>4 DEF Topology
<1> QED
  BY <1>1, <1>5

(* Past the collective steps every rank knows its part of the mesh.        *)
LEMMA MeshKnown ==
  ASSUME Collected, NEW p \in Proc, pc[p] \notin Early
  PROVE  (\A q \in Proc : pc[q] \notin Early) /\ Moved /\ Topology(3)
BY SameOperators DEF Collected, Early, Par!AllAt

(* A step of rank p that leaves it ready keeps the invariant.              *)
LEMMA RankKeeps ==
  ASSUME ParInv, MeshKept, NEW p \in Proc, pc[p] \notin Early, pc'[p] \notin Early,
         OthersKept(p), Functions', RowsSent', RankReady(p)'
  PROVE  ParInv'
<1>1. ParInputs'
  BY InputsKept DEF ParInv, MeshKept
<1>2. (\A q \in Proc : pc[q] \notin Early) /\ Moved /\ Topology(3)
  BY MeshKnown DEF ParInv
<1>3. \A q \in Proc : pc'[q] \notin Early
  BY <1>2 DEF OthersKept
<1>4. Collected'
  <2>1. (Moved /\ Topology(3))'
    BY <1>2, TopologyKept
  <2> QED
    BY <1>3, <2>1 DEF Collected
<1>5. ASSUME NEW q \in Proc, q # p PROVE RankReady(q)'
  <2>1. cls'[q] = cls[q] /\ dmd'[q] = dmd[q] /\ pc'[q] = pc[q] /\ hybrid' = hybrid
    BY <1>5 DEF OthersKept, MeshKept
  <2>2. RankReady(q)
    BY DEF ParInv
  <2>3. ASSUME Classes(cls[q], q) PROVE Classes(cls[q], q)'
    BY <2>1, <2>3, ClassesKept
  <2>4. ASSUME OuterListed(cls[q], q) PROVE OuterListed(cls[q], q)'
    BY <2>1, <2>4, OuterKept
  <2>5. ASSUME Filled(dmd[q].elempart, dmd[q].elempartpts, q)
        PROVE  Filled(dmd[q].elempart, dmd[q].elempartpts, q)'
    BY <2>1, <2>5, FilledKept
  <2> QED
    BY <2>1, <2>2, <2>3, <2>4, <2>5 DEF RankReady
<1> QED
  BY <1>1, <1>4, <1>5 DEF ParInv

(* Messages of other tags leave the rows alone.                            *)
LEMMA OtherTags ==
  ASSUME Functions, RowsSent, MeshKept, NEW tag \in Par!Tags, tag # "rows", NEW new,
         Par!Sending(tag, new)
  PROVE  DOMAIN msgs' = Par!Tags /\ RowsSent'
<1>1. msgs' = [msgs EXCEPT ![tag] = @ \cup new]
  BY DEF Par!Sending
<1>2. "rows" \in Par!Tags
  BY DEF Par!Tags
<1>3. DOMAIN msgs' = Par!Tags /\ msgs'["rows"] = msgs["rows"]
  BY <1>1, <1>2 DEF Functions
<1> QED
  BY <1>3, RowsKept DEF MeshKept

(* No new message.                                                         *)
LEMMA NoMessage ==
  ASSUME Functions, RowsSent, MeshKept, msgs' = msgs
  PROVE  DOMAIN msgs' = Par!Tags /\ RowsSent'
BY RowsKept DEF Functions, MeshKept

(* classifyElements, and the counts it sends.                              *)
LEMMA ClassifyElementsKeeps ==
  ASSUME ParInv, NEW p \in Proc, Par!ClassifyElements(p)
  PROVE  ParInv'
<1> DEFINE c == Par!Classification(p)
           next == IF hybrid = 0 /\ nbinfo[p] # {} THEN "rowcounts" ELSE "partition"
<1>1. MeshKept /\ dmd' = dmd
  BY DEF Par!ClassifyElements, Par!inputs, MeshKept
<1>2. /\ pc[p] = "classify"
      /\ cls' = [cls EXCEPT ![p] = c]
      /\ pc' = [pc EXCEPT ![p] = next]
  BY DEF Par!ClassifyElements, Par!At, Par!Goto
<1>3. ParInputs /\ Functions /\ RowsSent /\ Collected /\ RankReady(p)
  BY DEF ParInv
<1>4. pc[p] \notin Early
  BY <1>2 DEF Early
<1>5. Moved /\ Topology(3)
  BY <1>3, <1>4, MeshKnown
<1>6. DOMAIN msgs' = Par!Tags /\ RowsSent'
  <2>1. CASE hybrid = 0 /\ nbinfo[p] # {}
    <3>1. PICK new : Par!Sending("rowcount", new)
      BY <2>1 DEF Par!ClassifyElements
    <3>2. "rowcount" \in Par!Tags /\ "rowcount" # "rows"
      BY DEF Par!Tags
    <3> QED
      BY <1>1, <1>3, <3>1, <3>2, OtherTags
  <2>2. CASE ~(hybrid = 0 /\ nbinfo[p] # {})
    <3>1. msgs' = msgs
      BY <2>2 DEF Par!ClassifyElements
    <3> QED
      BY <1>1, <1>3, <3>1, NoMessage
  <2> QED
    BY <2>1, <2>2
<1>7. /\ Classes(c, p)
      /\ c.outer = <<>>
      /\ DOMAIN c = {"boundary", "interior", "interface", "neighbor", "outer"}
  BY <1>3, <1>5, ClassificationOf
<1>8. ASSUME next = "partition" PROVE OuterListed(c, p)
  <2>1. outer(p) = {}
    <3>1. CASE hybrid # 0
      BY <3>1 DEF outer
    <3>2. CASE hybrid = 0
      <4>1. nbinfo[p] = {}
        BY <1>8, <3>2
      <4>2. extelem(p) = {}
        <5> SUFFICES ASSUME NEW f \in extelem(p) PROVE FALSE
          OBVIOUS
        <5>1. PICK e \in intelem(p) : f \in e2e[e] /\ elem2cpu[f] # p
          BY <1>3, RemoteFaces DEF ParInputs
        <5>2. <<e, f, elem2cpu[f]>> \in nbinfo[p]
          BY <1>5, <5>1 DEF Topology, Found
        <5> QED
          BY <4>1, <5>2
      <4> QED
        BY <4>2 DEF outer, outelem, neighboringelements
    <3> QED
      BY <3>1, <3>2
  <2>2. WithOwners(outer(p)) = {}
    BY <2>1 DEF WithOwners
  <2>3. Holds(<<>>, WithOwners(outer(p)))
    BY <2>2 DEF Holds
  <2> QED
    BY <1>7, <2>3 DEF OuterListed
<1> HIDE DEF c
<1>9. /\ Functions' /\ OthersKept(p) /\ pc'[p] = next /\ cls'[p] = c
      /\ next \in {"rowcounts", "partition"}
      /\ next = "rowcounts" => hybrid = 0
  BY <1>1, <1>2, <1>3, <1>6 DEF Functions, OthersKept
<1> HIDE DEF next
<1>10. Classes(cls[p], p)'
  BY <1>1, <1>7, <1>9, ClassesKept
<1>11. next = "partition" => OuterListed(cls[p], p)'
  BY <1>1, <1>8, <1>9, OuterKept
<1>12. RankReady(p)'
  <2>1. hybrid' = hybrid
    BY <1>1 DEF MeshKept
  <2>2. next \notin Recorded
    BY <1>9 DEF Recorded
  <2>3. next \in Waiting => hybrid = 0
    BY <1>9 DEF Waiting
  <2> QED
    BY <1>1, <1>3, <1>7, <1>9, <1>10, <1>11, <2>1, <2>2, <2>3 DEF RankReady, Waiting
<1>13. pc'[p] \notin Early
  BY <1>9 DEF Early
<1> QED
  BY <1>1, <1>4, <1>6, <1>9, <1>12, <1>13, RankKeeps

(* The rows a rank sends tell what they should.                            *)
LEMMA ReceiveRowCountsKeeps ==
  ASSUME ParInv, NEW p \in Proc, Par!ReceiveRowCounts(p)
  PROVE  ParInv'
<1> DEFINE new == {Par!Message(p, k, 1, Par!Rows(p, k)) : k \in Par!RowNeighbors(p)}
<1>1. MeshKept /\ dmd' = dmd /\ cls' = cls
  BY DEF Par!ReceiveRowCounts, Par!inputs, MeshKept
<1>2. /\ pc[p] = "rowcounts"
      /\ pc' = [pc EXCEPT ![p] = "rows"]
      /\ msgs' = [msgs EXCEPT !["rows"] = @ \cup new]
  BY DEF Par!ReceiveRowCounts, Par!At, Par!Goto, Par!Sending
<1>3. ParInputs /\ Functions /\ RowsSent /\ Collected /\ RankReady(p)
  BY DEF ParInv
<1>4. pc[p] \notin Early
  BY <1>2 DEF Early
<1>5. Moved /\ Topology(3)
  BY <1>3, <1>4, MeshKnown
<1>6. hybrid = 0 /\ Classes(cls[p], p)
  BY <1>2, <1>3 DEF RankReady, Waiting
<1>7. Holds(cls[p].neighbor, WithOwners(extelem(p)))
  BY <1>6 DEF Classes
<1>8. ASSUME NEW m \in new
      PROVE  /\ m.from \in Proc /\ m.to \in Proc /\ m.from # m.to
             /\ RowsTell(m.body, m.from, m.to)
  <2>1. PICK k \in Par!RowNeighbors(p) : m = Par!Message(p, k, 1, Par!Rows(p, k))
    BY <1>8
  <2>2. m.from = p /\ m.to = k /\ m.body = Par!Rows(p, k)
    BY <2>1 DEF Par!Message
  <2>3. k \in Proc /\ k # p /\ RowsTell(Par!Rows(p, k), p, k)
    BY <1>3, <1>5, <1>7, <2>1, RowsOf
  <2> QED
    BY <2>2, <2>3
<1> HIDE DEF new
<1>9. DOMAIN msgs' = Par!Tags /\ msgs'["rows"] = msgs["rows"] \cup new
  BY <1>2, <1>3 DEF Functions, Par!Tags
<1>10. RowsSent'
  BY <1>1, <1>3, <1>8, <1>9, RowsKept DEF MeshKept
<1>11. Functions' /\ OthersKept(p) /\ pc'[p] = "rows"
  BY <1>1, <1>2, <1>3, <1>9 DEF Functions, OthersKept
<1>12. Classes(cls[p], p)'
  BY <1>1, <1>6, ClassesKept
<1>13. RankReady(p)' /\ pc'[p] \notin Early
  <2>1. hybrid' = hybrid
    BY <1>1 DEF MeshKept
  <2> QED
    BY <1>1, <1>3, <1>6, <1>11, <1>12, <2>1 DEF RankReady, Waiting, Recorded, Early
<1> QED
  BY <1>1, <1>4, <1>10, <1>11, <1>13, RankKeeps

(* The rows that arrive give the second layer, or the job is stopped.      *)
LEMMA ReceiveRowsKeeps ==
  ASSUME ParInv, NEW p \in Proc, Par!ReceiveRows(p)
  PROVE  ParInv'
<1>1. MeshKept /\ dmd' = dmd /\ msgs' = msgs
  BY DEF Par!ReceiveRows, Par!inputs, MeshKept
<1>2. pc[p] = "rows" /\ Par!Arrived("rows", p, Par!RowNeighbors(p), 1)
  BY DEF Par!ReceiveRows, Par!At
<1>3. ParInputs /\ Functions /\ RowsSent /\ Collected /\ RankReady(p)
  BY DEF ParInv
<1>4. pc[p] \notin Early
  BY <1>2 DEF Early
<1>5. Moved /\ Topology(3)
  BY <1>3, <1>4, MeshKnown
<1>6. hybrid = 0 /\ Classes(cls[p], p)
  BY <1>2, <1>3 DEF RankReady, Waiting
<1>7. Holds(cls[p].neighbor, WithOwners(extelem(p)))
  BY <1>6 DEF Classes
<1>8. DOMAIN msgs' = Par!Tags /\ RowsSent'
  BY <1>1, <1>3, NoMessage
<1>9. hybrid' = hybrid
  BY <1>1 DEF MeshKept
<1>10. CASE Par!Truncated(p)
  <2>1. cls' = cls /\ pc' = pc
    BY <1>10 DEF Par!ReceiveRows
  <2>2. Functions' /\ OthersKept(p) /\ pc'[p] = "rows"
    BY <1>1, <1>2, <1>3, <1>8, <2>1 DEF Functions, OthersKept
  <2>3. Classes(cls[p], p)'
    BY <1>1, <1>6, <2>1, ClassesKept
  <2>4. RankReady(p)' /\ pc'[p] \notin Early
    BY <1>1, <1>3, <1>6, <1>9, <2>1, <2>2, <2>3 DEF RankReady, Waiting, Recorded, Early
  <2> QED
    BY <1>1, <1>4, <1>8, <2>2, <2>4, RankKeeps
<1>11. CASE ~Par!Truncated(p)
  <2>1. PICK s \in Par!OuterOrders(p) : cls' = [cls EXCEPT ![p].outer = s]
    BY <1>11 DEF Par!ReceiveRows
  <2>2. pc' = [pc EXCEPT ![p] = "partition"]
    BY <1>11 DEF Par!ReceiveRows, Par!Goto
  <2>3. Holds(s, WithOwners(outelem(p)))
    <3>1. UNION {Par!OuterFrom(p, k) : k \in Par!RowNeighbors(p)} = WithOwners(outelem(p))
      BY <1>2, <1>3, <1>5, <1>7, OuterAre
    <3> QED
      BY <1>3, <2>1, <3>1, OuterOrdersList DEF ParInputs
  <2> DEFINE c == [cls[p] EXCEPT !.outer = s]
  <2>4. /\ DOMAIN c = {"boundary", "interior", "interface", "neighbor", "outer"}
        /\ c.outer = s /\ c.boundary = cls[p].boundary /\ c.interior = cls[p].interior
        /\ c.interface = cls[p].interface /\ c.neighbor = cls[p].neighbor
    BY <1>3 DEF RankReady
  <2>5. cls' = [cls EXCEPT ![p] = c]
    BY <2>1
  <2> HIDE DEF c
  <2>6. Classes(c, p) /\ OuterListed(c, p)
    <3>1. Classes(c, p)
      BY <1>6, <2>4 DEF Classes
    <3>2. OuterListed(c, p)
      BY <1>6, <2>3, <2>4 DEF OuterListed, outer
    <3> QED
      BY <3>1, <3>2
  <2>7. Functions' /\ OthersKept(p) /\ pc'[p] = "partition" /\ cls'[p] = c
    BY <1>1, <1>3, <1>8, <2>2, <2>5 DEF Functions, OthersKept
  <2>8. Classes(cls[p], p)' /\ OuterListed(cls[p], p)'
    BY <1>1, <2>6, <2>7, ClassesKept, OuterKept
  <2>9. RankReady(p)' /\ pc'[p] \notin Early
    BY <1>1, <1>3, <2>4, <2>7, <2>8 DEF RankReady, Waiting, Recorded, Early
  <2> QED
    BY <1>1, <1>4, <1>8, <2>7, <2>9, RankKeeps
<1> QED
  BY <1>10, <1>11

(* The classes and the second layer give the numbering.                    *)
LEMMA BuildElemRecvKeeps ==
  ASSUME ParInv, NEW p \in Proc, Par!BuildElemRecv(p)
  PROVE  ParInv'
<1> DEFINE d == Par!PartitionOf(p)
<1>1. MeshKept /\ cls' = cls
  BY DEF Par!BuildElemRecv, Par!inputs, MeshKept
<1>2. /\ pc[p] = "partition"
      /\ pc' = [pc EXCEPT ![p] = "reqcounts"]
      /\ dmd' = [dmd EXCEPT ![p] = d]
  BY DEF Par!BuildElemRecv, Par!At, Par!Goto
<1>3. PICK new : Par!Sending("reqcount", new)
  BY DEF Par!BuildElemRecv
<1>4. ParInputs /\ Functions /\ RowsSent /\ Collected /\ RankReady(p)
  BY DEF ParInv
<1>5. pc[p] \notin Early
  BY <1>2 DEF Early
<1>6. Moved
  BY <1>4, <1>5, MeshKnown
<1>7. Classes(cls[p], p) /\ OuterListed(cls[p], p)
  BY <1>2, <1>4 DEF RankReady
<1>8. "reqcount" \in Par!Tags /\ "reqcount" # "rows"
  BY DEF Par!Tags
<1>9. DOMAIN msgs' = Par!Tags /\ RowsSent'
  BY <1>1, <1>3, <1>4, <1>8, OtherTags
<1>10. /\ {"elempart", "elempartpts"} \subseteq DOMAIN d
       /\ d.elempart = Par!buildElempart(p) /\ d.elempartpts = Par!buildElempartpts(p)
  BY DEF Par!PartitionOf, Par!Serial!NoDmd
<1>11. Filled(d.elempart, d.elempartpts, p)
  BY <1>4, <1>6, <1>7, <1>10, PartitionFilled
<1> HIDE DEF d
<1>12. Functions' /\ OthersKept(p) /\ pc'[p] = "reqcounts" /\ dmd'[p] = d
  BY <1>1, <1>2, <1>4, <1>9 DEF Functions, OthersKept
<1>13. Classes(cls[p], p)' /\ OuterListed(cls[p], p)'
  BY <1>1, <1>7, ClassesKept, OuterKept
<1>14. Filled(dmd[p].elempart, dmd[p].elempartpts, p)'
  BY <1>1, <1>11, <1>12, FilledKept
<1>15. RankReady(p)' /\ pc'[p] \notin Early
  BY <1>1, <1>4, <1>10, <1>12, <1>13, <1>14 DEF RankReady, Waiting, Recorded, Early
<1> QED
  BY <1>1, <1>5, <1>9, <1>12, <1>15, RankKeeps

(* The later steps leave elempart alone.                                   *)
LEMMA RecordKept ==
  ASSUME ParInv, NEW p \in Proc, pc[p] \in Recorded, pc'[p] \in Recorded,
         MeshKept, OthersKept(p), Functions', RowsSent', cls' = cls,
         {"elempart", "elempartpts"} \subseteq DOMAIN dmd'[p],
         dmd'[p].elempart = dmd[p].elempart, dmd'[p].elempartpts = dmd[p].elempartpts
  PROVE  ParInv'
<1>1. RankReady(p)
  BY DEF ParInv
<1>2. pc[p] \notin Early /\ pc'[p] \notin Early /\ pc'[p] \notin Waiting
  BY DEF Early, Recorded, Waiting
<1>3. /\ Classes(cls[p], p) /\ OuterListed(cls[p], p)
      /\ Filled(dmd[p].elempart, dmd[p].elempartpts, p)
  BY <1>1 DEF RankReady
<1>4. /\ Classes(cls[p], p)' /\ OuterListed(cls[p], p)'
      /\ Filled(dmd[p].elempart, dmd[p].elempartpts, p)'
  BY <1>3, ClassesKept, OuterKept, FilledKept
<1>5. RankReady(p)'
  BY <1>1, <1>2, <1>4 DEF RankReady
<1> QED
  BY <1>2, <1>5, RankKeeps

(* The rounds of requests and of fields leave the numbering alone.         *)
LEMMA ReceiveRequestCountsKeeps ==
  ASSUME ParInv, NEW p \in Proc, Par!ReceiveRequestCounts(p)
  PROVE  ParInv'
<1>1. MeshKept /\ cls' = cls /\ dmd' = dmd
  BY DEF Par!ReceiveRequestCounts, Par!inputs, MeshKept
<1>2. pc[p] = "reqcounts" /\ pc' = [pc EXCEPT ![p] = "requests"]
  BY DEF Par!ReceiveRequestCounts, Par!At, Par!Goto
<1>3. PICK new : Par!Sending("requests", new)
  BY DEF Par!ReceiveRequestCounts
<1>4. Functions /\ RowsSent /\ RankReady(p)
  BY DEF ParInv
<1>5. "requests" \in Par!Tags /\ "requests" # "rows"
  BY DEF Par!Tags
<1>6. DOMAIN msgs' = Par!Tags /\ RowsSent'
  BY <1>1, <1>3, <1>4, <1>5, OtherTags
<1>7. Functions' /\ OthersKept(p) /\ pc'[p] = "requests"
  BY <1>1, <1>2, <1>4, <1>6 DEF Functions, OthersKept
<1>8. pc[p] \in Recorded /\ pc'[p] \in Recorded
  BY <1>2, <1>7 DEF Recorded
<1>9. {"elempart", "elempartpts"} \subseteq DOMAIN dmd'[p]
  BY <1>1, <1>4 DEF RankReady
<1> QED
  BY <1>1, <1>6, <1>7, <1>8, <1>9, RecordKept

(* The answers to the requests go into other fields of the record.         *)
LEMMA ReceiveRequestsKeeps ==
  ASSUME ParInv, NEW p \in Proc, Par!ReceiveRequests(p)
  PROVE  ParInv'
<1>1. MeshKept /\ cls' = cls
  BY DEF Par!ReceiveRequests, Par!inputs, MeshKept
<1>2. pc[p] = "requests" /\ pc' = [pc EXCEPT ![p] = "fields"]
  BY DEF Par!ReceiveRequests, Par!At, Par!Goto
<1>3. PICK new : Par!Sending("field", new)
  BY DEF Par!ReceiveRequests
<1>4. PICK send, pts : dmd' = [dmd EXCEPT ![p].elemsend = send, ![p].elemsendpts = pts]
  BY DEF Par!ReceiveRequests
<1>5. Functions /\ RowsSent /\ RankReady(p)
  BY DEF ParInv
<1>6. "field" \in Par!Tags /\ "field" # "rows"
  BY DEF Par!Tags
<1>7. DOMAIN msgs' = Par!Tags /\ RowsSent'
  BY <1>1, <1>3, <1>5, <1>6, OtherTags
<1>8. /\ DOMAIN dmd' = Proc /\ \A q \in Proc \ {p} : dmd'[q] = dmd[q]
      /\ dmd'[p] = [dmd[p] EXCEPT !.elemsend = send, !.elemsendpts = pts]
  BY <1>4, <1>5 DEF Functions
<1>9. Functions' /\ OthersKept(p) /\ pc'[p] = "fields"
  BY <1>1, <1>2, <1>5, <1>7, <1>8 DEF Functions, OthersKept
<1>10. pc[p] \in Recorded /\ pc'[p] \in Recorded
  BY <1>2, <1>9 DEF Recorded
<1>11. /\ {"elempart", "elempartpts"} \subseteq DOMAIN dmd'[p]
       /\ dmd'[p].elempart = dmd[p].elempart /\ dmd'[p].elempartpts = dmd[p].elempartpts
  BY <1>5, <1>8 DEF RankReady
<1> QED
  BY <1>1, <1>7, <1>9, <1>10, <1>11, RecordKept

(* The files take nothing from it either.                                  *)
LEMMA ExchangeFieldKeeps ==
  ASSUME ParInv, NEW p \in Proc, Par!ExchangeField(p)
  PROVE  ParInv'
<1>1. MeshKept /\ cls' = cls /\ dmd' = dmd
  BY DEF Par!ExchangeField, Par!inputs, MeshKept
<1>2. pc[p] = "fields"
  BY DEF Par!ExchangeField, Par!At
<1>3. Functions /\ RowsSent /\ RankReady(p)
  BY DEF ParInv
<1>4. \/ pc' = pc /\ \E new : Par!Sending("field", new)
      \/ pc' = [pc EXCEPT ![p] = "done"] /\ msgs' = msgs
  BY DEF Par!ExchangeField, Par!Goto
<1>5. "field" \in Par!Tags /\ "field" # "rows"
  BY DEF Par!Tags
<1>6. DOMAIN msgs' = Par!Tags /\ RowsSent'
  BY <1>1, <1>3, <1>4, <1>5, OtherTags, NoMessage
<1>7. DOMAIN pc' = Proc /\ pc'[p] \in {"fields", "done"} /\ \A q \in Proc \ {p} : pc'[q] = pc[q]
  BY <1>2, <1>3, <1>4 DEF Functions
<1>8. Functions' /\ OthersKept(p)
  BY <1>1, <1>3, <1>6, <1>7 DEF Functions, OthersKept
<1>9. pc[p] \in Recorded /\ pc'[p] \in Recorded
  BY <1>2, <1>7 DEF Recorded
<1>10. {"elempart", "elempartpts"} \subseteq DOMAIN dmd'[p]
  BY <1>1, <1>3 DEF RankReady
<1> QED
  BY <1>1, <1>6, <1>8, <1>9, <1>10, RecordKept

(* In the collective steps the ranks learn the mesh, no more.              *)
LEMMA CollectiveKeeps ==
  ASSUME ParInv, Par!Collective
  PROVE  ParInv'
<1>1. ParInputs /\ Functions /\ RowsSent /\ Collected
  BY DEF ParInv
<1>2. Collected'
  BY <1>1, CallParMetisKeeps, FirstNeighborsKeep, PeriodicFacesKeep DEF Par!Collective
<1>3. UNCHANGED <<e2e, elem2cpu, hybrid, walls, periodic, cls, dmd, msgs>>
  BY DEF Par!Collective, Par!CallParMetis, Par!mke2e_fill_first_neighbors,
         Par!setperiodicfaces, Par!inputs
<1>4. PICK label \in {"neighbors", "periodic", "classify"} : pc' = [p \in Proc |-> label]
  BY SameOperators DEF Par!Collective, Par!CallParMetis, Par!mke2e_fill_first_neighbors,
                       Par!setperiodicfaces
<1>5. ParInputs'
  BY <1>1, <1>3, InputsKept
<1>6. Functions'
  BY <1>1, <1>3, <1>4 DEF Functions
<1>7. RowsSent'
  BY <1>1, <1>3, RowsKept
<1>8. ASSUME NEW p \in Proc PROVE RankReady(p)'
  <2>1. pc'[p] \in {"neighbors", "periodic", "classify"}
    BY <1>4
  <2>2. pc'[p] \notin Waiting \cup {"partition"} \cup Recorded
    BY <2>1 DEF Waiting, Recorded
  <2>3. RankReady(p)
    BY DEF ParInv
  <2> QED
    BY <1>3, <2>2, <2>3 DEF RankReady
<1> QED
  BY <1>2, <1>5, <1>6, <1>7, <1>8 DEF ParInv

(* No rank has started.                                                    *)
LEMMA InitParInv ==
  ASSUME Par!Init
  PROVE  ParInv
<1>1. PICK mesh \in Meshes : e2e = mesh.e2e /\ walls = mesh.walls /\ periodic = mesh.periodic
  BY DEF Par!Init
<1>2. elem2cpu \in [Elem -> Proc] /\ hybrid \in {0, 1} /\ Par!NothingBuilt
  BY SameOperators DEF Par!Init
<1>3. Par!MeshConforming(mesh)
  BY MeshesAssumption
<1>4. ParInputs
  <2>1. InputsFixed
    BY <1>1, <1>2, <1>3, SameOperators DEF Par!MeshConforming, InputsFixed, Conforming
  <2>2. \A e, f : <<e, f>> \in periodic => e \in Elem /\ f \in Elem /\ f \in e2e[e]
    BY <1>1, <1>3, SameOperators DEF Par!MeshConforming
  <2>3. \A e, f : Par!IsPeriodic(e, f) => e \in Elem /\ f \in e2e[e]
    BY <2>1, <2>2 DEF Par!IsPeriodic, InputsFixed, Conforming
  <2> QED
    BY <1>2, <2>1, <2>3 DEF ParInputs
<1>5. /\ nbinfo = [p \in Proc |-> {}] /\ pc = [p \in Proc |-> "migrate"]
      /\ cls = [p \in Proc |-> Par!NoClassification] /\ dmd = [p \in Proc |-> Par!Serial!NoDmd]
      /\ msgs = [tag \in Par!Tags |-> {}]
  BY <1>2, SameOperators DEF Par!NothingBuilt
<1>6. Collected
  BY <1>5, SameOperators DEF Collected, Par!AllAt
<1>7. Functions
  BY <1>5 DEF Functions
<1>8. RowsSent
  BY <1>5 DEF RowsSent, Par!Tags
<1>9. ASSUME NEW p \in Proc PROVE RankReady(p)
  <2>1. pc[p] \notin Waiting \cup {"partition"} \cup Recorded
    BY <1>5 DEF Waiting, Recorded
  <2>2. /\ DOMAIN cls[p] = {"boundary", "interior", "interface", "neighbor", "outer"}
        /\ {"elempart", "elempartpts"} \subseteq DOMAIN dmd[p]
    BY <1>5 DEF Par!NoClassification, Par!Serial!NoDmd
  <2> QED
    BY <2>1, <2>2 DEF RankReady
<1> QED
  BY <1>4, <1>6, <1>7, <1>8, <1>9 DEF ParInv

(* One step of a rank.                                                     *)
LEMMA RankStepKeeps ==
  ASSUME ParInv, NEW p \in Proc, Par!RankStep(p)
  PROVE  ParInv'
<1>1. CASE Par!ClassifyElements(p)
  BY <1>1, ClassifyElementsKeeps
<1>2. CASE Par!ReceiveRowCounts(p)
  BY <1>2, ReceiveRowCountsKeeps
<1>3. CASE Par!ReceiveRows(p)
  BY <1>3, ReceiveRowsKeeps
<1>4. CASE Par!BuildElemRecv(p)
  BY <1>4, BuildElemRecvKeeps
<1>5. CASE Par!ReceiveRequestCounts(p)
  BY <1>5, ReceiveRequestCountsKeeps
<1>6. CASE Par!ReceiveRequests(p)
  BY <1>6, ReceiveRequestsKeeps
<1>7. CASE Par!ExchangeField(p)
  BY <1>7, ExchangeFieldKeeps
<1> QED
  BY <1>1, <1>2, <1>3, <1>4, <1>5, <1>6, <1>7 DEF Par!RankStep

(* A stuttering step.                                                      *)
LEMMA ParStutterKeeps ==
  ASSUME ParInv, UNCHANGED preprocessingVars
  PROVE  ParInv'
<1>1. MeshKept /\ UNCHANGED <<cls, dmd, msgs, pc>>
  BY DEF preprocessingVars, parallelVars, vars, MeshKept
<1>2. ParInputs /\ Functions /\ RowsSent /\ Collected
  BY DEF ParInv
<1>3. ParInputs' /\ RowsSent' /\ Functions'
  BY <1>1, <1>2, InputsKept, RowsKept DEF MeshKept, Functions
<1>4. ASSUME NEW p \in Proc PROVE RankReady(p)'
  <2>1. RankReady(p) /\ hybrid' = hybrid
    BY <1>1 DEF ParInv, MeshKept
  <2>2. ASSUME Classes(cls[p], p) PROVE Classes(cls[p], p)'
    BY <1>1, <2>2, ClassesKept
  <2>3. ASSUME OuterListed(cls[p], p) PROVE OuterListed(cls[p], p)'
    BY <1>1, <2>3, OuterKept
  <2>4. ASSUME Filled(dmd[p].elempart, dmd[p].elempartpts, p)
        PROVE  Filled(dmd[p].elempart, dmd[p].elempartpts, p)'
    BY <1>1, <2>4, FilledKept
  <2> QED
    BY <1>1, <2>1, <2>2, <2>3, <2>4 DEF RankReady
<1>5. Collected'
  <2>1. CASE pc[0] \in Early
    <3>1. ASSUME NEW stage \in {1, 2}, Topology(stage) PROVE Topology(stage)'
      <4>1. \A e, f : /\ Par!Faces(e)' = Par!Faces(e)
                      /\ Found(stage, e, f)' <=> Found(stage, e, f)
        BY <1>1 DEF MeshKept, Par!Faces, Found, Par!IsPeriodic
      <4>2. UNCHANGED <<e2e, elem2cpu, t2t, nbinfo>> /\ \A p : intelem(p)' = intelem(p)
        BY <1>1, SetsKept DEF MeshKept
      <4> QED
        BY <3>1, <4>1, <4>2 DEF Topology
    <3>2. Moved => Moved'
      BY <1>1, SetsKept DEF MeshKept, Moved
    <3>3. nbinfo' = nbinfo /\ pc' = pc
      BY <1>1 DEF MeshKept
    <3>4. \A label : Par!AllAt(label)' <=> Par!AllAt(label)
      BY <3>3 DEF Par!AllAt
    <3> QED
      BY <1>2, <2>1, <3>1, <3>2, <3>3, <3>4, SomeRank DEF Collected
  <2>2. CASE pc[0] \notin Early
    <3>1. (\A p \in Proc : pc[p] \notin Early) /\ (Moved /\ Topology(3))'
      BY <1>1, <1>2, <2>2, SomeRank, MeshKnown, TopologyKept
    <3> QED
      BY <1>1, <3>1 DEF Collected
  <2> QED
    BY <2>1, <2>2
<1> QED
  BY <1>3, <1>4, <1>5 DEF ParInv

(* What holds of the parallel way at every moment.                         *)
ParallelInv ==
  mode = "parallel" => ParInv /\ i \in {0, Nproc + 1} /\ (Built => Par!AllDone)

(* The way that is taken is an input.                                      *)
LEMMA ModeStays ==
  ASSUME [PreprocessingNext]_preprocessingVars
  PROVE  mode' = mode
BY DEF PreprocessingNext, SerialPreprocessing, CollectiveStep, RankStep,
       ParallelPreprocessing, preprocessingVars

(* Whatever order the messages arrive in and whatever counts the library   *)
(* read late, a rank at any place of the procedure holds what it has to    *)
(* know of the mesh there, and, from buildElempart on, its numbering.      *)
THEOREM RanksKnowTheirParts == PreprocessingSpec => []ParallelInv
<1>1. PreprocessingInit => ParallelInv
  BY InitParInv, NprocAssumption
     DEF PreprocessingInit, SerialInit, ParallelInit, ParallelInv, Built
<1>2. ParallelInv /\ [PreprocessingNext]_preprocessingVars => ParallelInv'
  <2> SUFFICES ASSUME ParallelInv, [PreprocessingNext]_preprocessingVars, mode' = "parallel"
               PROVE  ParInv' /\ i' \in {0, Nproc + 1} /\ (Built => Par!AllDone)'
    BY DEF ParallelInv
  <2>1. mode = "parallel"
    BY ModeStays
  <2>2. ParInv /\ i \in {0, Nproc + 1} /\ (Built => Par!AllDone)
    BY <2>1 DEF ParallelInv
  <2>3. CASE CollectiveStep
    BY <2>2, <2>3, CollectiveKeeps, NprocAssumption
       DEF CollectiveStep, ParallelPreprocessing, Built
  <2>4. CASE \E p \in Proc : RankStep(p)
    BY <2>2, <2>4, RankStepKeeps, NprocAssumption DEF RankStep, ParallelPreprocessing, Built
  <2>5. CASE UNCHANGED preprocessingVars
    <3>1. i' = i /\ (Built => Par!AllDone)'
      BY <2>2, <2>5 DEF preprocessingVars, parallelVars, vars, Built, Par!AllDone, Par!AllAt
    <3> QED
      BY <2>2, <2>5, <3>1, ParStutterKeeps
  <2> QED
    BY <2>1, <2>3, <2>4, <2>5 DEF PreprocessingNext, SerialPreprocessing
<1> QED
  BY <1>1, <1>2, PTL DEF PreprocessingSpec

(* When the records of the parallel way are complete, they are for every   *)
(* rank.                                                                   *)
LEMMA RecordsFilled ==
  ASSUME ParallelInv, mode = "parallel", Built, NEW p \in Proc
  PROVE  /\ InputsFixed /\ hybrid \in {0, 1}
         /\ Filled(dmd[p].elempart, dmd[p].elempartpts, p)
<1>1. RankReady(p) /\ pc[p] = "done" /\ InputsFixed /\ hybrid \in {0, 1}
  BY SameOperators DEF ParallelInv, ParInv, ParInputs, Par!AllDone, Par!AllAt
<1> QED
  BY <1>1 DEF RankReady, Recorded

(* The rounds that complete give every rank the parts the serial           *)
(* decomposition gives it.                                                 *)
THEOREM PartsAgree == PreprocessingSpec => []SameAsSerial
<1>1. ParallelInv => SameAsSerial
  BY RecordsFilled, PartsAre DEF SameAsSerial
<1> QED
  BY <1>1, RanksKnowTheirParts, PTL

(* One process that decomposes the mesh for all ranks is the serial        *)
(* decomposition, with everything proved of it.                            *)
THEOREM SerialWay == PreprocessingSpec /\ mode = "serial" => Spec
<1>1. PreprocessingInit /\ mode = "serial" => Init
  BY DEF PreprocessingInit, SerialInit, ParallelInit
<1>2. mode = "serial" /\ [PreprocessingNext]_preprocessingVars => [Next]_vars
  BY DEF PreprocessingNext, SerialPreprocessing, CollectiveStep, RankStep,
         ParallelPreprocessing, preprocessingVars
<1>3. mode = "serial" /\ [PreprocessingNext]_preprocessingVars => (mode = "serial")'
  BY ModeStays
<1> QED
  BY <1>1, <1>2, <1>3, PTL DEF PreprocessingSpec, Spec

(* A program takes one of the two ways.                                    *)
LEMMA OneWay ==
  PreprocessingSpec => \/ (mode = "serial") /\ [](mode = "serial")
                       \/ [](mode = "parallel")
<1>1. PreprocessingInit => mode = "serial" \/ mode = "parallel"
  BY DEF PreprocessingInit, SerialInit, ParallelInit
<1>2. mode = "serial" /\ [PreprocessingNext]_preprocessingVars => (mode = "serial")'
  BY ModeStays
<1>3. mode = "parallel" /\ [PreprocessingNext]_preprocessingVars => (mode = "parallel")'
  BY ModeStays
<1> QED
  BY <1>1, <1>2, <1>3, PTL DEF PreprocessingSpec

(* What the parallel way writes into elempart is a numbering with the      *)
(* owned elements first too, so either way gives the solver one, unless    *)
(* one process puts coupled elements first.                                *)
THEOREM NumberingEitherWay ==
  PreprocessingSpec => []((mode = "serial" => Uncoupled) => ElempartIsPartition)
<1>1. ParallelInv /\ mode = "parallel" => ElempartIsPartition
  <2> SUFFICES ASSUME ParallelInv, mode = "parallel", NEW p \in Proc, p < i
               PROVE  /\ IsInjective(dmd[p].elempart)
                      /\ {dmd[p].elempart[m] : m \in 1 .. NOwned(p)} = intelem(p)
    BY DEF ElempartIsPartition
  <2>1. Built
    BY NprocAssumption DEF ParallelInv, Built, Proc
  <2> QED
    BY <2>1, RecordsFilled, FilledNumbered, OwnedFirst
<1> QED
  BY <1>1, RanksKnowTheirParts, SerialWay, NumberingIsPartition, OneWay, PTL

(* The same for the stencils: what a rank computes on has its neighbours   *)
(* in the numbering, whoever wrote the files.                              *)
THEOREM StencilEitherWay ==
  PreprocessingSpec => []((mode = "serial" => Uncoupled) => StencilStored)
<1>1. ParallelInv /\ mode = "parallel" => StencilStored
  BY RecordsFilled, FilledNumbered, StencilOf DEF StencilStored
<1> QED
  BY <1>1, RanksKnowTheirParts, SerialWay, StencilIsStored, OneWay, PTL

(* And for the block processed first: whoever wrote the files, no element  *)
(* of it has a neighbour on another rank.                                  *)
THEOREM InteriorEitherWay ==
  PreprocessingSpec => []((mode = "serial" => Uncoupled) => InteriorNeedsNoGhost)
<1>1. ParallelInv /\ mode = "parallel" => InteriorNeedsNoGhost
  BY RecordsFilled, FilledNumbered, InteriorOf DEF InteriorNeedsNoGhost
<1> QED
  BY <1>1, RanksKnowTheirParts, SerialWay, InteriorIsLocal, OneWay, PTL

=============================================================================
