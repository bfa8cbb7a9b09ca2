-------------------------- MODULE HdgExchangeProofs --------------------------
(***************************************************************************)
(* The parallel HDG products on any number of ranks, for any symmetric     *)
(* relations of neighbours inside a domain and across the interface, and   *)
(* for any sequence of products, reductions and passes of smoothing.       *)
(*                                                                         *)
(* Two kinds of messages travel between the same ranks.  Those of elements *)
(* carry every operation; those of faces carry the products only, and a    *)
(* rank posts them after the elements.  For both kinds the invariant       *)
(* counts what a pair of ranks has posted, sent and received, by the       *)
(* number Order gives to the content of a message.                         *)
(***************************************************************************)
EXTENDS HdgExchange, FiniteSetTheorems, TLAPS

Working == {"elemPosted", "facesPosted", "waiting"}
IdleElems(r) == pc[r] \in {"ready", "reduce"}
IdleFaces(r) == pc[r] \in {"ready", "reduce", "smoothed", "elemPosted"}

(* The exchanges of faces a rank has posted.                               *)
FacePosts(r) == Products(v[r]) - (IF pc[r] = "elemPosted" THEN 1 ELSE 0)

(* The number of an operation among those that send the message.           *)
ElemOrder == [op \in Version |-> op]
FaceOrder == [op \in Version |-> IF op \in Smoothing THEN -1 ELSE Products(op)]

(* Messages of one kind from s to d, which have posted ps and pd exchanges *)
(* with each other: un sends unread, ch in the channel, rc receives        *)
(* pending, bf received last.                                              *)
Pair(ps, pd, un, ch, rc, bf, Order) ==
  /\ un \in {0, 1} /\ rc \in {0, 1}
  /\ ps = pd - rc + Len(ch) + un
  /\ Order[bf] = pd - rc
  /\ \A m \in 1 .. Len(ch) : Order[ch[m]] = pd - rc + m

ElemPair(s, d) ==
  /\ IdleElems(s) => eunsent[s][d] = 0
  /\ IdleElems(d) => eunrecv[d][s] = 0
  /\ d \notin ElemNbr[s] => eunsent[s][d] = 0 /\ eunrecv[d][s] = 0
  /\ d \in ElemNbr[s] =>
       Pair(v[s], v[d], eunsent[s][d], echan[s][d], eunrecv[d][s], ebuffrecv[d][s],
            ElemOrder)

FacePair(s, d) ==
  /\ IdleFaces(s) => funsent[s][d] = 0
  /\ IdleFaces(d) => funrecv[d][s] = 0
  /\ d \notin FaceNbr[s] => funsent[s][d] = 0 /\ funrecv[d][s] = 0
  /\ d \in FaceNbr[s] =>
       Pair(FacePosts(s), FacePosts(d), funsent[s][d], fchan[s][d], funrecv[d][s],
            fbuffrecv[d][s], FaceOrder)

(* What a rank has packed and computed so far.                             *)
Operation(r) ==
  /\ pc[r] \in Working => v[r] > 0 /\ v[r] \notin Smoothing /\ we[r].iface = v[r]
  /\ pc[r] = "waiting" => we[r].interior = v[r]
  /\ pc[r] = "smoothed" => v[r] > 0 /\ v[r] \in Smoothing /\ av[r] = {v[r]}
  /\ Finished(r) => (IF v[r] \in Smoothing THEN av[r] ELSE w[r]) = {v[r]}
  /\ ebuffsend[r] = v[r]
  /\ ExchangesFaces(r) => FaceOrder[fbuffsend[r]] = FacePosts(r)

(* The result is that of the last product.                                 *)
LastResult(r) == sources[r] = IF done[r] = 0 THEN {} ELSE {done[r]}

ProductInv ==
  /\ TypeOK
  /\ \A r \in Rank : Operation(r) /\ LastResult(r)
  /\ \A s, d \in Rank : ElemPair(s, d) /\ FacePair(s, d)

-----------------------------------------------------------------------------
(* The operations are numbers.                                             *)
LEMMA VersionNat ==
  /\ MaxEval \in Nat /\ Version \subseteq Nat /\ 0 \in Version
  /\ \A n \in Version : n < MaxEval => n + 1 \in Version
  /\ \A n \in Version : n > 0 => n - 1 \in Version
  BY HdgMaxEvalAssumption, SMT DEF Version

(* Products counts the operations that are no passes of smoothing.         *)
LEMMA ProductsSet ==
  ASSUME NEW n \in Nat
  PROVE  /\ IsFiniteSet((1 .. n) \ Smoothing)
         /\ Products(n) \in Nat
<1>1. IsFiniteSet(1 .. n)
  BY FS_Interval
<1>2. IsFiniteSet((1 .. n) \ Smoothing)
  BY <1>1, FS_Difference
<1> QED
  BY <1>2, FS_CardinalityType DEF Products

(* No operation is no product.                                             *)
LEMMA ProductsZero == Products(0) = 0
<1>1. (1 .. 0) \ Smoothing = {}
  OBVIOUS
<1> QED
  BY <1>1, FS_EmptySet DEF Products

(* One more operation is one more product unless it is a pass.             *)
LEMMA ProductsNext ==
  ASSUME NEW n \in Nat
  PROVE  Products(n + 1) = Products(n) + IF n + 1 \in Smoothing THEN 0 ELSE 1
<1> DEFINE S(m) == (1 .. m) \ Smoothing
<1>1. CASE n + 1 \in Smoothing
  <2>1. S(n + 1) = S(n)
    BY <1>1
  <2>2. Products(n + 1) = Products(n)
    BY <2>1 DEF Products
  <2>3. Products(n) \in Nat
    BY ProductsSet
  <2> QED
    BY <1>1, <2>2, <2>3
<1>2. CASE n + 1 \notin Smoothing
  <2>1. S(n + 1) = S(n) \cup {n + 1} /\ n + 1 \notin S(n)
    BY <1>2
  <2>2. IsFiniteSet(S(n))
    BY ProductsSet
  <2>3. Cardinality(S(n) \cup {n + 1}) = Cardinality(S(n)) + 1
    BY <2>1, <2>2, FS_AddElement
  <2>4. Products(n + 1) = Cardinality(S(n + 1)) /\ Products(n) = Cardinality(S(n))
    BY DEF Products
  <2> HIDE DEF S
  <2>5. Products(n + 1) = Products(n) + 1
    BY <2>1, <2>3, <2>4
  <2> QED
    BY <1>2, <2>5
<1> QED
  BY <1>1, <1>2

(* More operations are not fewer products, and more if the last is one.    *)
LEMMA ProductsGrow ==
  ASSUME NEW m \in Nat, NEW n \in Nat, m <= n
  PROVE  /\ Products(m) <= Products(n)
         /\ m # n /\ n \notin Smoothing => Products(m) < Products(n)
<1> DEFINE S(k) == (1 .. k) \ Smoothing
<1>1. IsFiniteSet(S(m)) /\ IsFiniteSet(S(n)) /\ Products(m) \in Nat /\ Products(n) \in Nat
  BY ProductsSet
<1>2. Products(m) <= Products(n)
  <2>1. S(m) \subseteq S(n)
    OBVIOUS
  <2> QED
    BY <1>1, <2>1, FS_Subset DEF Products
<1>3. ASSUME m # n, n \notin Smoothing PROVE Products(m) < Products(n)
  <2>1. n - 1 \in Nat /\ n \in Nat /\ (n - 1) + 1 = n
    BY <1>3
  <2>2. n \notin S(m) /\ S(m) \cup {n} \subseteq S(n)
    BY <1>3
  <2>3. Cardinality(S(m) \cup {n}) = Cardinality(S(m)) + 1
    BY <1>1, <2>2, FS_AddElement
  <2>4. Cardinality(S(m) \cup {n}) <= Cardinality(S(n))
    BY <1>1, <2>2, FS_Subset
  <2> QED
    BY <1>1, <2>3, <2>4 DEF Products
<1> QED
  BY <1>2, <1>3

(* A product is known by its number.                                       *)
LEMMA FaceOrderInjective ==
  ASSUME NEW m \in Version, NEW n \in Version, n \notin Smoothing,
         FaceOrder[m] = Products(n)
  PROVE  m = n
<1>1. m \in Nat /\ n \in Nat /\ Products(m) \in Nat /\ Products(n) \in Nat
  BY VersionNat, ProductsSet
<1>2. m \notin Smoothing /\ Products(m) = Products(n)
  BY <1>1 DEF FaceOrder
<1>3. m <= n \/ n <= m
  BY <1>1
<1> QED
  BY <1>1, <1>2, <1>3, ProductsGrow

(* Zero is no pass of smoothing.                                           *)
LEMMA ZeroOrder == 0 \notin Smoothing /\ ElemOrder[0] = 0 /\ FaceOrder[0] = 0
<1>1. 0 \notin Smoothing
  BY HdgMaxEvalAssumption, HdgSmoothingAssumption
<1> QED
  BY <1>1, VersionNat, ProductsZero DEF ElemOrder, FaceOrder

-----------------------------------------------------------------------------
(* The four things that happen to the messages of a pair.                  *)

(* s posts a send, or d a receive.                                         *)
LEMMA PairPosted ==
  ASSUME NEW ps \in Int, NEW pd \in Int, NEW ch \in Seq(Version), NEW un, NEW rc, NEW bf,
         NEW Order, Pair(ps, pd, un, ch, rc, bf, Order)
  PROVE  /\ un = 0 => Pair(ps + 1, pd, un + 1, ch, rc, bf, Order)
         /\ rc = 0 => Pair(ps, pd + 1, un, ch, rc + 1, bf, Order)
<1>1. un \in {0, 1} /\ rc \in {0, 1} /\ Len(ch) \in Nat
  BY DEF Pair
<1>2. ASSUME un = 0 PROVE Pair(ps + 1, pd, un + 1, ch, rc, bf, Order)
  BY <1>1, <1>2 DEF Pair
<1>3. ASSUME rc = 0 PROVE Pair(ps, pd + 1, un, ch, rc + 1, bf, Order)
  <2>1. pd = pd - rc /\ (pd + 1) - (rc + 1) = pd
    BY <1>3
  <2> QED
    BY <1>1, <1>3, <2>1 DEF Pair
<1> QED
  BY <1>2, <1>3

(* The library reads the slice of s: the content with number ps.           *)
LEMMA PairRead ==
  ASSUME NEW ps \in Int, NEW pd \in Int, NEW ch \in Seq(Version), NEW un, NEW rc, NEW bf,
         NEW Order, Pair(ps, pd, un, ch, rc, bf, Order), un > 0,
         NEW c \in Version, Order[c] = ps
  PROVE  Pair(ps, pd, un - 1, Append(ch, c), rc, bf, Order)
<1>1. /\ un = 1 /\ un - 1 = 0 /\ rc \in {0, 1} /\ Len(ch) \in Nat
      /\ Len(Append(ch, c)) = Len(ch) + 1
  BY SMT DEF Pair
<1>2. ps = pd - rc + Len(ch) + 1
  BY <1>1 DEF Pair
<1>3. ASSUME NEW m \in 1 .. Len(Append(ch, c))
      PROVE  Order[Append(ch, c)[m]] = pd - rc + m
  <2>1. CASE m = Len(ch) + 1
    <3>1. Append(ch, c)[m] = c
      BY <2>1
    <3>2. pd - rc + m = ps
      BY <1>1, <1>2, <2>1
    <3> QED
      BY <3>1, <3>2
  <2>2. CASE m # Len(ch) + 1
    <3>1. m \in 1 .. Len(ch)
      BY <1>1, <2>2
    <3>2. Append(ch, c)[m] = ch[m]
      BY <3>1
    <3> QED
      BY <3>1, <3>2 DEF Pair
  <2> QED
    BY <2>1, <2>2
<1>4. ps = pd - rc + Len(Append(ch, c)) + (un - 1)
  BY <1>1, <1>2
<1>5. Order[bf] = pd - rc /\ un - 1 \in {0, 1}
  BY <1>1 DEF Pair
<1> QED
  BY <1>1, <1>3, <1>4, <1>5 DEF Pair

(* The oldest message completes a receive of d.                            *)
LEMMA PairDelivered ==
  ASSUME NEW ps \in Int, NEW pd \in Int, NEW ch \in Seq(Version), NEW un, NEW rc, NEW bf,
         NEW Order, Pair(ps, pd, un, ch, rc, bf, Order), rc > 0, ch # <<>>
  PROVE  Pair(ps, pd, un, Tail(ch), rc - 1, Head(ch), Order)
<1>1. /\ rc = 1 /\ rc - 1 = 0 /\ un \in {0, 1} /\ Len(ch) \in Nat \ {0}
      /\ Len(Tail(ch)) = Len(ch) - 1 /\ Head(ch) = ch[1] /\ 1 \in 1 .. Len(ch)
  BY SMT DEF Pair
<1>2. ps = pd - 1 + Len(ch) + un
  BY <1>1 DEF Pair
<1>3. \A m \in 1 .. Len(ch) : Order[ch[m]] = pd - 1 + m
  BY <1>1 DEF Pair
<1>4. Order[Head(ch)] = pd - (rc - 1)
  <2>1. Order[ch[1]] = pd - 1 + 1
    BY <1>1, <1>3
  <2>2. pd - 1 + 1 = pd - (rc - 1)
    BY <1>1
  <2> QED
    BY <1>1, <2>1, <2>2
<1>5. ASSUME NEW m \in 1 .. Len(Tail(ch))
      PROVE  Order[Tail(ch)[m]] = pd - (rc - 1) + m
  <2>1. m + 1 \in 1 .. Len(ch) /\ Tail(ch)[m] = ch[m + 1]
    BY <1>1
  <2>2. Order[ch[m + 1]] = pd - 1 + (m + 1)
    BY <1>3, <2>1
  <2>3. pd - 1 + (m + 1) = pd - (rc - 1) + m
    BY <1>1
  <2> QED
    BY <2>1, <2>2, <2>3
<1>6. ps = pd - (rc - 1) + Len(Tail(ch)) + un
  BY <1>1, <1>2
<1>7. un \in {0, 1} /\ rc - 1 \in {0, 1}
  BY <1>1
<1> QED
  BY <1>4, <1>5, <1>6, <1>7 DEF Pair

(* When d has no receive pending, what it received last is number pd.      *)
LEMMA PairReceived ==
  ASSUME NEW ps \in Int, NEW pd \in Int, NEW ch \in Seq(Version), NEW un, NEW bf,
         NEW Order, Pair(ps, pd, un, ch, 0, bf, Order)
  PROVE  Order[bf] = pd /\ ps >= pd
<1>1. un \in {0, 1} /\ Len(ch) \in Nat /\ ps = pd - 0 + Len(ch) + un /\ Order[bf] = pd - 0
  BY DEF Pair
<1> QED
  BY <1>1

-----------------------------------------------------------------------------
(* Types of the counters.                                                  *)
LEMMA RankTypes ==
  ASSUME TypeOK, NEW r \in Rank
  PROVE  /\ v[r] \in Nat /\ v[r] \in Version /\ Products(v[r]) \in Nat
         /\ FacePosts(r) \in Int
<1>1. v[r] \in Version /\ v[r] \in Nat
  BY VersionNat DEF TypeOK
<1>2. Products(v[r]) \in Nat
  BY <1>1, ProductsSet
<1> QED
  BY <1>1, <1>2 DEF FacePosts

(* Types of the buffers and counters of a pair.                            *)
LEMMA PairTypes ==
  ASSUME TypeOK, NEW s \in Rank, NEW d \in Rank
  PROVE  /\ echan[s][d] \in Seq(Version) /\ eunsent[s][d] \in Nat /\ eunrecv[d][s] \in Nat
         /\ ebuffrecv[d][s] \in Version /\ ebuffsend[s] \in Version
         /\ fchan[s][d] \in Seq(Version) /\ funsent[s][d] \in Nat /\ funrecv[d][s] \in Nat
         /\ fbuffrecv[d][s] \in Version /\ fbuffsend[s] \in Version
  BY DEF TypeOK, ElemMsg!P2PTypeOK, FaceMsg!P2PTypeOK

(* Neighbours are symmetric, and no rank is its own.                       *)
LEMMA Neighbours ==
  ASSUME NEW s \in Rank, NEW d \in Rank
  PROVE  /\ ElemNbr[s] \subseteq Rank /\ FaceNbr[s] \subseteq Rank
         /\ d \in ElemNbr[s] <=> s \in ElemNbr[d]
         /\ d \in FaceNbr[s] <=> s \in FaceNbr[d]
         /\ s \notin ElemNbr[s] /\ s \notin FaceNbr[s]
  BY HdgNbrAssumption DEF Symmetric

(* Posting the blocks of the elements keeps the types.                     *)
LEMMA ElemPostType ==
  ASSUME ElemMsg!P2PTypeOK, NEW r \in Rank, NEW c \in Version, ElemMsg!PackAndPost(r, c)
  PROVE  ElemMsg!P2PTypeOK'
  BY DEF ElemMsg!P2PTypeOK, ElemMsg!PackAndPost

(* So does posting the fluxes.                                             *)
LEMMA FacePostType ==
  ASSUME FaceMsg!P2PTypeOK, NEW r \in Rank, NEW c \in Version, FaceMsg!PackAndPost(r, c)
  PROVE  FaceMsg!P2PTypeOK'
  BY DEF FaceMsg!P2PTypeOK, FaceMsg!PackAndPost

(* What is not touched keeps its type.                                     *)
LEMMA QuietTypes ==
  ASSUME TypeOK
  PROVE  /\ UNCHANGED elemvars => ElemMsg!P2PTypeOK'
         /\ UNCHANGED facevars => FaceMsg!P2PTypeOK'
  BY DEF TypeOK, elemvars, facevars, ElemMsg!P2PTypeOK, FaceMsg!P2PTypeOK

(* A message on its way keeps the types.                                   *)
LEMMA ElemProgressType ==
  ASSUME ElemMsg!P2PTypeOK, NEW s \in Rank, NEW d \in Rank, ElemMsg!Progress(s, d)
  PROVE  ElemMsg!P2PTypeOK'
<1>1. echan[s][d] \in Seq(Version) /\ ebuffsend[s] \in Version
  BY DEF ElemMsg!P2PTypeOK
<1>2. CASE ElemMsg!ReadSlice(s, d)
  <2>1. Append(echan[s][d], ebuffsend[s]) \in Seq(Version)
    BY <1>1
  <2>2. echan' \in [Rank -> [Rank -> Seq(Version)]]
    BY <1>2, <2>1 DEF ElemMsg!P2PTypeOK, ElemMsg!ReadSlice
  <2>3. eunsent' \in [Rank -> [Rank -> Nat]]
    BY <1>2 DEF ElemMsg!P2PTypeOK, ElemMsg!ReadSlice
  <2> QED
    BY <1>2, <2>2, <2>3 DEF ElemMsg!P2PTypeOK, ElemMsg!ReadSlice
<1>3. CASE ElemMsg!Deliver(s, d)
  <2>1. Head(echan[s][d]) \in Version /\ Tail(echan[s][d]) \in Seq(Version)
    BY <1>1, <1>3 DEF ElemMsg!Deliver
  <2>2. echan' \in [Rank -> [Rank -> Seq(Version)]]
    BY <1>3, <2>1 DEF ElemMsg!P2PTypeOK, ElemMsg!Deliver
  <2>3. eunrecv' \in [Rank -> [Rank -> Nat]]
    BY <1>3 DEF ElemMsg!P2PTypeOK, ElemMsg!Deliver
  <2>4. ebuffrecv' \in [Rank -> [Rank -> Version]]
    BY <1>3, <2>1 DEF ElemMsg!P2PTypeOK, ElemMsg!Deliver
  <2> QED
    BY <1>3, <2>2, <2>3, <2>4 DEF ElemMsg!P2PTypeOK, ElemMsg!Deliver
<1> QED
  BY <1>2, <1>3 DEF ElemMsg!Progress

(* So does a face message.                                                 *)
LEMMA FaceProgressType ==
  ASSUME FaceMsg!P2PTypeOK, NEW s \in Rank, NEW d \in Rank, FaceMsg!Progress(s, d)
  PROVE  FaceMsg!P2PTypeOK'
<1>1. fchan[s][d] \in Seq(Version) /\ fbuffsend[s] \in Version
  BY DEF FaceMsg!P2PTypeOK
<1>2. CASE FaceMsg!ReadSlice(s, d)
  <2>1. Append(fchan[s][d], fbuffsend[s]) \in Seq(Version)
    BY <1>1
  <2>2. fchan' \in [Rank -> [Rank -> Seq(Version)]]
    BY <1>2, <2>1 DEF FaceMsg!P2PTypeOK, FaceMsg!ReadSlice
  <2>3. funsent' \in [Rank -> [Rank -> Nat]]
    BY <1>2 DEF FaceMsg!P2PTypeOK, FaceMsg!ReadSlice
  <2> QED
    BY <1>2, <2>2, <2>3 DEF FaceMsg!P2PTypeOK, FaceMsg!ReadSlice
<1>3. CASE FaceMsg!Deliver(s, d)
  <2>1. Head(fchan[s][d]) \in Version /\ Tail(fchan[s][d]) \in Seq(Version)
    BY <1>1, <1>3 DEF FaceMsg!Deliver
  <2>2. fchan' \in [Rank -> [Rank -> Seq(Version)]]
    BY <1>3, <2>1 DEF FaceMsg!P2PTypeOK, FaceMsg!Deliver
  <2>3. funrecv' \in [Rank -> [Rank -> Nat]]
    BY <1>3 DEF FaceMsg!P2PTypeOK, FaceMsg!Deliver
  <2>4. fbuffrecv' \in [Rank -> [Rank -> Version]]
    BY <1>3, <2>1 DEF FaceMsg!P2PTypeOK, FaceMsg!Deliver
  <2> QED
    BY <1>3, <2>2, <2>3, <2>4 DEF FaceMsg!P2PTypeOK, FaceMsg!Deliver
<1> QED
  BY <1>2, <1>3 DEF FaceMsg!Progress

-----------------------------------------------------------------------------
(* Before the first operation nothing is posted.                           *)
LEMMA InitInv == Init => ProductInv
<1> SUFFICES ASSUME Init PROVE ProductInv
  OBVIOUS
<1> USE VersionNat DEF Init, ElemMsg!P2PInit, FaceMsg!P2PInit
<1>1. TypeOK
  BY DEF TypeOK, ElemMsg!P2PTypeOK, FaceMsg!P2PTypeOK, Sources
<1>2. ASSUME NEW r \in Rank PROVE Operation(r) /\ LastResult(r) /\ FacePosts(r) = 0
  <2>1. /\ v[r] = 0 /\ pc[r] = "ready" /\ ebuffsend[r] = 0 /\ fbuffsend[r] = 0
        /\ w[r] = {}
    OBVIOUS
  <2>2. ~Finished(r)
    BY <2>1 DEF Finished
  <2>3. FacePosts(r) = 0
    BY <2>1, ProductsZero DEF FacePosts
  <2>4. Operation(r)
    BY <2>1, <2>2, <2>3, ZeroOrder DEF Operation, Working
  <2>5. done[r] = 0 /\ sources[r] = {}
    BY <2>1, ProductsZero DEF done, sources
  <2> QED
    BY <2>3, <2>4, <2>5 DEF LastResult
<1>3. ASSUME NEW s \in Rank, NEW d \in Rank PROVE ElemPair(s, d) /\ FacePair(s, d)
  <2>1. /\ eunsent[s][d] = 0 /\ eunrecv[d][s] = 0 /\ echan[s][d] = <<>>
        /\ ebuffrecv[d][s] = 0 /\ v[s] = 0 /\ v[d] = 0
        /\ funsent[s][d] = 0 /\ funrecv[d][s] = 0 /\ fchan[s][d] = <<>>
        /\ fbuffrecv[d][s] = 0
    OBVIOUS
  <2>2. Pair(0, 0, 0, <<>>, 0, 0, ElemOrder) /\ Pair(0, 0, 0, <<>>, 0, 0, FaceOrder)
    BY ZeroOrder DEF Pair
  <2>3. FacePosts(s) = 0 /\ FacePosts(d) = 0
    BY <1>2
  <2> QED
    BY <2>1, <2>2, <2>3 DEF ElemPair, FacePair
<1> QED
  BY <1>1, <1>2, <1>3 DEF ProductInv

(* The derived counts in the next state.                                   *)
LEMMA CountsNext ==
  ASSUME NEW k \in Rank
  PROVE  /\ FacePosts(k)' = Products(v'[k]) - (IF pc'[k] = "elemPosted" THEN 1 ELSE 0)
         /\ done'[k] = Products(IF Finished(k)' \/ v'[k] = 0 THEN v'[k] ELSE v'[k] - 1)
  BY DEF FacePosts, done, Products

(* A step that touches no element message.                                 *)
LEMMA ElemQuiet ==
  ASSUME NEW s \in Rank, NEW d \in Rank, ElemPair(s, d), UNCHANGED <<elemvars, v>>,
         IdleElems(s)' => eunsent[s][d] = 0, IdleElems(d)' => eunrecv[d][s] = 0
  PROVE  ElemPair(s, d)'
  BY DEF ElemPair, elemvars

(* A step that touches no face message.                                    *)
LEMMA FaceQuiet ==
  ASSUME NEW s \in Rank, NEW d \in Rank, FacePair(s, d), UNCHANGED facevars,
         FacePosts(s)' = FacePosts(s), FacePosts(d)' = FacePosts(d),
         IdleFaces(s)' => funsent[s][d] = 0, IdleFaces(d)' => funrecv[d][s] = 0
  PROVE  FacePair(s, d)'
<1>1. /\ funsent'[s][d] = funsent[s][d] /\ funrecv'[d][s] = funrecv[d][s]
      /\ fchan'[s][d] = fchan[s][d] /\ fbuffrecv'[d][s] = fbuffrecv[d][s]
  BY DEF facevars
<1>2. FaceNbr' = FaceNbr /\ FaceOrder' = FaceOrder
  BY DEF FaceOrder, Version, Products
<1> QED
  BY <1>1, <1>2 DEF FacePair

(* A rank that has nothing pending posts the elements of an operation.     *)
LEMMA ElemPosted ==
  ASSUME TypeOK, NEW r \in Rank, NEW c, ElemMsg!PackAndPost(r, c), NEW p,
         pc[r] = "ready", p \in {"smoothed", "elemPosted"}, pc' = [pc EXCEPT ![r] = p],
         v' = [v EXCEPT ![r] = @ + 1],
         NEW s \in Rank, NEW d \in Rank, ElemPair(s, d)
  PROVE  ElemPair(s, d)'
<1>1. r \notin ElemNbr[r] /\ (d \in ElemNbr[s] <=> s \in ElemNbr[d])
  BY Neighbours
<1>2. eunsent'[s][d] = IF s = r /\ d \in ElemNbr[s] THEN eunsent[s][d] + 1
                                                   ELSE eunsent[s][d]
  BY DEF ElemMsg!PackAndPost, TypeOK, ElemMsg!P2PTypeOK
<1>3. eunrecv'[d][s] = IF d = r /\ d \in ElemNbr[s] THEN eunrecv[d][s] + 1
                                                   ELSE eunrecv[d][s]
  BY <1>1 DEF ElemMsg!PackAndPost, TypeOK, ElemMsg!P2PTypeOK
<1>4. /\ v'[s] = IF s = r THEN v[s] + 1 ELSE v[s]
      /\ v'[d] = IF d = r THEN v[d] + 1 ELSE v[d]
  BY DEF TypeOK
<1>5. /\ IdleElems(s)' => s # r /\ IdleElems(s)
      /\ IdleElems(d)' => d # r /\ IdleElems(d)
      /\ s = r => IdleElems(s)
      /\ d = r => IdleElems(d)
  BY DEF IdleElems, TypeOK
<1>6. echan'[s][d] = echan[s][d] /\ ebuffrecv'[d][s] = ebuffrecv[d][s]
  BY DEF ElemMsg!PackAndPost
<1>7. CASE d \notin ElemNbr[s]
  BY <1>2, <1>3, <1>5, <1>7 DEF ElemPair
<1>8. CASE d \in ElemNbr[s]
  <2>1. /\ v[s] \in Int /\ v[d] \in Int /\ echan[s][d] \in Seq(Version)
        /\ Pair(v[s], v[d], eunsent[s][d], echan[s][d], eunrecv[d][s], ebuffrecv[d][s],
                ElemOrder)
    BY <1>8, RankTypes, PairTypes DEF ElemPair
  <2>2. s # r \/ d # r
    BY <1>1, <1>8
  <2>3. /\ s = r => eunsent[s][d] = 0
        /\ d = r => eunrecv[d][s] = 0
    BY <1>5 DEF ElemPair
  <2>4. Pair(v'[s], v'[d], eunsent'[s][d], echan[s][d], eunrecv'[d][s], ebuffrecv[d][s],
             ElemOrder)
    <3>1. CASE s = r
      <4>1. Pair(v[s] + 1, v[d], eunsent[s][d] + 1, echan[s][d], eunrecv[d][s],
                 ebuffrecv[d][s], ElemOrder)
        BY <2>1, <2>3, <3>1, PairPosted
      <4> QED
        BY <1>2, <1>3, <1>4, <1>8, <2>2, <3>1, <4>1, Zenon
    <3>2. CASE d = r
      <4>1. Pair(v[s], v[d] + 1, eunsent[s][d], echan[s][d], eunrecv[d][s] + 1,
                 ebuffrecv[d][s], ElemOrder)
        BY <2>1, <2>3, <3>2, PairPosted
      <4> QED
        BY <1>2, <1>3, <1>4, <1>8, <2>2, <3>2, <4>1, Zenon
    <3>3. CASE s # r /\ d # r
      BY <1>2, <1>3, <1>4, <2>1, <3>3, Zenon
    <3> QED
      BY <3>1, <3>2, <3>3
  <2>5. /\ IdleElems(s)' => eunsent'[s][d] = 0
        /\ IdleElems(d)' => eunrecv'[d][s] = 0
    BY <1>2, <1>3, <1>5 DEF ElemPair
  <2>6. ElemOrder' = ElemOrder
    BY DEF ElemOrder, Version
  <2> QED
    BY <1>6, <1>8, <2>4, <2>5, <2>6 DEF ElemPair
<1> QED
  BY <1>7, <1>8

(* A rank that has no face message pending posts those of a product; one   *)
(* that does not touch the interface has no pair.                          *)
LEMMA FacesPosted ==
  ASSUME TypeOK, NEW r \in Rank, StartFaces(r),
         NEW s \in Rank, NEW d \in Rank, FacePair(s, d)
  PROVE  FacePair(s, d)'
<1>1. r \notin FaceNbr[r] /\ (d \in FaceNbr[s] <=> s \in FaceNbr[d])
  BY Neighbours
<1>2. pc[r] = "elemPosted" /\ pc' = [pc EXCEPT ![r] = "facesPosted"] /\ UNCHANGED v
  BY DEF StartFaces
<1>3. /\ FacePosts(s)' = IF s = r THEN FacePosts(s) + 1 ELSE FacePosts(s)
      /\ FacePosts(d)' = IF d = r THEN FacePosts(d) + 1 ELSE FacePosts(d)
  <2>1. ASSUME NEW k \in Rank
        PROVE  FacePosts(k)' = IF k = r THEN FacePosts(k) + 1 ELSE FacePosts(k)
    <3>1. FacePosts(k)' = Products(v[k]) - (IF pc'[k] = "elemPosted" THEN 1 ELSE 0)
      BY <1>2 DEF FacePosts, Products
    <3>2. Products(v[k]) \in Nat
      BY RankTypes
    <3>3. pc'[k] = IF k = r THEN "facesPosted" ELSE pc[k]
      BY <1>2 DEF TypeOK
    <3> QED
      BY <1>2, <3>1, <3>2, <3>3 DEF FacePosts
  <2> QED
    BY <2>1
<1>4. /\ IdleFaces(s)' => s # r /\ IdleFaces(s)
      /\ IdleFaces(d)' => d # r /\ IdleFaces(d)
      /\ s = r => IdleFaces(s)
      /\ d = r => IdleFaces(d)
  BY <1>2 DEF IdleFaces, TypeOK
<1>5. CASE d \in FaceNbr[s]
  <2>1. CASE s = r \/ d = r
    <3>1. ExchangesFaces(r)
      BY <1>1, <1>5, <2>1 DEF ExchangesFaces
    <3>2. FaceMsg!PackAndPost(r, v[r])
      BY <3>1 DEF StartFaces
    <3>3. funsent'[s][d] = IF s = r THEN funsent[s][d] + 1 ELSE funsent[s][d]
      BY <1>5, <3>2 DEF FaceMsg!PackAndPost, TypeOK, FaceMsg!P2PTypeOK
    <3>4. funrecv'[d][s] = IF d = r THEN funrecv[d][s] + 1 ELSE funrecv[d][s]
      BY <1>1, <1>5, <3>2 DEF FaceMsg!PackAndPost, TypeOK, FaceMsg!P2PTypeOK
    <3>5. fchan'[s][d] = fchan[s][d] /\ fbuffrecv'[d][s] = fbuffrecv[d][s]
      BY <3>2 DEF FaceMsg!PackAndPost
    <3>6. /\ FacePosts(s) \in Int /\ FacePosts(d) \in Int /\ fchan[s][d] \in Seq(Version)
          /\ Pair(FacePosts(s), FacePosts(d), funsent[s][d], fchan[s][d], funrecv[d][s],
                  fbuffrecv[d][s], FaceOrder)
      BY <1>5, RankTypes, PairTypes DEF FacePair
    <3>7. /\ s = r => funsent[s][d] = 0 /\ d # r
          /\ d = r => funrecv[d][s] = 0 /\ s # r
      BY <1>1, <1>4, <1>5 DEF FacePair
    <3>8. Pair(FacePosts(s)', FacePosts(d)', funsent'[s][d], fchan[s][d], funrecv'[d][s],
               fbuffrecv[d][s], FaceOrder)
      <4>1. CASE s = r
        <5>1. Pair(FacePosts(s) + 1, FacePosts(d), funsent[s][d] + 1, fchan[s][d],
                   funrecv[d][s], fbuffrecv[d][s], FaceOrder)
          BY <3>6, <3>7, <4>1, PairPosted
        <5> QED
          BY <1>3, <3>3, <3>4, <3>7, <4>1, <5>1, Zenon
      <4>2. CASE d = r
        <5>1. Pair(FacePosts(s), FacePosts(d) + 1, funsent[s][d], fchan[s][d],
                   funrecv[d][s] + 1, fbuffrecv[d][s], FaceOrder)
          BY <3>6, <3>7, <4>2, PairPosted
        <5> QED
          BY <1>3, <3>3, <3>4, <3>7, <4>2, <5>1, Zenon
      <4> QED
        BY <2>1, <4>1, <4>2
    <3>9. /\ IdleFaces(s)' => funsent'[s][d] = 0
          /\ IdleFaces(d)' => funrecv'[d][s] = 0
      BY <1>4, <3>3, <3>4 DEF FacePair
    <3>10. FaceOrder' = FaceOrder
      BY DEF FaceOrder, Version, Products
    <3> QED
      BY <1>5, <3>5, <3>8, <3>9, <3>10 DEF FacePair
  <2>2. CASE s # r /\ d # r
    <3>1. /\ funsent'[s][d] = funsent[s][d] /\ funrecv'[d][s] = funrecv[d][s]
          /\ fchan'[s][d] = fchan[s][d] /\ fbuffrecv'[d][s] = fbuffrecv[d][s]
      <4>1. CASE ExchangesFaces(r)
        BY <2>2, <4>1 DEF StartFaces, FaceMsg!PackAndPost, TypeOK, FaceMsg!P2PTypeOK
      <4>2. CASE ~ExchangesFaces(r)
        BY <4>2 DEF StartFaces, facevars
      <4> QED
        BY <4>1, <4>2
    <3>2. FaceOrder' = FaceOrder /\ FacePosts(s)' = FacePosts(s) /\ FacePosts(d)' = FacePosts(d)
      BY <1>3, <2>2 DEF FaceOrder, Version, Products
    <3> QED
      BY <1>4, <3>1, <3>2 DEF FacePair
  <2> QED
    BY <2>1, <2>2
<1>6. CASE d \notin FaceNbr[s]
  <2>1. funsent'[s][d] = funsent[s][d] /\ funrecv'[d][s] = funrecv[d][s]
    <3>1. CASE ExchangesFaces(r)
      <4>1. FaceMsg!PackAndPost(r, v[r])
        BY <3>1 DEF StartFaces
      <4>2. funsent'[s][d] = funsent[s][d]
        BY <1>6, <4>1 DEF FaceMsg!PackAndPost, TypeOK, FaceMsg!P2PTypeOK
      <4>3. funrecv'[d][s] = funrecv[d][s]
        BY <1>1, <1>6, <4>1 DEF FaceMsg!PackAndPost, TypeOK, FaceMsg!P2PTypeOK
      <4> QED
        BY <4>2, <4>3
    <3>2. CASE ~ExchangesFaces(r)
      BY <3>2 DEF StartFaces, facevars
    <3> QED
      BY <3>1, <3>2
  <2> QED
    BY <1>6, <2>1 DEF FacePair
<1> QED
  BY <1>5, <1>6

(* A step that leaves a rank alone leaves what is known of it.             *)
LEMMA RankQuiet ==
  ASSUME NEW k \in Rank, Operation(k), LastResult(k),
         v'[k] = v[k], pc'[k] = pc[k], we'[k] = we[k], w'[k] = w[k], av'[k] = av[k],
         ebuffsend'[k] = ebuffsend[k], fbuffsend'[k] = fbuffsend[k]
  PROVE  /\ Operation(k)' /\ LastResult(k)'
         /\ done'[k] = done[k] /\ FacePosts(k)' = FacePosts(k)
<1>1. Finished(k)' <=> Finished(k)
  BY DEF Finished
<1>2. FacePosts(k)' = FacePosts(k)
  BY DEF FacePosts, Products
<1>3. done'[k] = done[k] /\ sources'[k] = sources[k]
  BY <1>1 DEF done, sources, Products
<1>4. Operation(k)'
  BY <1>1, <1>2 DEF Operation, Working, ExchangesFaces, FaceOrder, Version, Products
<1> QED
  BY <1>2, <1>3, <1>4 DEF LastResult

-----------------------------------------------------------------------------
(* The steps of a rank.  Each gives the invariant of the next state and    *)
(* says what becomes of the number of products done.                       *)

(* A pass packs a field that has had one pass more everywhere.             *)
LEMMA SmoothInv ==
  ASSUME ProductInv, NEW r \in Rank, Smooth(r)
  PROVE  ProductInv' /\ \A k \in Rank : done'[k] = done[k]
<1>1. /\ TypeOK /\ v[r] \in Nat /\ v[r] \in Version /\ v[r] + 1 \in Version
      /\ v[r] + 1 \in Smoothing /\ Products(v[r]) \in Nat
  BY RankTypes, VersionNat DEF ProductInv, Smooth, MoreOperations
<1>2. /\ pc[r] = "ready" /\ pc' = [pc EXCEPT ![r] = "smoothed"]
      /\ v' = [v EXCEPT ![r] = @ + 1] /\ UNCHANGED <<facevars, we, Ri, w>>
  BY DEF Smooth
<1>3. FieldToSmooth(r) = {v[r]}
  <2>1. CASE v[r] \in Smoothing
    <3>1. Finished(r)
      BY <1>1, <1>2, <2>1, ZeroOrder DEF Finished
    <3> QED
      BY <2>1, <3>1 DEF FieldToSmooth, ProductInv, Operation
  <2>2. CASE v[r] \notin Smoothing
    BY <2>2 DEF FieldToSmooth
  <2> QED
    BY <2>1, <2>2
<1>4. av' = [av EXCEPT ![r] = {v[r] + 1}]
  <2>1. {n + 1 : n \in FieldToSmooth(r)} = {v[r] + 1}
    BY <1>3
  <2> QED
    BY <2>1 DEF Smooth
<1>5. ElemMsg!PackAndPost(r, v[r] + 1)
  <2>1. av'[r] = {v[r] + 1}
    BY <1>1, <1>4 DEF TypeOK
  <2>2. Oldest({v[r] + 1}) = v[r] + 1
    BY <1>1 DEF Oldest
  <2> QED
    BY <2>1, <2>2 DEF Smooth
<1>6. TypeOK'
  <2>1. ElemMsg!P2PTypeOK' /\ FaceMsg!P2PTypeOK'
    BY <1>1, <1>2, <1>5, ElemPostType, QuietTypes DEF TypeOK
  <2>2. /\ v' \in [Rank -> Version] /\ av' \in [Rank -> Sources]
        /\ pc' \in [Rank -> {"ready", "smoothed", "elemPosted", "facesPosted", "waiting",
                             "reduce"}]
    BY <1>1, <1>2, <1>4 DEF TypeOK, Sources
  <2> QED
    BY <1>1, <1>2, <2>1, <2>2 DEF TypeOK
<1>7. Products(v[r] + 1) = Products(v[r])
  BY <1>1, ProductsNext
<1>8. ASSUME NEW k \in Rank
      PROVE  /\ Operation(k)' /\ LastResult(k)'
             /\ done'[k] = done[k] /\ FacePosts(k)' = FacePosts(k)
  <2>1. Operation(k) /\ LastResult(k)
    BY DEF ProductInv
  <2>2. CASE k # r
    <3>1. /\ v'[k] = v[k] /\ pc'[k] = pc[k] /\ we'[k] = we[k] /\ w'[k] = w[k]
          /\ av'[k] = av[k] /\ ebuffsend'[k] = ebuffsend[k] /\ fbuffsend'[k] = fbuffsend[k]
      BY <1>1, <1>2, <1>4, <1>5, <2>2
         DEF facevars, TypeOK, ElemMsg!PackAndPost, ElemMsg!P2PTypeOK
    <3> QED
      BY <2>1, <3>1, RankQuiet
  <2>3. CASE k = r
    <3>1. /\ v'[r] = v[r] + 1 /\ pc'[r] = "smoothed" /\ av'[r] = {v[r] + 1}
          /\ ebuffsend'[r] = v[r] + 1 /\ UNCHANGED <<fbuffsend, w>>
      BY <1>1, <1>2, <1>4, <1>5 DEF facevars, TypeOK, ElemMsg!PackAndPost, ElemMsg!P2PTypeOK
    <3>2. ~Finished(r)'
      BY <3>1 DEF Finished
    <3>3. FacePosts(r)' = Products(v[r] + 1) /\ FacePosts(r) = Products(v[r])
      BY <1>1, <1>2, <1>7, <3>1, CountsNext DEF FacePosts
    <3>4. done'[r] = Products(v[r])
      <4>1. v'[r] - 1 = v[r] /\ v'[r] # 0
        BY <1>1, <3>1
      <4> QED
        BY <3>2, <4>1, CountsNext
    <3>5. done[r] = Products(v[r])
      BY <1>1, <1>2 DEF done, Finished
    <3>6. Operation(r)'
      BY <1>1, <1>7, <2>1, <2>3, <3>1, <3>2, <3>3
         DEF Operation, Working, ExchangesFaces, FaceOrder, Version, Products
    <3>7. sources'[r] = sources[r]
      BY <3>1 DEF sources, Products
    <3> QED
      BY <1>7, <2>1, <2>3, <3>3, <3>4, <3>5, <3>6, <3>7 DEF LastResult
  <2> QED
    BY <2>2, <2>3
<1>9. ASSUME NEW s \in Rank, NEW d \in Rank PROVE ElemPair(s, d)' /\ FacePair(s, d)'
  <2>1. ElemPair(s, d) /\ FacePair(s, d)
    BY DEF ProductInv
  <2>2. ElemPair(s, d)'
    BY <1>1, <1>2, <1>5, <2>1, ElemPosted
  <2>3. (IdleFaces(s)' => IdleFaces(s)) /\ (IdleFaces(d)' => IdleFaces(d))
    BY <1>1, <1>2 DEF IdleFaces, TypeOK
  <2>4. FacePair(s, d)'
    BY <1>2, <1>8, <2>1, <2>3, FaceQuiet DEF FacePair
  <2> QED
    BY <2>2, <2>4
<1> QED
  BY <1>6, <1>8, <1>9 DEF ProductInv

(* Nothing is pending of the elements of a rank, and what it received is   *)
(* of its own operation.                                                   *)
LEMMA GhostsCurrent ==
  ASSUME ProductInv, NEW r \in Rank, ElemMsg!WaitallReturns(r), NEW k \in ElemNbr[r]
  PROVE  k \in Rank /\ ebuffrecv[r][k] = v[r] /\ v[k] >= v[r]
<1>1. k \in Rank /\ r \in ElemNbr[k]
  BY Neighbours
<1>2. eunrecv[r][k] = 0
  BY <1>1 DEF ElemMsg!WaitallReturns
<1>3. Pair(v[k], v[r], eunsent[k][r], echan[k][r], 0, ebuffrecv[r][k], ElemOrder)
  BY <1>1, <1>2 DEF ProductInv, ElemPair
<1>4. /\ v[k] \in Int /\ v[r] \in Int /\ echan[k][r] \in Seq(Version)
      /\ ebuffrecv[r][k] \in Version
  BY <1>1, RankTypes, PairTypes DEF ProductInv
<1>5. ElemOrder[ebuffrecv[r][k]] = v[r] /\ v[k] >= v[r]
  BY <1>3, <1>4, PairReceived
<1> QED
  BY <1>1, <1>4, <1>5 DEF ElemOrder

(* The ghosts of the smoothed field have had the same passes.              *)
LEMMA RefreshInv ==
  ASSUME ProductInv, NEW r \in Rank, RefreshGhosts(r)
  PROVE  ProductInv' /\ \A k \in Rank : done'[k] = done[k]
<1>1. /\ TypeOK /\ v[r] \in Nat /\ v[r] \in Version /\ Products(v[r]) \in Nat
      /\ v[r] > 0 /\ v[r] \in Smoothing /\ av[r] = {v[r]}
  BY RankTypes DEF ProductInv, RefreshGhosts, Operation
<1>2. /\ pc[r] = "smoothed" /\ pc' = [pc EXCEPT ![r] = "ready"]
      /\ UNCHANGED <<elemvars, facevars, v, we, Ri, w>>
  BY DEF RefreshGhosts
<1>3. av' = [av EXCEPT ![r] = {v[r]}]
  <2>1. \A k \in ElemNbr[r] : ebuffrecv[r][k] = v[r]
    BY GhostsCurrent DEF RefreshGhosts
  <2>2. av[r] \cup {ebuffrecv[r][k] : k \in ElemNbr[r]} = {v[r]}
    BY <1>1, <2>1
  <2> QED
    BY <2>2 DEF RefreshGhosts
<1>4. TypeOK'
  <2>1. ElemMsg!P2PTypeOK' /\ FaceMsg!P2PTypeOK'
    BY <1>1, <1>2, QuietTypes
  <2>2. /\ av' \in [Rank -> Sources]
        /\ pc' \in [Rank -> {"ready", "smoothed", "elemPosted", "facesPosted", "waiting",
                             "reduce"}]
    BY <1>1, <1>2, <1>3 DEF TypeOK, Sources
  <2> QED
    BY <1>1, <1>2, <2>1, <2>2 DEF TypeOK
<1>5. ASSUME NEW k \in Rank
      PROVE  /\ Operation(k)' /\ LastResult(k)'
             /\ done'[k] = done[k] /\ FacePosts(k)' = FacePosts(k)
  <2>1. Operation(k) /\ LastResult(k)
    BY DEF ProductInv
  <2>2. CASE k # r
    <3>1. /\ v'[k] = v[k] /\ pc'[k] = pc[k] /\ we'[k] = we[k] /\ w'[k] = w[k]
          /\ av'[k] = av[k] /\ ebuffsend'[k] = ebuffsend[k] /\ fbuffsend'[k] = fbuffsend[k]
      BY <1>1, <1>2, <1>3, <2>2 DEF elemvars, facevars, TypeOK
    <3> QED
      BY <2>1, <3>1, RankQuiet
  <2>3. CASE k = r
    <3>1. /\ v'[r] = v[r] /\ pc'[r] = "ready" /\ av'[r] = {v[r]}
          /\ UNCHANGED <<ebuffsend, fbuffsend, w>>
      BY <1>1, <1>2, <1>3 DEF elemvars, facevars, TypeOK
    <3>2. Finished(r)' /\ ~Finished(r)
      BY <1>1, <1>2, <3>1 DEF Finished
    <3>3. FacePosts(r)' = FacePosts(r)
      BY <1>2, <3>1 DEF FacePosts, Products
    <3>4. done'[r] = done[r]
      <4>1. v[r] - 1 \in Nat /\ (v[r] - 1) + 1 = v[r]
        BY <1>1
      <4>2. Products(v[r]) = Products(v[r] - 1)
        <5>1. Products((v[r] - 1) + 1) = Products(v[r] - 1) + 0 /\ Products(v[r] - 1) \in Nat
          BY <1>1, <4>1, ProductsNext, ProductsSet
        <5> QED
          BY <4>1, <5>1
      <4>3. done'[r] = Products(v[r])
        BY <3>1, <3>2, CountsNext
      <4>4. done[r] = Products(v[r] - 1)
        BY <1>1, <3>2 DEF done
      <4> QED
        BY <4>2, <4>3, <4>4
    <3>5. Operation(r)'
      BY <1>1, <2>1, <2>3, <3>1, <3>2, <3>3
         DEF Operation, Working, ExchangesFaces, FaceOrder, Version, Products
    <3>6. sources'[r] = sources[r]
      BY <3>1 DEF sources, Products
    <3> QED
      BY <2>1, <2>3, <3>3, <3>4, <3>5, <3>6 DEF LastResult
  <2> QED
    BY <2>2, <2>3
<1>6. ASSUME NEW s \in Rank, NEW d \in Rank PROVE ElemPair(s, d)' /\ FacePair(s, d)'
  <2>1. ElemPair(s, d) /\ FacePair(s, d)
    BY DEF ProductInv
  <2>2. /\ s = r => eunsent[s][d] = 0
        /\ d = r => eunrecv[d][s] = 0
    BY DEF RefreshGhosts, ElemMsg!WaitallReturns
  <2>3. /\ s # r => (IdleElems(s)' => IdleElems(s))
        /\ d # r => (IdleElems(d)' => IdleElems(d))
    BY <1>1, <1>2 DEF IdleElems, TypeOK
  <2>4. ElemPair(s, d)'
    BY <1>2, <2>1, <2>2, <2>3, ElemQuiet DEF ElemPair
  <2>5. (IdleFaces(s)' => IdleFaces(s)) /\ (IdleFaces(d)' => IdleFaces(d))
    BY <1>1, <1>2 DEF IdleFaces, TypeOK
  <2>6. FacePair(s, d)'
    BY <1>2, <1>5, <2>1, <2>5, FaceQuiet DEF FacePair
  <2> QED
    BY <2>4, <2>6
<1> QED
  BY <1>4, <1>5, <1>6 DEF ProductInv

(* A product packs the interface elements after it has computed them.      *)
LEMMA StartInv ==
  ASSUME ProductInv, NEW r \in Rank, Start(r)
  PROVE  ProductInv' /\ \A k \in Rank : done'[k] = done[k]
<1>1. /\ TypeOK /\ v[r] \in Nat /\ v[r] \in Version /\ v[r] + 1 \in Version
      /\ v[r] + 1 \notin Smoothing /\ Products(v[r]) \in Nat
  BY RankTypes, VersionNat DEF ProductInv, Start, MoreOperations
<1>2. /\ pc[r] = "ready" /\ pc' = [pc EXCEPT ![r] = "elemPosted"]
      /\ v' = [v EXCEPT ![r] = @ + 1] /\ UNCHANGED <<facevars, Ri, w, av>>
      /\ we' = [we EXCEPT ![r].iface = v[r] + 1]
  BY DEF Start
<1>3. we'[r].iface = v[r] + 1 /\ \A k \in Rank : k # r => we'[k] = we[k]
  BY <1>1, <1>2 DEF TypeOK
<1>4. ElemMsg!PackAndPost(r, v[r] + 1)
  BY <1>3 DEF Start, Packed
<1>5. TypeOK'
  <2>1. ElemMsg!P2PTypeOK' /\ FaceMsg!P2PTypeOK'
    BY <1>1, <1>2, <1>4, ElemPostType, QuietTypes DEF TypeOK
  <2>2. /\ v' \in [Rank -> Version]
        /\ pc' \in [Rank -> {"ready", "smoothed", "elemPosted", "facesPosted", "waiting",
                             "reduce"}]
    BY <1>1, <1>2 DEF TypeOK
  <2>3. we' \in [Rank -> [iface : Version, interior : Version, ghost : Sources]]
    BY <1>1, <1>2 DEF TypeOK
  <2> QED
    BY <1>1, <1>2, <2>1, <2>2, <2>3 DEF TypeOK
<1>6. Products(v[r] + 1) = Products(v[r]) + 1
  BY <1>1, ProductsNext
<1>7. ASSUME NEW k \in Rank
      PROVE  /\ Operation(k)' /\ LastResult(k)'
             /\ done'[k] = done[k] /\ FacePosts(k)' = FacePosts(k)
  <2>1. Operation(k) /\ LastResult(k)
    BY DEF ProductInv
  <2>2. CASE k # r
    <3>1. /\ v'[k] = v[k] /\ pc'[k] = pc[k] /\ we'[k] = we[k] /\ w'[k] = w[k]
          /\ av'[k] = av[k] /\ ebuffsend'[k] = ebuffsend[k] /\ fbuffsend'[k] = fbuffsend[k]
      BY <1>1, <1>2, <1>3, <1>4, <2>2
         DEF facevars, TypeOK, ElemMsg!PackAndPost, ElemMsg!P2PTypeOK
    <3> QED
      BY <2>1, <3>1, RankQuiet
  <2>3. CASE k = r
    <3>1. /\ v'[r] = v[r] + 1 /\ pc'[r] = "elemPosted"
          /\ ebuffsend'[r] = v[r] + 1 /\ UNCHANGED <<fbuffsend, w>>
      BY <1>1, <1>2, <1>4 DEF facevars, TypeOK, ElemMsg!PackAndPost, ElemMsg!P2PTypeOK
    <3>2. ~Finished(r)'
      BY <3>1 DEF Finished
    <3>3. FacePosts(r)' = Products(v[r]) /\ FacePosts(r) = Products(v[r])
      <4>1. FacePosts(r)' = Products(v[r] + 1) - 1 /\ FacePosts(r) = Products(v[r]) - 0
        BY <1>2, <3>1 DEF FacePosts, Products
      <4> QED
        BY <1>1, <1>6, <4>1
    <3>4. done'[r] = Products(v[r])
      <4>1. v'[r] - 1 = v[r] /\ v'[r] # 0
        BY <1>1, <3>1
      <4> QED
        BY <3>2, <4>1, CountsNext
    <3>5. done[r] = Products(v[r])
      BY <1>1, <1>2 DEF done, Finished
    <3>6. Operation(r)'
      BY <1>1, <1>3, <2>1, <2>3, <3>1, <3>2, <3>3
         DEF Operation, Working, ExchangesFaces, FaceOrder, Version, Products
    <3>7. sources'[r] = sources[r]
      BY <3>1 DEF sources, Products
    <3> QED
      BY <2>1, <2>3, <3>3, <3>4, <3>5, <3>6, <3>7 DEF LastResult
  <2> QED
    BY <2>2, <2>3
<1>8. ASSUME NEW s \in Rank, NEW d \in Rank PROVE ElemPair(s, d)' /\ FacePair(s, d)'
  <2>1. ElemPair(s, d) /\ FacePair(s, d)
    BY DEF ProductInv
  <2>2. ElemPair(s, d)'
    BY <1>1, <1>2, <1>4, <2>1, ElemPosted
  <2>3. (IdleFaces(s)' => IdleFaces(s)) /\ (IdleFaces(d)' => IdleFaces(d))
    BY <1>1, <1>2 DEF IdleFaces, TypeOK
  <2>4. FacePair(s, d)'
    BY <1>2, <1>7, <2>1, <2>3, FaceQuiet DEF FacePair
  <2> QED
    BY <2>2, <2>4
<1> QED
  BY <1>5, <1>7, <1>8 DEF ProductInv

(* Then it packs the fluxes of the interface, if it has a part of it.      *)
LEMMA StartFacesInv ==
  ASSUME ProductInv, NEW r \in Rank, StartFaces(r)
  PROVE  ProductInv' /\ \A k \in Rank : done'[k] = done[k]
<1>1. /\ TypeOK /\ v[r] \in Nat /\ v[r] \in Version /\ Products(v[r]) \in Nat
      /\ v[r] > 0 /\ v[r] \notin Smoothing /\ Operation(r) /\ pc[r] = "elemPosted"
  BY RankTypes DEF ProductInv, StartFaces, Operation, Working
<1>2. /\ pc' = [pc EXCEPT ![r] = "facesPosted"]
      /\ UNCHANGED <<elemvars, v, we, w, av>>
  BY DEF StartFaces
<1>3. TypeOK'
  <2>1. ElemMsg!P2PTypeOK' /\ FaceMsg!P2PTypeOK' /\ Ri' \in [Rank -> Sources]
    <3>1. CASE ExchangesFaces(r)
      BY <1>1, <1>2, <3>1, FacePostType, QuietTypes DEF StartFaces, TypeOK, Sources
    <3>2. CASE ~ExchangesFaces(r)
      BY <1>1, <1>2, <3>2, QuietTypes DEF StartFaces, TypeOK
    <3> QED
      BY <3>1, <3>2
  <2>2. pc' \in [Rank -> {"ready", "smoothed", "elemPosted", "facesPosted", "waiting",
                          "reduce"}]
    BY <1>1, <1>2 DEF TypeOK
  <2> QED
    BY <1>1, <1>2, <2>1, <2>2 DEF TypeOK
<1>4. ASSUME NEW k \in Rank PROVE Operation(k)' /\ LastResult(k)' /\ done'[k] = done[k]
  <2>1. Operation(k) /\ LastResult(k)
    BY DEF ProductInv
  <2>2. CASE k # r
    <3>1. fbuffsend'[k] = fbuffsend[k]
      <4>1. CASE ExchangesFaces(r)
        BY <1>1, <2>2, <4>1 DEF StartFaces, FaceMsg!PackAndPost, TypeOK, FaceMsg!P2PTypeOK
      <4>2. CASE ~ExchangesFaces(r)
        BY <4>2 DEF StartFaces, facevars
      <4> QED
        BY <4>1, <4>2
    <3>2. /\ v'[k] = v[k] /\ pc'[k] = pc[k] /\ we'[k] = we[k] /\ w'[k] = w[k]
          /\ av'[k] = av[k] /\ ebuffsend'[k] = ebuffsend[k]
      BY <1>1, <1>2, <2>2 DEF elemvars, TypeOK
    <3> QED
      BY <2>1, <3>1, <3>2, RankQuiet
  <2>3. CASE k = r
    <3>1. pc'[r] = "facesPosted" /\ UNCHANGED <<v, we, w, av, ebuffsend>>
      BY <1>1, <1>2 DEF elemvars, TypeOK
    <3>2. ~Finished(r)' /\ ~Finished(r)
      BY <1>1, <3>1 DEF Finished
    <3>3. FacePosts(r)' = Products(v[r])
      <4>1. FacePosts(r)' = Products(v[r]) - 0
        BY <3>1 DEF FacePosts, Products
      <4> QED
        BY <1>1, <4>1
    <3>4. ExchangesFaces(r) => FaceOrder[fbuffsend'[r]] = Products(v[r])
      <4>1. ExchangesFaces(r) => fbuffsend'[r] = v[r]
        BY <1>1 DEF StartFaces, FaceMsg!PackAndPost, TypeOK, FaceMsg!P2PTypeOK
      <4> QED
        BY <1>1, <4>1 DEF FaceOrder
    <3>5. done'[r] = done[r] /\ sources'[r] = sources[r]
      BY <3>1, <3>2 DEF done, sources, Products
    <3>6. (ExchangesFaces(r) => FaceOrder[fbuffsend[r]] = FacePosts(r))'
      BY <3>3, <3>4 DEF ExchangesFaces, FaceOrder, Version, Products
    <3>7. Operation(r)'
      BY <1>1, <3>1, <3>2, <3>6 DEF Operation, Working
    <3> QED
      BY <2>1, <2>3, <3>5, <3>7 DEF LastResult
  <2> QED
    BY <2>2, <2>3
<1>5. ASSUME NEW s \in Rank, NEW d \in Rank PROVE ElemPair(s, d)' /\ FacePair(s, d)'
  <2>1. ElemPair(s, d) /\ FacePair(s, d)
    BY DEF ProductInv
  <2>2. (IdleElems(s)' => IdleElems(s)) /\ (IdleElems(d)' => IdleElems(d))
    BY <1>1, <1>2 DEF IdleElems, TypeOK
  <2>3. ElemPair(s, d)'
    BY <1>2, <2>1, <2>2, ElemQuiet DEF ElemPair
  <2>4. FacePair(s, d)'
    BY <1>1, <2>1, FacesPosted
  <2> QED
    BY <2>3, <2>4
<1> QED
  BY <1>3, <1>4, <1>5 DEF ProductInv

(* The interior is computed from the same input.                           *)
LEMMA InteriorInv ==
  ASSUME ProductInv, NEW r \in Rank, Interior(r)
  PROVE  ProductInv' /\ \A k \in Rank : done'[k] = done[k]
<1>1. TypeOK /\ v[r] \in Version /\ pc[r] = "facesPosted"
  BY RankTypes DEF ProductInv, Interior
<1>2. /\ pc' = [pc EXCEPT ![r] = "waiting"] /\ we' = [we EXCEPT ![r].interior = v[r]]
      /\ UNCHANGED <<elemvars, facevars, v, Ri, w, av>>
  BY DEF Interior
<1>3. TypeOK'
  <2>1. ElemMsg!P2PTypeOK' /\ FaceMsg!P2PTypeOK'
    BY <1>1, <1>2, QuietTypes
  <2>2. pc' \in [Rank -> {"ready", "smoothed", "elemPosted", "facesPosted", "waiting",
                          "reduce"}]
    BY <1>1, <1>2 DEF TypeOK
  <2>3. we' \in [Rank -> [iface : Version, interior : Version, ghost : Sources]]
    BY <1>1, <1>2 DEF TypeOK
  <2> QED
    BY <1>1, <1>2, <2>1, <2>2, <2>3 DEF TypeOK
<1>4. ASSUME NEW k \in Rank
      PROVE  /\ Operation(k)' /\ LastResult(k)'
             /\ done'[k] = done[k] /\ FacePosts(k)' = FacePosts(k)
  <2>1. Operation(k) /\ LastResult(k)
    BY DEF ProductInv
  <2>2. CASE k # r
    <3>1. /\ v'[k] = v[k] /\ pc'[k] = pc[k] /\ we'[k] = we[k] /\ w'[k] = w[k]
          /\ av'[k] = av[k] /\ ebuffsend'[k] = ebuffsend[k] /\ fbuffsend'[k] = fbuffsend[k]
      BY <1>1, <1>2, <2>2 DEF elemvars, facevars, TypeOK
    <3> QED
      BY <2>1, <3>1, RankQuiet
  <2>3. CASE k = r
    <3>1. /\ pc'[r] = "waiting" /\ UNCHANGED <<v, w, av, ebuffsend, fbuffsend>>
          /\ we'[r].iface = we[r].iface /\ we'[r].interior = v[r]
      BY <1>1, <1>2 DEF elemvars, facevars, TypeOK
    <3>2. ~Finished(r)' /\ ~Finished(r)
      BY <1>1, <3>1 DEF Finished
    <3>3. FacePosts(r)' = FacePosts(r)
      BY <1>1, <3>1 DEF FacePosts, Products
    <3>4. done'[r] = done[r] /\ sources'[r] = sources[r]
      BY <3>1, <3>2 DEF done, sources, Products
    <3>5. Operation(r)'
      BY <1>1, <2>1, <2>3, <3>1, <3>2, <3>3
         DEF Operation, Working, ExchangesFaces, FaceOrder, Version, Products
    <3> QED
      BY <2>1, <2>3, <3>3, <3>4, <3>5 DEF LastResult
  <2> QED
    BY <2>2, <2>3
<1>5. ASSUME NEW s \in Rank, NEW d \in Rank PROVE ElemPair(s, d)' /\ FacePair(s, d)'
  <2>1. ElemPair(s, d) /\ FacePair(s, d)
    BY DEF ProductInv
  <2>2. /\ (IdleElems(s)' => IdleElems(s)) /\ (IdleElems(d)' => IdleElems(d))
        /\ (IdleFaces(s)' => IdleFaces(s)) /\ (IdleFaces(d)' => IdleFaces(d))
    BY <1>1, <1>2 DEF IdleElems, IdleFaces, TypeOK
  <2>3. ElemPair(s, d)'
    BY <1>2, <2>1, <2>2, ElemQuiet DEF ElemPair
  <2>4. FacePair(s, d)'
    BY <1>2, <1>4, <2>1, <2>2, FaceQuiet DEF FacePair
  <2> QED
    BY <2>3, <2>4
<1> QED
  BY <1>3, <1>4, <1>5 DEF ProductInv

(* The same of its faces: it received the fluxes of its own product.       *)
LEMMA FluxesCurrent ==
  ASSUME ProductInv, NEW r \in Rank, FaceMsg!WaitallReturns(r), NEW k \in FaceNbr[r],
         pc[r] = "waiting"
  PROVE  k \in Rank /\ fbuffrecv[r][k] = v[r] /\ FacePosts(k) >= Products(v[r])
<1>1. k \in Rank /\ r \in FaceNbr[k]
  BY Neighbours
<1>2. funrecv[r][k] = 0
  BY <1>1 DEF FaceMsg!WaitallReturns
<1>3. Pair(FacePosts(k), FacePosts(r), funsent[k][r], fchan[k][r], 0, fbuffrecv[r][k],
           FaceOrder)
  BY <1>1, <1>2 DEF ProductInv, FacePair
<1>4. /\ FacePosts(k) \in Int /\ FacePosts(r) \in Int /\ fchan[k][r] \in Seq(Version)
      /\ fbuffrecv[r][k] \in Version /\ v[r] \in Version /\ Products(v[r]) \in Nat
      /\ v[r] \notin Smoothing
  BY <1>1, RankTypes, PairTypes DEF ProductInv, Operation, Working
<1>5. FacePosts(r) = Products(v[r])
  BY <1>4 DEF FacePosts
<1>6. FaceOrder[fbuffrecv[r][k]] = FacePosts(r) /\ FacePosts(k) >= FacePosts(r)
  BY <1>3, <1>4, PairReceived
<1>7. fbuffrecv[r][k] = v[r]
  BY <1>4, <1>5, <1>6, FaceOrderInjective
<1> QED
  BY <1>1, <1>5, <1>6, <1>7

(* All that a result is made of is of the operation it ends.               *)
LEMMA FinishInv ==
  ASSUME ProductInv, NEW r \in Rank, Finish(r)
  PROVE  /\ ProductInv'
         /\ done'[r] = done[r] + 1 /\ done'[r] = Products(v[r])
         /\ \A k \in Rank : k # r => done'[k] = done[k]
<1>1. /\ TypeOK /\ v[r] \in Nat /\ v[r] \in Version /\ Products(v[r]) \in Nat
      /\ v[r] > 0 /\ v[r] \notin Smoothing /\ pc[r] = "waiting" /\ Operation(r)
      /\ we[r].iface = v[r] /\ we[r].interior = v[r]
  BY RankTypes DEF ProductInv, Finish, Operation, Working
<1> DEFINE next == IF v[r] \in ReduceAfter THEN "reduce" ELSE "ready"
<1>2. /\ pc' = [pc EXCEPT ![r] = next] /\ next \in {"ready", "reduce"}
      /\ UNCHANGED <<elemvars, facevars, v, av>>
  BY DEF Finish
<1> HIDE DEF next
<1> DEFINE ghosts == {ebuffrecv[r][k] : k \in ElemNbr[r]}
           fluxes == {fbuffrecv[r][k] : k \in FaceNbr[r]}
<1>3. ghosts \subseteq {v[r]}
  BY GhostsCurrent DEF Finish, Waitall
<1>4. fluxes \subseteq {v[r]}
  BY <1>1, FluxesCurrent DEF Finish, Waitall
<1>5. /\ we' = [we EXCEPT ![r].ghost = ghosts]
      /\ Ri' = [Ri EXCEPT ![r] = IF ExchangesFaces(r) THEN fluxes ELSE @]
      /\ w' = [w EXCEPT ![r] = {we'[r].iface, we'[r].interior} \cup we'[r].ghost \cup
                               IF ExchangesFaces(r) THEN Ri'[r] ELSE {}]
  BY DEF Finish
<1> HIDE DEF ghosts, fluxes
<1>6. /\ we'[r].iface = v[r] /\ we'[r].interior = v[r] /\ we'[r].ghost = ghosts
      /\ ExchangesFaces(r) => Ri'[r] = fluxes
  BY <1>1, <1>5 DEF TypeOK
<1>7. w' = [w EXCEPT ![r] = {v[r]}]
  <2>1. {we'[r].iface, we'[r].interior} \cup we'[r].ghost \cup
          (IF ExchangesFaces(r) THEN Ri'[r] ELSE {}) = {v[r]}
    BY <1>3, <1>4, <1>6
  <2> QED
    BY <1>5, <2>1
<1>8. TypeOK'
  <2>1. ElemMsg!P2PTypeOK' /\ FaceMsg!P2PTypeOK'
    BY <1>1, <1>2, QuietTypes
  <2>2. pc' \in [Rank -> {"ready", "smoothed", "elemPosted", "facesPosted", "waiting",
                          "reduce"}]
    BY <1>1, <1>2 DEF TypeOK
  <2>3. ghosts \in Sources /\ fluxes \in Sources /\ {v[r]} \in Sources
    BY <1>1, <1>3, <1>4 DEF Sources
  <2>4. we' \in [Rank -> [iface : Version, interior : Version, ghost : Sources]]
    <3>1. we \in [Rank -> [iface : Version, interior : Version, ghost : Sources]]
      BY <1>1 DEF TypeOK
    <3> QED
      BY <1>5, <2>3, <3>1
  <2>5. Ri' \in [Rank -> Sources]
    <3>1. Ri \in [Rank -> Sources] /\ (IF ExchangesFaces(r) THEN fluxes ELSE Ri[r]) \in Sources
      BY <1>1, <2>3 DEF TypeOK
    <3> QED
      BY <1>5, <3>1
  <2>6. w' \in [Rank -> Sources]
    BY <1>1, <1>7, <2>3 DEF TypeOK
  <2> QED
    BY <1>1, <1>2, <2>1, <2>2, <2>4, <2>5, <2>6 DEF TypeOK
<1>9. ASSUME NEW k \in Rank, k # r
      PROVE  /\ Operation(k)' /\ LastResult(k)'
             /\ done'[k] = done[k] /\ FacePosts(k)' = FacePosts(k)
  <2>1. Operation(k) /\ LastResult(k)
    BY DEF ProductInv
  <2>2. /\ v'[k] = v[k] /\ pc'[k] = pc[k] /\ we'[k] = we[k] /\ w'[k] = w[k]
        /\ av'[k] = av[k] /\ ebuffsend'[k] = ebuffsend[k] /\ fbuffsend'[k] = fbuffsend[k]
    BY <1>1, <1>2, <1>5, <1>7, <1>9 DEF elemvars, facevars, TypeOK
  <2> QED
    BY <2>1, <2>2, RankQuiet
<1>10. /\ Operation(r)' /\ LastResult(r)' /\ FacePosts(r)' = FacePosts(r)
       /\ done'[r] = done[r] + 1 /\ done'[r] = Products(v[r])
  <2>1. /\ pc'[r] \in {"ready", "reduce"} /\ w'[r] = {v[r]}
        /\ UNCHANGED <<v, av, ebuffsend, fbuffsend>>
    BY <1>1, <1>2, <1>7 DEF elemvars, facevars, TypeOK
  <2>2. Finished(r)' /\ ~Finished(r)
    BY <1>1, <2>1 DEF Finished
  <2>3. FacePosts(r)' = FacePosts(r)
    BY <1>1, <2>1 DEF FacePosts, Products
  <2>4. done'[r] = Products(v[r]) /\ done[r] = Products(v[r] - 1)
    <3>1. done'[r] = Products(v[r])
      BY <2>1, <2>2, CountsNext
    <3>2. done[r] = Products(v[r] - 1)
      BY <1>1, <2>2 DEF done
    <3> QED
      BY <3>1, <3>2
  <2>5. Products(v[r]) = Products(v[r] - 1) + 1 /\ Products(v[r] - 1) \in Nat
    <3>1. v[r] - 1 \in Nat /\ (v[r] - 1) + 1 = v[r]
      BY <1>1
    <3>2. Products((v[r] - 1) + 1) = Products(v[r] - 1) + 1 /\ Products(v[r] - 1) \in Nat
      BY <1>1, <3>1, ProductsNext, ProductsSet
    <3> QED
      BY <3>1, <3>2
  <2>6. sources'[r] = {Products(v[r])}
    <3>1. sources'[r] = {Products(n) : n \in w'[r]}
      BY DEF sources, Products
    <3> QED
      BY <2>1, <3>1
  <2>7. Operation(r)'
    BY <1>1, <2>1, <2>2, <2>3
       DEF Operation, Working, ExchangesFaces, FaceOrder, Version, Products
  <2> QED
    BY <2>3, <2>4, <2>5, <2>6, <2>7 DEF LastResult
<1>11. ASSUME NEW s \in Rank, NEW d \in Rank PROVE ElemPair(s, d)' /\ FacePair(s, d)'
  <2>1. ElemPair(s, d) /\ FacePair(s, d)
    BY DEF ProductInv
  <2>2. /\ s = r => eunsent[s][d] = 0 /\ funsent[s][d] = 0
        /\ d = r => eunrecv[d][s] = 0 /\ funrecv[d][s] = 0
    BY DEF Finish, Waitall, ElemMsg!WaitallReturns, FaceMsg!WaitallReturns
  <2>3. /\ s # r => (IdleElems(s)' => IdleElems(s)) /\ (IdleFaces(s)' => IdleFaces(s))
        /\ d # r => (IdleElems(d)' => IdleElems(d)) /\ (IdleFaces(d)' => IdleFaces(d))
    BY <1>1, <1>2 DEF IdleElems, IdleFaces, TypeOK
  <2>4. ElemPair(s, d)'
    BY <1>2, <2>1, <2>2, <2>3, ElemQuiet DEF ElemPair
  <2>5. FacePosts(s)' = FacePosts(s) /\ FacePosts(d)' = FacePosts(d)
    BY <1>9, <1>10
  <2>6. FacePair(s, d)'
    BY <1>2, <2>1, <2>2, <2>3, <2>5, FaceQuiet DEF FacePair
  <2> QED
    BY <2>4, <2>6
<1> QED
  BY <1>8, <1>9, <1>10, <1>11 DEF ProductInv

(* The reduction over all ranks touches no message and no result.          *)
LEMMA AllreduceInv ==
  ASSUME ProductInv, Allreduce
  PROVE  ProductInv' /\ \A k \in Rank : done'[k] = done[k]
<1>1. /\ TypeOK /\ UNCHANGED <<elemvars, facevars, v, we, Ri, w, av>>
      /\ \A k \in Rank : pc[k] = "reduce" /\ pc'[k] = "ready"
  BY DEF Allreduce, ProductInv
<1>2. TypeOK'
  <2>1. ElemMsg!P2PTypeOK' /\ FaceMsg!P2PTypeOK'
    BY <1>1, QuietTypes
  <2>2. pc' \in [Rank -> {"ready", "smoothed", "elemPosted", "facesPosted", "waiting",
                          "reduce"}]
    BY DEF Allreduce
  <2> QED
    BY <1>1, <2>1, <2>2 DEF TypeOK
<1>3. ASSUME NEW k \in Rank
      PROVE  /\ Operation(k)' /\ LastResult(k)'
             /\ done'[k] = done[k] /\ FacePosts(k)' = FacePosts(k)
  <2>1. Operation(k) /\ LastResult(k) /\ pc[k] = "reduce" /\ pc'[k] = "ready"
    BY <1>1 DEF ProductInv
  <2>2. UNCHANGED <<v, we, w, av, ebuffsend, fbuffsend>>
    BY <1>1 DEF elemvars, facevars
  <2>3. Finished(k)' <=> Finished(k)
    BY <2>1, <2>2 DEF Finished
  <2>4. FacePosts(k)' = FacePosts(k)
    BY <2>1, <2>2 DEF FacePosts, Products
  <2>5. done'[k] = done[k] /\ sources'[k] = sources[k]
    BY <2>2, <2>3 DEF done, sources, Products
  <2>6. Operation(k)'
    BY <2>1, <2>2, <2>3, <2>4
       DEF Operation, Working, ExchangesFaces, FaceOrder, Version, Products
  <2> QED
    BY <2>1, <2>4, <2>5, <2>6 DEF LastResult
<1>4. ASSUME NEW s \in Rank, NEW d \in Rank PROVE ElemPair(s, d)' /\ FacePair(s, d)'
  <2>1. ElemPair(s, d) /\ FacePair(s, d)
    BY DEF ProductInv
  <2>2. IdleElems(s) /\ IdleElems(d) /\ IdleFaces(s) /\ IdleFaces(d)
    BY <1>1 DEF IdleElems, IdleFaces
  <2>3. ElemPair(s, d)'
    BY <1>1, <2>1, <2>2, ElemQuiet DEF ElemPair
  <2>4. FacePair(s, d)'
    BY <1>1, <1>3, <2>1, <2>2, FaceQuiet DEF FacePair
  <2> QED
    BY <2>3, <2>4
<1> QED
  BY <1>2, <1>3, <1>4 DEF ProductInv

-----------------------------------------------------------------------------
(* The messages on their way.                                              *)

(* An element message keeps its place in the order of its pair.            *)
LEMMA ElemProgressed ==
  ASSUME ProductInv, NEW a \in Rank, NEW b \in Rank, ElemMsg!Progress(a, b),
         UNCHANGED <<pc, v>>, NEW s \in Rank, NEW d \in Rank
  PROVE  ElemPair(s, d)'
<1>1. TypeOK /\ ElemPair(s, d)
  BY DEF ProductInv
<1>2. /\ v'[s] = v[s] /\ v'[d] = v[d] /\ ElemOrder' = ElemOrder
      /\ (IdleElems(s)' <=> IdleElems(s)) /\ (IdleElems(d)' <=> IdleElems(d))
  BY DEF ElemOrder, Version, IdleElems
<1>3. /\ v[s] \in Int /\ v[d] \in Int /\ echan[s][d] \in Seq(Version)
      /\ eunsent[s][d] \in Nat /\ eunrecv[d][s] \in Nat /\ ebuffsend[s] \in Version
  BY <1>1, RankTypes, PairTypes
<1>4. CASE s = a /\ d = b /\ ElemMsg!ReadSlice(a, b)
  <2>1. /\ eunsent[s][d] > 0 /\ eunsent'[s][d] = eunsent[s][d] - 1
        /\ echan'[s][d] = Append(echan[s][d], ebuffsend[s])
        /\ UNCHANGED <<eunrecv, ebuffrecv>>
    BY <1>1, <1>4 DEF ElemMsg!ReadSlice, TypeOK, ElemMsg!P2PTypeOK
  <2>2. d \in ElemNbr[s] /\ ~IdleElems(s)
    BY <1>1, <1>3, <2>1 DEF ElemPair
  <2>3. ElemOrder[ebuffsend[s]] = v[s]
    BY <1>3, <2>2 DEF ProductInv, Operation, ElemOrder
  <2>4. Pair(v[s], v[d], eunsent[s][d], echan[s][d], eunrecv[d][s],
             ebuffrecv[d][s], ElemOrder)
    BY <1>1, <2>2 DEF ElemPair
  <2>5. Pair(v[s], v[d], eunsent[s][d] - 1, Append(echan[s][d], ebuffsend[s]),
             eunrecv[d][s], ebuffrecv[d][s], ElemOrder)
    BY <1>3, <2>1, <2>3, <2>4, PairRead
  <2> QED
    BY <1>1, <1>2, <2>1, <2>2, <2>5 DEF ElemPair
<1>5. CASE s = a /\ d = b /\ ElemMsg!Deliver(a, b)
  <2>1. /\ eunrecv[d][s] > 0 /\ eunrecv'[d][s] = eunrecv[d][s] - 1
        /\ echan[s][d] # <<>> /\ echan'[s][d] = Tail(echan[s][d])
        /\ ebuffrecv'[d][s] = Head(echan[s][d]) /\ UNCHANGED eunsent
    BY <1>1, <1>5 DEF ElemMsg!Deliver, TypeOK, ElemMsg!P2PTypeOK
  <2>2. d \in ElemNbr[s] /\ ~IdleElems(d)
    BY <1>1, <1>3, <2>1 DEF ElemPair
  <2>3. Pair(v[s], v[d], eunsent[s][d], echan[s][d], eunrecv[d][s],
             ebuffrecv[d][s], ElemOrder)
    BY <1>1, <2>2 DEF ElemPair
  <2>4. Pair(v[s], v[d], eunsent[s][d], Tail(echan[s][d]), eunrecv[d][s] - 1,
             Head(echan[s][d]), ElemOrder)
    BY <1>3, <2>1, <2>3, PairDelivered
  <2> QED
    BY <1>1, <1>2, <2>1, <2>2, <2>4 DEF ElemPair
<1>6. CASE s # a \/ d # b
  <2>1. /\ eunsent'[s][d] = eunsent[s][d] /\ eunrecv'[d][s] = eunrecv[d][s]
        /\ echan'[s][d] = echan[s][d] /\ ebuffrecv'[d][s] = ebuffrecv[d][s]
    <3>1. CASE ElemMsg!ReadSlice(a, b)
      <4>1. eunsent'[s][d] = eunsent[s][d]
        BY <1>1, <1>6, <3>1 DEF ElemMsg!ReadSlice, TypeOK, ElemMsg!P2PTypeOK
      <4>2. echan'[s][d] = echan[s][d]
        BY <1>1, <1>6, <3>1 DEF ElemMsg!ReadSlice, TypeOK, ElemMsg!P2PTypeOK
      <4> QED
        BY <3>1, <4>1, <4>2 DEF ElemMsg!ReadSlice
    <3>2. CASE ElemMsg!Deliver(a, b)
      <4>1. eunrecv'[d][s] = eunrecv[d][s]
        BY <1>1, <1>6, <3>2 DEF ElemMsg!Deliver, TypeOK, ElemMsg!P2PTypeOK
      <4>2. echan'[s][d] = echan[s][d]
        BY <1>1, <1>6, <3>2 DEF ElemMsg!Deliver, TypeOK, ElemMsg!P2PTypeOK
      <4>3. ebuffrecv'[d][s] = ebuffrecv[d][s]
        BY <1>1, <1>6, <3>2 DEF ElemMsg!Deliver, TypeOK, ElemMsg!P2PTypeOK
      <4> QED
        BY <3>2, <4>1, <4>2, <4>3 DEF ElemMsg!Deliver
    <3> QED
      BY <3>1, <3>2 DEF ElemMsg!Progress
  <2> QED
    BY <1>1, <1>2, <2>1 DEF ElemPair
<1> QED
  BY <1>4, <1>5, <1>6 DEF ElemMsg!Progress

(* So does a face message.                                                 *)
LEMMA FaceProgressed ==
  ASSUME ProductInv, NEW a \in Rank, NEW b \in Rank, FaceMsg!Progress(a, b),
         UNCHANGED <<pc, v>>, NEW s \in Rank, NEW d \in Rank
  PROVE  FacePair(s, d)'
<1>1. TypeOK /\ FacePair(s, d)
  BY DEF ProductInv
<1>2. /\ FacePosts(s)' = FacePosts(s) /\ FacePosts(d)' = FacePosts(d) /\ FaceOrder' = FaceOrder
      /\ (IdleFaces(s)' <=> IdleFaces(s)) /\ (IdleFaces(d)' <=> IdleFaces(d))
  BY DEF FaceOrder, FacePosts, Version, Products, IdleFaces
<1>3. /\ FacePosts(s) \in Int /\ FacePosts(d) \in Int /\ fchan[s][d] \in Seq(Version)
      /\ funsent[s][d] \in Nat /\ funrecv[d][s] \in Nat /\ fbuffsend[s] \in Version
  BY <1>1, RankTypes, PairTypes
<1>4. CASE s = a /\ d = b /\ FaceMsg!ReadSlice(a, b)
  <2>1. /\ funsent[s][d] > 0 /\ funsent'[s][d] = funsent[s][d] - 1
        /\ fchan'[s][d] = Append(fchan[s][d], fbuffsend[s])
        /\ UNCHANGED <<funrecv, fbuffrecv>>
    BY <1>1, <1>4 DEF FaceMsg!ReadSlice, TypeOK, FaceMsg!P2PTypeOK
  <2>2. d \in FaceNbr[s] /\ ~IdleFaces(s)
    BY <1>1, <1>3, <2>1 DEF FacePair
  <2>3. FaceOrder[fbuffsend[s]] = FacePosts(s)
    BY <1>3, <2>2, Neighbours DEF ProductInv, Operation, ExchangesFaces
  <2>4. Pair(FacePosts(s), FacePosts(d), funsent[s][d], fchan[s][d], funrecv[d][s],
             fbuffrecv[d][s], FaceOrder)
    BY <1>1, <2>2 DEF FacePair
  <2>5. Pair(FacePosts(s), FacePosts(d), funsent[s][d] - 1, Append(fchan[s][d], fbuffsend[s]),
             funrecv[d][s], fbuffrecv[d][s], FaceOrder)
    BY <1>3, <2>1, <2>3, <2>4, PairRead
  <2> QED
    BY <1>1, <1>2, <2>1, <2>2, <2>5 DEF FacePair
<1>5. CASE s = a /\ d = b /\ FaceMsg!Deliver(a, b)
  <2>1. /\ funrecv[d][s] > 0 /\ funrecv'[d][s] = funrecv[d][s] - 1
        /\ fchan[s][d] # <<>> /\ fchan'[s][d] = Tail(fchan[s][d])
        /\ fbuffrecv'[d][s] = Head(fchan[s][d]) /\ UNCHANGED funsent
    BY <1>1, <1>5 DEF FaceMsg!Deliver, TypeOK, FaceMsg!P2PTypeOK
  <2>2. d \in FaceNbr[s] /\ ~IdleFaces(d)
    BY <1>1, <1>3, <2>1 DEF FacePair
  <2>3. Pair(FacePosts(s), FacePosts(d), funsent[s][d], fchan[s][d], funrecv[d][s],
             fbuffrecv[d][s], FaceOrder)
    BY <1>1, <2>2 DEF FacePair
  <2>4. Pair(FacePosts(s), FacePosts(d), funsent[s][d], Tail(fchan[s][d]), funrecv[d][s] - 1,
             Head(fchan[s][d]), FaceOrder)
    BY <1>3, <2>1, <2>3, PairDelivered
  <2> QED
    BY <1>1, <1>2, <2>1, <2>2, <2>4 DEF FacePair
<1>6. CASE s # a \/ d # b
  <2>1. /\ funsent'[s][d] = funsent[s][d] /\ funrecv'[d][s] = funrecv[d][s]
        /\ fchan'[s][d] = fchan[s][d] /\ fbuffrecv'[d][s] = fbuffrecv[d][s]
    <3>1. CASE FaceMsg!ReadSlice(a, b)
      <4>1. funsent'[s][d] = funsent[s][d]
        BY <1>1, <1>6, <3>1 DEF FaceMsg!ReadSlice, TypeOK, FaceMsg!P2PTypeOK
      <4>2. fchan'[s][d] = fchan[s][d]
        BY <1>1, <1>6, <3>1 DEF FaceMsg!ReadSlice, TypeOK, FaceMsg!P2PTypeOK
      <4> QED
        BY <3>1, <4>1, <4>2 DEF FaceMsg!ReadSlice
    <3>2. CASE FaceMsg!Deliver(a, b)
      <4>1. funrecv'[d][s] = funrecv[d][s]
        BY <1>1, <1>6, <3>2 DEF FaceMsg!Deliver, TypeOK, FaceMsg!P2PTypeOK
      <4>2. fchan'[s][d] = fchan[s][d]
        BY <1>1, <1>6, <3>2 DEF FaceMsg!Deliver, TypeOK, FaceMsg!P2PTypeOK
      <4>3. fbuffrecv'[d][s] = fbuffrecv[d][s]
        BY <1>1, <1>6, <3>2 DEF FaceMsg!Deliver, TypeOK, FaceMsg!P2PTypeOK
      <4> QED
        BY <3>2, <4>1, <4>2, <4>3 DEF FaceMsg!Deliver
    <3> QED
      BY <3>1, <3>2 DEF FaceMsg!Progress
  <2> QED
    BY <1>1, <1>2, <2>1 DEF FacePair
<1> QED
  BY <1>4, <1>5, <1>6 DEF FaceMsg!Progress


(* No rank notices.                                                        *)
LEMMA TransferInv ==
  ASSUME ProductInv, NEW a \in Rank, NEW b \in Rank, ElemTransfer(a, b) \/ FaceTransfer(a, b)
  PROVE  ProductInv' /\ \A k \in Rank : done'[k] = done[k]
<1>1. /\ TypeOK /\ UNCHANGED <<pc, v, we, Ri, w, av>>
      /\ UNCHANGED <<ebuffsend, fbuffsend>>
      /\ \/ UNCHANGED facevars /\ ElemMsg!Progress(a, b)
         \/ UNCHANGED elemvars /\ FaceMsg!Progress(a, b)
  BY DEF ElemTransfer, FaceTransfer, ProductInv, ElemMsg!Progress, ElemMsg!ReadSlice,
         ElemMsg!Deliver, FaceMsg!Progress, FaceMsg!ReadSlice, FaceMsg!Deliver,
         elemvars, facevars
<1>2. TypeOK'
  <2>1. ElemMsg!P2PTypeOK' /\ FaceMsg!P2PTypeOK'
    BY <1>1, QuietTypes, ElemProgressType, FaceProgressType DEF TypeOK
  <2> QED
    BY <1>1, <2>1 DEF TypeOK
<1>3. ASSUME NEW k \in Rank
      PROVE  /\ Operation(k)' /\ LastResult(k)'
             /\ done'[k] = done[k] /\ FacePosts(k)' = FacePosts(k)
  BY <1>1, RankQuiet DEF ProductInv
<1>4. ASSUME NEW s \in Rank, NEW d \in Rank PROVE ElemPair(s, d)' /\ FacePair(s, d)'
  <2>1. /\ ElemPair(s, d) /\ FacePair(s, d)
        /\ (IdleElems(s)' <=> IdleElems(s)) /\ (IdleElems(d)' <=> IdleElems(d))
        /\ (IdleFaces(s)' <=> IdleFaces(s)) /\ (IdleFaces(d)' <=> IdleFaces(d))
    BY <1>1 DEF ProductInv, IdleElems, IdleFaces
  <2>2. ElemPair(s, d)'
    BY <1>1, <2>1, ElemQuiet, ElemProgressed DEF ElemPair
  <2>3. FacePair(s, d)'
    BY <1>1, <1>3, <2>1, FaceQuiet, FaceProgressed DEF FacePair
  <2> QED
    BY <2>2, <2>3
<1> QED
  BY <1>2, <1>3, <1>4 DEF ProductInv

(* A step that is none of the system's.                                    *)
LEMMA StutterInv ==
  ASSUME ProductInv, UNCHANGED vars
  PROVE  ProductInv' /\ \A k \in Rank : done'[k] = done[k]
<1>1. /\ TypeOK /\ UNCHANGED <<elemvars, facevars, pc, v, we, Ri, w, av>>
      /\ UNCHANGED <<ebuffsend, fbuffsend>>
  BY DEF vars, elemvars, facevars, ProductInv
<1>2. TypeOK'
  <2>1. ElemMsg!P2PTypeOK' /\ FaceMsg!P2PTypeOK'
    BY <1>1, QuietTypes
  <2> QED
    BY <1>1, <2>1 DEF TypeOK
<1>3. ASSUME NEW k \in Rank
      PROVE  /\ Operation(k)' /\ LastResult(k)'
             /\ done'[k] = done[k] /\ FacePosts(k)' = FacePosts(k)
  BY <1>1, RankQuiet DEF ProductInv
<1>4. ASSUME NEW s \in Rank, NEW d \in Rank PROVE ElemPair(s, d)' /\ FacePair(s, d)'
  <2>1. /\ ElemPair(s, d) /\ FacePair(s, d)
        /\ (IdleElems(s)' <=> IdleElems(s)) /\ (IdleElems(d)' <=> IdleElems(d))
        /\ (IdleFaces(s)' <=> IdleFaces(s)) /\ (IdleFaces(d)' <=> IdleFaces(d))
    BY <1>1 DEF ProductInv, IdleElems, IdleFaces
  <2>2. ElemPair(s, d)'
    BY <1>1, <2>1, ElemQuiet DEF ElemPair
  <2>3. FacePair(s, d)'
    BY <1>1, <1>3, <2>1, FaceQuiet DEF FacePair
  <2> QED
    BY <2>2, <2>3
<1> QED
  BY <1>2, <1>3, <1>4 DEF ProductInv

(* Every step keeps the invariant, and only the end of a product counts.   *)
LEMMA InvStep ==
  ASSUME ProductInv, [Next]_vars
  PROVE  /\ ProductInv'
         /\ (~ \E r \in Rank : Finish(r)) => \A k \in Rank : done'[k] = done[k]
<1>1. CASE \E r \in Rank : Step(r)
  BY <1>1, SmoothInv, RefreshInv, StartInv, StartFacesInv, InteriorInv, FinishInv DEF Step
<1>2. CASE \E s, d \in Rank : ElemTransfer(s, d) \/ FaceTransfer(s, d)
  BY <1>2, TransferInv
<1>3. CASE Allreduce
  BY <1>3, AllreduceInv
<1>4. CASE UNCHANGED vars
  BY <1>4, StutterInv
<1> QED
  BY <1>1, <1>2, <1>3, <1>4 DEF Next

(* The inductive invariant of the products, in every reachable state.      *)
THEOREM ProductInvariant == Spec => []ProductInv
<1>1. ProductInv /\ [Next]_vars => ProductInv'
  BY InvStep
<1> QED
  BY <1>1, InitInv, PTL DEF Spec

(* Every product and every pass of smoothing of hdgMatVec and its like     *)
(* uses data of its own operation only, and no send buffer is packed while *)
(* the library may still read it.                                          *)
THEOREM ProductsAreConsistent == Spec => []HdgInv
<1>1. ProductInv => HdgInv
  <2> SUFFICES ASSUME ProductInv PROVE HdgInv
    OBVIOUS
  <2>1. TypeOK
    BY DEF ProductInv
  <2>2. ResultConsistent
    BY DEF ProductInv, Operation, ResultConsistent
  <2>3. SendBuffersStable
    BY DEF ProductInv, ElemPair, FacePair, IdleElems, IdleFaces, SendBuffersStable
  <2> QED
    BY <2>1, <2>2, <2>3 DEF HdgInv
<1> QED
  BY <1>1, ProductInvariant, PTL

-----------------------------------------------------------------------------
(* Refinement of SynchronousEvaluation, over both domains at once.         *)

(* The count that does not change hides the step.                          *)
LEMMA DoneStutters ==
  ASSUME ProductInv, ProductInv', \A k \in Rank : done'[k] = done[k]
  PROVE  UNCHANGED Synchronous!vars
<1>1. done' = done
  BY DEF done
<1>2. ASSUME NEW k \in Rank PROVE sources'[k] = sources[k]
  <2>1. sources[k] = IF done[k] = 0 THEN {} ELSE {done[k]}
    BY DEF ProductInv, LastResult
  <2>2. sources'[k] = IF done'[k] = 0 THEN {} ELSE {done'[k]}
    BY DEF ProductInv, LastResult
  <2> QED
    BY <1>1, <2>1, <2>2
<1>3. sources' = sources
  BY <1>2 DEF sources
<1> QED
  BY <1>1, <1>3 DEF Synchronous!vars

(* Assembling the result is the step of the specification: the ranks it    *)
(* has messages from, in its domain or across the interface, have done the *)
(* products before.                                                        *)
LEMMA FinishEvaluates ==
  ASSUME ProductInv, ProductInv', NEW r \in Rank, Finish(r)
  PROVE  Synchronous!Evaluate(r)
<1>1. /\ TypeOK /\ v[r] \in Nat /\ v[r] \in Version /\ v[r] > 0 /\ v[r] \notin Smoothing
      /\ pc[r] = "waiting"
  BY RankTypes DEF ProductInv, Finish, Operation, Working
<1>2. /\ done'[r] = done[r] + 1 /\ done'[r] = Products(v[r])
      /\ \A k \in Rank : k # r => done'[k] = done[k]
  BY FinishInv
<1>3. v[r] - 1 \in Nat /\ ~Finished(r)
  BY <1>1 DEF Finished
<1>4. /\ done[r] = Products(v[r] - 1) /\ done[r] \in Nat
      /\ Products(v[r]) = done[r] + 1 /\ Products(v[r]) \in Nat
  <2>1. done[r] = Products(v[r] - 1)
    BY <1>1, <1>3 DEF done
  <2>2. Products(v[r] - 1) \in Nat /\ Products(v[r]) \in Nat
    BY <1>1, <1>3, ProductsSet
  <2> QED
    BY <1>2, <2>1, <2>2
<1>5. done' = [done EXCEPT ![r] = @ + 1]
  <2>1. done'[r] = done[r] + 1 /\ \A k \in Rank : k # r => done'[k] = done[k]
    BY <1>2
  <2> QED
    BY <2>1 DEF done
<1>6. sources' = [sources EXCEPT ![r] = {done[r] + 1}]
  <2>1. sources'[r] = {done[r] + 1}
    <3>1. sources'[r] = IF done'[r] = 0 THEN {} ELSE {done'[r]}
      BY DEF ProductInv, LastResult
    <3> HIDE DEF done
    <3> QED
      BY <1>2, <1>4, <3>1
  <2>2. ASSUME NEW k \in Rank, k # r PROVE sources'[k] = sources[k]
    <3>1. /\ sources[k] = IF done[k] = 0 THEN {} ELSE {done[k]}
          /\ sources'[k] = IF done'[k] = 0 THEN {} ELSE {done'[k]}
      BY DEF ProductInv, LastResult
    <3> QED
      BY <1>2, <2>2, <3>1
  <2> QED
    BY <2>1, <2>2 DEF sources
<1>7. done[r] < Products(MaxEval)
  <2>1. v[r] <= MaxEval /\ MaxEval \in Nat
    BY <1>1, VersionNat DEF Version
  <2>2. Products(v[r]) <= Products(MaxEval) /\ Products(MaxEval) \in Nat
    BY <1>1, <2>1, ProductsGrow, ProductsSet
  <2> QED
    BY <1>4, <2>2
<1>8. ASSUME NEW k \in ElemNbr[r] \cup FaceNbr[r] PROVE done[k] >= done[r]
  <2>1. k \in Rank
    BY Neighbours
  <2>2. /\ v[k] \in Nat /\ Products(v[k]) \in Nat
        /\ done[k] = Products(IF Finished(k) \/ v[k] = 0 THEN v[k] ELSE v[k] - 1)
    BY <2>1, RankTypes DEF ProductInv, done
  <2>3. CASE k \in ElemNbr[r]
    <3>1. v[k] >= v[r]
      BY <2>3, GhostsCurrent DEF Finish, Waitall
    <3> DEFINE n == IF Finished(k) \/ v[k] = 0 THEN v[k] ELSE v[k] - 1
    <3>2. n \in Nat /\ v[r] - 1 <= n
      BY <1>1, <2>2, <3>1
    <3> HIDE DEF n
    <3>3. Products(v[r] - 1) <= Products(n) /\ Products(n) \in Nat
      BY <1>3, <3>2, ProductsGrow, ProductsSet
    <3> QED
      BY <1>4, <2>2, <3>3 DEF n
  <2>4. CASE k \in FaceNbr[r]
    <3>1. FacePosts(k) >= Products(v[r])
      BY <1>1, <2>4, FluxesCurrent DEF Finish, Waitall
    <3>2. Products(v[k]) >= Products(v[r])
      BY <1>4, <2>2, <3>1 DEF FacePosts
    <3>3. CASE Finished(k) \/ v[k] = 0
      BY <1>4, <2>2, <3>2, <3>3
    <3>4. CASE ~(Finished(k) \/ v[k] = 0)
      <4>1. v[k] - 1 \in Nat /\ (v[k] - 1) + 1 = v[k]
        BY <2>2, <3>4
      <4>2. Products((v[k] - 1) + 1) <= Products(v[k] - 1) + 1 /\ Products(v[k] - 1) \in Nat
        <5>1. Products(v[k] - 1) \in Nat
          BY <4>1, ProductsSet
        <5>2. Products((v[k] - 1) + 1) = Products(v[k] - 1) +
                IF (v[k] - 1) + 1 \in Smoothing THEN 0 ELSE 1
          BY <4>1, ProductsNext
        <5> QED
          BY <5>1, <5>2
      <4>3. done[k] = Products(v[k] - 1)
        BY <2>2, <3>4
      <4> QED
        BY <1>4, <2>2, <3>2, <4>1, <4>2, <4>3
    <3> QED
      BY <3>3, <3>4
  <2> QED
    BY <2>3, <2>4
<1> QED
  BY <1>5, <1>6, <1>7, <1>8 DEF Synchronous!Evaluate

(* The overlapped products of both domains implement the synchronous ones. *)
THEOREM Refinement == Spec => ImplementsSynchronous
<1>1. Init => Synchronous!Init
  <2> SUFFICES ASSUME Init PROVE Synchronous!Init
    OBVIOUS
  <2>1. ASSUME NEW r \in Rank PROVE done[r] = 0 /\ sources[r] = {}
    BY ProductsZero DEF Init, done, sources
  <2>2. done = [r \in Rank |-> 0] /\ sources = [r \in Rank |-> {}]
    BY <2>1 DEF done, sources
  <2> QED
    BY <2>2 DEF Synchronous!Init
<1>2. ProductInv /\ ProductInv' /\ [Next]_vars => [Synchronous!Next]_(Synchronous!vars)
  <2> SUFFICES ASSUME ProductInv, ProductInv', [Next]_vars
               PROVE  Synchronous!Next \/ UNCHANGED Synchronous!vars
    OBVIOUS
  <2>1. CASE \E r \in Rank : Finish(r)
    BY <2>1, FinishEvaluates DEF Synchronous!Next
  <2>2. CASE ~ \E r \in Rank : Finish(r)
    BY <2>2, InvStep, DoneStutters
  <2> QED
    BY <2>1, <2>2
<1> QED
  BY <1>1, <1>2, ProductInvariant, PTL DEF Spec, ImplementsSynchronous, Synchronous!Spec
=============================================================================
