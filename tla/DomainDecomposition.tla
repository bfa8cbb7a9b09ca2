------------------------- MODULE DomainDecomposition -------------------------
(***************************************************************************)
(* Serial domain decomposition of a mesh over MPI ranks                    *)
(* (src/backend/Preprocessing/domaindecomposition.cpp).                    *)
(*                                                                         *)
(* The mesh is its element-to-element connectivity e2e and the owner of    *)
(* every element.  For each rank i the code builds a DMD: the elements the *)
(* rank stores, in the order                                               *)
(*                                                                         *)
(*    part1 interior | part2 interface | part3 exterior | part4 outer      *)
(*                                                                         *)
(* the rows elemrecv of the elements it receives, and, once all ranks are  *)
(* done, the rows elemsend of the elements it sends.  At run time the      *)
(* ghosts are refreshed by position only: no element number travels.  The  *)
(* properties say that the two lists agree, that what the solver computes  *)
(* before the messages arrive needs no ghost, and that what it sends has   *)
(* been computed by then.                                                  *)
(*                                                                         *)
(* C++ arrays are 0-based; a vector v is a sequence s with v[j] = s[j+1].  *)
(***************************************************************************)
EXTENDS Integers, FiniteSets, SequencesExt

CONSTANTS
  Ne,       \* number of mesh elements
  Nproc,    \* number of MPI ranks
  Coupled   \* pde.coupledinterface > 0

ASSUME NeAssumption == Ne \in Nat \ {0}
ASSUME NprocAssumption == Nproc \in Nat \ {0}
ASSUME CoupledAssumption == Coupled \in BOOLEAN

Elem == 0 .. Ne - 1
Proc == 0 .. Nproc - 1

VARIABLES
  e2e,       \* e2e[e]: the elements across the faces of e (entries >= 0)
  elem2cpu,  \* the owner of every element
  hybrid,    \* pde.hybrid, 1: HDG (build_dmdhdg), 0: LDG (build_dmdldg)
  inte,      \* the Ne integers build_dmdhdg reads through the pointer inte
  dmd,       \* the decomposition records, one per rank
  i          \* the loop counter over ranks; Nproc + 1 after create_elemsend

vars == <<e2e, elem2cpu, hybrid, inte, dmd, i>>

-----------------------------------------------------------------------------
(* Element sets of a rank.                                                 *)

neighboringelements(S) == UNION {e2e[e] : e \in S}

intelem(p) == {e \in Elem : elem2cpu[e] = p}

extelem_OneDirection(p) ==  \* mistake: each pair of ranks is seen from one side
  {e \in neighboringelements(intelem(p)) \ intelem(p) : elem2cpu[e] < p}
extelem(p) == neighboringelements(intelem(p)) \ intelem(p)

bndelem_NotExpanded(p) ==   \* mistake: the neighbours of extelem are not formed
  extelem(p) \cap intelem(p)
bndelem(p) == neighboringelements(extelem(p)) \cap intelem(p)

outelem_None(p) == {}       \* mistake: one layer of ghosts for LDG
outelem_KeepsExterior(p) == \* mistake: exterior elements are not taken out
  neighboringelements(extelem(p)) \ intelem(p)
outelem(p) == neighboringelements(extelem(p)) \ (intelem(p) \cup extelem(p))

Ghosts(p) == extelem(p) \cup IF hybrid = 0 THEN outelem(p) ELSE {}

-----------------------------------------------------------------------------
(* Vectors.                                                                *)

(* The elements of S in the strict order Less, a set of pairs: the j-th    *)
(* has j - 1 others below it.                                              *)
InOrder(S, Less) ==
  [j \in 1 .. Cardinality(S) |->
     CHOOSE x \in S : Cardinality({y \in S : <<y, x>> \in Less}) = j - 1]

Sorted(S) == InOrder(S, {q \in S \X S : q[1] < q[2]})

(* std::set_difference and std::set_intersection are single merge passes:  *)
(* they return the set operation on sorted ranges, and whatever the pass   *)
(* leaves when a range is not sorted.                                      *)
MergeDifference(a, b) ==
  LET from[at \in (1 .. Len(a) + 1) \X (1 .. Len(b) + 1)] ==
        LET j == at[1]
            k == at[2]
        IN IF j > Len(a) THEN <<>>
           ELSE IF k > Len(b) THEN SubSeq(a, j, Len(a))
           ELSE IF a[j] < b[k] THEN <<a[j]>> \o from[<<j + 1, k>>]
           ELSE IF b[k] < a[j] THEN from[<<j, k + 1>>]
           ELSE from[<<j + 1, k + 1>>]
  IN from[<<1, 1>>]

MergeIntersection(a, b) ==
  LET from[at \in (1 .. Len(a) + 1) \X (1 .. Len(b) + 1)] ==
        LET j == at[1]
            k == at[2]
        IN IF j > Len(a) \/ k > Len(b) THEN <<>>
           ELSE IF a[j] < b[k] THEN from[<<j + 1, k>>]
           ELSE IF b[k] < a[j] THEN from[<<j, k + 1>>]
           ELSE <<a[j]>> \o from[<<j + 1, k + 1>>]
  IN from[<<1, 1>>]

(* xiny for one value: the position of x in y, or -1.                      *)
xiny(x, y) ==
  IF x \in ToSet(y)
    THEN (CHOOSE j \in DOMAIN y : y[j] = x /\ \A l \in 1 .. j - 1 : y[l] # x) - 1
    ELSE -1

(* Order of std::array<int,3>.                                             *)
RowLess(r, s) ==
  \/ r[1] < s[1]
  \/ r[1] = s[1] /\ r[2] < s[2]
  \/ r[1] = s[1] /\ r[2] = s[2] /\ r[3] < s[3]

CountRows(rows, p) == Cardinality({j \in DOMAIN rows : rows[j][1] = p})

-----------------------------------------------------------------------------
(* One pass of the loops of build_dmdldg and build_dmdhdg.                 *)

(* The interface elements: sorted, except that the coupled HDG case puts   *)
(* the elements found in inte first.                                       *)
InterfaceVector(p) ==
  LET bnd == Sorted(bndelem(p))
      bnd1 == MergeIntersection(bnd, inte)
  IN IF hybrid = 1 /\ Coupled THEN bnd1 \o MergeDifference(bnd, bnd1) ELSE bnd

RecvRows(part, offset, recvelem) ==
  LET found == {j \in DOMAIN recvelem : xiny(recvelem[j], part) >= 0}
      row(j) == <<elem2cpu[part[xiny(recvelem[j], part) + 1]],
                  offset + j - 1, recvelem[j]>>
      rows == {row(j) : j \in found}
  IN InOrder(rows, {q \in rows \X rows : RowLess(q[1], q[2])})

PartitionOf(p) ==
  LET part2 == InterfaceVector(p)
      part1 == MergeDifference(Sorted(intelem(p)), part2)
      part3 == Sorted(extelem(p))
      part4 == IF hybrid = 0 THEN Sorted(outelem(p)) ELSE <<>>
      part == part1 \o part2 \o part3 \o part4
      recv == RecvRows(part, Len(part1) + Len(part2), part3 \o part4)
  IN [elempart    |-> part,
      elempartpts |-> <<Len(part1), Len(part2), Len(part3), Len(part4)>>,
      elemrecv    |-> recv,
      nbsd        |-> Sorted({recv[j][1] : j \in 1 .. Len(recv)}),
      elemsend    |-> <<>>,
      elemsendpts |-> <<>>,
      elemrecvpts |-> <<>>]

NoDmd == [elempart |-> <<>>, elempartpts |-> <<>>, elemrecv |-> <<>>,
          nbsd |-> <<>>, elemsend |-> <<>>, elemsendpts |-> <<>>,
          elemrecvpts |-> <<>>]

BuildPartition ==
  /\ i < Nproc
  /\ dmd' = [dmd EXCEPT ![i] = PartitionOf(i)]
  /\ i' = i + 1
  /\ UNCHANGED <<e2e, elem2cpu, hybrid, inte>>

-----------------------------------------------------------------------------
(* create_elemsend: every row elemrecv[j] of a rank p that names k as the  *)
(* owner is a request <<p, j>>, answered by a send row of k; ranks in      *)
(* increasing order, requests of a rank in the order of its rows.          *)

Requests(k) ==
  UNION {{<<p, j>> : j \in {j \in DOMAIN dmd[p].elemrecv : dmd[p].elemrecv[j][1] = k}} :
           p \in {p \in Proc : k \in ToSet(dmd[p].nbsd)}}

RequestLess_LastFirst(q, r) ==   \* mistake: the last request is answered first
  \/ q[1] < r[1]
  \/ q[1] = r[1] /\ q[2] > r[2]
RequestLess(q, r) ==
  \/ q[1] < r[1]
  \/ q[1] = r[1] /\ q[2] < r[2]

SendRow_InteriorOnly(k, q) ==    \* mistake: searched among the interior only
  LET element == dmd[q[1]].elemrecv[q[2]][3]
      part1 == SubSeq(dmd[k].elempart, 1, dmd[k].elempartpts[1])
  IN <<q[1], xiny(element, part1), element>>
SendRow(k, q) ==
  LET element == dmd[q[1]].elemrecv[q[2]][3]
  IN <<q[1], xiny(element, dmd[k].elempart), element>>

RequestsInOrder(k) ==
  LET R == Requests(k)
  IN InOrder(R, {q \in R \X R : RequestLess(q[1], q[2])})

elemsend(k) ==
  LET requests == RequestsInOrder(k)
  IN [m \in DOMAIN requests |-> SendRow(k, requests[m])]

PointsPerNeighbor(rows, nbsd) ==
  [j \in 1 .. Len(nbsd) |-> CountRows(rows, nbsd[j])]

CreateElemsend ==
  /\ i = Nproc
  /\ dmd' = [k \in Proc |->
               [dmd[k] EXCEPT
                  !.elemsend = elemsend(k),
                  !.elemsendpts = PointsPerNeighbor(elemsend(k), dmd[k].nbsd),
                  !.elemrecvpts = PointsPerNeighbor(dmd[k].elemrecv, dmd[k].nbsd)]]
  /\ i' = i + 1
  /\ UNCHANGED <<e2e, elem2cpu, hybrid, inte>>

-----------------------------------------------------------------------------
(* Inputs: any conforming mesh (two elements that share a face are         *)
(* neighbours of each other, no element of itself), any assignment of      *)
(* elements to ranks.  inte holds the coupled interface elements, sorted;  *)
(* the code reads Ne entries of it whatever its length, and the rest is    *)
(* the heap behind the vector, abstracted to one value repeated.           *)

Conforming(c) == \A e, f \in Elem : e \notin c[e] /\ (f \in c[e] <=> e \in c[f])

InteRead(S, v) == Sorted(S) \o [j \in 1 .. Ne - Cardinality(S) |-> v]

InteReads ==
  IF Coupled THEN {InteRead(S, v) : S \in SUBSET Elem, v \in 0 .. Ne} ELSE {<<>>}

Init ==
  /\ e2e \in {c \in [Elem -> SUBSET Elem] : Conforming(c)}
  /\ elem2cpu \in [Elem -> Proc]
  /\ hybrid \in {0, 1}
  /\ inte \in InteReads
  /\ dmd = [p \in Proc |-> NoDmd]
  /\ i = 0

Next == BuildPartition \/ CreateElemsend

Spec == Init /\ [][Next]_vars

-----------------------------------------------------------------------------
(* The refresh of ghosts the solver performs with these lists: a sender    *)
(* packs its elements in elemsend order and sends neighbour n the slice    *)
(* that starts at the sum of the earlier elemsendpts; a receiver stores    *)
(* the slices it gets, in nbsd order, at the positions elemrecv lists.     *)

SumUpTo(pts, n) ==
  LET sum[j \in 0 .. n] == IF j = 0 THEN 0 ELSE sum[j - 1] + pts[j]
  IN sum[n]

(* The place of p among the neighbours of k, or 0.                         *)
NeighborIndex(k, p) == xiny(p, dmd[k].nbsd) + 1

buffsend(k) ==
  [m \in DOMAIN dmd[k].elemsend |-> dmd[k].elempart[dmd[k].elemsend[m][2] + 1]]

MessageTo(k, p) ==
  LET n == NeighborIndex(k, p)
      psend == SumUpTo(dmd[k].elemsendpts, n - 1)
  IN IF n = 0 THEN <<>>
     ELSE [m \in 1 .. dmd[k].elemsendpts[n] |-> buffsend(k)[psend + m]]

(* Where p stores the m-th element of the message of its neighbour n.      *)
GhostPosition(p, n, m) ==
  dmd[p].elemrecv[SumUpTo(dmd[p].elemrecvpts, n - 1) + m][2]

-----------------------------------------------------------------------------
(* Properties.                                                             *)

Built == i = Nproc + 1

NOwned(p) == dmd[p].elempartpts[1] + dmd[p].elempartpts[2]

Row == Proc \X (0 .. 2 * Ne) \X Elem
DmdType ==
  [elempart : Seq(Elem), elempartpts : Seq(0 .. 2 * Ne), elemrecv : Seq(Row),
   nbsd : Seq(Proc), elemsend : Seq(Row), elemsendpts : Seq(0 .. Ne),
   elemrecvpts : Seq(0 .. Ne)]

(* Every record has its type.  In particular no position is -1, what xiny  *)
(* gives for an element the numbering of a rank does not have.             *)
TypeOK ==
  /\ e2e \in [Elem -> SUBSET Elem]
  /\ elem2cpu \in [Elem -> Proc]
  /\ hybrid \in {0, 1}
  /\ inte \in Seq(0 .. Ne)
  /\ dmd \in [Proc -> DmdType]
  /\ i \in 0 .. Nproc + 1

(* The sizes of the messages two ranks exchange agree on both sides, and a *)
(* rank that receives from another one also lists it as a neighbour to     *)
(* send to: otherwise MPI_Waitall never returns (create_elemsend counts    *)
(* rows only for the ranks in nbsd, which is built from receives alone).   *)
MessagesPair ==
  Built => \A p, k \in Proc :
    LET m == NeighborIndex(p, k)
        n == NeighborIndex(k, p)
    IN /\ m > 0 <=> n > 0
       /\ m > 0 => dmd[p].elemrecvpts[m] = dmd[k].elemsendpts[n]
       /\ m > 0 => dmd[p].elemrecvpts[m] > 0

(* After the exchange every ghost position holds the element it stands     *)
(* for, as its owner stores it: the messages have the sizes the receiver   *)
(* posts, each fills ghost positions with the elements that belong there,  *)
(* and no ghost position is left out.                                      *)
ExchangeFillsGhosts ==
  Built => \A p \in Proc :
    /\ \A n \in DOMAIN dmd[p].nbsd :
         LET message == MessageTo(dmd[p].nbsd[n], p)
         IN /\ Len(message) = dmd[p].elemrecvpts[n]
            /\ \A m \in DOMAIN message :
                 dmd[p].elempart[GhostPosition(p, n, m) + 1] = message[m]
    /\ \A g \in NOwned(p) .. Len(dmd[p].elempart) - 1 :
         \E n \in DOMAIN dmd[p].nbsd : \E m \in 1 .. dmd[p].elemrecvpts[n] :
           GhostPosition(p, n, m) = g

(* No element is stored twice, the owned ones come first, and the ghosts   *)
(* are the rest (DMD::elempart, "local element IDs in the partition").     *)
ElempartIsPartition ==
  \A p \in Proc : p < i =>
    /\ IsInjective(dmd[p].elempart)
    /\ {dmd[p].elempart[m] : m \in 1 .. NOwned(p)} = intelem(p)

(* The first block of elempart, which the solver processes before the      *)
(* ghosts arrive, holds elements with no neighbour on another rank.        *)
InteriorNeedsNoGhost ==
  Built => \A p \in Proc : \A m \in 1 .. dmd[p].elempartpts[1] :
    e2e[dmd[p].elempart[m]] \subseteq intelem(p)

(* HDG sends what it has just computed for the interface block: every      *)
(* element another rank needs from p lies in that block of p.              *)
SentIsInterface ==
  \A p, k \in Proc : p # k => extelem(p) \cap intelem(k) \subseteq bndelem(k)

(* The stored elements close the stencil: LDG recomputes q on the exterior *)
(* elements from their own neighbours (GetQ on the blocks up to nbe2), so  *)
(* these must be stored too; HDG needs the neighbours of its own elements. *)
StencilStored ==
  Built => \A p \in Proc :
    LET computed == NOwned(p) + IF hybrid = 0 THEN dmd[p].elempartpts[3] ELSE 0
        part == dmd[p].elempart
    IN \A m \in 1 .. computed : e2e[part[m]] \subseteq ToSet(part)

(* HDG sends the products of the interface block, the only ones computed   *)
(* by then: the positions a rank sends lie in that block.                  *)
SentWasComputed ==
  (Built /\ hybrid = 1) => \A p \in Proc : \A m \in 1 .. Len(dmd[p].elemsend) :
    dmd[p].elemsend[m][2] \in dmd[p].elempartpts[1] .. NOwned(p) - 1

(* A rank needs a ghost of k exactly when k needs one of it.               *)
NeighborsMutual ==
  \A p, k \in Proc :
    (Ghosts(p) \cap intelem(k) # {}) <=> (Ghosts(k) \cap intelem(p) # {})
=============================================================================
