----------------------- MODULE ParDomainDecomposition -----------------------
(***************************************************************************)
(* Domain decomposition by all ranks at once                               *)
(* (src/backend/Preprocessing/parmetisexasim.cpp, ParallelPreprocessing).  *)
(*                                                                         *)
(* No rank has the whole mesh.  After the elements have moved to the ranks *)
(* ParMETIS chose, each rank learns the elements across its faces          *)
(* (collectively), then, for LDG, the second layer of ghosts in two rounds *)
(* of messages (counts, rows), then which elements to send in two more     *)
(* rounds (counts, requests), and at last exchanges the fields it writes   *)
(* to its files.  DomainDecomposition, which sees the whole mesh, is what  *)
(* the result is compared with.                                            *)
(*                                                                         *)
(* The mesh is abstracted as there: e2e[e] is the set of elements across   *)
(* the faces of e, so a face of e is named by the element on its other     *)
(* side, or -1 for a wall, and two elements share at most one face.  Local *)
(* element indices are 0-based positions in elemGlobalID.  An action of a  *)
(* rank reaches from one blocking MPI call to the next.                    *)
(***************************************************************************)
EXTENDS Integers, SequencesExt, FiniteSetsExt

CONSTANTS
  Ne, Nproc,  \* as in DomainDecomposition
  Meshes,     \* the meshes considered: records [e2e, walls, periodic]
  NFields     \* the fields exchanged for the files: bf, tg, xdg, udg, ...

Elem == 0 .. Ne - 1
Proc == 0 .. Nproc - 1

(* A mesh two ranks can agree on: neighbours know each other, no element   *)
(* is its own neighbour, and a periodic pair has a first and a second side *)
(* (setperiodicfaces would join the faces of an element to itself, too).   *)
MeshConforming(mesh) ==
  /\ mesh.e2e \in [Elem -> SUBSET Elem] /\ mesh.walls \subseteq Elem
  /\ \A e, f \in Elem : e \notin mesh.e2e[e] /\ (f \in mesh.e2e[e] <=> e \in mesh.e2e[f])
  /\ mesh.periodic \subseteq {pair \in Elem \X Elem : pair[2] \in mesh.e2e[pair[1]]}
  /\ \A pair \in mesh.periodic : <<pair[2], pair[1]>> \notin mesh.periodic

VARIABLES
  e2e, elem2cpu, hybrid,  \* the mesh, epart_local and the scheme (inputs)
  walls,         \* elements with a face on the physical boundary (input)
  periodic,      \* pairs <<side 1, side 2>> of elements joined by setperiodicfaces
  eager,         \* MPI_Isend copies a count before it returns (input)
  elemGlobalID,  \* elemGlobalID[p]: the elements of p, in its local order
  t2t,           \* t2t[e][f]: the element found across face f of e, or -1
  nbinfo,        \* nbinfo[p]: records <<element of p, neighbour, rank of it>>
  cls,           \* cls[p]: the ElementClassification
  dmd,           \* dmd[p]: the DMD
  fields,        \* fields[p]: the arrays written to the files of p
  msgs,          \* every point-to-point message sent so far
  pc,            \* the blocking call each rank is in
  aborted        \* MPI has stopped the job (MPI_ERRORS_ARE_FATAL)

inputs == <<e2e, elem2cpu, hybrid, walls, periodic, eager>>
vars == <<inputs, elemGlobalID, t2t, nbinfo, cls, dmd, fields, msgs, pc, aborted>>

AllAt(label) == \A p \in Proc : pc[p] = label
AllDone == AllAt("done")

(* The serial decomposition of the same mesh over the same ranks: some of  *)
(* its operators are the same code, its element sets are the reference.    *)
Serial == INSTANCE DomainDecomposition WITH Coupled <- FALSE, inte <- <<>>, i <- 0

-----------------------------------------------------------------------------
(* Collective steps.  An MPI collective hands every rank data of all the   *)
(* others, so what the ranks do between two of them is one step.           *)

(* computeLocalRange: the contiguous block of elements rank r has read.    *)
Block(r) ==
  LET base == Ne \div Nproc
      rem == Ne % Nproc
      offset == IF r < rem THEN r * (base + 1) ELSE rem + r * base
  IN offset .. offset + base + (IF r < rem THEN 1 ELSE 0) - 1

(* MPI_Alltoallv concatenates by source rank, elements in the order of     *)
(* their source.                                                           *)
Arrivals(p) ==
  {q \in UNION {{r} \X Block(r) : r \in Proc} : elem2cpu[q[2]] = p}

Migrated(p) ==
  LET A == Arrivals(p)
      arrivals == Serial!InOrder(A, {q \in A \X A : Serial!RequestLess(q[1], q[2])})
  IN [j \in 1 .. Len(arrivals) |-> arrivals[j][2]]

Faces(e) == e2e[e] \cup IF e \in walls THEN {-1} ELSE {}
IsPeriodic(e, f) == <<e, f>> \in periodic \/ <<f, e>> \in periodic

(* Two faces with the same nodes: mke2e_hash finds them on one rank only.  *)
SameNodes(e, f) == f \in e2e[e] /\ ~IsPeriodic(e, f)

CallParMetis ==
  /\ AllAt("migrate")
  /\ elemGlobalID' = [p \in Proc |-> Migrated(p)]
  /\ t2t' = [e \in Elem |-> [f \in Faces(e) |->
               IF SameNodes(e, f) /\ elem2cpu[f] = elem2cpu[e] THEN f ELSE -1]]
  /\ pc' = [p \in Proc |-> "neighbors"]
  /\ UNCHANGED <<inputs, nbinfo, cls, dmd, fields, msgs, aborted>>

(* Every face still open goes to the rank its smallest node gives; that    *)
(* rank pairs faces with the same nodes and tells both sides.  The records *)
(* arrive in the order of a hash table: nbinfo is a set.                   *)
Matched(e, f) == SameNodes(e, f) /\ t2t[e][f] = -1 /\ t2t[f][e] = -1

mke2e_fill_first_neighbors ==
  /\ AllAt("neighbors")
  /\ t2t' = [e \in Elem |-> [f \in DOMAIN t2t[e] |->
               IF f \in Elem /\ Matched(e, f) THEN f ELSE t2t[e][f]]]
  /\ nbinfo' = [p \in Proc |->
       {<<pair[1], pair[2], elem2cpu[pair[2]]>> :
          pair \in {q \in ToSet(elemGlobalID[p]) \X Elem : Matched(q[1], q[2])}}]
  /\ pc' = [p \in Proc |-> "periodic"]
  /\ UNCHANGED <<inputs, elemGlobalID, cls, dmd, fields, msgs, aborted>>

(* setperiodicfaces: every rank has the faces of both sides of all ranks.  *)
PeriodicRecords_SideOne(p) ==   \* mistake: only the first side learns of the pair
  {<<pair[1], pair[2], elem2cpu[pair[2]]>> :
     pair \in {q \in periodic : elem2cpu[q[1]] = p /\ elem2cpu[q[2]] # p}}

PeriodicRecords(p) ==
  {<<pair[1], pair[2], elem2cpu[pair[2]]>> :
     pair \in {q \in Elem \X Elem : /\ IsPeriodic(q[1], q[2])
                                    /\ elem2cpu[q[1]] = p /\ elem2cpu[q[2]] # p}}

setperiodicfaces ==
  /\ AllAt("periodic")
  /\ t2t' = [e \in Elem |-> [f \in DOMAIN t2t[e] |->
               IF IsPeriodic(e, f) THEN f ELSE t2t[e][f]]]
  /\ nbinfo' = [p \in Proc |-> nbinfo[p] \cup PeriodicRecords(p)]
  /\ pc' = [p \in Proc |-> "classify"]
  /\ UNCHANGED <<inputs, elemGlobalID, cls, dmd, fields, msgs, aborted>>

-----------------------------------------------------------------------------
(* Messages of one tag between two ranks do not overtake each other, so    *)
(* the receive of round n gets the n-th message: only fields have several  *)
(* rounds.  MPI_Waitall returns when all have arrived; the sends of this   *)
(* code go to the ranks it receives from, which have posted the matching   *)
(* receives when they send theirs.                                         *)

Tags == {"rowcount", "rows", "reqcount", "requests", "field"}

Message(from, to, n, body) == [from |-> from, to |-> to, round |-> n, body |-> body]

Sending(tag, messages) == msgs' = [msgs EXCEPT ![tag] = @ \cup messages]

FromTo(tag, k, p, n) == {m \in msgs[tag] : m.from = k /\ m.to = p /\ m.round = n}

Arrived(tag, p, ranks, n) == \A k \in ranks : FromTo(tag, k, p, n) # {}

Received(tag, p, k, n) == (CHOOSE m \in FromTo(tag, k, p, n) : TRUE).body

At(p, label) == pc[p] = label /\ ~aborted
Goto(p, label) == pc' = [pc EXCEPT ![p] = label]

-----------------------------------------------------------------------------
(* Classification of the elements of a rank, local to it.                  *)

Global(p, locals) == [j \in 1 .. Len(locals) |-> elemGlobalID[p][locals[j] + 1]]
GlobalIDs(pairs) == [j \in 1 .. Len(pairs) |-> pairs[j][1]]

(* The pairs a map holds, in the order of the elements they start with.    *)
ByElement(pairs) ==
  Serial!InOrder(pairs, {q \in pairs \X pairs : q[1][1] < q[2][1]})

Classification(p) ==
  LET own == 0 .. Len(elemGlobalID[p]) - 1
      element(l) == elemGlobalID[p][l + 1]
      hasRemoteFace(l) == \E r \in nbinfo[p] : r[1] = element(l)
      hasBoundaryFace(l) == \E f \in Faces(element(l)) : t2t[element(l)][f] < 0
  IN [boundary  |-> Serial!Sorted({l \in own : ~hasRemoteFace(l) /\ hasBoundaryFace(l)}),
      interior  |-> Serial!Sorted({l \in own : ~hasRemoteFace(l) /\ ~hasBoundaryFace(l)}),
      interface |-> Serial!Sorted({l \in own : hasRemoteFace(l)}),
      neighbor  |-> ByElement({<<r[2], r[3]>> : r \in nbinfo[p]}),
      outer     |-> <<>>]

NoClassification ==
  [boundary |-> <<>>, interior |-> <<>>, interface |-> <<>>, neighbor |-> <<>>,
   outer |-> <<>>]

-----------------------------------------------------------------------------
(* updateOuterElements (LDG): for each of its records of nbinfo a rank     *)
(* sends what lies across the faces of its interface element.              *)

RowNeighbors(p) == {r[3] : r \in nbinfo[p]}

SendCount(p, k) == Cardinality({r \in nbinfo[p] : r[3] = k})

(* The counts are sent from a variable of the loop body, without a wait    *)
(* before the next pass: unless MPI_Isend copies it at once, the library   *)
(* may read what a later pass (or none) has stored there.                  *)
CountsOnWire(p) ==
  IF eager THEN {[k \in RowNeighbors(p) |-> SendCount(p, k)]}
  ELSE {c \in [RowNeighbors(p) -> {SendCount(p, k) : k \in RowNeighbors(p)}] :
          \A k \in RowNeighbors(p) :
            \E later \in RowNeighbors(p) : later >= k /\ c[k] = SendCount(p, later)}

Owner_LocalOnly(p, e) ==   \* mistake: the neighbours are not in the owner map
  IF e \in ToSet(elemGlobalID[p]) THEN p ELSE -1
Owner(p, e) ==
  LET known == {n \in ToSet(cls[p].neighbor) : n[1] = e}
  IN IF known # {} THEN (CHOOSE n \in known : TRUE)[2]
     ELSE IF e \in ToSet(elemGlobalID[p]) THEN p ELSE -1

Row(p, e) == {<<t2t[e][f], IF t2t[e][f] < 0 THEN -1 ELSE Owner(p, t2t[e][f])>> :
                f \in Faces(e)}

Rows(p, k) == {<<r[2], Row(p, r[1])>> : r \in {q \in nbinfo[p] : q[3] = k}}

(* What rank p keeps of the rows of rank k.  A count too large leaves      *)
(* records of zeros behind the rows; they name element 0 as neighbour of   *)
(* itself and are skipped.                                                 *)
Candidates(p, k) ==
  {c \in UNION {{<<row[1], n>> : n \in row[2]} : row \in Received("rows", p, k, 1)} :
     /\ c[2][1] >= 0 /\ c[2][2] >= 0 /\ c[2][2] # p
     /\ c[2][1] # c[1]
     /\ c[2] \notin ToSet(cls[p].neighbor)
     /\ c[2][1] \notin ToSet(elemGlobalID[p])}

OuterFrom(p, k) == {c[2] : c \in Candidates(p, k)}

(* The outer elements in the order they are met: by source rank, and from  *)
(* one rank in the order of its records, which is that of a hash table.    *)
OuterOrders(p) ==
  LET outer == UNION {OuterFrom(p, k) : k \in RowNeighbors(p)}
      source(n) == Min({k \in RowNeighbors(p) : n \in OuterFrom(p, k)})
  IN {s \in SetToSeqs(outer) :
        \A a, b \in 1 .. Len(s) : a < b => source(s[a]) <= source(s[b])}

ClassifyElements(p) ==
  /\ At(p, "classify")
  /\ cls' = [cls EXCEPT ![p] = Classification(p)]
  /\ IF hybrid = 0 /\ nbinfo[p] # {}
       THEN /\ \E count \in CountsOnWire(p) :
                 Sending("rowcount", {Message(p, k, 1, count[k]) : k \in RowNeighbors(p)})
            /\ Goto(p, "rowcounts")
       ELSE msgs' = msgs /\ Goto(p, "partition")
  /\ UNCHANGED <<inputs, elemGlobalID, t2t, nbinfo, dmd, fields, aborted>>

ReceiveRowCounts(p) ==
  /\ At(p, "rowcounts")
  /\ Arrived("rowcount", p, RowNeighbors(p), 1)
  /\ Sending("rows", {Message(p, k, 1, Rows(p, k)) : k \in RowNeighbors(p)})
  /\ Goto(p, "rows")
  /\ UNCHANGED <<inputs, elemGlobalID, t2t, nbinfo, cls, dmd, fields, aborted>>

(* A message longer than its receive is an error, and MPI stops the job.   *)
Truncated(p) ==
  \E k \in RowNeighbors(p) : SendCount(k, p) > Received("rowcount", p, k, 1)

ReceiveRows(p) ==
  /\ At(p, "rows")
  /\ Arrived("rows", p, RowNeighbors(p), 1)
  /\ IF Truncated(p)
       THEN aborted' = TRUE /\ UNCHANGED <<cls, pc>>
       ELSE /\ \E s \in OuterOrders(p) : cls' = [cls EXCEPT ![p].outer = s]
            /\ Goto(p, "partition")
            /\ UNCHANGED aborted
  /\ UNCHANGED <<inputs, elemGlobalID, t2t, nbinfo, dmd, fields, msgs>>

-----------------------------------------------------------------------------
(* buildElempart, buildElem2Cpu, buildElemRecv.                            *)

CountRows(rows, k) == Len(SelectSeq(rows, LAMBDA row : row[1] = k))
PointsPerNeighbor(rows, nbsd) == [j \in 1 .. Len(nbsd) |-> CountRows(rows, nbsd[j])]

elempart_local(p) == cls[p].boundary \o cls[p].interior \o cls[p].interface
GhostPairs(p) == cls[p].neighbor \o cls[p].outer

buildElempart(p) == Global(p, elempart_local(p)) \o GlobalIDs(GhostPairs(p))

buildElempartpts(p) ==
  <<Len(cls[p].boundary) + Len(cls[p].interior), Len(cls[p].interface),
    Len(cls[p].neighbor)>>
  \o IF cls[p].outer = <<>> THEN <<>> ELSE <<Len(cls[p].outer)>>

buildElemRecv(p) ==
  LET ghosts == GhostPairs(p)
      nown == Len(elempart_local(p))
  IN SetToSortSeq(
       {<<ghosts[j][2], nown + j - 1, ghosts[j][1]>> :
          j \in {g \in 1 .. Len(ghosts) : ghosts[g][2] \notin {p, -1}}},
       Serial!RowLess)

PartitionOf(p) ==
  LET recv == buildElemRecv(p)
      nbsd == Serial!Sorted({recv[j][1] : j \in 1 .. Len(recv)})
  IN [Serial!NoDmd EXCEPT !.elempart = buildElempart(p),
                          !.elempartpts = buildElempartpts(p),
                          !.elemrecv = recv,
                          !.nbsd = nbsd,
                          !.elemrecvpts = PointsPerNeighbor(recv, nbsd)]

Requests(p, k) ==
  LET rows == SelectSeq(dmd[p].elemrecv, LAMBDA row : row[1] = k)
  IN [j \in 1 .. Len(rows) |-> rows[j][3]]

BuildElemRecv(p) ==
  /\ At(p, "partition")
  /\ dmd' = [dmd EXCEPT ![p] = PartitionOf(p)]
  /\ Sending("reqcount",
       {Message(p, k, 1, CountRows(dmd'[p].elemrecv, k)) : k \in ToSet(dmd'[p].nbsd)})
  /\ Goto(p, "reqcounts")
  /\ UNCHANGED <<inputs, elemGlobalID, t2t, nbinfo, cls, fields, aborted>>

-----------------------------------------------------------------------------
(* buildElemsend.  recvCounts is an array that lives until the wait.       *)

ReceiveRequestCounts(p) ==
  /\ At(p, "reqcounts")
  /\ Arrived("reqcount", p, ToSet(dmd[p].nbsd), 1)
  /\ Sending("requests", {Message(p, k, 1, Requests(p, k)) : k \in ToSet(dmd[p].nbsd)})
  /\ Goto(p, "requests")
  /\ UNCHANGED <<inputs, elemGlobalID, t2t, nbinfo, cls, dmd, fields, aborted>>

gid2loc(p, e) ==
  Serial!xiny(e, SubSeq(dmd[p].elempart, 1, Len(elemGlobalID[p])))

(* Requests for elements a rank does not own are reported and left out.    *)
SendRows(p, k) ==
  LET n == Received("reqcount", p, k, 1)
      owned == SelectSeq(SubSeq(Received("requests", p, k, 1), 1, n),
                         LAMBDA e : gid2loc(p, e) >= 0)
  IN [j \in 1 .. Len(owned) |-> <<k, gid2loc(p, owned[j]), owned[j]>>]

elemsend(p) ==
  FlattenSeq([n \in 1 .. Len(dmd[p].nbsd) |-> SendRows(p, dmd[p].nbsd[n])])

-----------------------------------------------------------------------------
(* writemesh and writesol: each field is computed for the own elements, in *)
(* the order of elempart, and sent to the ranks that store copies of them. *)
(* The entry of a field for an element is <<field, element>>.              *)

OwnColumns_Migrated(p, n) ==   \* mistake: the order of the migrated mesh is kept
  [j \in 1 .. Len(elempart_local(p)) |-> <<n, elemGlobalID[p][j]>>]
OwnColumns(p, n) ==
  [j \in 1 .. Len(elempart_local(p)) |->
     <<n, elemGlobalID[p][elempart_local(p)[j] + 1]>>]

NewField(p, n) ==
  OwnColumns(p, n) \o [j \in 1 .. Len(dmd[p].elemrecv) |-> <<n, -1>>]

Slice(list, pts, n) ==
  SubSeq(list, Serial!SumUpTo(pts, n - 1) + 1, Serial!SumUpTo(pts, n))

FieldMessages(p, record, n) ==
  LET buffsend == [j \in 1 .. Len(record.elemsend) |->
                     NewField(p, n)[record.elemsend[j][2] + 1]]
  IN {Message(p, record.nbsd[j], n, Slice(buffsend, record.elemsendpts, j)) :
        j \in {b \in 1 .. Len(record.nbsd) : record.elemsendpts[b] > 0}}

ReceiveRequests(p) ==
  /\ At(p, "requests")
  /\ Arrived("requests", p, ToSet(dmd[p].nbsd), 1)
  /\ dmd' = [dmd EXCEPT
       ![p].elemsend = elemsend(p),
       ![p].elemsendpts = PointsPerNeighbor(elemsend(p), dmd[p].nbsd)]
  /\ fields' = [fields EXCEPT ![p] = <<NewField(p, 1)>>]
  /\ Sending("field", FieldMessages(p, dmd'[p], 1))
  /\ Goto(p, "fields")
  /\ UNCHANGED <<inputs, elemGlobalID, t2t, nbinfo, cls, aborted>>

WithGhosts(p, column, n) ==
  LET buffrecv == FlattenSeq([j \in 1 .. Len(dmd[p].nbsd) |->
                                Received("field", p, dmd[p].nbsd[j], n)])
      rowOf(m) == {j \in 1 .. Len(dmd[p].elemrecv) : dmd[p].elemrecv[j][2] = m - 1}
  IN [m \in 1 .. Len(column) |->
        IF rowOf(m) = {} THEN column[m] ELSE buffrecv[CHOOSE j \in rowOf(m) : TRUE]]

ExchangeField(p) ==
  LET n == Len(fields[p])
      complete == [fields[p] EXCEPT ![n] = WithGhosts(p, @, n)]
  IN /\ At(p, "fields")
     /\ Arrived("field", p, ToSet(dmd[p].nbsd), n)
     /\ IF n < NFields
          THEN /\ fields' = [fields EXCEPT ![p] = Append(complete, NewField(p, n + 1))]
               /\ Sending("field", FieldMessages(p, dmd[p], n + 1))
               /\ UNCHANGED pc
          ELSE fields' = [fields EXCEPT ![p] = complete] /\ msgs' = msgs /\ Goto(p, "done")
     /\ UNCHANGED <<inputs, elemGlobalID, t2t, nbinfo, cls, dmd, aborted>>

-----------------------------------------------------------------------------
NothingBuilt ==
  /\ elemGlobalID = [p \in Proc |-> <<>>]
  /\ t2t = [e \in Elem |-> <<>>]
  /\ nbinfo = [p \in Proc |-> {}]
  /\ cls = [p \in Proc |-> NoClassification]
  /\ dmd = [p \in Proc |-> Serial!NoDmd]
  /\ fields = [p \in Proc |-> <<>>]
  /\ msgs = [tag \in Tags |-> {}]
  /\ pc = [p \in Proc |-> "migrate"]
  /\ aborted = FALSE

Init ==
  /\ \E mesh \in Meshes :
       e2e = mesh.e2e /\ walls = mesh.walls /\ periodic = mesh.periodic
  /\ elem2cpu \in [Elem -> Proc]
  /\ hybrid \in {0, 1}
  /\ eager \in (IF hybrid = 0 THEN BOOLEAN ELSE {TRUE})
  /\ NothingBuilt

Collective == CallParMetis \/ mke2e_fill_first_neighbors \/ setperiodicfaces

RankStep(p) ==
  \/ ClassifyElements(p)
  \/ ReceiveRowCounts(p)
  \/ ReceiveRows(p)
  \/ BuildElemRecv(p)
  \/ ReceiveRequestCounts(p)
  \/ ReceiveRequests(p)
  \/ ExchangeField(p)

Next == Collective \/ \E p \in Proc : RankStep(p)

Spec == Init /\ [][Next]_vars

-----------------------------------------------------------------------------
(* Properties.                                                             *)

ParTypeOK ==
  /\ \A p \in Proc : elemGlobalID[p] \in Seq(Elem) /\ fields[p] \in Seq(Seq(Nat \X (Elem \cup {-1})))
  /\ \A p \in Proc : nbinfo[p] \subseteq Elem \X Elem \X Proc
  /\ \A e \in Elem : \A f \in DOMAIN t2t[e] : t2t[e][f] \in Elem \cup {-1}
  /\ pc \in [Proc -> {"migrate", "neighbors", "periodic", "classify", "rowcounts", "rows",
                      "partition", "reqcounts", "requests", "fields", "done"}]
  /\ aborted \in BOOLEAN

Part(p, n) ==
  LET pts == dmd[p].elempartpts
  IN ToSet(SubSeq(dmd[p].elempart, Serial!SumUpTo(pts, n - 1) + 1, Serial!SumUpTo(pts, n)))

(* The elements in each part of rank p are those the serial decomposition  *)
(* puts there.                                                             *)
PartsAsSerial(p) ==
  /\ Part(p, 1) = Serial!intelem(p) \ Serial!bndelem(p)
  /\ Part(p, 2) = Serial!bndelem(p)
  /\ Part(p, 3) = Serial!extelem(p)
  /\ IF Len(dmd[p].elempartpts) > 3
       THEN hybrid = 0 /\ Part(p, 4) = Serial!outelem(p)
       ELSE hybrid = 1 \/ Serial!outelem(p) = {}

(* A rank is told how much its neighbour sends (parmetisexasim.cpp:2516,   *)
(* "Send our count to nbRank").  False unless MPI_Isend copies the count.  *)
CountsReceived ==
  \A m \in msgs["rowcount"] : m.body = SendCount(m.from, m.to)
=============================================================================
