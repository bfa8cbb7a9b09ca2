----------------------------- MODULE HdgExchange -----------------------------
(***************************************************************************)
(* The parallel HDG products and assemblies on all ranks at once: hdgMatVec *)
(* (and with the same steps hdgAssembleLinearSystemMPI and                 *)
(* hdgAssembleResidualMPI) of src/backend/Discretization/matvec.cpp.       *)
(*                                                                         *)
(* Unlike the LDG residual, which sends its input, these send results: the *)
(* blocks of the interface elements are computed first, packed and sent,   *)
(* and the interior is computed while they travel.  Between two coupled    *)
(* domains the fluxes on the common faces travel too, on the communicator  *)
(* of all ranks, and one MPI_Waitall covers both kinds of messages.        *)
(*                                                                         *)
(* Before a nonlinear solve, SteadyProblem (Solution/solution.cpp) smooths *)
(* the frozen viscosity field in AVsmoothingIter passes.  Each averages    *)
(* the field over the elements of the rank and refreshes its ghosts, with  *)
(* the same buffer, tag and communicator as the products, within a domain. *)
(*                                                                         *)
(* Data is abstracted to the operations it comes from: operation n of the  *)
(* common sequence has input n, and a block carries the inputs it was      *)
(* computed from.                                                          *)
(***************************************************************************)
EXTENDS Integers, Sequences, FiniteSets

CONSTANTS
  Rank,         \* the MPI ranks of all domains
  ElemNbr,      \* nbsd: neighbours in the same domain
  FaceNbr,      \* nbintf: neighbours across the coupled interface
  MaxEval,      \* bound: number of operations of the run
  ReduceAfter,  \* operations whose result is reduced over all ranks
  Smoothing     \* operations that are passes over the viscosity field

Symmetric(N) ==
  /\ N \in [Rank -> SUBSET Rank]
  /\ \A r, k \in Rank : k \in N[r] <=> r \in N[k]
  /\ \A r \in Rank : r \notin N[r]

ASSUME HdgRankAssumption == Rank # {}
ASSUME HdgNbrAssumption == Symmetric(ElemNbr) /\ Symmetric(FaceNbr)
ASSUME HdgMaxEvalAssumption == MaxEval \in Nat
ASSUME HdgReduceAssumption == ReduceAfter \subseteq 1 .. MaxEval
ASSUME HdgSmoothingAssumption == Smoothing \subseteq (1 .. MaxEval) \ ReduceAfter

Version == 0 .. MaxEval

VARIABLES
  ebuffsend, eunsent, echan, eunrecv, ebuffrecv,  \* element messages
  fbuffsend, funsent, fchan, funrecv, fbuffrecv,  \* face messages
  pc,     \* pc[r]: where rank r is in the operation
  v,      \* v[r]: the input of the operation
  we,     \* we[r]: blocks of the interface, interior and ghost elements
  Ri,     \* Ri[r]: interface fluxes, computed here then received
  w,      \* w[r]: the assembled result
  av      \* av[r]: avField, the passes its blocks come from

elemvars == <<ebuffsend, eunsent, echan, eunrecv, ebuffrecv>>
facevars == <<fbuffsend, funsent, fchan, funrecv, fbuffrecv>>
vars == <<ebuffsend, eunsent, echan, eunrecv, ebuffrecv,
          fbuffsend, funsent, fchan, funrecv, fbuffrecv, pc, v, we, Ri, w, av>>

ElemMsg == INSTANCE PointToPoint WITH Nbr <- ElemNbr, buffsend <- ebuffsend,
             unsent <- eunsent, chan <- echan, unrecv <- eunrecv,
             buffrecv <- ebuffrecv
FaceMsg == INSTANCE PointToPoint WITH Nbr <- FaceNbr, buffsend <- fbuffsend,
             unsent <- funsent, chan <- fchan, unrecv <- funrecv,
             buffrecv <- fbuffrecv

(* nnbintf > 0, nfacesend > 0 and coupledcondition > 0.                    *)
ExchangesFaces_InDomain(r) ==  \* mistake: tied to neighbours in the domain
  FaceNbr[r] # {} /\ ElemNbr[r] # {}
ExchangesFaces(r) == FaceNbr[r] # {}

MoreOperations(r) == v[r] < MaxEval

Packed_TooEarly(r) == we[r].iface  \* mistake: packed before it is computed
Packed(r) == we'[r].iface

Waitall_ElementsOnly(r) ==  \* mistake: the requests of the faces are forgotten
  ElemMsg!WaitallReturns(r)
Waitall(r) == ElemMsg!WaitallReturns(r) /\ FaceMsg!WaitallReturns(r)

-----------------------------------------------------------------------------
(* One pass of smoothing up to the wait.  The first pass smooths the field *)
(* evalAVfield computes anew, a later one what the pass before has left,   *)
(* ghosts included; DG2CG2 makes pass n + 1 out of pass n.                 *)
Oldest(S) == CHOOSE n \in S : \A m \in S : n <= m
FieldToSmooth(r) == IF v[r] \in Smoothing THEN av[r] ELSE {v[r]}

Smooth(r) ==
  /\ pc[r] = "ready"
  /\ MoreOperations(r)
  /\ v[r] + 1 \in Smoothing
  /\ v' = [v EXCEPT ![r] = @ + 1]
  /\ av' = [av EXCEPT ![r] = {n + 1 : n \in FieldToSmooth(r)}]
  /\ ElemMsg!PackAndPost(r, Oldest(av'[r]))
  /\ pc' = [pc EXCEPT ![r] = "smoothed"]
  /\ UNCHANGED <<facevars, we, Ri, w>>

(* MPI_Waitall on the element messages, then the ghosts are overwritten.   *)
RefreshGhosts(r) ==
  /\ pc[r] = "smoothed"
  /\ ElemMsg!WaitallReturns(r)
  /\ av' = [av EXCEPT ![r] = @ \cup {ebuffrecv[r][k] : k \in ElemNbr[r]}]
  /\ pc' = [pc EXCEPT ![r] = "ready"]
  /\ UNCHANGED <<elemvars, facevars, v, we, Ri, w>>

(* The blocks of the interface elements, packed and posted.                *)
Start(r) ==
  /\ pc[r] = "ready"
  /\ MoreOperations(r)
  /\ v[r] + 1 \notin Smoothing
  /\ v' = [v EXCEPT ![r] = @ + 1]
  /\ we' = [we EXCEPT ![r].iface = v[r] + 1]
  /\ ElemMsg!PackAndPost(r, Packed(r))
  /\ pc' = [pc EXCEPT ![r] = "elemPosted"]
  /\ UNCHANGED <<facevars, Ri, w, av>>

(* The interface fluxes, if the rank touches the coupled interface.        *)
StartFaces(r) ==
  /\ pc[r] = "elemPosted"
  /\ pc' = [pc EXCEPT ![r] = "facesPosted"]
  /\ IF ExchangesFaces(r)
       THEN /\ Ri' = [Ri EXCEPT ![r] = {v[r]}]
            /\ FaceMsg!PackAndPost(r, v[r])
       ELSE UNCHANGED <<facevars, Ri>>
  /\ UNCHANGED <<elemvars, v, we, w, av>>

(* The blocks of the interior elements.                                    *)
Interior(r) ==
  /\ pc[r] = "facesPosted"
  /\ we' = [we EXCEPT ![r].interior = v[r]]
  /\ pc' = [pc EXCEPT ![r] = "waiting"]
  /\ UNCHANGED <<elemvars, facevars, v, Ri, w, av>>

(* MPI_Waitall on the requests of both kinds, then the received blocks and *)
(* fluxes are stored and the result is assembled from all of them.         *)
Finish(r) ==
  /\ pc[r] = "waiting"
  /\ Waitall(r)
  /\ we' = [we EXCEPT ![r].ghost = {ebuffrecv[r][k] : k \in ElemNbr[r]}]
  /\ Ri' = [Ri EXCEPT ![r] =
              IF ExchangesFaces(r) THEN {fbuffrecv[r][k] : k \in FaceNbr[r]} ELSE @]
  /\ w' = [w EXCEPT ![r] =
             {we'[r].iface, we'[r].interior} \cup we'[r].ghost \cup
             IF ExchangesFaces(r) THEN Ri'[r] ELSE {}]
  /\ pc' = [pc EXCEPT ![r] = IF v[r] \in ReduceAfter THEN "reduce" ELSE "ready"]
  /\ UNCHANGED <<elemvars, facevars, v, av>>

(* PNORM and PDOT reduce over EXASIM_COMM_WORLD: the ranks of both domains. *)
Allreduce ==
  /\ \A r \in Rank : pc[r] = "reduce"
  /\ pc' = [r \in Rank |-> "ready"]
  /\ UNCHANGED <<elemvars, facevars, v, we, Ri, w, av>>

ElemTransfer(s, d) ==
  /\ ElemMsg!Progress(s, d)
  /\ UNCHANGED <<facevars, pc, v, we, Ri, w, av>>

FaceTransfer(s, d) ==
  /\ FaceMsg!Progress(s, d)
  /\ UNCHANGED <<elemvars, pc, v, we, Ri, w, av>>

Init ==
  /\ ElemMsg!P2PInit(0)
  /\ FaceMsg!P2PInit(0)
  /\ pc = [r \in Rank |-> "ready"]
  /\ v = [r \in Rank |-> 0]
  /\ we = [r \in Rank |-> [iface |-> 0, interior |-> 0, ghost |-> {}]]
  /\ Ri = [r \in Rank |-> {}]
  /\ w = [r \in Rank |-> {}]
  /\ av = [r \in Rank |-> {}]

Step(r) ==
  \/ Smooth(r) \/ RefreshGhosts(r)
  \/ Start(r) \/ StartFaces(r) \/ Interior(r) \/ Finish(r)

Next ==
  \/ \E r \in Rank : Step(r)
  \/ \E s, d \in Rank : ElemTransfer(s, d) \/ FaceTransfer(s, d)
  \/ Allreduce

Spec == Init /\ [][Next]_vars

FairSpec ==
  /\ Spec
  /\ \A r \in Rank : WF_vars(Step(r))
  /\ \A s, d \in Rank : WF_vars(ElemTransfer(s, d)) /\ WF_vars(FaceTransfer(s, d))
  /\ WF_vars(Allreduce)

-----------------------------------------------------------------------------
(* Properties.                                                             *)

Sources == SUBSET Version

(* Every variable has its type.                                            *)
TypeOK ==
  /\ ElemMsg!P2PTypeOK
  /\ FaceMsg!P2PTypeOK
  /\ pc \in [Rank -> {"ready", "smoothed", "elemPosted", "facesPosted", "waiting", "reduce"}]
  /\ v \in [Rank -> Version]
  /\ we \in [Rank -> [iface : Version, interior : Version, ghost : Sources]]
  /\ Ri \in [Rank -> Sources]
  /\ w \in [Rank -> Sources]
  /\ av \in [Rank -> Sources]

Finished(r) == v[r] > 0 /\ pc[r] \in {"ready", "reduce"}

(* An assembled result is made of blocks of its own operation only: the    *)
(* interface block was computed before it was packed, the ghost blocks and *)
(* the fluxes from the other domain belong to the same operation.  In a    *)
(* smoothed field every element, ghost or not, has had the same passes.    *)
ResultConsistent ==
  \A r \in Rank : Finished(r) =>
    (IF v[r] \in Smoothing THEN av[r] ELSE w[r]) = {v[r]}

(* Neither send buffer is written again before the library has read it:    *)
(* a rank that is about to pack the next operation has no pending send of  *)
(* either kind.                                                            *)
SendBuffersStable ==
  \A r, k \in Rank : pc[r] \in {"ready", "reduce"} =>
    eunsent[r][k] = 0 /\ funsent[r][k] = 0

(* The main invariant: types, every finished result consistent, and the    *)
(* send buffers stable.                                                    *)
HdgInv == TypeOK /\ ResultConsistent /\ SendBuffersStable

(* The refinement mapping: a product is done when its result is assembled. *)
(* The passes of smoothing are not counted: the other domain has no part   *)
(* in them, and may be any number of them ahead.                           *)
Products(n) == Cardinality((1 .. n) \ Smoothing)
done == [r \in Rank |-> Products(IF Finished(r) \/ v[r] = 0 THEN v[r] ELSE v[r] - 1)]
sources == [r \in Rank |-> {Products(n) : n \in w[r]}]

Synchronous == INSTANCE SynchronousEvaluation
  WITH Nbr <- [r \in Rank |-> ElemNbr[r] \cup FaceNbr[r]],
       MaxEval <- Products(MaxEval)

(* The products implement the synchronous ones, neighbours across the     *)
(* interface included: no rank gets ahead of one by two operations.        *)
ImplementsSynchronous == Synchronous!Spec

(* Every rank of both domains completes all operations.                    *)
AllFinish == <>(\A r \in Rank : v[r] = MaxEval /\ Finished(r))
=============================================================================
