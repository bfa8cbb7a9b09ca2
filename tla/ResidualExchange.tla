--------------------------- MODULE ResidualExchange --------------------------
(***************************************************************************)
(* The parallel LDG residual, RuResidualMPI of                             *)
(* src/backend/Discretization/residual.cpp, on all ranks at once.          *)
(*                                                                         *)
(* A rank packs the interface part of its iterate, posts the messages,     *)
(* computes on its interior elements while they travel, waits, stores the  *)
(* ghosts and computes the rest.  The ranks run the same sequence of       *)
(* evaluations, and nothing synchronises them but these messages and the   *)
(* MPI_Allreduce that follows some of the evaluations.                     *)
(*                                                                         *)
(* Data is abstracted to the iterates it depends on: the n-th evaluation   *)
(* has iterate n, and every computed block carries the set of iterates it  *)
(* was computed from.                                                      *)
(***************************************************************************)
EXTENDS Integers, Sequences

CONSTANTS
  Rank,         \* the MPI ranks
  Nbr,          \* Nbr[r]: the neighbours of rank r (nbsd)
  MaxEval,      \* bound: number of evaluations of the run
  ReduceAfter,  \* the evaluations whose value is reduced over all ranks
  FrozenAV      \* common.frozenAVflag = 1

ASSUME RankAssumption == Rank # {}
ASSUME NbrAssumption ==
  /\ Nbr \in [Rank -> SUBSET Rank]
  /\ \A r, k \in Rank : k \in Nbr[r] <=> r \in Nbr[k]
  /\ \A r \in Rank : r \notin Nbr[r]
ASSUME MaxEvalAssumption == MaxEval \in Nat
ASSUME ReduceAssumption == ReduceAfter \subseteq 1 .. MaxEval
ASSUME FrozenAssumption == FrozenAV \in BOOLEAN

Version == 0 .. MaxEval

VARIABLES
  buffsend, unsent, chan, unrecv, buffrecv,  \* see PointToPoint
  pc,     \* pc[r]: where rank r is in the evaluation
  u,      \* u[r]: the iterate rank r holds on its own elements
  ghost,  \* ghost[r][k]: the iterate its ghosts of rank k hold
  uhat,   \* traces on the faces: own (no ghost touched) and halo
  q,      \* gradients on the elements: interior, and interface/exterior
  Ru      \* residual blocks: interior, interface, faces

p2p == <<buffsend, unsent, chan, unrecv, buffrecv>>
vars == <<buffsend, unsent, chan, unrecv, buffrecv, pc, u, ghost, uhat, q, Ru>>

P2P == INSTANCE PointToPoint

-----------------------------------------------------------------------------
(* GetUhat on all faces, from what the rank holds now.                     *)
Ghosts(r, g) == {g[k] : k \in Nbr[r]}
GetUhat(r, g) == [own |-> {u[r]}, halo |-> {u[r]} \cup Ghosts(r, g)]

MoreEvaluations(r) == u[r] < MaxEval

(* The solver sets iterate n = u + 1, the rank packs it and posts the      *)
(* sends and the receives.                                                 *)
Start(r) ==
  /\ pc[r] = "ready"
  /\ MoreEvaluations(r)
  /\ u' = [u EXCEPT ![r] = @ + 1]
  /\ P2P!PackAndPost(r, u[r] + 1)
  /\ pc' = [pc EXCEPT ![r] = "posted"]
  /\ UNCHANGED <<ghost, uhat, q, Ru>>

(* While the messages travel: traces of all faces (those at the ghosts     *)
(* from the previous ghosts), gradients of the interior elements and, if   *)
(* the viscosity field is frozen, their volume residual.                   *)
Interior(r) ==
  LET traces == GetUhat(r, ghost[r])
      qint == {u[r]} \cup traces.own
  IN
  /\ pc[r] = "posted"
  /\ uhat' = [uhat EXCEPT ![r] = traces]
  /\ q' = [q EXCEPT ![r] = [interior |-> qint, halo |-> @.halo]]
  /\ Ru' = [Ru EXCEPT ![r] =
              [interior |-> IF FrozenAV THEN {u[r]} \cup qint ELSE @.interior,
               iface    |-> @.iface,
               faces    |-> @.faces]]
  /\ pc' = [pc EXCEPT ![r] = "waiting"]
  /\ UNCHANGED <<p2p, u, ghost>>

Waitall_NoWait(r) == TRUE           \* mistake: does not wait
Waitall_ReceivesOnly(r) ==          \* mistake: sends may still be pending
  \A k \in Rank : unrecv[r][k] = 0
Waitall(r) == P2P!WaitallReturns(r)

GetUhatAgain_Omitted(r, g) == uhat[r]  \* mistake: the first traces are kept
GetUhatAgain(r, g) == GetUhat(r, g)

(* After some evaluations the solver reduces a norm over all ranks.        *)
NextPc_LocalDecision(r) ==  \* mistake: the collective depends on the rank
  IF u[r] \in ReduceAfter /\ \E k, l \in Nbr[r] : k # l THEN "reduce" ELSE "ready"
NextPc(r) == IF u[r] \in ReduceAfter THEN "reduce" ELSE "ready"

(* MPI_Waitall, the ghosts, the traces again, gradients of the interface   *)
(* and exterior elements, then the remaining residual blocks.              *)
Finish(r) ==
  LET g == [k \in Rank |-> IF k \in Nbr[r] THEN buffrecv[r][k] ELSE ghost[r][k]]
      traces == GetUhatAgain(r, g)
      qhalo == {u[r]} \cup Ghosts(r, g) \cup traces.own \cup traces.halo
      all == {u[r]} \cup q[r].interior \cup qhalo
  IN
  /\ pc[r] = "waiting"
  /\ Waitall(r)
  /\ ghost' = [ghost EXCEPT ![r] = g]
  /\ uhat' = [uhat EXCEPT ![r] = traces]
  /\ q' = [q EXCEPT ![r] = [interior |-> @.interior, halo |-> qhalo]]
  /\ Ru' = [Ru EXCEPT ![r] =
              [interior |-> IF FrozenAV THEN @.interior ELSE {u[r]} \cup q[r].interior,
               iface    |-> {u[r]} \cup qhalo,
               faces    |-> all \cup traces.own \cup traces.halo]]
  /\ pc' = [pc EXCEPT ![r] = NextPc(r)]
  /\ UNCHANGED <<p2p, u>>

(* MPI_Allreduce of the residual norm: all ranks or none.                  *)
Allreduce ==
  /\ \A r \in Rank : pc[r] = "reduce"
  /\ pc' = [r \in Rank |-> "ready"]
  /\ UNCHANGED <<p2p, u, ghost, uhat, q, Ru>>

Transfer(s, d) ==
  /\ P2P!Progress(s, d)
  /\ UNCHANGED <<pc, u, ghost, uhat, q, Ru>>

Init ==
  /\ P2P!P2PInit(0)
  /\ pc = [r \in Rank |-> "ready"]
  /\ u = [r \in Rank |-> 0]
  /\ ghost = [r \in Rank |-> [k \in Rank |-> 0]]
  /\ uhat = [r \in Rank |-> [own |-> {}, halo |-> {}]]
  /\ q = [r \in Rank |-> [interior |-> {}, halo |-> {}]]
  /\ Ru = [r \in Rank |-> [interior |-> {}, iface |-> {}, faces |-> {}]]

Step(r) == Start(r) \/ Interior(r) \/ Finish(r)

Next ==
  \/ \E r \in Rank : Step(r)
  \/ \E s, d \in Rank : Transfer(s, d)
  \/ Allreduce

Spec == Init /\ [][Next]_vars

(* Every rank runs, MPI makes progress on posted operations, and the       *)
(* collective completes once every rank has entered it.                    *)
FairSpec ==
  /\ Spec
  /\ \A r \in Rank : WF_vars(Step(r))
  /\ \A s, d \in Rank : WF_vars(Transfer(s, d))
  /\ WF_vars(Allreduce)

-----------------------------------------------------------------------------
(* Properties.                                                             *)

Sources == SUBSET Version

(* Every variable has its type.                                            *)
TypeOK ==
  /\ P2P!P2PTypeOK
  /\ pc \in [Rank -> {"ready", "posted", "waiting", "reduce"}]
  /\ u \in [Rank -> Version]
  /\ ghost \in [Rank -> [Rank -> Version]]
  /\ uhat \in [Rank -> [own : Sources, halo : Sources]]
  /\ q \in [Rank -> [interior : Sources, halo : Sources]]
  /\ Ru \in [Rank -> [interior : Sources, iface : Sources, faces : Sources]]

Evaluated(r) == u[r] > 0 /\ pc[r] \in {"ready", "reduce"}

(* A finished residual depends on the iterate of its evaluation only: no   *)
(* stale ghost, no trace computed before the ghosts, no message of a rank  *)
(* that is already one evaluation ahead.                                   *)
ResidualConsistent ==
  \A r \in Rank : Evaluated(r) =>
    Ru[r].interior \cup Ru[r].iface \cup Ru[r].faces = {u[r]}

(* A message the library has not read yet is still the one that was        *)
(* posted: at most one send per neighbour is pending, and a rank that      *)
(* packs again has none.                                                   *)
SendBufferStable ==
  \A r, k \in Rank :
    /\ unsent[r][k] <= 1
    /\ pc[r] \in {"ready", "reduce"} => unsent[r][k] = 0

(* A rank is never more than one evaluation ahead of a neighbour, so no    *)
(* pair of ranks ever has more than two messages in flight.                *)
SkewBounded ==
  \A r \in Rank : \A k \in Nbr[r] :
    /\ u[r] <= u[k] + 1
    /\ Len(chan[r][k]) + unsent[r][k] <= 2

(* The refinement mapping.  The value of an evaluation is in Ru from       *)
(* Finish to the next Start; in between Ru is work space and the last      *)
(* value is the one the solver has copied.                                 *)
done == [r \in Rank |-> IF Evaluated(r) THEN u[r] ELSE u[r] - (IF u[r] = 0 THEN 0 ELSE 1)]
sources ==
  [r \in Rank |->
     IF Evaluated(r) THEN Ru[r].interior \cup Ru[r].iface \cup Ru[r].faces
     ELSE IF done[r] = 0 THEN {} ELSE {done[r]}]

Synchronous == INSTANCE SynchronousEvaluation

(* The overlapped evaluation implements the synchronous one.               *)
ImplementsSynchronous == Synchronous!Spec

(* Every rank completes all evaluations: nobody waits for ever.            *)
AllFinish == <>(\A r \in Rank : u[r] = MaxEval /\ Evaluated(r))
=============================================================================
