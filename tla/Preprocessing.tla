--------------------------- MODULE Preprocessing ---------------------------
(***************************************************************************)
(* The two ways to prepare the files of the ranks.                         *)
(*                                                                         *)
(* One process decomposes the mesh for all ranks (SerialPreprocessing, as  *)
(* text2code runs it for mpiprocs > 1), or every rank builds its own part  *)
(* from messages (ParallelPreprocessing, main.cpp when it runs on several  *)
(* ranks).  The solver reads the same files after either, so both owe it   *)
(* the promises stated in DomainDecomposition.  The variable i, the loop   *)
(* counter of the serial way, says here too when the records are complete. *)
(***************************************************************************)
EXTENDS DomainDecomposition

CONSTANTS
  Meshes,   \* the meshes read in parallel: records [e2e, walls, periodic]
  NFields   \* the fields exchanged for the files

VARIABLES
  mode,     \* "serial" or "parallel" (input)
  walls, periodic, eager, elemGlobalID, t2t, nbinfo, cls, fields, msgs, pc,
  aborted   \* as in ParDomainDecomposition

Par == INSTANCE ParDomainDecomposition

ASSUME MeshesAssumption == \A mesh \in Meshes : Par!MeshConforming(mesh)
ASSUME NFieldsAssumption == NFields \in Nat \ {0}

parallelVars == <<walls, periodic, eager, elemGlobalID, t2t, nbinfo, cls, fields,
                  msgs, pc, aborted>>
preprocessingVars == <<vars, mode, parallelVars>>

SerialInit ==
  /\ mode = "serial"
  /\ Init
  /\ walls = {} /\ periodic = {} /\ eager = TRUE
  /\ Par!NothingBuilt

(* The parallel way has no coupled interface: intepartpts stays empty.     *)
ParallelInit ==
  /\ mode = "parallel"
  /\ Par!Init
  /\ inte = <<>> /\ i = 0

PreprocessingInit == SerialInit \/ ParallelInit

SerialPreprocessing ==
  /\ mode = "serial"
  /\ Next
  /\ UNCHANGED <<mode, parallelVars>>

ParallelPreprocessing(step) ==
  /\ mode = "parallel"
  /\ step
  /\ i' = IF Par!AllDone' THEN Nproc + 1 ELSE 0
  /\ UNCHANGED <<mode, inte>>

CollectiveStep == ParallelPreprocessing(Par!Collective)
RankStep(p) == ParallelPreprocessing(Par!RankStep(p))

PreprocessingNext == SerialPreprocessing \/ CollectiveStep \/ \E p \in Proc : RankStep(p)

(* Every rank is a running process, and MPI delivers what both sides have  *)
(* posted.  The serial way is one loop and waits for nothing.              *)
PreprocessingSpec ==
  /\ PreprocessingInit /\ [][PreprocessingNext]_preprocessingVars
  /\ WF_preprocessingVars(CollectiveStep)
  /\ \A p \in Proc : WF_preprocessingVars(RankStep(p))

-----------------------------------------------------------------------------
(* Properties, beside those of DomainDecomposition, which hold either way. *)

(* The rounds of messages find what the serial way reads off the whole     *)
(* mesh: the same elements in each part of every rank.  In particular the  *)
(* second layer is complete although no rank sees two elements far, and no *)
(* count read too late ends up in a partition.                             *)
SameAsSerial == (mode = "parallel" /\ Built) => \A p \in Proc : Par!PartsAsSerial(p)

(* The files of every rank hold, for each element it stores and in the     *)
(* order of elempart, what its owner computed for that element, of the     *)
(* right field (writemesh, writesol).                                      *)
FieldsOfOwner ==
  (mode = "parallel" /\ Built) => \A p \in Proc :
    fields[p] = [n \in 1 .. NFields |->
                   [m \in 1 .. Len(dmd[p].elempart) |-> <<n, dmd[p].elempart[m]>>]]

(* No round of messages waits for ever: the records of all ranks are       *)
(* built, or MPI has stopped the job because of a count read too late.     *)
AllBuilt == mode = "parallel" => <>(Built \/ (aborted /\ ~eager))
=============================================================================
