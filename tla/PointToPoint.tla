---------------------------- MODULE PointToPoint -----------------------------
(***************************************************************************)
(* Nonblocking point-to-point messages between MPI ranks, as the halo      *)
(* exchanges of the solver use them: one tag and one communicator, one     *)
(* send buffer and one receive buffer per rank, a slice of each per        *)
(* neighbour.  MPI itself is external; this module states what it          *)
(* guarantees and no more:                                                 *)
(*                                                                         *)
(*   - after MPI_Isend the library may read the slice at any later moment  *)
(*     until the send completes, so a buffer written too early changes the *)
(*     message;                                                            *)
(*   - messages of a pair of ranks do not overtake each other;             *)
(*   - a receive completes when the message is in its slice.               *)
(*                                                                         *)
(* The content of a slice is the number of the evaluation it was packed    *)
(* for (Version).                                                          *)
(***************************************************************************)
EXTENDS Integers, Sequences

CONSTANTS
  Rank,     \* the MPI ranks
  Nbr,      \* Nbr[r]: the ranks in nbsd of r
  Version   \* what a slice can hold

VARIABLES
  buffsend,  \* buffsend[r]: what rank r packed last
  unsent,    \* unsent[s][d]: sends posted by s to d whose slice is unread
  chan,      \* chan[s][d]: messages read from s, not yet received by d
  unrecv,    \* unrecv[d][s]: receives posted by d from s, not completed
  buffrecv   \* buffrecv[d][s]: the slice of d for messages of s

p2pvars == <<buffsend, unsent, chan, unrecv, buffrecv>>

P2PTypeOK ==
  /\ buffsend \in [Rank -> Version]
  /\ unsent \in [Rank -> [Rank -> Nat]]
  /\ chan \in [Rank -> [Rank -> Seq(Version)]]
  /\ unrecv \in [Rank -> [Rank -> Nat]]
  /\ buffrecv \in [Rank -> [Rank -> Version]]

P2PInit(v0) ==
  /\ buffsend = [r \in Rank |-> v0]
  /\ unsent = [s \in Rank |-> [d \in Rank |-> 0]]
  /\ chan = [s \in Rank |-> [d \in Rank |-> <<>>]]
  /\ unrecv = [d \in Rank |-> [s \in Rank |-> 0]]
  /\ buffrecv = [d \in Rank |-> [s \in Rank |-> v0]]

(* Pack version v, then MPI_Isend to and MPI_Irecv from every neighbour.   *)
PackAndPost(r, v) ==
  /\ buffsend' = [buffsend EXCEPT ![r] = v]
  /\ unsent' = [unsent EXCEPT ![r] =
                  [d \in Rank |-> IF d \in Nbr[r] THEN @[d] + 1 ELSE @[d]]]
  /\ unrecv' = [unrecv EXCEPT ![r] =
                  [s \in Rank |-> IF s \in Nbr[r] THEN @[s] + 1 ELSE @[s]]]
  /\ UNCHANGED <<chan, buffrecv>>

(* The library reads the slice of the oldest pending send from s to d.     *)
ReadSlice(s, d) ==
  /\ unsent[s][d] > 0
  /\ unsent' = [unsent EXCEPT ![s][d] = @ - 1]
  /\ chan' = [chan EXCEPT ![s][d] = Append(@, buffsend[s])]
  /\ UNCHANGED <<buffsend, unrecv, buffrecv>>

(* The oldest message from s completes the oldest receive of d from s.     *)
Deliver(s, d) ==
  /\ unrecv[d][s] > 0
  /\ chan[s][d] # <<>>
  /\ unrecv' = [unrecv EXCEPT ![d][s] = @ - 1]
  /\ buffrecv' = [buffrecv EXCEPT ![d][s] = Head(chan[s][d])]
  /\ chan' = [chan EXCEPT ![s][d] = Tail(@)]
  /\ UNCHANGED <<buffsend, unsent>>

Progress(s, d) == ReadSlice(s, d) \/ Deliver(s, d)

(* MPI_Waitall on all requests of rank r returns.                          *)
WaitallReturns(r) == \A k \in Rank : unsent[r][k] = 0 /\ unrecv[r][k] = 0
=============================================================================
