------------------------ MODULE ResidualExchangeProofs ------------------------
(***************************************************************************)
(* The parallel residual evaluation is right on any number of ranks, with  *)
(* any symmetric neighbour relation and for any number of evaluations.     *)
(*                                                                         *)
(* ResidualConsistent and SkewBounded are not inductive.  The invariant    *)
(* InTransit below counts, for every pair of neighbours, the posts, the    *)
(* messages under way and the receipts, and so gives the version of every  *)
(* message; Blocks says what a rank has computed so far.                   *)
(***************************************************************************)
EXTENDS ResidualExchange, TLAPS

(* Typing with what the iterate counter needs: MaxEval bounds it.          *)
LEMMA VersionNat == Version \subseteq Nat /\ 0 \in Version
  BY MaxEvalAssumption, SMT DEF Version

Idle(r) == pc[r] \in {"ready", "reduce"}

(* Messages from s to d: what s has posted is what d has received, what is *)
(* in the channel and what is unread; the channel holds the versions after *)
(* the last one received, in order.                                        *)
InTransit(s, d) ==
  /\ unsent[s][d] \in {0, 1} /\ unrecv[d][s] \in {0, 1}
  /\ Idle(s) => unsent[s][d] = 0
  /\ Idle(d) => unrecv[d][s] = 0
  /\ d \notin Nbr[s] => unsent[s][d] = 0 /\ unrecv[d][s] = 0
  /\ d \in Nbr[s] =>
       /\ u[s] = u[d] - unrecv[d][s] + Len(chan[s][d]) + unsent[s][d]
       /\ buffrecv[d][s] = u[d] - unrecv[d][s]
       /\ \A j \in 1 .. Len(chan[s][d]) :
            chan[s][d][j] = u[d] - unrecv[d][s] + j

Packed(r) == buffsend[r] = u[r]

(* What a rank has computed: nothing but from its own iterate before the   *)
(* messages are in, nothing but from this evaluation afterwards.           *)
Blocks(r) ==
  /\ ~Idle(r) => u[r] > 0
  /\ pc[r] = "waiting" =>
       /\ q[r].interior = {u[r]}
       /\ FrozenAV => Ru[r].interior = {u[r]}
  /\ Evaluated(r) =>
       /\ Ru[r].interior = {u[r]}
       /\ Ru[r].iface = {u[r]}
       /\ Ru[r].faces = {u[r]}

ExchangeInv ==
  /\ TypeOK
  /\ \A r \in Rank : Packed(r) /\ Blocks(r)
  /\ \A s, d \in Rank : InTransit(s, d)

-----------------------------------------------------------------------------
(* The invariant holds before the first evaluation.                        *)
LEMMA InitInv == Init => ExchangeInv
<1> SUFFICES ASSUME Init PROVE ExchangeInv
  OBVIOUS
<1> USE VersionNat DEF Init, P2P!P2PInit
<1>1. TypeOK
  BY DEF TypeOK, P2P!P2PTypeOK, Sources
<1>2. ASSUME NEW r \in Rank PROVE Packed(r) /\ Blocks(r)
  <2>1. u[r] = 0 /\ buffsend[r] = 0 /\ pc[r] = "ready"
    OBVIOUS
  <2> QED
    BY <2>1, SMT DEF Packed, Blocks, Idle, Evaluated
<1>3. ASSUME NEW s \in Rank, NEW d \in Rank PROVE InTransit(s, d)
  <2>1. /\ unsent[s][d] = 0 /\ unrecv[d][s] = 0 /\ chan[s][d] = <<>>
        /\ u[s] = 0 /\ u[d] = 0 /\ buffrecv[d][s] = 0
    OBVIOUS
  <2>2. Len(chan[s][d]) = 0
    BY <2>1
  <2> QED
    BY <2>1, <2>2, SMT DEF InTransit
<1> QED
  BY <1>1, <1>2, <1>3 DEF ExchangeInv

(* TypeOK is inductive by itself.                                          *)
LEMMA StartType == ASSUME TypeOK, NEW r \in Rank, Start(r) PROVE TypeOK'
<1> USE DEF TypeOK, P2P!P2PTypeOK, Start, P2P!PackAndPost
<1>1. u[r] + 1 \in Version
  BY MaxEvalAssumption, SMT DEF Version, MoreEvaluations
<1>2. P2P!P2PTypeOK'
  BY <1>1, NbrAssumption
<1> QED
  BY <1>1, <1>2

(* The traces depend on iterates.                                          *)
LEMMA TracesType ==
  ASSUME TypeOK, NEW r \in Rank, NEW g \in [Rank -> Version]
  PROVE  /\ {u[r]} \in Sources /\ Ghosts(r, g) \in Sources
         /\ GetUhat(r, g).own \in Sources /\ GetUhat(r, g).halo \in Sources
         /\ GetUhat(r, g) \in [own : Sources, halo : Sources]
<1>1. u[r] \in Version
  BY DEF TypeOK
<1>2. \A k \in Nbr[r] : g[k] \in Version
  BY NbrAssumption
<1>3. {u[r]} \in Sources /\ Ghosts(r, g) \in Sources
  BY <1>1, <1>2 DEF Sources, Ghosts
<1>4. {u[r]} \cup Ghosts(r, g) \in Sources
  BY <1>3 DEF Sources
<1> QED
  BY <1>3, <1>4 DEF GetUhat

(* Interior writes sets of versions into blocks.                           *)
LEMMA InteriorType == ASSUME TypeOK, NEW r \in Rank, Interior(r) PROVE TypeOK'
<1> DEFINE traces == GetUhat(r, ghost[r])
           qint == {u[r]} \cup traces.own
<1>1. P2P!P2PTypeOK'
  BY DEF TypeOK, P2P!P2PTypeOK, Interior, p2p
<1>2. /\ traces \in [own : Sources, halo : Sources]
      /\ {u[r]} \in Sources /\ traces.own \in Sources
  BY TracesType DEF TypeOK
<1>3. qint \in Sources
  BY <1>2 DEF Sources
<1>4. {u[r]} \cup qint \in Sources
  BY <1>2, <1>3 DEF Sources
<1>5. /\ uhat' = [uhat EXCEPT ![r] = traces]
      /\ q' = [q EXCEPT ![r] = [interior |-> qint, halo |-> @.halo]]
      /\ Ru' = [Ru EXCEPT ![r] =
                  [interior |-> IF FrozenAV THEN {u[r]} \cup qint ELSE @.interior,
                   iface |-> @.iface, faces |-> @.faces]]
      /\ pc' = [pc EXCEPT ![r] = "waiting"]
      /\ UNCHANGED <<u, ghost>>
  BY DEF Interior
<1> HIDE DEF traces, qint
<1>6. /\ uhat' \in [Rank -> [own : Sources, halo : Sources]]
      /\ q' \in [Rank -> [interior : Sources, halo : Sources]]
  BY <1>2, <1>3, <1>5 DEF TypeOK
<1>7. Ru' \in [Rank -> [interior : Sources, iface : Sources, faces : Sources]]
  BY <1>4, <1>5 DEF TypeOK
<1> QED
  BY <1>1, <1>5, <1>6, <1>7 DEF TypeOK

(* So does Finish, with the ghosts it has stored.                          *)
LEMMA FinishType == ASSUME TypeOK, NEW r \in Rank, Finish(r) PROVE TypeOK'
<1> DEFINE g == [k \in Rank |-> IF k \in Nbr[r] THEN buffrecv[r][k] ELSE ghost[r][k]]
           traces == GetUhatAgain(r, g)
           qhalo == {u[r]} \cup Ghosts(r, g) \cup traces.own \cup traces.halo
           all == {u[r]} \cup q[r].interior \cup qhalo
           value == [interior |-> IF FrozenAV THEN Ru[r].interior
                                              ELSE {u[r]} \cup q[r].interior,
                     iface |-> {u[r]} \cup qhalo,
                     faces |-> all \cup traces.own \cup traces.halo]
<1>1. P2P!P2PTypeOK'
  BY DEF TypeOK, P2P!P2PTypeOK, Finish, p2p
<1>2. g \in [Rank -> Version]
  BY DEF TypeOK, P2P!P2PTypeOK
<1>3. /\ traces \in [own : Sources, halo : Sources]
      /\ {u[r]} \in Sources /\ Ghosts(r, g) \in Sources
      /\ traces.own \in Sources /\ traces.halo \in Sources
  BY <1>2, TracesType DEF GetUhatAgain
<1>4. q[r].interior \in Sources /\ Ru[r].interior \in Sources
  BY DEF TypeOK
<1>5. /\ ghost' = [ghost EXCEPT ![r] = g]
      /\ uhat' = [uhat EXCEPT ![r] = traces]
      /\ q' = [q EXCEPT ![r] = [interior |-> @.interior, halo |-> qhalo]]
      /\ Ru' = [Ru EXCEPT ![r] = value]
      /\ pc' = [pc EXCEPT ![r] = NextPc(r)]
      /\ UNCHANGED u
  BY DEF Finish
<1> HIDE DEF g, traces
<1>6. qhalo \in Sources /\ all \cup traces.own \cup traces.halo \in Sources
  BY <1>3, <1>4 DEF Sources
<1>7. {u[r]} \cup qhalo \in Sources /\ {u[r]} \cup q[r].interior \in Sources
  BY <1>3, <1>4, <1>6 DEF Sources
<1>8. value \in [interior : Sources, iface : Sources, faces : Sources]
  BY <1>4, <1>6, <1>7
<1> HIDE DEF qhalo, value
<1>9. /\ uhat' \in [Rank -> [own : Sources, halo : Sources]]
      /\ ghost' \in [Rank -> [Rank -> Version]]
      /\ q' \in [Rank -> [interior : Sources, halo : Sources]]
      /\ Ru' \in [Rank -> [interior : Sources, iface : Sources, faces : Sources]]
  BY <1>2, <1>3, <1>5, <1>6, <1>8 DEF TypeOK
<1>10. /\ pc' \in [Rank -> {"ready", "posted", "waiting", "reduce"}]
       /\ u' \in [Rank -> Version]
  BY <1>5 DEF TypeOK, NextPc
<1> QED
  BY <1>1, <1>9, <1>10 DEF TypeOK

(* A channel is a sequence of versions, whatever is appended or taken.     *)
LEMMA TransferType ==
  ASSUME TypeOK, NEW s \in Rank, NEW d \in Rank, Transfer(s, d) PROVE TypeOK'
<1>1. P2P!P2PTypeOK'
  <2>1. chan[s][d] \in Seq(Version) /\ buffsend[s] \in Version
    BY DEF TypeOK, P2P!P2PTypeOK
  <2>2. CASE P2P!ReadSlice(s, d)
    <3>1. Append(chan[s][d], buffsend[s]) \in Seq(Version)
      BY <2>1
    <3>2. chan' \in [Rank -> [Rank -> Seq(Version)]]
      BY <2>2, <3>1 DEF TypeOK, P2P!P2PTypeOK, P2P!ReadSlice
    <3>3. unsent' \in [Rank -> [Rank -> Nat]]
      BY <2>2 DEF TypeOK, P2P!P2PTypeOK, P2P!ReadSlice
    <3> QED
      BY <2>2, <3>2, <3>3 DEF TypeOK, P2P!P2PTypeOK, P2P!ReadSlice
  <2>3. CASE P2P!Deliver(s, d)
    <3>1. /\ Head(chan[s][d]) \in Version
          /\ Tail(chan[s][d]) \in Seq(Version)
      BY <2>1, <2>3 DEF P2P!Deliver
    <3>2. chan' \in [Rank -> [Rank -> Seq(Version)]]
      BY <2>3, <3>1 DEF TypeOK, P2P!P2PTypeOK, P2P!Deliver
    <3>3. unrecv' \in [Rank -> [Rank -> Nat]]
      BY <2>3 DEF TypeOK, P2P!P2PTypeOK, P2P!Deliver
    <3>4. buffrecv' \in [Rank -> [Rank -> Version]]
      BY <2>3, <3>1 DEF TypeOK, P2P!P2PTypeOK, P2P!Deliver
    <3> QED
      BY <2>3, <3>2, <3>3, <3>4 DEF TypeOK, P2P!P2PTypeOK, P2P!Deliver
  <2> QED
    BY <2>2, <2>3 DEF Transfer, P2P!Progress
<1> QED
  BY <1>1 DEF TypeOK, Transfer

(* Every step keeps the types.                                             *)
LEMMA TypeStep == ASSUME TypeOK, [Next]_vars PROVE TypeOK'
<1>1. CASE \E r \in Rank : Step(r)
  BY <1>1, StartType, InteriorType, FinishType DEF Step
<1>2. CASE \E s, d \in Rank : Transfer(s, d)
  BY <1>2, TransferType
<1>3. CASE Allreduce
  BY <1>3 DEF Allreduce, TypeOK, P2P!P2PTypeOK, p2p
<1>4. CASE UNCHANGED vars
  BY <1>4 DEF vars, TypeOK, P2P!P2PTypeOK
<1> QED
  BY <1>1, <1>2, <1>3, <1>4 DEF Next

(* Every variable keeps its type.                                          *)
THEOREM TypeCorrect == Spec => []TypeOK
<1>1. Init => TypeOK
  BY InitInv DEF ExchangeInv
<1>2. TypeOK /\ [Next]_vars => TypeOK'
  BY TypeStep
<1> QED
  BY <1>1, <1>2, PTL DEF Spec

-----------------------------------------------------------------------------
(* The counters of a pair have their type.                                 *)
LEMMA PairType ==
  ASSUME TypeOK, NEW s \in Rank, NEW d \in Rank
  PROVE  /\ u[s] \in Nat /\ u[d] \in Nat
         /\ unsent[s][d] \in Nat /\ unrecv[d][s] \in Nat
         /\ chan[s][d] \in Seq(Version) /\ Len(chan[s][d]) \in Nat
<1>1. u[s] \in Nat /\ u[d] \in Nat
  BY VersionNat DEF TypeOK
<1>2. chan[s][d] \in Seq(Version)
  BY DEF TypeOK, P2P!P2PTypeOK
<1> QED
  BY <1>1, <1>2 DEF TypeOK, P2P!P2PTypeOK

(* A step that touches no message and keeps idle ranks idle, and lets a    *)
(* rank become idle only when nothing of it is pending.                    *)
LEMMA QuietStep ==
  ASSUME NEW s \in Rank, NEW d \in Rank, InTransit(s, d), UNCHANGED <<p2p, u>>,
         Idle(s)' => unsent[s][d] = 0, Idle(d)' => unrecv[d][s] = 0
  PROVE  InTransit(s, d)'
  BY DEF InTransit, p2p

(* A rank starts an evaluation when nothing of the last one is pending.    *)
LEMMA StartInv == ASSUME ExchangeInv, NEW r \in Rank, Start(r) PROVE ExchangeInv'
<1>1. TypeOK /\ TypeOK'
  BY StartType DEF ExchangeInv
<1>2. /\ u' = [u EXCEPT ![r] = u[r] + 1]
      /\ pc[r] = "ready" /\ pc' = [pc EXCEPT ![r] = "posted"]
      /\ UNCHANGED <<chan, buffrecv, q, Ru>>
  BY DEF Start, P2P!PackAndPost
<1>3. ASSUME NEW k \in Rank PROVE Packed(k)' /\ Blocks(k)'
  <2>1. Packed(k) /\ Blocks(k)
    BY DEF ExchangeInv
  <2>2. Packed(k)'
    BY <1>1, <1>2, <2>1 DEF Packed, TypeOK, P2P!P2PTypeOK, Start, P2P!PackAndPost
  <2>3. CASE k = r
    <3>1. u[r] \in Nat /\ u'[r] = u[r] + 1
      BY <1>1, <1>2, VersionNat DEF TypeOK
    <3>2. u'[r] > 0
      BY <3>1
    <3> QED
      BY <1>1, <1>2, <2>2, <2>3, <3>2 DEF Blocks, Idle, Evaluated, TypeOK
  <2>4. CASE k # r
    BY <1>1, <1>2, <2>1, <2>2, <2>4 DEF Blocks, Idle, Evaluated, TypeOK
  <2> QED
    BY <2>3, <2>4
<1>4. ASSUME NEW s \in Rank, NEW d \in Rank PROVE InTransit(s, d)'
  <2>1. InTransit(s, d) /\ r \notin Nbr[r] /\ (d \in Nbr[s] <=> s \in Nbr[d])
    BY NbrAssumption DEF ExchangeInv
  <2>2. unsent'[s][d] = IF s = r /\ d \in Nbr[s] THEN unsent[s][d] + 1
                                                 ELSE unsent[s][d]
    BY <1>1 DEF Start, P2P!PackAndPost, TypeOK, P2P!P2PTypeOK
  <2>3. unrecv'[d][s] = IF d = r /\ d \in Nbr[s] THEN unrecv[d][s] + 1
                                                 ELSE unrecv[d][s]
    BY <1>1, <2>1 DEF Start, P2P!PackAndPost, TypeOK, P2P!P2PTypeOK
  <2>4. /\ u'[s] = IF s = r THEN u[s] + 1 ELSE u[s]
        /\ u'[d] = IF d = r THEN u[d] + 1 ELSE u[d]
    BY <1>1, <1>2 DEF TypeOK
  <2>5. /\ Idle(s)' => s # r /\ Idle(s)
        /\ Idle(d)' => d # r /\ Idle(d)
        /\ s = r => Idle(s)
        /\ d = r => Idle(d)
    BY <1>1, <1>2 DEF Idle, TypeOK
  <2>6. chan'[s][d] = chan[s][d] /\ buffrecv'[d][s] = buffrecv[d][s]
    BY <1>2
  <2>7. CASE d \notin Nbr[s]
    BY <2>1, <2>2, <2>3, <2>5, <2>7 DEF InTransit
  <2>8. CASE d \in Nbr[s] /\ s = r
    <3>1. d # r /\ unsent[s][d] = 0
      BY <2>1, <2>5, <2>8 DEF InTransit
    <3>2. /\ unsent'[s][d] = 1 /\ unrecv'[d][s] = unrecv[d][s]
          /\ u'[s] = u[s] + 1 /\ u'[d] = u[d]
          /\ ~Idle(s)' /\ (Idle(d)' => Idle(d))
      BY <2>2, <2>3, <2>4, <2>5, <2>8, <3>1
    <3>3. u[s] \in Nat /\ u[d] \in Nat /\ unrecv[d][s] \in Nat /\ Len(chan[s][d]) \in Nat
      BY <1>1, PairType
    <3>4. u'[s] = u'[d] - unrecv'[d][s] + Len(chan'[s][d]) + unsent'[s][d]
      BY <2>1, <2>6, <2>8, <3>1, <3>2, <3>3 DEF InTransit
    <3> QED
      BY <2>1, <2>6, <2>8, <3>2, <3>4 DEF InTransit
  <2>9. CASE d \in Nbr[s] /\ d = r
    <3>1. s # r /\ unrecv[d][s] = 0
      BY <2>1, <2>5, <2>9 DEF InTransit
    <3> QED
      BY <1>1, PairType, <2>1, <2>2, <2>3, <2>4, <2>5, <2>6, <2>9, <3>1, SMT DEF InTransit
  <2>10. CASE s # r /\ d # r
    BY <2>1, <2>2, <2>3, <2>4, <2>5, <2>6, <2>10 DEF InTransit
  <2> QED
    BY <2>7, <2>8, <2>9, <2>10
<1> QED
  BY <1>1, <1>3, <1>4 DEF ExchangeInv

(* Interior touches no message, and its own block has one source.          *)
LEMMA InteriorInv ==
  ASSUME ExchangeInv, NEW r \in Rank, Interior(r) PROVE ExchangeInv'
<1>1. TypeOK /\ TypeOK'
  BY InteriorType DEF ExchangeInv
<1>2. /\ q' = [q EXCEPT ![r] = [interior |-> {u[r]}, halo |-> @.halo]]
      /\ Ru' = [Ru EXCEPT ![r] =
                  [interior |-> IF FrozenAV THEN {u[r]} ELSE @.interior,
                   iface |-> @.iface, faces |-> @.faces]]
  <2>1. {u[r]} \cup GetUhat(r, ghost[r]).own = {u[r]}
    BY DEF GetUhat
  <2> QED
    BY <2>1 DEF Interior
<1>3. /\ UNCHANGED <<p2p, u>>
      /\ pc[r] = "posted" /\ pc' = [pc EXCEPT ![r] = "waiting"]
  BY DEF Interior
<1>4. ASSUME NEW k \in Rank PROVE Packed(k)' /\ Blocks(k)'
  <2>1. Packed(k) /\ Blocks(k)
    BY DEF ExchangeInv
  <2>2. Packed(k)'
    BY <1>3, <2>1 DEF Packed, p2p
  <2>3. CASE k = r
    <3>1. u[r] > 0 /\ u'[r] = u[r]
      BY <1>3, <2>1, <2>3 DEF Blocks, Idle
    <3> QED
      BY <1>1, <1>2, <1>3, <2>2, <2>3, <3>1 DEF Blocks, Idle, Evaluated, TypeOK
  <2>4. CASE k # r
    BY <1>1, <1>2, <1>3, <2>1, <2>2, <2>4 DEF Blocks, Idle, Evaluated, TypeOK
  <2> QED
    BY <2>3, <2>4
<1>5. ASSUME NEW s \in Rank, NEW d \in Rank PROVE InTransit(s, d)'
  <2>1. InTransit(s, d) /\ (Idle(s)' => Idle(s)) /\ (Idle(d)' => Idle(d))
    BY <1>1, <1>3 DEF ExchangeInv, Idle, TypeOK
  <2> QED
    BY <1>3, <2>1, QuietStep DEF InTransit
<1> QED
  BY <1>1, <1>4, <1>5 DEF ExchangeInv

(* When MPI_Waitall returns, every slice received is of this evaluation.   *)
LEMMA FinishInv ==
  ASSUME ExchangeInv, NEW r \in Rank, Finish(r) PROVE ExchangeInv'
<1> DEFINE g == [k \in Rank |-> IF k \in Nbr[r] THEN buffrecv[r][k] ELSE ghost[r][k]]
           traces == GetUhatAgain(r, g)
<1>1. TypeOK /\ TypeOK'
  BY FinishType DEF ExchangeInv
<1>2. \A k \in Rank : unsent[r][k] = 0 /\ unrecv[r][k] = 0
  BY DEF Finish, Waitall, P2P!WaitallReturns
<1>3. ASSUME NEW k \in Nbr[r] PROVE g[k] = u[r]
  <2>1. k \in Rank /\ r \in Nbr[k]
    BY NbrAssumption
  <2>2. InTransit(k, r)
    BY <2>1 DEF ExchangeInv
  <2>3. buffrecv[r][k] = u[r] - unrecv[r][k]
    BY <2>1, <2>2 DEF InTransit
  <2> QED
    BY <1>1, <1>2, <2>1, <2>3, PairType
<1>4. Ghosts(r, g) \subseteq {u[r]}
  BY <1>3 DEF Ghosts
<1>5. traces.own = {u[r]} /\ traces.halo = {u[r]}
  BY <1>4 DEF GetUhatAgain, GetUhat
<1>6. q[r].interior = {u[r]} /\ (FrozenAV => Ru[r].interior = {u[r]})
  BY DEF ExchangeInv, Blocks, Finish
<1>7. Ru' = [Ru EXCEPT ![r] =
               [interior |-> {u[r]}, iface |-> {u[r]}, faces |-> {u[r]}]]
  <2> DEFINE qhalo == {u[r]} \cup Ghosts(r, g) \cup traces.own \cup traces.halo
             all == {u[r]} \cup q[r].interior \cup qhalo
  <2>1. Ru' = [Ru EXCEPT ![r] =
                 [interior |-> IF FrozenAV THEN Ru[r].interior
                                           ELSE {u[r]} \cup q[r].interior,
                  iface |-> {u[r]} \cup qhalo,
                  faces |-> all \cup traces.own \cup traces.halo]]
    BY DEF Finish
  <2> HIDE DEF g, traces
  <2>2. qhalo = {u[r]}
    BY <1>4, <1>5
  <2> HIDE DEF qhalo
  <2>3. all \cup traces.own \cup traces.halo = {u[r]} /\ {u[r]} \cup qhalo = {u[r]}
    BY <1>5, <1>6, <2>2
  <2>4. (IF FrozenAV THEN Ru[r].interior ELSE {u[r]} \cup q[r].interior) = {u[r]}
    BY <1>6
  <2> QED
    BY <2>1, <2>3, <2>4
<1>8. /\ UNCHANGED <<p2p, u>>
      /\ pc' = [pc EXCEPT ![r] = NextPc(r)]
      /\ NextPc(r) \in {"ready", "reduce"}
      /\ \A k \in Rank : k # r => q'[k] = q[k]
  BY <1>1 DEF Finish, NextPc, TypeOK
<1>9. ASSUME NEW k \in Rank PROVE Packed(k)' /\ Blocks(k)'
  <2>1. Packed(k) /\ Blocks(k)
    BY DEF ExchangeInv
  <2>2. Packed(k)'
    BY <1>8, <2>1 DEF Packed, p2p
  <2>3. CASE k = r
    BY <1>1, <1>7, <1>8, <2>2, <2>3 DEF Blocks, Idle, Evaluated, TypeOK
  <2>4. CASE k # r
    BY <1>1, <1>7, <1>8, <2>1, <2>2, <2>4 DEF Blocks, Idle, Evaluated, TypeOK
  <2> QED
    BY <2>3, <2>4
<1>10. ASSUME NEW s \in Rank, NEW d \in Rank PROVE InTransit(s, d)'
  <2>1. /\ InTransit(s, d)
        /\ Idle(s)' => s = r \/ Idle(s)
        /\ Idle(d)' => d = r \/ Idle(d)
    BY <1>1, <1>8 DEF ExchangeInv, Idle, TypeOK
  <2>2. /\ Idle(s)' => unsent[s][d] = 0
        /\ Idle(d)' => unrecv[d][s] = 0
    BY <1>2, <2>1 DEF InTransit
  <2> QED
    BY <1>8, <2>1, <2>2, QuietStep
<1> QED
  BY <1>1, <1>9, <1>10 DEF ExchangeInv

(* The library reads a slice: the version it finds is that of the oldest   *)
(* pending send, because no rank has two pending sends to a neighbour.     *)
LEMMA ReadSliceInv ==
  ASSUME ExchangeInv, NEW a \in Rank, NEW b \in Rank, P2P!ReadSlice(a, b), TypeOK',
         UNCHANGED u, UNCHANGED pc, NEW s \in Rank, NEW d \in Rank
  PROVE  InTransit(s, d)'
<1>1. InTransit(s, d) /\ TypeOK /\ buffsend[s] = u[s]
  BY DEF ExchangeInv, Packed
<1>2. CASE s = a /\ d = b
  <2>1. unsent[s][d] = 1 /\ d \in Nbr[s]
    BY <1>1, <1>2, SMT DEF InTransit, P2P!ReadSlice
  <2>2. unsent'[s][d] = 0
    BY <1>1, <1>2, <2>1 DEF P2P!ReadSlice, TypeOK, P2P!P2PTypeOK
  <2>3. chan'[s][d] = Append(chan[s][d], u[s])
    BY <1>1, <1>2 DEF P2P!ReadSlice, TypeOK, P2P!P2PTypeOK
  <2>4. UNCHANGED <<unrecv, buffrecv>>
    BY DEF P2P!ReadSlice
  <2>5. /\ u[s] \in Nat /\ u[d] \in Nat /\ unrecv[d][s] \in Nat
        /\ chan[s][d] \in Seq(Version) /\ Len(chan[s][d]) \in Nat /\ u[s] \in Version
    BY <1>1, PairType DEF TypeOK
  <2>6. Len(chan'[s][d]) = Len(chan[s][d]) + 1
    BY <2>3, <2>5
  <2>7. u[s] = u[d] - unrecv[d][s] + Len(chan'[s][d])
    BY <1>1, <2>1, <2>5, <2>6 DEF InTransit
  <2>8. ASSUME NEW j \in 1 .. Len(chan'[s][d])
        PROVE  chan'[s][d][j] = u[d] - unrecv[d][s] + j
    <3>1. CASE j = Len(chan[s][d]) + 1
      BY <2>3, <2>5, <2>6, <2>7, <3>1
    <3>2. CASE j # Len(chan[s][d]) + 1
      <4>1. j \in 1 .. Len(chan[s][d])
        BY <2>5, <2>6, <3>2
      <4>2. chan'[s][d][j] = chan[s][d][j]
        BY <2>3, <2>5, <4>1
      <4> QED
        BY <1>1, <2>1, <4>1, <4>2 DEF InTransit
    <3> QED
      BY <3>1, <3>2
  <2>9. u'[s] = u'[d] - unrecv'[d][s] + Len(chan'[s][d]) + unsent'[s][d]
    BY <2>2, <2>4, <2>5, <2>6, <2>7
  <2> QED
    BY <1>1, <2>1, <2>2, <2>4, <2>8, <2>9 DEF InTransit, Idle
<1>3. CASE s # a \/ d # b
  <2>1. unsent'[s][d] = unsent[s][d] /\ chan'[s][d] = chan[s][d]
    <3>1. CASE s # a
      BY <1>1, <3>1 DEF P2P!ReadSlice, TypeOK, P2P!P2PTypeOK
    <3>2. CASE s = a /\ d # b
      BY <1>1, <3>2 DEF P2P!ReadSlice, TypeOK, P2P!P2PTypeOK
    <3> QED
      BY <1>3, <3>1, <3>2
  <2>2. UNCHANGED <<unrecv, buffrecv>>
    BY DEF P2P!ReadSlice
  <2> QED
    BY <1>1, <2>1, <2>2 DEF InTransit, Idle
<1> QED
  BY <1>2, <1>3

(* Counting: a receipt moves one message from the channel to the ghosts.   *)
LEMMA OneReceived ==
  ASSUME NEW us \in Nat, NEW ud \in Nat, NEW len \in Nat, NEW n \in Nat,
         us = ud - 1 + len + n
  PROVE  us = ud - 0 + (len - 1) + n
  OBVIOUS

(* A message is stored: it is the next version after the last received.    *)
LEMMA DeliverInv ==
  ASSUME ExchangeInv, NEW a \in Rank, NEW b \in Rank, P2P!Deliver(a, b), TypeOK',
         UNCHANGED u, UNCHANGED pc, NEW s \in Rank, NEW d \in Rank
  PROVE  InTransit(s, d)'
<1>1. InTransit(s, d) /\ TypeOK
  BY DEF ExchangeInv
<1>2. CASE s = a /\ d = b
  <2>1. unrecv[d][s] = 1 /\ d \in Nbr[s]
    BY <1>1, <1>2, SMT DEF InTransit, P2P!Deliver
  <2>2. unrecv'[d][s] = 0
    BY <1>1, <1>2, <2>1 DEF P2P!Deliver, TypeOK, P2P!P2PTypeOK
  <2>3. /\ chan'[s][d] = Tail(chan[s][d]) /\ buffrecv'[d][s] = Head(chan[s][d])
        /\ chan[s][d] # <<>>
    BY <1>1, <1>2 DEF P2P!Deliver, TypeOK, P2P!P2PTypeOK
  <2>4. UNCHANGED unsent
    BY DEF P2P!Deliver
  <2>5. /\ u[s] \in Nat /\ u[d] \in Nat /\ unsent[s][d] \in Nat
        /\ chan[s][d] \in Seq(Version) /\ Len(chan[s][d]) \in Nat
    BY <1>1, PairType
  <2>6. Len(chan[s][d]) > 0 /\ Len(chan'[s][d]) = Len(chan[s][d]) - 1
    BY <2>3, <2>5
  <2>7. \A j \in 1 .. Len(chan[s][d]) : chan[s][d][j] = u[d] - 1 + j
    BY <1>1, <2>1 DEF InTransit
  <2>8. buffrecv'[d][s] = u[d]
    BY <2>3, <2>5, <2>6, <2>7
  <2>9. ASSUME NEW j \in 1 .. Len(chan'[s][d]) PROVE chan'[s][d][j] = u[d] + j
    <3>1. j + 1 \in 1 .. Len(chan[s][d])
      BY <2>5, <2>6
    <3>2. chan'[s][d][j] = chan[s][d][j + 1]
      BY <2>3, <2>5, <2>6
    <3>3. chan[s][d][j + 1] = u[d] - 1 + (j + 1)
      BY <2>7, <3>1
    <3> QED
      BY <2>5, <3>2, <3>3
  <2>10. u[s] = u[d] - 1 + Len(chan[s][d]) + unsent[s][d]
    BY <1>1, <2>1 DEF InTransit
  <2>11. u'[s] = u'[d] - unrecv'[d][s] + Len(chan'[s][d]) + unsent'[s][d]
    <3>1. u[s] = u[d] - 0 + (Len(chan[s][d]) - 1) + unsent[s][d]
      BY <2>5, <2>10, OneReceived
    <3> QED
      BY <2>2, <2>4, <2>6, <3>1
  <2>12. /\ buffrecv'[d][s] = u'[d] - unrecv'[d][s]
         /\ \A j \in 1 .. Len(chan'[s][d]) : chan'[s][d][j] = u'[d] - unrecv'[d][s] + j
    BY <2>2, <2>5, <2>8, <2>9
  <2> QED
    BY <1>1, <2>1, <2>2, <2>4, <2>11, <2>12 DEF InTransit, Idle
<1>3. CASE s # a \/ d # b
  <2>1. /\ unrecv'[d][s] = unrecv[d][s] /\ chan'[s][d] = chan[s][d]
        /\ buffrecv'[d][s] = buffrecv[d][s]
    <3>1. CASE d # b
      BY <1>1, <3>1 DEF P2P!Deliver, TypeOK, P2P!P2PTypeOK
    <3>2. CASE d = b /\ s # a
      BY <1>1, <3>2 DEF P2P!Deliver, TypeOK, P2P!P2PTypeOK
    <3> QED
      BY <1>3, <3>1, <3>2
  <2>2. UNCHANGED unsent
    BY DEF P2P!Deliver
  <2> QED
    BY <1>1, <2>1, <2>2 DEF InTransit, Idle
<1> QED
  BY <1>2, <1>3

(* Every step keeps the invariant.                                         *)
LEMMA InvStep == ASSUME ExchangeInv, [Next]_vars PROVE ExchangeInv'
<1>1. CASE \E r \in Rank : Step(r)
  BY <1>1, StartInv, InteriorInv, FinishInv DEF Step
<1>2. ASSUME NEW a \in Rank, NEW b \in Rank, Transfer(a, b) PROVE ExchangeInv'
  <2>1. TypeOK'
    BY <1>2, TransferType DEF ExchangeInv
  <2>2. UNCHANGED <<pc, u, q, Ru>> /\ UNCHANGED buffsend
    BY <1>2 DEF Transfer, P2P!Progress, P2P!ReadSlice, P2P!Deliver
  <2>3. \A r \in Rank : Packed(r)' /\ Blocks(r)'
    BY <2>2 DEF ExchangeInv, Packed, Blocks, Idle, Evaluated
  <2>4. \A s, d \in Rank : InTransit(s, d)'
    BY <1>2, <2>1, ReadSliceInv, DeliverInv DEF Transfer, P2P!Progress
  <2> QED
    BY <2>1, <2>3, <2>4 DEF ExchangeInv
<1>3. CASE Allreduce
  <2>1. TypeOK'
    BY <1>3, TypeStep DEF ExchangeInv, Next
  <2>2. /\ UNCHANGED <<p2p, u, q, Ru>>
        /\ \A r \in Rank : pc[r] = "reduce" /\ pc'[r] = "ready"
    BY <1>3 DEF Allreduce
  <2>3. \A r \in Rank : Packed(r)' /\ Blocks(r)'
    BY <2>2 DEF ExchangeInv, Packed, Blocks, Idle, Evaluated, p2p
  <2>4. \A s, d \in Rank : InTransit(s, d)'
    BY <2>2 DEF ExchangeInv, InTransit, Idle, p2p
  <2> QED
    BY <2>1, <2>3, <2>4 DEF ExchangeInv
<1>4. CASE UNCHANGED vars
  <2>1. TypeOK'
    BY <1>4, TypeStep DEF ExchangeInv
  <2> QED
    BY <1>4, <2>1 DEF vars, ExchangeInv, Packed, Blocks, Evaluated, InTransit, Idle
<1> QED
  BY <1>1, <1>2, <1>3, <1>4 DEF Next

(* The inductive invariant of the exchange holds in every reachable state. *)
THEOREM Exchange == Spec => []ExchangeInv
<1> QED
  BY InitInv, InvStep, PTL DEF Spec

-----------------------------------------------------------------------------
(* No rank reads a stale ghost or a message of another evaluation.         *)
THEOREM ResidualIsConsistent == Spec => []ResidualConsistent
<1>1. ExchangeInv => ResidualConsistent
  BY DEF ExchangeInv, Blocks, ResidualConsistent
<1> QED
  BY <1>1, Exchange, PTL

(* No message is overwritten before the library has read it.               *)
THEOREM SendBufferIsStable == Spec => []SendBufferStable
<1>1. ExchangeInv => SendBufferStable
  BY SMT DEF ExchangeInv, InTransit, Idle, SendBufferStable
<1> QED
  BY <1>1, Exchange, PTL

(* The two balances of a pair, added.                                      *)
LEMMA SkewArithmetic ==
  ASSUME NEW ur \in Nat, NEW uk \in Nat,
         NEW toR \in {0, 1}, NEW toK \in {0, 1},
         NEW chR \in Nat, NEW chK \in Nat, NEW pendR \in Nat, NEW pendK \in Nat,
         uk = ur - toR + chK + pendK, ur = uk - toK + chR + pendR
  PROVE  ur <= uk + 1 /\ chR + pendR <= 2
  OBVIOUS

(* Neighbours stay within one evaluation of each other, without a barrier. *)
THEOREM SkewIsBounded == Spec => []SkewBounded
<1>1. ExchangeInv => SkewBounded
  <2> SUFFICES ASSUME ExchangeInv, NEW r \in Rank, NEW k \in Nbr[r]
               PROVE  /\ u[r] <= u[k] + 1
                      /\ Len(chan[r][k]) + unsent[r][k] <= 2
    BY DEF SkewBounded
  <2>1. k \in Rank /\ r \in Nbr[k]
    BY NbrAssumption
  <2>2. InTransit(r, k) /\ InTransit(k, r) /\ TypeOK
    BY <2>1 DEF ExchangeInv
  <2>3. /\ u[r] \in Nat /\ u[k] \in Nat
        /\ unsent[r][k] \in Nat /\ unsent[k][r] \in Nat
        /\ Len(chan[r][k]) \in Nat /\ Len(chan[k][r]) \in Nat
    BY <2>1, <2>2, PairType
  <2>4. unrecv[r][k] \in {0, 1} /\ unrecv[k][r] \in {0, 1}
    BY <2>2 DEF InTransit
  <2>5. /\ u[k] = u[r] - unrecv[r][k] + Len(chan[k][r]) + unsent[k][r]
        /\ u[r] = u[k] - unrecv[k][r] + Len(chan[r][k]) + unsent[r][k]
    BY <2>1, <2>2 DEF InTransit
  <2> QED
    BY <2>3, <2>4, <2>5, SkewArithmetic
<1> QED
  BY <1>1, Exchange, PTL

-----------------------------------------------------------------------------
(* Refinement of SynchronousEvaluation.                                    *)

Value(r) == Ru[r].interior \cup Ru[r].iface \cup Ru[r].faces

(* done and sources, in the three phases a rank can be in.                 *)
Mapped(r) ==
  /\ Idle(r) => done[r] = u[r]
  /\ ~Idle(r) => u[r] \in Nat \ {0} /\ done[r] = u[r] - 1
  /\ sources[r] = IF done[r] = 0 THEN {} ELSE {done[r]}

(* The invariant determines what the refinement mapping yields for a rank. *)
LEMMA Mapping == ExchangeInv => \A r \in Rank : Mapped(r)
<1> SUFFICES ASSUME ExchangeInv, NEW r \in Rank PROVE Mapped(r)
  OBVIOUS
<1> USE DEF Mapped
<1>1. u[r] \in Nat /\ Blocks(r)
  BY VersionNat DEF ExchangeInv, TypeOK
<1>2. CASE ~Idle(r)
  <2>1. u[r] \in Nat \ {0} /\ ~Evaluated(r)
    BY <1>1, <1>2, SMT DEF Blocks, Evaluated, Idle
  <2>2. done[r] = u[r] - 1
    BY <2>1 DEF done
  <2> QED
    BY <1>2, <2>1, <2>2 DEF sources
<1>3. CASE Idle(r) /\ u[r] = 0
  <2>1. ~Evaluated(r)
    BY <1>3, SMT DEF Evaluated
  <2>2. done[r] = 0
    BY <1>3, <2>1, SMT DEF done
  <2> QED
    BY <1>3, <2>1, <2>2 DEF sources
<1>4. CASE Idle(r) /\ u[r] # 0
  <2>1. Evaluated(r)
    BY <1>1, <1>4, SMT DEF Evaluated, Idle
  <2>2. Value(r) = {u[r]}
    BY <1>1, <2>1 DEF Blocks, Value
  <2>3. done[r] = u[r] /\ sources[r] = {u[r]}
    BY <2>1, <2>2 DEF done, sources, Value
  <2> QED
    BY <1>4, <2>3
<1> QED
  BY <1>2, <1>3, <1>4

(* The same in the next state.                                             *)
LEMMA MappingNext == ExchangeInv' => (\A r \in Rank : Mapped(r))'
  BY Mapping, PTL

(* What changes neither the phase nor done is invisible.                   *)
LEMMA Stutter ==
  ASSUME ExchangeInv, ExchangeInv', \A r \in Rank : done'[r] = done[r]
  PROVE  UNCHANGED Synchronous!vars
<1>1. done' = done
  BY DEF done
<1>2. \A r \in Rank : sources'[r] = sources[r]
  <2> SUFFICES ASSUME NEW r \in Rank PROVE sources'[r] = sources[r]
    OBVIOUS
  <2>1. sources[r] = IF done[r] = 0 THEN {} ELSE {done[r]}
    BY Mapping DEF Mapped
  <2>2. sources'[r] = IF done'[r] = 0 THEN {} ELSE {done'[r]}
    BY MappingNext DEF Mapped
  <2> QED
    BY <1>1, <2>1, <2>2
<1>3. sources' = sources
  BY <1>2 DEF sources
<1> QED
  BY <1>1, <1>3 DEF Synchronous!vars

(* The end of an evaluation is the step of the specification: the ranks it *)
(* had messages from have all started the same evaluation.                 *)
LEMMA FinishEvaluates ==
  ASSUME ExchangeInv, ExchangeInv', NEW r \in Rank, Finish(r)
  PROVE  Synchronous!Evaluate(r)
<1>1. /\ UNCHANGED u /\ TypeOK /\ u[r] \in Nat
      /\ pc' = [pc EXCEPT ![r] = NextPc(r)]
  BY VersionNat DEF Finish, ExchangeInv, TypeOK
<1>2. ~Idle(r) /\ Idle(r)' /\ \A k \in Rank : k # r => (Idle(k)' <=> Idle(k))
  BY <1>1 DEF Finish, Idle, NextPc, TypeOK
<1>3. u[r] \in Nat \ {0} /\ done[r] = u[r] - 1
  BY <1>2, Mapping DEF Mapped
<1>4. \A k \in Rank : Mapped(k) /\ Mapped(k)'
  BY Mapping, MappingNext
<1>5. done'[r] = done[r] + 1 /\ done'[r] = u[r]
  <2>1. done'[r] = u'[r]
    BY <1>2, <1>4 DEF Mapped
  <2> HIDE DEF done
  <2> QED
    BY <1>1, <1>3, <2>1
<1>6. \A k \in Rank : k # r => done'[k] = done[k]
  BY <1>1, <1>2, <1>4 DEF Mapped
<1>7. done' = [done EXCEPT ![r] = @ + 1]
  BY <1>5, <1>6 DEF done
<1>8. sources' = [sources EXCEPT ![r] = {done[r] + 1}]
  <2>1. sources'[r] = {done[r] + 1}
    BY <1>3, <1>4, <1>5 DEF Mapped
  <2>2. \A k \in Rank : k # r => sources'[k] = sources[k]
    BY <1>4, <1>6 DEF Mapped
  <2> QED
    BY <2>1, <2>2 DEF sources
<1>9. done[r] < MaxEval
  BY <1>1, <1>3, MaxEvalAssumption, SMT DEF TypeOK, Version
<1>10. ASSUME NEW k \in Nbr[r] PROVE done[k] >= done[r]
  <2>1. k \in Rank /\ r \in Nbr[k]
    BY NbrAssumption
  <2>2. /\ InTransit(k, r) /\ unrecv[r][k] = 0
        /\ u[k] \in Nat /\ unsent[k][r] \in Nat /\ Len(chan[k][r]) \in Nat
    BY <1>1, <2>1, PairType DEF ExchangeInv, Finish, Waitall, P2P!WaitallReturns
  <2>3. u[k] = u[r] - 0 + Len(chan[k][r]) + unsent[k][r]
    BY <2>1, <2>2 DEF InTransit
  <2>4. u[k] >= u[r]
    BY <1>1, <2>2, <2>3
  <2>5. done[k] = u[k] \/ done[k] = u[k] - 1
    BY <1>4, <2>1 DEF Mapped
  <2> QED
    BY <1>3, <2>2, <2>4, <2>5
<1> QED
  BY <1>7, <1>8, <1>9, <1>10 DEF Synchronous!Evaluate

(* All other steps leave the abstract state alone.                         *)
LEMMA OthersStutter ==
  ASSUME ExchangeInv, ExchangeInv',
         \/ \E r \in Rank : Start(r) \/ Interior(r)
         \/ \E s, d \in Rank : Transfer(s, d)
         \/ Allreduce \/ UNCHANGED vars
  PROVE  UNCHANGED Synchronous!vars
<1>1. \A k \in Rank : Mapped(k) /\ Mapped(k)'
  BY Mapping, MappingNext
<1>2. ASSUME NEW k \in Rank PROVE done'[k] = done[k]
  <2>1. u[k] \in Nat /\ TypeOK
    BY VersionNat DEF ExchangeInv, TypeOK
  <2>2. CASE \E r \in Rank : Start(r)
    <3>1. PICK r \in Rank : Start(r)
      BY <2>2
    <3>2. \/ k = r /\ u'[k] = u[k] + 1 /\ Idle(k) /\ ~Idle(k)'
          \/ k # r /\ u'[k] = u[k] /\ (Idle(k)' <=> Idle(k))
      BY <2>1, <3>1 DEF Start, Idle, TypeOK
    <3> QED
      <4>1. (Idle(k) => done[k] = u[k]) /\ (~Idle(k)' => done'[k] = u'[k] - 1)
        BY <1>1 DEF Mapped
      <4>2. (~Idle(k) => done[k] = u[k] - 1) /\ (Idle(k)' => done'[k] = u'[k])
        BY <1>1 DEF Mapped
      <4> HIDE DEF done, Idle
      <4> QED
        BY <2>1, <3>2, <4>1, <4>2
  <2>3. CASE ~ \E r \in Rank : Start(r)
    <3>1. u'[k] = u[k] /\ (Idle(k)' <=> Idle(k))
      BY <2>1, <2>3 DEF Interior, Transfer, Allreduce, vars, Idle, TypeOK
    <3> QED
      BY <1>1, <3>1 DEF Mapped
  <2> QED
    BY <2>2, <2>3
<1> QED
  BY <1>2, Stutter

(* The overlapped evaluation implements the synchronous one.               *)
THEOREM Refinement == Spec => ImplementsSynchronous
<1>1. Init => Synchronous!Init
  <2> SUFFICES ASSUME Init PROVE Synchronous!Init
    OBVIOUS
  <2>1. ExchangeInv
    BY InitInv
  <2>2. ASSUME NEW r \in Rank PROVE done[r] = 0 /\ sources[r] = {}
    <3>1. Idle(r) /\ u[r] = 0
      BY DEF Init, Idle
    <3> QED
      BY <2>1, <3>1, Mapping DEF Mapped
  <2>3. done = [r \in Rank |-> 0] /\ sources = [r \in Rank |-> {}]
    BY <2>2 DEF done, sources
  <2> QED
    BY <2>3 DEF Synchronous!Init
<1>2. ExchangeInv /\ ExchangeInv' /\ [Next]_vars => [Synchronous!Next]_(Synchronous!vars)
  <2> SUFFICES ASSUME ExchangeInv, ExchangeInv', [Next]_vars
               PROVE  Synchronous!Next \/ UNCHANGED Synchronous!vars
    OBVIOUS
  <2>1. CASE \E r \in Rank : Finish(r)
    BY <2>1, FinishEvaluates DEF Synchronous!Next
  <2>2. CASE ~ \E r \in Rank : Finish(r)
    BY <2>2, OthersStutter DEF Next, Step
  <2> QED
    BY <2>1, <2>2
<1> QED
  BY <1>1, <1>2, Exchange, PTL DEF Spec, ImplementsSynchronous, Synchronous!Spec
=============================================================================
