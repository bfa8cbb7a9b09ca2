-------------------------- MODULE NewtonSolverProofs --------------------------
(***************************************************************************)
(* The damped Newton method for any iteration limit, number of calls,      *)
(* residual levels and capacity of the basis: the copies of the iterate    *)
(* agree, the line search leaves the last increment with exactly the step  *)
(* alpha, the basis holds increments as they were applied, and a failed    *)
(* line search can be seen in alpha.                                       *)
(***************************************************************************)
EXTENDS NewtonSolver, TLAPS

InIteration == {"step", "search"}

(* A call makes at most maxit linear solves.                               *)
Budget ==
  /\ pc = "idle" => n <= maxit * calls
  /\ pc = "solve" => calls > 0 /\ it < maxit /\ n <= maxit * (calls - 1) + it
  /\ pc \in InIteration =>
       calls > 0 /\ it < maxit /\ 0 < n /\ n <= maxit * (calls - 1) + it + 1

(* The step length is halved from the full step; no step is taken with an  *)
(* increment before it is solved for.                                      *)
StepsTaken ==
  /\ alpha \in {1, 2, 4, 8, 16}
  /\ \A s \in Solves : s > n => u[s] = 0
  /\ pc \in InIteration => x \in {0, 16}
  /\ pc = "step" => u[n] = 0

(* The ring is written at a column it has.                                 *)
RingPosition == IF RBdim = 0 THEN RBremovedind = 0 ELSE RBremovedind < RBdim

(* Every column holds an increment of an earlier iteration as applied.     *)
ColumnsApplied ==
  \A c \in RB!Column : W[c] # Never =>
    /\ W[c].solve \in 1 .. n /\ W[c].step = u[W[c].solve]
    /\ pc \in InIteration => W[c].solve # n

(* Two columns hold increments of different linear solves.                 *)
ColumnsDiffer ==
  \A c, d \in RB!Column :
    c # d /\ W[c] # Never /\ W[d] # Never => W[c].solve # W[d].solve

NewtonIInv ==
  /\ TypeOK /\ IterateConsistent /\ Budget /\ StepsTaken
  /\ RingPosition /\ ColumnsApplied /\ ColumnsDiffer
  /\ FailureVisible

-----------------------------------------------------------------------------
(* The numbers of solves: those of call k lie in block k of maxit.         *)
LEMMA BlockOfCall ==
  ASSUME NEW m \in Nat \ {0}, NEW k \in Nat, k > 0, NEW top \in Nat, k <= top
  PROVE  /\ m * (k - 1) \in Nat /\ m * k = m * (k - 1) + m
         /\ m * k <= m * top /\ m * k \in Nat /\ m * top \in Nat
<1>1. m * (k - 1) \in Nat /\ m * k \in Nat /\ m * top \in Nat
  BY SMT
<1>2. m * k = m * (k - 1) + m
  BY SMT
<1>3. m * k <= m * top
  BY SMT
<1> QED
  BY <1>1, <1>2, <1>3

(* The numbers in play.                                                    *)
LEMMA Numbers ==
  ASSUME TypeOK
  PROVE  /\ maxit \in Nat \ {0} /\ MaxCalls \in Nat /\ RBdim \in Nat
         /\ MaxNorm \in Nat /\ maxit * MaxCalls \in Nat
         /\ n \in Nat /\ it \in Nat /\ calls \in Nat
         /\ RBcurrentdim \in Nat /\ RBremovedind \in Nat
<1>1. maxit \in Nat \ {0} /\ MaxCalls \in Nat /\ RBdim \in Nat /\ MaxNorm \in Nat
  BY NewtonAssumption, NormAssumption
<1>2. maxit * MaxCalls \in Nat
  BY <1>1, SMT
<1> HIDE NewtonAssumption, NormAssumption
<1>3. n \in Nat /\ it \in Nat /\ calls \in Nat
  BY <1>1, <1>2 DEF TypeOK
<1>4. RBcurrentdim \in Nat /\ RBremovedind \in Nat
  BY <1>1 DEF TypeOK, RB!RBTypeOK
<1> QED
  BY <1>1, <1>2, <1>3, <1>4

(* The increment of the current iteration is one of the solves.            *)
LEMMA CurrentSolve ==
  ASSUME TypeOK, Budget, pc \in InIteration
  PROVE  n \in Solves
  BY Numbers DEF TypeOK, Budget, Solves, InIteration

-----------------------------------------------------------------------------
(* The invariant holds before the first call.                              *)
LEMMA NewtonInit == Init => NewtonIInv
<1> SUFFICES ASSUME Init PROVE NewtonIInv
  OBVIOUS
<1>1. /\ maxit \in Nat \ {0} /\ MaxCalls \in Nat /\ RBdim \in Nat
      /\ MaxNorm \in Nat /\ maxit * MaxCalls \in Nat
  BY NewtonAssumption, NormAssumption, SMT
<1>2. u \in Steps /\ uh = u /\ udg = u /\ normOf = <<uh, udg>>
      /\ \A s \in Solves : u[s] = 0
  BY DEF Init, Steps
<1>3. RB!RBTypeOK /\ RingPosition
  BY <1>1 DEF Init, RB!RBInit, RB!RBTypeOK, RB!Product, RingPosition
<1>4. TypeOK
  BY <1>1, <1>2, <1>3 DEF Init, TypeOK, Norm
<1>5. IterateConsistent /\ Budget /\ StepsTaken /\ FailureVisible
  BY <1>1, <1>2 DEF Init, IterateConsistent, Budget, StepsTaken, InIteration,
                    FailureVisible
<1>6. ColumnsApplied /\ ColumnsDiffer
  BY DEF Init, RB!RBInit, ColumnsApplied, ColumnsDiffer
<1> QED
  BY <1>3, <1>4, <1>5, <1>6 DEF NewtonIInv

(* What a step does not touch when it leaves the ring alone.               *)
LEMMA RingUntouched ==
  ASSUME NewtonIInv, UNCHANGED rb
  PROVE  RB!RBTypeOK' /\ RingPosition' /\ ColumnsDiffer'
  BY DEF NewtonIInv, TypeOK, rb, RB!RBTypeOK, RingPosition, ColumnsDiffer

(* A new call has a new block of solves.                                   *)
LEMMA CallKeeps == ASSUME NewtonIInv, NEW r0 \in Norm, Call(r0) PROVE NewtonIInv'
<1>1. /\ NewtonIInv /\ pc = "idle" /\ calls < MaxCalls /\ calls' = calls + 1 /\ it' = 0
      /\ UNCHANGED <<u, uh, udg, nrm0, n, x, alpha, rb>>
      /\ normOf' = <<uh, udg>> /\ nrmr' = r0
      /\ pc' \in {"aborted", "solve"} /\ streams' \in {"open", "closed"}
  BY DEF Call, EvaluateResidual, Abort, NewtonIInv, TypeOK
<1>2. RB!RBTypeOK' /\ RingPosition' /\ ColumnsDiffer'
  BY <1>1, RingUntouched
<1>3. TypeOK'
  BY <1>1, <1>2, Numbers DEF NewtonIInv, TypeOK
<1>4. Budget'
  BY <1>1, Numbers DEF NewtonIInv, Budget, InIteration
<1>5. IterateConsistent' /\ StepsTaken' /\ FailureVisible'
  BY <1>1 DEF NewtonIInv, IterateConsistent, StepsTaken, InIteration, FailureVisible
<1>6. ColumnsApplied'
  BY <1>1 DEF NewtonIInv, ColumnsApplied, InIteration, rb
<1> QED
  BY <1>2, <1>3, <1>4, <1>5, <1>6 DEF NewtonIInv

(* A linear solve has a new number; the guess recomputes one product.      *)
LEMMA SolveKeeps == ASSUME NewtonIInv, NEW zero \in BOOLEAN, Solve(zero) PROVE NewtonIInv'
<1>1. /\ TypeOK /\ IterateConsistent /\ Budget /\ StepsTaken /\ RingPosition
      /\ ColumnsApplied /\ ColumnsDiffer
      /\ pc = "solve" /\ n' = n + 1 /\ x' \in {0, 16} /\ pc' = "step"
      /\ UNCHANGED <<u, uh, udg, normOf, nrm0, nrmr, alpha, it, calls, streams>>
      /\ UNCHANGED <<W, RBcurrentdim, RBremovedind>>
      /\ \/ U' = U
         \/ RBcurrentdim > 0 /\ U' = [U EXCEPT ![RB!LastColumn] = RB!Product(W[RB!LastColumn], n)]
  BY DEF Solve, NewtonIInv, RB!ComputeInitialGuess, rb
<1>2. /\ maxit \in Nat \ {0} /\ MaxCalls \in Nat /\ RBdim \in Nat
      /\ n \in Nat /\ it \in Nat /\ calls \in Nat /\ calls > 0 /\ calls <= MaxCalls
      /\ it < maxit /\ n <= maxit * (calls - 1) + it
      /\ RBcurrentdim \in 0 .. RBdim /\ RBremovedind \in Nat
  BY <1>1, Numbers DEF Budget, TypeOK, RB!RBTypeOK
<1>3. n' \in 0 .. maxit * MaxCalls /\ n' \in Solves
  <2>1. /\ maxit * (calls - 1) \in Nat /\ maxit * calls = maxit * (calls - 1) + maxit
        /\ maxit * calls <= maxit * MaxCalls
        /\ maxit * calls \in Nat /\ maxit * MaxCalls \in Nat
    BY <1>2, BlockOfCall
  <2> QED
    BY <1>1, <1>2, <2>1 DEF Solves
<1>4. U' \in [RB!Column -> [increment : Increment \cup {Never}, iterate : Nat]]
  <2>1. RBcurrentdim > 0 => RB!LastColumn \in RB!Column
    BY <1>1, <1>2 DEF RB!LastColumn, RB!Column, RingPosition
  <2> QED
    BY <1>1, <1>2, <2>1 DEF TypeOK, RB!RBTypeOK, RB!Product
<1>5. TypeOK'
  BY <1>1, <1>3, <1>4 DEF TypeOK, RB!RBTypeOK
<1>6. Budget' /\ RingPosition'
  BY <1>1, <1>2 DEF Budget, InIteration, RingPosition
<1>7. StepsTaken'
  BY <1>1, <1>2, <1>3 DEF StepsTaken, InIteration
<1>8. IterateConsistent' /\ FailureVisible' /\ ColumnsDiffer'
  BY <1>1 DEF IterateConsistent, FailureVisible, ColumnsDiffer
<1>9. ColumnsApplied'
  BY <1>1, <1>2 DEF ColumnsApplied
<1> QED
  BY <1>5, <1>6, <1>7, <1>8, <1>9 DEF NewtonIInv

(* Changing the step of the current increment changes no other: the basis  *)
(* still holds the steps applied.                                          *)
LEMMA StepKeeps ==
  ASSUME NewtonIInv, pc \in InIteration, NEW a \in {1, 2, 4, 8, 16}, NEW r0 \in Norm,
         alpha' = a, u' = [u EXCEPT ![n] = a], uh' = u', udg' = u',
         normOf' = <<uh', udg'>>, nrmr' = r0, nrm0' \in Norm,
         pc' \in {"search", "aborted"}, streams' \in {"open", "closed"},
         UNCHANGED <<n, x, it, calls, rb>>
  PROVE  NewtonIInv'
<1>1. /\ TypeOK /\ IterateConsistent /\ Budget /\ StepsTaken /\ ColumnsApplied
      /\ n \in Solves /\ UNCHANGED W
  BY CurrentSolve DEF NewtonIInv, rb
<1>2. RB!RBTypeOK' /\ RingPosition' /\ ColumnsDiffer'
  BY RingUntouched
<1>3. u \in Steps /\ u' \in Steps /\ u'[n] = a /\ \A s \in Solves \ {n} : u'[s] = u[s]
  BY <1>1 DEF TypeOK, Steps
<1>4. TypeOK'
  <2>1. u' \in Steps /\ uh' \in Steps /\ udg' \in Steps /\ normOf' \in Steps \X Steps
    BY <1>3
  <2>2. alpha' \in 0 .. 16 /\ nrmr' \in Norm /\ nrm0' \in Norm
    OBVIOUS
  <2>3. pc' \in {"idle", "solve", "step", "search", "aborted"}
    OBVIOUS
  <2> QED
    BY <1>1, <1>2, <2>1, <2>2, <2>3 DEF TypeOK
<1>5. IterateConsistent' /\ FailureVisible'
  BY <1>3 DEF IterateConsistent, FailureVisible
<1>6. Budget'
  BY <1>1 DEF Budget, InIteration
<1>7. StepsTaken'
  <2>1. \A s \in Solves : s > n => u'[s] = 0
    <3> SUFFICES ASSUME NEW s \in Solves, s > n PROVE u'[s] = 0
      OBVIOUS
    <3>1. s # n
      BY Numbers, <1>1 DEF Solves
    <3> QED
      BY <1>1, <1>3, <3>1 DEF StepsTaken
  <2> QED
    BY <1>1, <2>1 DEF StepsTaken, InIteration
<1>8. ColumnsApplied'
  <2> SUFFICES ASSUME NEW c \in RB!Column, W[c] # Never
               PROVE  /\ W[c].solve \in 1 .. n /\ W[c].step = u'[W[c].solve]
                      /\ W[c].solve # n
    BY <1>1 DEF ColumnsApplied
  <2>1. W[c].solve \in 1 .. n /\ W[c].step = u[W[c].solve] /\ W[c].solve # n
    BY <1>1 DEF ColumnsApplied
  <2>2. W[c].solve \in Solves \ {n}
    BY <1>1, <2>1, Numbers DEF Solves
  <2> QED
    BY <1>3, <2>1, <2>2
<1> QED
  BY <1>2, <1>4, <1>5, <1>6, <1>7, <1>8 DEF NewtonIInv

(* The full step.                                                          *)
LEMMA FullStepKeeps == ASSUME NewtonIInv, NEW r0 \in Norm, FullStep(r0) PROVE NewtonIInv'
<1>1. /\ pc = "step" /\ alpha' = 16 /\ u' = [u EXCEPT ![n] = @ + 16] /\ uh' = u'
      /\ udg' = [udg EXCEPT ![n] = @ + 16] /\ nrm0' = nrmr
      /\ normOf' = <<uh', udg'>> /\ nrmr' = r0
      /\ pc' \in {"search", "aborted"} /\ streams' \in {"open", "closed"}
      /\ UNCHANGED <<n, x, it, calls, rb>>
  BY DEF FullStep, AXPY, EvaluateResidual, Abort, NewtonIInv, TypeOK
<1>2. u[n] = 0 /\ udg = u /\ u \in Steps /\ nrm0' \in Norm /\ n \in Solves
  BY <1>1, CurrentSolve DEF NewtonIInv, StepsTaken, IterateConsistent, TypeOK, InIteration
<1>3. u' = [u EXCEPT ![n] = 16] /\ udg' = u'
  <2>1. u[n] + 16 = 16
    BY <1>2
  <2> QED
    BY <1>1, <1>2, <2>1, Zenon
<1> QED
  BY <1>1, <1>2, <1>3, StepKeeps DEF InIteration

(* Taking back half of the step leaves the other half.                     *)
LEMMA HalveKeeps == ASSUME NewtonIInv, NEW r0 \in Norm, Halve(r0) PROVE NewtonIInv'
<1>1. /\ pc = "search" /\ MustHalve /\ alpha' = alpha \div 2
      /\ u' = [u EXCEPT ![n] = @ + (-alpha')] /\ uh' = u'
      /\ udg' = [udg EXCEPT ![n] = @ + (-alpha')]
      /\ normOf' = <<uh', udg'>> /\ nrmr' = r0
      /\ UNCHANGED <<nrm0, n, x, it, calls, pc, streams, rb>>
  BY DEF Halve, AXPY, EvaluateResidual, StepBack
<1>2. /\ u[n] = alpha /\ udg = u /\ u \in Steps /\ nrm0 \in Norm /\ n \in Solves
      /\ alpha \in {1, 2, 4, 8, 16} /\ streams \in {"open", "closed"}
  BY <1>1, CurrentSolve DEF NewtonIInv, StepsTaken, IterateConsistent, TypeOK, InIteration
<1>3. alpha' \in {1, 2, 4, 8} /\ alpha + (-alpha') = alpha'
  BY <1>1, <1>2, SMT DEF MustHalve
<1>4. u' = [u EXCEPT ![n] = alpha'] /\ udg' = u'
  BY <1>1, <1>2, <1>3 DEF Steps
<1>5. PICK a \in {1, 2, 4, 8} : alpha' = a
  BY <1>3
<1>6. /\ a \in {1, 2, 4, 8, 16} /\ u' = [u EXCEPT ![n] = a]
      /\ pc \in InIteration /\ pc' \in {"search", "aborted"}
      /\ streams' \in {"open", "closed"} /\ nrm0' \in Norm
  BY <1>1, <1>2, <1>4, <1>5 DEF InIteration
<1> QED
  BY <1>1, <1>4, <1>5, <1>6, StepKeeps

(* The increment is scaled as it was applied and enters the basis.         *)
LEMMA FinishKeeps == ASSUME NewtonIInv, FinishIteration PROVE NewtonIInv'
<1>1. /\ TypeOK /\ IterateConsistent /\ Budget /\ StepsTaken /\ RingPosition
      /\ ColumnsApplied /\ ColumnsDiffer
      /\ pc = "search" /\ ~MustHalve /\ x' = (x * alpha) \div 16 /\ it' = it + 1
      /\ \/ UNCHANGED rb
         \/ RBdim > 0 /\ x' > 0 /\ RB!UpdateRB([solve |-> n, step |-> x'])
      /\ \/ pc' = "idle"
         \/ pc' = "solve" /\ it + 1 # maxit
      /\ UNCHANGED <<u, uh, udg, normOf, nrm0, nrmr, n, alpha, calls, streams>>
  BY DEF FinishIteration, Scaled, LastIteration, NewtonIInv
<1>2. /\ maxit \in Nat \ {0} /\ MaxCalls \in Nat /\ RBdim \in Nat /\ n \in Nat /\ n > 0
      /\ it \in Nat /\ it < maxit /\ calls \in Nat /\ calls > 0 /\ calls <= MaxCalls
      /\ n <= maxit * (calls - 1) + it + 1
      /\ n \in Solves /\ u[n] = alpha /\ alpha \in {1, 2, 4, 8, 16} /\ x \in {0, 16}
      /\ RBcurrentdim \in 0 .. RBdim /\ RBremovedind \in Nat
  BY <1>1, Numbers, CurrentSolve
     DEF Budget, TypeOK, RB!RBTypeOK, StepsTaken, IterateConsistent, InIteration
<1>3. x' \in 0 .. 16 /\ (x' > 0 => x' = alpha)
  BY <1>1, <1>2, SMT
<1>4. Budget'
  <2>1. /\ maxit * (calls - 1) \in Nat /\ maxit * calls = maxit * (calls - 1) + maxit
    BY <1>2, BlockOfCall
  <2> QED
    BY <1>1, <1>2, <2>1 DEF Budget, InIteration
<1>5. StepsTaken' /\ IterateConsistent'
  BY <1>1 DEF StepsTaken, IterateConsistent, InIteration
<1>6. FailureVisible'
  <2>1. Less(nrm0, nrmr) => ~(10 * alpha > 16)
    BY <1>1 DEF MustHalve
  <2>2. ~(10 * alpha > 16) => 10 * alpha < 16
    BY <1>2, SMT
  <2> QED
    BY <1>1, <2>1, <2>2 DEF FailureVisible, Less
<1>7. it' \in 0 .. maxit /\ pc' \in {"idle", "solve"}
  BY <1>1, <1>2
<1>8. CASE UNCHANGED rb
  <2>1. RB!RBTypeOK' /\ RingPosition' /\ ColumnsDiffer'
    BY <1>8, RingUntouched
  <2>2. TypeOK'
    BY <1>1, <1>3, <1>7, <2>1 DEF TypeOK
  <2>3. ColumnsApplied'
    BY <1>1, <1>7, <1>8 DEF ColumnsApplied, InIteration, rb
  <2> QED
    BY <1>4, <1>5, <1>6, <2>1, <2>2, <2>3 DEF NewtonIInv
<1>9. CASE RBdim > 0 /\ x' > 0 /\ RB!UpdateRB([solve |-> n, step |-> x'])
  <2> DEFINE new == [solve |-> n, step |-> x']
  <2>1. /\ RBremovedind \in RB!Column /\ W \in [RB!Column -> Increment \cup {Never}]
        /\ W' = [W EXCEPT ![RBremovedind] = new] /\ U' = U
        /\ new \in Increment /\ new.solve = n /\ new.step = alpha
    BY <1>1, <1>2, <1>3, <1>9
       DEF RB!UpdateRB, RB!Column, RingPosition, TypeOK, RB!RBTypeOK, Increment
  <2>2. RBcurrentdim' \in 0 .. RBdim /\ RBremovedind' \in 0 .. RBdim /\ RingPosition'
    BY <1>1, <1>2, <1>9 DEF RB!UpdateRB, RingPosition
  <2>3. RB!RBTypeOK'
    BY <1>1, <2>1, <2>2 DEF TypeOK, RB!RBTypeOK, RB!Column
  <2>4. TypeOK'
    BY <1>1, <1>3, <1>7, <2>3 DEF TypeOK
  <2> HIDE DEF new
  <2>5. ColumnsApplied'
    <3> SUFFICES ASSUME NEW c \in RB!Column, W'[c] # Never
                 PROVE  W'[c].solve \in 1 .. n /\ W'[c].step = u[W'[c].solve]
      BY <1>1, <1>7 DEF ColumnsApplied, InIteration, RB!Column
    <3>1. CASE c = RBremovedind
      BY <1>2, <2>1, <3>1
    <3>2. CASE c # RBremovedind
      BY <1>1, <2>1, <3>2 DEF ColumnsApplied
    <3> QED
      BY <3>1, <3>2
  <2>6. ColumnsDiffer'
    <3> SUFFICES ASSUME NEW c \in RB!Column, NEW d \in RB!Column, c # d,
                        W'[c] # Never, W'[d] # Never
                 PROVE  W'[c].solve # W'[d].solve
      BY DEF ColumnsDiffer, RB!Column
    <3>1. \A e \in RB!Column \ {RBremovedind} : W'[e] = W[e]
      BY <2>1
    <3>2. \A e \in RB!Column : W[e] # Never => W[e].solve # n
      BY <1>1 DEF ColumnsApplied, InIteration
    <3>3. W'[RBremovedind].solve = n
      BY <2>1
    <3>4. CASE c = RBremovedind \/ d = RBremovedind
      BY <3>1, <3>2, <3>3, <3>4
    <3>5. CASE c # RBremovedind /\ d # RBremovedind
      BY <1>1, <3>1, <3>5 DEF ColumnsDiffer
    <3> QED
      BY <3>4, <3>5
  <2> QED
    BY <1>4, <1>5, <1>6, <2>2, <2>4, <2>5, <2>6 DEF NewtonIInv
<1> QED
  BY <1>1, <1>8, <1>9

(* Every step keeps the invariant.                                         *)
LEMMA NewtonStep == ASSUME NewtonIInv, [Next]_vars PROVE NewtonIInv'
<1>1. ASSUME NEW r0 \in Norm, Call(r0) PROVE NewtonIInv'
  BY <1>1, CallKeeps
<1>2. ASSUME NEW r0 \in Norm, FullStep(r0) PROVE NewtonIInv'
  BY <1>2, FullStepKeeps
<1>3. ASSUME NEW r0 \in Norm, Halve(r0) PROVE NewtonIInv'
  BY <1>3, HalveKeeps
<1>4. ASSUME NEW zero \in BOOLEAN, Solve(zero) PROVE NewtonIInv'
  BY <1>4, SolveKeeps
<1>5. CASE FinishIteration
  BY <1>5, FinishKeeps
<1>6. CASE UNCHANGED vars
  <2>1. UNCHANGED rb
    BY <1>6 DEF vars, rb
  <2> QED
    BY <1>6, <2>1, RingUntouched
       DEF vars, NewtonIInv, TypeOK, IterateConsistent, Budget, StepsTaken,
           ColumnsApplied, FailureVisible
<1> QED
  BY <1>1, <1>2, <1>3, <1>4, <1>5, <1>6 DEF Next

(* The inductive invariant of Newton's method holds in every state.        *)
THEOREM NewtonInvariant == Spec => []NewtonIInv
<1> QED
  BY NewtonInit, NewtonStep, PTL DEF Spec

-----------------------------------------------------------------------------
(* The three copies of the unknown agree, the line search leaves the last  *)
(* increment with the step alpha, and the norm is that of the iterate.     *)
THEOREM CopiesAgree == Spec => []NewtonInv
<1>1. NewtonIInv => NewtonInv
  BY DEF NewtonIInv, NewtonInv
<1> QED
  BY <1>1, NewtonInvariant, PTL

(* The basis holds increments as they were applied, each at most once.     *)
THEOREM BasisHoldsAppliedSteps == Spec => []BasisHoldsSteps
<1>1. NewtonIInv => BasisHoldsSteps
  BY DEF NewtonIInv, ColumnsApplied, ColumnsDiffer, BasisHoldsSteps
<1> QED
  BY <1>1, NewtonInvariant, PTL

(* A caller that looks at alpha sees every iteration that ended with a     *)
(* larger norm than it started from.                                       *)
THEOREM FailureIsVisible == Spec => []FailureVisible
<1>1. NewtonIInv => FailureVisible
  BY DEF NewtonIInv
<1> QED
  BY <1>1, NewtonInvariant, PTL
=============================================================================
