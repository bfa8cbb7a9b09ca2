-------------------------- MODULE AccumulationProofs --------------------------
(***************************************************************************)
(* The innermost and the outermost loop of the solver.  Both add up a      *)
(* solution from vectors in arrays that the loop itself writes again:      *)
(* restarted GMRES from the columns of its basis, a DIRK time step from    *)
(* its stages.                                                             *)
(*                                                                         *)
(* GMRES, for every maxit and nrest: types, the columns of every update,   *)
(* the residual a cycle restarts from, and what a result below maxit means.*)
(* The invariant counts: all cycles but the last ran through nrest columns,*)
(* so that the iterations in all are nrest for each of them and i for the  *)
(* last.  It is what bounds the cycles and what finds each iteration among *)
(* the columns x has taken.                                                *)
(*                                                                         *)
(* Time stepping, for every number of models and of steps and any          *)
(* coefficients with the divisors the code divides by: the solution of a   *)
(* step, the source of a stage, the coupling and the frames.  The          *)
(* invariant says what each model holds after its last stage, which is     *)
(* that of the loop or the one before, depending on the model.             *)
(***************************************************************************)
EXTENDS Gmres, TimeStepping, TLAPS


(* i and j count the same columns.                                         *)
Counting ==
  /\ pc = "entry" => cycle = 0 /\ updates = 0
  /\ cycle = 0 => i = 0 /\ j = 0
  /\ cycle > 0 => j = (cycle - 1) * nrest + i /\ (cycle - 1) * nrest < maxit
  /\ pc \in {"inner", "converged"} => cycle > 0 /\ updates = cycle - 1
  /\ pc \in {"entry", "outer", "returned"} => updates = cycle
  /\ pc = "outer" /\ cycle > 0 => i = nrest \/ j = maxit
  /\ pc = "converged" => InCycle

(* The columns of the running cycle, the one that converged included.      *)
Computed ==
  /\ pc = "inner" => \A col \in 0 .. i - 1 : H[col] = cycle
  /\ pc = "converged" => \A col \in 0 .. i : H[col] = cycle

(* Update k took the columns of cycle k, of the last cycle as many as it   *)
(* has.                                                                    *)
Taken ==
  \A k \in 1 .. updates : \A col \in 0 .. nrest - 1 :
    (k - 1) * nrest + col < j => <<k, k, col>> \in x

(* What is known of the residual and of the error when GMRES returns.      *)
Outcome ==
  /\ pc = "converged" => relError = "below"
  /\ result # -1 => pc = "returned"
  /\ FewerMeansConverged

CycleInv ==
  /\ TypeOK /\ Counting /\ Computed /\ Taken /\ Outcome

-----------------------------------------------------------------------------
(* The arithmetic of cycles of n columns.                                  *)
LEMMA ProductType ==
  ASSUME NEW a \in Nat, NEW n \in Nat \ {0}
  PROVE  /\ a * n \in Nat /\ a <= a * n
         /\ (a + 1) * n = a * n + n
  BY SMT

(* A cycle later means at least n columns later.                           *)
LEMMA LaterCycle ==
  ASSUME NEW a \in Nat, NEW b \in Nat, NEW n \in Nat \ {0}, a < b
  PROVE  a * n + n <= b * n
  BY SMT

(* An iteration is a cycle and a column.                                   *)
LEMMA Position ==
  ASSUME NEW k \in Nat, NEW n \in Nat \ {0}
  PROVE  /\ k \div n \in Nat /\ k % n \in 0 .. n - 1
         /\ k = (k \div n) * n + (k % n)
  BY SMT

(* If n divides the iterations in all, the last cycle is a whole one.      *)
LEMMA LastCycleIsWhole ==
  ASSUME NEW m \in Nat, NEW n \in Nat \ {0}, NEW a \in Nat, NEW col \in 1 .. n,
         m % n = 0, m = a * n + col
  PROVE  col = n
  BY SMT

(* The bounds are positive numbers.                                        *)
LEMMA InputTypes ==
  ASSUME TypeOK
  PROVE  /\ maxit \in Nat \ {0} /\ nrest \in Nat \ {0}
         /\ i \in Nat /\ j \in Nat /\ cycle \in Nat /\ updates \in Nat
  BY BoundsAssumption DEF TypeOK

-----------------------------------------------------------------------------
(* The invariant holds when GMRES is called.                               *)
LEMMA CycleInit == Init => CycleInv
<1> SUFFICES ASSUME Init PROVE CycleInv
  OBVIOUS
<1> USE BoundsAssumption DEF Init
<1>1. TypeOK
  BY DEF TypeOK, RelErrors
<1>2. Counting /\ Computed
  BY DEF Counting, Computed, InCycle
<1>3. Taken
  BY DEF Taken
<1>4. Outcome
  BY <1>1 DEF Outcome, FewerMeansConverged, TypeOK
<1> QED
  BY <1>1, <1>2, <1>3, <1>4 DEF CycleInv

(* A new cycle: the number of cycles stays below maxit.                    *)
LEMMA StartCycleKeeps == ASSUME CycleInv, StartCycle PROVE CycleInv'
<1> DEFINE start == cycle * nrest
<1>1. /\ TypeOK /\ Counting /\ Taken /\ Outcome
      /\ pc = "outer" /\ j < maxit /\ cycle' = cycle + 1 /\ i' = 0 /\ pc' = "inner"
      /\ UNCHANGED <<maxit, nrest, hybrid, j, H, x, updates, relError, result>>
  BY DEF CycleInv, StartCycle, inputs
<1>2. /\ maxit \in Nat \ {0} /\ nrest \in Nat \ {0} /\ cycle \in Nat
      /\ i \in Nat /\ j \in Nat /\ updates = cycle
  BY <1>1, InputTypes DEF Counting
<1>3. start \in Nat /\ cycle <= start
  BY <1>2, ProductType
<1>4. j = start
  <2>1. CASE cycle = 0
    BY <1>1, <1>2, <2>1, SMT DEF Counting
  <2>2. CASE cycle > 0
    <3>1. i = nrest /\ j = (cycle - 1) * nrest + i
      <4>1. j # maxit
        BY <1>1, <1>2
      <4> QED
        BY <1>1, <2>2, <4>1, Zenon DEF Counting
    <3>2. cycle - 1 \in Nat /\ (cycle - 1) + 1 = cycle
      BY <1>2, <2>2
    <3> QED
      BY <1>2, <3>1, <3>2, ProductType
  <2> QED
    BY <1>2, <2>1, <2>2
<1>5. TypeOK'
  BY <1>1, <1>2, <1>3, <1>4, SMT DEF TypeOK
<1>6. Counting'
  <2>1. cycle' - 1 = cycle /\ cycle' > 0
    BY <1>1, <1>2
  <2> QED
    BY <1>1, <1>2, <1>3, <1>4, <2>1 DEF Counting
<1>7. Computed' /\ Taken' /\ Outcome'
  BY <1>1 DEF Computed, Taken, Outcome, FewerMeansConverged
<1> QED
  BY <1>5, <1>6, <1>7 DEF CycleInv

(* A column belongs to the running cycle.                                  *)
LEMMA ColumnKeeps ==
  ASSUME CycleInv, NEW e \in RelErrors, Column(e)
  PROVE  CycleInv'
<1>1. /\ TypeOK /\ Counting /\ Computed /\ Taken /\ Outcome
      /\ pc = "inner" /\ i < nrest /\ j < maxit /\ H' = [H EXCEPT ![i] = cycle]
      /\ relError' = e
      /\ UNCHANGED <<maxit, nrest, hybrid, cycle, x, updates, result>>
  BY DEF CycleInv, Column, InCycle, inputs
<1>2. /\ maxit \in Nat \ {0} /\ nrest \in Nat \ {0} /\ cycle \in Nat
      /\ i \in Nat /\ j \in Nat
      /\ cycle > 0 /\ updates = cycle - 1
  BY <1>1, InputTypes DEF Counting
<1>3. i \in 0 .. nrest - 1 /\ cycle \in 0 .. maxit
  BY <1>1, <1>2 DEF TypeOK
<1>4. H \in [0 .. nrest - 1 -> 0 .. maxit] /\ H' \in [0 .. nrest - 1 -> 0 .. maxit]
  BY <1>1, <1>3 DEF TypeOK
<1>5. \A col \in 0 .. i : H'[col] = cycle
  BY <1>1, <1>2, <1>3, <1>4 DEF Computed
<1>6. CASE e = "below"
  <2>1. pc' = "converged" /\ UNCHANGED <<i, j>>
    BY <1>6 DEF Column
  <2>2. TypeOK' /\ Counting'
    BY <1>1, <1>2, <1>4, <2>1 DEF TypeOK, Counting, InCycle
  <2>3. Computed' /\ Taken'
    BY <1>1, <1>5, <2>1 DEF Computed, Taken
  <2>4. Outcome'
    BY <1>1, <1>6, <2>1 DEF Outcome, FewerMeansConverged, TypeOK
  <2> QED
    BY <2>2, <2>3, <2>4 DEF CycleInv
<1>7. CASE e # "below"
  <2>1. i' = i + 1 /\ j' = j + 1 /\ pc' = pc
    BY <1>7 DEF Column
  <2>2. i + 1 \in 0 .. nrest /\ j + 1 \in 0 .. maxit
    BY <1>1, <1>2
  <2>3. TypeOK'
    BY <1>1, <1>4, <2>1, <2>2 DEF TypeOK
  <2>4. Counting'
    <3>1. (cycle - 1) * nrest \in Nat /\ j = (cycle - 1) * nrest + i
          /\ (cycle - 1) * nrest < maxit
      BY <1>1, <1>2, ProductType DEF Counting
    <3> QED
      BY <1>1, <1>2, <2>1, <3>1 DEF Counting
  <2>5. Computed'
    BY <1>1, <1>2, <1>5, <2>1 DEF Computed
  <2>6. Taken'
    <3> SUFFICES ASSUME NEW k \in 1 .. updates, NEW col \in 0 .. nrest - 1,
                        (k - 1) * nrest + col < j + 1
                 PROVE  <<k, k, col>> \in x
      BY <1>1, <2>1 DEF Taken
    <3>1. k - 1 \in Nat /\ cycle - 1 \in Nat /\ k - 1 < cycle - 1
          /\ (k - 1) * nrest \in Nat /\ (cycle - 1) * nrest \in Nat
      BY <1>2, ProductType
    <3>2. (k - 1) * nrest + nrest <= (cycle - 1) * nrest
      BY <1>2, <3>1, LaterCycle
    <3>3. (k - 1) * nrest + col < j
      BY <1>1, <1>2, <3>1, <3>2, SMT DEF Counting
    <3> QED
      BY <1>1, <3>3 DEF Taken
  <2>7. Outcome'
    BY <1>1, <2>1 DEF Outcome, FewerMeansConverged, TypeOK
  <2> QED
    BY <2>3, <2>4, <2>5, <2>6, <2>7 DEF CycleInv
<1> QED
  BY <1>6, <1>7

(* An update with the columns 0 .. last of the running cycle takes all the *)
(* iterations made: none is lost when the cycle ends.                      *)
LEMMA UpdateTakesCycle ==
  ASSUME CycleInv, pc \in {"inner", "converged"}, NEW last \in i - 1 .. nrest - 1,
         UpdateSolution(last), UNCHANGED <<nrest, j>>
  PROVE  /\ x' \in SUBSET ((1 .. maxit) \X (0 .. maxit) \X (0 .. nrest - 1))
         /\ updates' = cycle /\ updates' \in 0 .. maxit
         /\ Taken'
<1>1. /\ TypeOK /\ Counting /\ Computed /\ Taken
      /\ x' = x \cup {<<updates + 1, H[col], col>> : col \in 0 .. last}
      /\ updates' = updates + 1
  BY DEF CycleInv, UpdateSolution
<1>2. /\ maxit \in Nat \ {0} /\ nrest \in Nat \ {0} /\ cycle \in Nat
      /\ i \in Nat /\ j \in Nat /\ i <= nrest /\ cycle <= maxit
      /\ cycle > 0 /\ updates = cycle - 1
      /\ j = (cycle - 1) * nrest + i
  BY <1>1, InputTypes DEF Counting, TypeOK
<1>3. updates' = cycle /\ updates' \in 0 .. maxit /\ updates + 1 \in 1 .. maxit
  BY <1>1, <1>2
<1>4. x' \in SUBSET ((1 .. maxit) \X (0 .. maxit) \X (0 .. nrest - 1))
  <2>1. \A col \in 0 .. last : col \in 0 .. nrest - 1 /\ H[col] \in 0 .. maxit
    BY <1>1, <1>2 DEF TypeOK
  <2>2. \A col \in 0 .. last : <<updates + 1, H[col], col>> \in
          (1 .. maxit) \X (0 .. maxit) \X (0 .. nrest - 1)
    BY <1>3, <2>1
  <2> QED
    BY <1>1, <2>2 DEF TypeOK
<1>5. Taken'
  <2> SUFFICES ASSUME NEW k \in 1 .. cycle, NEW col \in 0 .. nrest - 1,
                      (k - 1) * nrest + col < j
               PROVE  <<k, k, col>> \in x'
    BY <1>3 DEF Taken
  <2>1. CASE k = cycle
    <3>1. (k - 1) * nrest \in Nat
      BY <1>2, ProductType
    <3>2. col \in 0 .. i - 1
      BY <1>2, <2>1, <3>1
    <3>3. H[col] = cycle /\ col \in 0 .. last
      BY <1>1, <1>2, <3>2 DEF Computed
    <3> QED
      BY <1>1, <1>2, <2>1, <3>3
  <2>2. CASE k # cycle
    BY <1>1, <1>2, <2>2 DEF Taken
  <2> QED
    BY <2>1, <2>2
<1> QED
  BY <1>3, <1>4, <1>5

(* The cycle that converged is shorter by the iteration not counted.       *)
LEMMA UpdateAndReturnKeeps == ASSUME CycleInv, UpdateAndReturn PROVE CycleInv'
<1>1. /\ TypeOK /\ Counting /\ Outcome
      /\ pc = "converged" /\ UpdateSolution(i) /\ pc' = "returned" /\ result' = j
      /\ UNCHANGED <<maxit, nrest, hybrid, i, j, cycle, H, relError>>
  BY DEF CycleInv, UpdateAndReturn, Return, inputs
<1>2. i \in i - 1 .. nrest - 1
  BY <1>1, InputTypes DEF Counting, InCycle
<1>3. /\ x' \in SUBSET ((1 .. maxit) \X (0 .. maxit) \X (0 .. nrest - 1))
      /\ updates' = cycle /\ updates' \in 0 .. maxit /\ Taken'
  BY <1>1, <1>2, UpdateTakesCycle
<1>4. TypeOK'
  BY <1>1, <1>3, InputTypes DEF TypeOK
<1>5. Counting' /\ Computed'
  BY <1>1, <1>3 DEF Counting, Computed
<1>6. Outcome'
  BY <1>1 DEF Outcome, FewerMeansConverged
<1> QED
  BY <1>3, <1>4, <1>5, <1>6 DEF CycleInv

(* The end of a cycle.                                                     *)
LEMMA EndCycleKeeps ==
  ASSUME CycleInv, NEW e \in RelErrors, EndCycle(e)
  PROVE  CycleInv'
<1>1. /\ TypeOK /\ Counting /\ Outcome
      /\ pc = "inner" /\ ~(i < nrest /\ j < maxit)
      /\ UpdateSolution(LastColumn) /\ relError' = e
      /\ UNCHANGED <<maxit, nrest, hybrid, i, j, cycle, H>>
      /\ \/ e = "below" /\ pc' = "returned" /\ result' = j
         \/ e # "below" /\ pc' = "outer" /\ result' = result
  BY DEF CycleInv, EndCycle, Return, inputs, InCycle, Converged
<1>2. LastColumn \in i - 1 .. nrest - 1
  BY <1>1, InputTypes DEF LastColumn, TypeOK
<1>3. /\ x' \in SUBSET ((1 .. maxit) \X (0 .. maxit) \X (0 .. nrest - 1))
      /\ updates' = cycle /\ updates' \in 0 .. maxit /\ Taken'
  BY <1>1, <1>2, UpdateTakesCycle
<1>4. /\ maxit \in Nat /\ nrest \in Nat /\ i \in 0 .. nrest /\ j \in 0 .. maxit
  BY <1>1, InputTypes DEF TypeOK
<1>5. TypeOK'
  BY <1>1, <1>3, <1>4 DEF TypeOK
<1>6. Counting'
  BY <1>1, <1>3, <1>4 DEF Counting
<1>7. Computed'
  BY <1>1 DEF Computed
<1>8. Outcome'
  BY <1>1 DEF Outcome, FewerMeansConverged
<1> QED
  BY <1>3, <1>5, <1>6, <1>7, <1>8 DEF CycleInv

(* Every step keeps the invariant.                                         *)
LEMMA CycleStep == ASSUME CycleInv, [Next]_vars PROVE CycleInv'
<1>1. CASE NothingToDo
  <2>1. /\ TypeOK /\ Counting /\ Outcome /\ pc = "entry" /\ x' = {}
        /\ pc' = "returned" /\ result' = 0
        /\ UNCHANGED <<maxit, nrest, hybrid, i, j, cycle, H, updates, relError>>
    BY <1>1 DEF CycleInv, NothingToDo, Return, inputs
  <2>2. TypeOK' /\ Counting' /\ Computed'
    BY <2>1, InputTypes DEF TypeOK, Counting, Computed
  <2>3. updates = 0
    BY <2>1 DEF Counting
  <2>4. Taken' /\ Outcome'
    BY <2>1, <2>3 DEF Taken, Outcome, FewerMeansConverged
  <2> QED
    BY <2>2, <2>4 DEF CycleInv
<1>2. CASE Enter
  <2>1. /\ CycleInv /\ pc = "entry" /\ pc' = "outer"
        /\ UNCHANGED <<maxit, nrest, hybrid, i, j, cycle, H, x, updates, relError, result>>
    BY <1>2 DEF Enter, inputs
  <2>2. TypeOK' /\ Counting' /\ Computed'
    BY <2>1, InputTypes DEF CycleInv, TypeOK, Counting, Computed
  <2>3. Taken' /\ Outcome'
    BY <2>1 DEF CycleInv, Taken, Outcome, FewerMeansConverged
  <2> QED
    BY <2>2, <2>3 DEF CycleInv
<1>3. CASE StartCycle
  BY <1>3, StartCycleKeeps
<1>4. CASE Exhausted
  <2>1. /\ CycleInv /\ pc = "outer" /\ j >= maxit /\ pc' = "returned" /\ result' = j
        /\ UNCHANGED <<maxit, nrest, hybrid, i, j, cycle, H, x, updates, relError>>
    BY <1>4 DEF Exhausted, Return, inputs
  <2>2. TypeOK' /\ Counting' /\ Computed'
    BY <2>1, InputTypes DEF CycleInv, TypeOK, Counting, Computed
  <2>3. Taken' /\ Outcome'
    BY <2>1, InputTypes
       DEF CycleInv, Taken, Outcome, FewerMeansConverged
  <2> QED
    BY <2>2, <2>3 DEF CycleInv
<1>5. CASE UpdateAndReturn
  BY <1>5, UpdateAndReturnKeeps
<1>6. ASSUME NEW e \in RelErrors, Column(e) PROVE CycleInv'
  BY <1>6, ColumnKeeps
<1>7. ASSUME NEW e \in RelErrors, EndCycle(e) PROVE CycleInv'
  BY <1>7, EndCycleKeeps
<1>8. CASE UNCHANGED vars
  BY <1>8 DEF vars, inputs, CycleInv, TypeOK, Counting, Computed, Taken, Outcome,
              InCycle, FewerMeansConverged
<1> QED
  BY <1>1, <1>2, <1>3, <1>4, <1>5, <1>6, <1>7, <1>8 DEF Next

(* The inductive invariant of the cycles holds in every reachable state.   *)
THEOREM CycleInvariant == Spec => []CycleInv
<1> QED
  BY CycleInit, CycleStep, PTL DEF Spec

-----------------------------------------------------------------------------
(* For every maxit and nrest no column beyond nrest is computed, at most   *)
(* maxit cycles run, and every iteration counts: x takes its column, those *)
(* of a last cycle that maxit cuts short included.                         *)
THEOREM NoIterationIsLost == Spec => []GmresInv
<1>1. CycleInv => GmresInv
  <2> SUFFICES ASSUME CycleInv PROVE NoColumnLost
    BY DEF CycleInv, GmresInv
  <2>1. TypeOK /\ Counting /\ Taken
    BY DEF CycleInv
  <2> SUFFICES ASSUME pc \in {"outer", "returned"}, updates > 0, NEW k \in 0 .. j - 1
               PROVE  <<(k \div nrest) + 1, (k \div nrest) + 1, k % nrest>> \in x
    BY DEF NoColumnLost
  <2>2. /\ nrest \in Nat \ {0} /\ updates \in Nat /\ i \in Nat /\ i <= nrest
        /\ j \in Nat /\ k \in Nat
        /\ updates = cycle /\ j = (updates - 1) * nrest + i
    <3>1. /\ nrest \in Nat \ {0} /\ updates \in Nat /\ i \in Nat /\ i <= nrest
          /\ j \in Nat /\ k \in Nat
      BY <2>1, InputTypes DEF TypeOK
    <3>2. updates = cycle /\ j = (updates - 1) * nrest + i
      BY <2>1, <3>1 DEF Counting
    <3> QED
      BY <3>1, <3>2
  <2> DEFINE q == k \div nrest
             col == k % nrest
  <2>3. q \in Nat /\ col \in 0 .. nrest - 1 /\ k = q * nrest + col
    BY <2>2, Position
  <2> HIDE DEF q, col
  <2>4. q < updates
    <3>1. SUFFICES ASSUME updates <= q PROVE FALSE
      BY <2>2, <2>3
    <3>2. updates - 1 \in Nat /\ updates - 1 < q
      BY <2>2, <2>3, <3>1
    <3>3. (updates - 1) * nrest + nrest <= q * nrest
      BY <2>2, <2>3, <3>2, LaterCycle
    <3>4. (updates - 1) * nrest \in Nat /\ q * nrest \in Nat
      BY <2>2, <2>3, <3>2, ProductType
    <3> QED
      BY <2>2, <2>3, <3>3, <3>4
  <2>5. q + 1 \in 1 .. updates /\ (q + 1) - 1 = q
    BY <2>2, <2>3, <2>4
  <2>6. <<q + 1, q + 1, col>> \in x
    <3>1. ((q + 1) - 1) * nrest + col < j
      BY <2>2, <2>3, <2>5
    <3> QED
      BY <2>1, <2>3, <2>5, <3>1 DEF Taken
  <2> QED
    BY <2>6 DEF q, col
<1> QED
  BY <1>1, CycleInvariant, PTL

-----------------------------------------------------------------------------
(* LDG solves are given a maxit that nrest divides; HDG solves need not be.*)
Whole == hybrid = 0 => maxit % nrest = 0

(* Where each column x has taken was computed.                             *)
SourcesInv == CycleInv /\ Whole /\ UpdateUsesComputed

(* An update with the columns of the running cycle is one of that cycle.   *)
LEMMA UpdateFromCycle ==
  ASSUME SourcesInv, pc \in {"inner", "converged"}, NEW last \in Int,
         \A col \in 0 .. last : H[col] = cycle, UpdateSolution(last)
  PROVE  UpdateUsesComputed'
<1>1. updates + 1 = cycle
  BY InputTypes DEF SourcesInv, CycleInv, Counting
<1>2. x' = x \cup {<<updates + 1, H[col], col>> : col \in 0 .. last}
  BY DEF UpdateSolution
<1> SUFFICES ASSUME NEW p \in x' PROVE p[2] = p[1]
  BY DEF UpdateUsesComputed
<1>3. CASE p \in x
  BY <1>3 DEF SourcesInv, UpdateUsesComputed
<1>4. CASE p \notin x
  <2>1. PICK col \in 0 .. last : p = <<updates + 1, H[col], col>>
    BY <1>2, <1>4
  <2> QED
    BY <1>1, <2>1
<1> QED
  BY <1>3, <1>4

(* Every update takes columns of its own cycle: in HDG because it stops at *)
(* the last one, in LDG because a cycle that maxit cuts short would have   *)
(* to be a whole one.                                                      *)
LEMMA SourcesStep == ASSUME SourcesInv, [Next]_vars PROVE SourcesInv'
<1>1. CycleInv /\ CycleInv'
  BY CycleStep DEF SourcesInv
<1>2. Whole'
  BY DEF SourcesInv, Whole, Next, vars, inputs, NothingToDo, Enter, StartCycle,
         Exhausted, UpdateAndReturn, Column, EndCycle
<1>3. UpdateUsesComputed'
  <2>1. CASE UNCHANGED x \/ x' = {}
    BY <2>1 DEF SourcesInv, UpdateUsesComputed
  <2>2. CASE UpdateAndReturn
    <3>1. /\ pc = "converged" /\ UpdateSolution(i)
          /\ i \in Int /\ \A col \in 0 .. i : H[col] = cycle
      BY <1>1, <2>2, InputTypes DEF UpdateAndReturn, CycleInv, Computed
    <3> QED
      BY <3>1, UpdateFromCycle
  <2>3. ASSUME NEW e \in RelErrors, EndCycle(e) PROVE UpdateUsesComputed'
    <3>1. /\ pc = "inner" /\ UpdateSolution(LastColumn) /\ ~InCycle
          /\ TypeOK /\ Counting /\ Whole
          /\ \A col \in 0 .. i - 1 : H[col] = cycle
      BY <1>1, <2>3 DEF EndCycle, CycleInv, Computed, SourcesInv
    <3>2. LastColumn = i - 1
      <4>1. CASE hybrid = 1
        BY <4>1 DEF LastColumn
      <4>2. CASE hybrid = 0
        <5>1. /\ maxit \in Nat /\ nrest \in Nat \ {0} /\ maxit % nrest = 0
              /\ i \in 0 .. nrest /\ j \in 0 .. maxit /\ cycle - 1 \in Nat
              /\ j = (cycle - 1) * nrest + i /\ (cycle - 1) * nrest < maxit
          BY <3>1, <4>2, InputTypes DEF Counting, Whole, TypeOK
        <5>2. CASE i = nrest
          BY <4>2, <5>2 DEF LastColumn
        <5>3. CASE i # nrest
          <6>1. j = maxit
            BY <3>1, <5>1, <5>3 DEF InCycle
          <6>2. (cycle - 1) * nrest \in Nat
            BY <5>1, ProductType
          <6>3. i \in 1 .. nrest
            BY <5>1, <6>1, <6>2
          <6> QED
            BY <5>1, <5>3, <6>1, <6>3, LastCycleIsWhole
        <5> QED
          BY <5>2, <5>3
      <4> QED
        BY <3>1, <4>1, <4>2 DEF TypeOK
    <3> QED
      BY <3>1, <3>2, InputTypes, UpdateFromCycle
  <2> QED
    BY <2>1, <2>2, <2>3
       DEF Next, vars, NothingToDo, Enter, StartCycle, Exhausted, Column
<1> QED
  BY <1>1, <1>2, <1>3 DEF SourcesInv

(* With whole cycles for LDG, and with any maxit for HDG, the n-th update  *)
(* of x uses columns that cycle n computed: none left in H and v by an     *)
(* earlier cycle and none that was never written.                          *)
THEOREM UpdatesUseTheirCycle == WholeCycles => (Spec => []UpdateUsesComputed)
<1> SUFFICES ASSUME WholeCycles PROVE Spec => []UpdateUsesComputed
  OBVIOUS
<1>1. Init => SourcesInv
  BY CycleInit DEF Init, SourcesInv, Whole, UpdateUsesComputed
<1>2. SourcesInv /\ [Next]_vars => SourcesInv'
  BY SourcesStep
<1>3. SourcesInv => UpdateUsesComputed
  BY DEF SourcesInv
<1> QED
  BY <1>1, <1>2, <1>3, PTL DEF Spec

-----------------------------------------------------------------------------
(* The result of a solve tells its callers the truth: if it is positive    *)
(* and below maxit, the error is below the tolerance.                      *)
THEOREM ResultBelowMaxitIsConverged == Spec => []FewerMeansConverged
<1>1. CycleInv => FewerMeansConverged
  BY DEF CycleInv, Outcome
<1> QED
  BY <1>1, CycleInvariant, PTL

-----------------------------------------------------------------------------
(* The time loop.                                                          *)


(* The scheme does not change.                                             *)
Scheme ==
  /\ c \in [Stage -> Coeff]
  /\ d \in LowerTriangular
  /\ Divisible(d)

(* Where the loops are.                                                    *)
Loops ==
  /\ istep \in 0 .. tsteps /\ currentstage \in Stage /\ model \in Models
  /\ phase \in {"previous", "stage", "save"}
  /\ phase # "previous" => istep < tsteps
  /\ phase = "save" => model = 0

(* The old solution and the stages up to k, as utmp adds them up.          *)
PartialSum(k) ==
  [b \in Basis |-> IF b = 0 THEN 1 - SumC ELSE IF b <= k THEN c[b] ELSE 0]

(* What a model holds after k stages of the step.                          *)
Solved(m, k) ==
  /\ udgprev[m] = Unit(0)
  /\ utmp[m] = PartialSum(k)
  /\ udg[m] = IF k = tstages THEN PartialSum(k) ELSE Unit(k)
  /\ k > 0 => /\ u[m] = Unit(k)
              /\ sdg[m] = ButcherSource(k)
              /\ \A l \in Models \ {m} :
                   LET stage == IF l < m THEN k ELSE k - 1
                   IN odg[m][l] = [step |-> istep, of |-> StageSolution(stage)]

DirkInv ==
  /\ Scheme /\ Loops
  /\ udg \in [Models -> Vector] /\ u \in [Models -> Vector]
  /\ utmp \in [Models -> Vector] /\ udgprev \in [Models -> Vector]
  /\ sdg \in [Models -> Vector]
  /\ odg \in [Models -> [Models -> Copies]]
  /\ frames \in [Models -> Seq(Vector)]
  /\ phase # "previous" => \A m \in Models : Solved(m, StageOf(m))
  /\ ~(saveSolOpt = 0 /\ LDG) => FramesAreSolutions

-----------------------------------------------------------------------------
(* Operators.                                                              *)

(* There are one to three stages.                                          *)
LEMMA FewStages == tstages \in Nat /\ (tstages = 1 \/ tstages = 2 \/ tstages = 3)
  BY StagesAssumption

(* The sum over the stages.                                                *)
LEMMA SumValue ==
  ASSUME NEW v \in [Stage -> Int]
  PROVE  /\ SumOf(v) \in Int
         /\ tstages = 1 => SumOf(v) = v[1]
         /\ tstages = 2 => SumOf(v) = v[1] + v[2]
         /\ tstages = 3 => SumOf(v) = v[1] + v[2] + v[3]
<1> DEFINE Step(s, k) == IF k = 0 THEN 0 ELSE s[k - 1] + v[k]
           sum == CHOOSE s : s = [k \in 0 .. tstages |-> Step(s, k)]
           g == [k \in 0 .. tstages |->
                   IF k = 0 THEN 0
                   ELSE IF k = 1 THEN v[1]
                   ELSE IF k = 2 THEN v[1] + v[2]
                   ELSE v[1] + v[2] + v[3]]
<1>1. \A k \in Stage : v[k] \in Int
  OBVIOUS
<1>2. g = [k \in 0 .. tstages |-> Step(g, k)]
  <2> SUFFICES ASSUME NEW k \in 0 .. tstages
               PROVE  g[k] = Step(g, k)
    OBVIOUS
  <2>1. k = 0 \/ k = 1 \/ k = 2 \/ k = 3
    BY FewStages
  <2>2. CASE k = 0
    BY <2>2
  <2>3. CASE k = 1
    BY <2>3, <1>1, FewStages DEF Stage
  <2>4. CASE k = 2
    BY <2>4, <1>1, FewStages DEF Stage
  <2>5. CASE k = 3
    BY <2>5, <1>1, FewStages DEF Stage
  <2> QED
    BY <2>1, <2>2, <2>3, <2>4, <2>5
<1>3. sum = [k \in 0 .. tstages |-> Step(sum, k)]
  <2> HIDE DEF g, Step
  <2> QED
    BY <1>2
<1>4. SumOf(v) = sum[tstages]
  BY DEF SumOf
<1> HIDE DEF sum, g
<1>5. \A k \in 0 .. tstages : sum[k] = IF k = 0 THEN 0 ELSE sum[k - 1] + v[k]
  BY <1>3
<1>6. sum[0] = 0 /\ sum[1] = v[1]
  BY <1>1, <1>5, FewStages DEF Stage
<1>7. tstages >= 2 => sum[2] = v[1] + v[2]
  BY <1>5, <1>6, FewStages
<1>8. tstages = 3 => sum[3] = v[1] + v[2] + v[3]
  BY <1>5, <1>7, FewStages
<1> QED
  BY <1>1, <1>4, <1>6, <1>7, <1>8, FewStages DEF Stage

(* A quotient by a positive divisor.                                       *)
LEMMA PositiveQuotient ==
  ASSUME NEW a \in Nat \ {0}, NEW b \in Int, b % a = 0
  PROVE  b \div a \in Int /\ (b \div a) * a = b
  OBVIOUS

(* What divides a number divides its opposite.                             *)
LEMMA OppositeDivides ==
  ASSUME NEW a \in Nat \ {0}, NEW b \in Int, b % a = 0
  PROVE  (-b) % a = 0
<1> DEFINE e == -b
           q == b \div a
           p == e \div a
           w == e % a
           t == (-q) - p
<1>1. e \in Int /\ q \in Int /\ q * a = b
  BY PositiveQuotient
<1>2. p \in Int /\ w \in 0 .. a - 1 /\ e = a * p + w
  BY <1>1
<1> HIDE DEF p, q, w, e
<1>3. e = -b
  BY DEF e
<1>4. t \in Int /\ w = a * t
  BY <1>1, <1>2, <1>3
<1> HIDE DEF t
<1>5. t = 0
  <2>1. t >= 1 => a * t >= a
    BY <1>4
  <2>2. t <= -1 => a * t <= -a
    BY <1>4
  <2> QED
    BY <1>2, <1>4, <2>1, <2>2
<1> QED
  BY <1>4, <1>5 DEF w, e

(* The quotient is exact.                                                  *)
LEMMA QuotientExact ==
  ASSUME NEW a \in Int, a # 0, NEW b \in Int, Divides(a, b)
  PROVE  Quotient(b, a) \in Int /\ Quotient(b, a) * a = b
<1>1. CASE a > 0
  BY <1>1, PositiveQuotient DEF Divides, Quotient
<1>2. CASE a < 0
  <2> DEFINE n == -a
             e == -b
  <2>1. n \in Nat \ {0} /\ b % n = 0 /\ e \in Int
    BY <1>2 DEF Divides
  <2>2. e % n = 0
    BY <2>1, OppositeDivides
  <2>3. e \div n \in Int /\ (e \div n) * n = e
    BY <2>1, <2>2, PositiveQuotient
  <2>4. Quotient(b, a) = e \div n
    BY <1>2 DEF Quotient
  <2> QED
    <3> DEFINE q == e \div n
    <3> HIDE DEF q
    <3>1. q \in Int /\ q * (-a) = -b
      BY <2>3 DEF q
    <3>2. q * a = b
      BY <3>1
    <3> QED
      BY <2>4, <3>1, <3>2 DEF q
<1> QED
  BY <1>1, <1>2

-----------------------------------------------------------------------------
(* Vectors.                                                                *)

(* The operations on vectors give vectors.                                 *)
LEMMA VectorTypes ==
  /\ \A k \in Basis : Unit(k) \in Vector
  /\ \A v, y \in Vector, a, b \in Int : AXPBY(v, y, a, b) \in Vector
  /\ \A v \in Vector, a \in Int : Scale(v, a) \in Vector
<1>1. \A k \in Basis : Unit(k) \in Vector
  BY DEF Unit, Vector
<1>2. ASSUME NEW v \in Vector, NEW y \in Vector, NEW a \in Int, NEW b \in Int
      PROVE  AXPBY(v, y, a, b) \in Vector
  <2>1. \A k \in Basis : a * v[k] + b * y[k] \in Int
    BY DEF Vector
  <2> QED
    BY <2>1 DEF AXPBY, Vector
<1>3. ASSUME NEW v \in Vector, NEW a \in Int
      PROVE  Scale(v, a) \in Vector
  <2>1. \A k \in Basis : a * v[k] \in Int
    BY DEF Vector
  <2> QED
    BY <2>1 DEF Scale, Vector
<1> QED
  BY <1>1, <1>2, <1>3

(* The entries of a vector, whatever the number of stages.                 *)
LEMMA BasisEntries ==
  ASSUME NEW b \in Basis
  PROVE  /\ b \in Nat /\ (b = 0 \/ b \in Stage)
         /\ b = 0 \/ b = 1 \/ b = 2 \/ b = 3
         /\ b <= tstages
  BY FewStages DEF Basis, Stage

-----------------------------------------------------------------------------
(* The scheme.                                                             *)

(* The coefficients are integers, and zero above the diagonal.             *)
LEMMA SchemeTypes ==
  ASSUME Scheme
  PROVE  /\ c \in [Stage -> Int]
         /\ d \in [Stage -> [Stage -> Int]]
         /\ \A k, l \in Stage : d[k][l] \in Int /\ (l > k => d[k][l] = 0)
         /\ d[1][1] # 0
         /\ SumC \in Int
<1>1. c \in [Stage -> Int]
  BY CoeffAssumption DEF Scheme
<1>2. d \in [Stage -> [Stage -> Coeff \cup {0}]]
      /\ \A k, l \in Stage : l > k => d[k][l] = 0
  BY DEF Scheme, LowerTriangular
<1>3. Coeff \cup {0} \subseteq Int
  BY CoeffAssumption
<1>4. d \in [Stage -> [Stage -> Int]]
  BY <1>2, <1>3
<1>5. d[1][1] # 0
  BY FewStages DEF Scheme, Divisible, Stage
<1>6. SumC \in Int
  BY <1>1, SumValue DEF SumC
<1> QED
  BY <1>1, <1>2, <1>4, <1>5, <1>6

(* The entries of the source of a stage.                                   *)
LEMMA SourceEntries ==
  ASSUME Scheme, NEW k \in Stage
  PROVE  /\ ButcherSource(k) \in Vector
         /\ k = 1 => ButcherSource(k)[0] = d[1][1]
         /\ k = 2 => ButcherSource(k)[0] = d[2][1] + d[2][2]
         /\ k = 3 => ButcherSource(k)[0] = d[3][1] + d[3][2] + d[3][3]
         /\ \A b \in Stage : ButcherSource(k)[b] = IF b < k THEN -d[k][b] ELSE 0
<1>1. d[k] \in [Stage -> Int] /\ \A l \in Stage : d[k][l] \in Int /\ (l > k => d[k][l] = 0)
  BY SchemeTypes
<1>2. /\ SumOf(d[k]) \in Int
      /\ tstages = 1 => SumOf(d[k]) = d[k][1]
      /\ tstages = 2 => SumOf(d[k]) = d[k][1] + d[k][2]
      /\ tstages = 3 => SumOf(d[k]) = d[k][1] + d[k][2] + d[k][3]
  BY <1>1, SumValue
<1>3. ASSUME NEW b \in Basis
      PROVE  (IF b = 0 THEN SumOf(d[k]) ELSE IF b < k THEN -d[k][b] ELSE 0) \in Int
  BY <1>1, <1>2, BasisEntries
<1>4. ButcherSource(k) \in Vector
  BY <1>3 DEF ButcherSource, Vector
<1>5. 0 \in Basis /\ \A b \in Stage : b \in Basis /\ b # 0
  BY FewStages DEF Basis, Stage
<1>6. ButcherSource(k)[0] = SumOf(d[k])
  BY <1>5 DEF ButcherSource
<1>7. \A b \in Stage : ButcherSource(k)[b] = IF b < k THEN -d[k][b] ELSE 0
  BY <1>5 DEF ButcherSource
<1>8. k = 1 => SumOf(d[k]) = d[1][1]
  BY <1>1, <1>2, FewStages DEF Stage
<1>9. k = 2 => SumOf(d[k]) = d[2][1] + d[2][2]
  BY <1>1, <1>2, FewStages DEF Stage
<1>10. k = 3 => SumOf(d[k]) = d[3][1] + d[3][2] + d[3][3]
  BY <1>1, <1>2, FewStages DEF Stage
<1> QED
  BY <1>4, <1>6, <1>7, <1>8, <1>9, <1>10

(* The factors by which a source is multiplied for the next stage.         *)
LEMMA Factors ==
  ASSUME Scheme
  PROVE  /\ tstages >= 2 => /\ SecondFactor \in Int
                            /\ SecondFactor * d[1][1] = d[2][1] + d[2][2]
         /\ tstages = 3 => /\ Quotient(d[3][1], d[2][1]) \in Int
                           /\ Quotient(d[3][1], d[2][1]) * d[2][1] = d[3][1]
<1>1. \A k, l \in Stage : d[k][l] \in Int
  BY SchemeTypes
<1>2. ASSUME tstages >= 2
      PROVE  /\ SecondFactor \in Int
             /\ SecondFactor * d[1][1] = d[2][1] + d[2][2]
  <2>1. /\ d[1][1] \in Int /\ d[1][1] # 0
        /\ d[2][1] + d[2][2] \in Int
    BY <1>1, <1>2, SchemeTypes, FewStages DEF Stage
  <2>2. Divides(d[1][1], d[2][1] + d[2][2])
    BY <1>2 DEF Scheme, Divisible
  <2> QED
    BY <2>1, <2>2, QuotientExact DEF SecondFactor
<1>3. ASSUME tstages = 3
      PROVE  /\ Quotient(d[3][1], d[2][1]) \in Int
             /\ Quotient(d[3][1], d[2][1]) * d[2][1] = d[3][1]
  <2>1. d[2][1] \in Int /\ d[2][1] # 0 /\ d[3][1] \in Int
    BY <1>1, <1>3 DEF Stage, Scheme, Divisible
  <2>2. Divides(d[2][1], d[3][1])
    BY <1>3 DEF Scheme, Divisible
  <2> QED
    BY <2>1, <2>2, QuotientExact
<1> QED
  BY <1>2, <1>3

(* Two vectors with equal entries are equal.                               *)
LEMMA SameVector ==
  ASSUME NEW v \in Vector, NEW y \in Vector, v[0] = y[0], \A b \in Stage : v[b] = y[b]
  PROVE  v = y
<1>1. \A b \in Basis : v[b] = y[b]
  BY BasisEntries
<1> QED
  BY <1>1 DEF Vector

(* Entries of the unit vectors.                                            *)
LEMMA UnitEntries ==
  ASSUME NEW k \in Basis
  PROVE  \A b \in Basis : Unit(k)[b] = IF b = k THEN 1 ELSE 0
  BY DEF Unit

(* What UpdateSource makes in place of the source of the stage before is   *)
(* the source of this stage.                                               *)
LEMMA SourceOfStage ==
  ASSUME Scheme, NEW m \in Models, currentstage \in Stage,
         udgprev[m] = Unit(0), udg[m] = Unit(currentstage - 1),
         currentstage > 1 => sdg[m] = ButcherSource(currentstage - 1)
  PROVE  UpdateSource(m) = ButcherSource(currentstage)
<1>1. 0 \in Basis /\ \A b \in Stage : b \in Basis /\ b # 0
  BY FewStages DEF Basis, Stage
<1>2. currentstage - 1 \in Basis /\ currentstage \in Nat /\ currentstage <= tstages
  BY FewStages DEF Basis, Stage
<1>3. \A k, l \in Stage : d[k][l] \in Int
  BY SchemeTypes
<1>4. ButcherSource(currentstage) \in Vector
  BY SourceEntries
<1>5. CASE currentstage = 1
  <2> DEFINE s == Scale(Unit(0), d[1][1])
  <2>1. UpdateSource(m) = s
    BY <1>5 DEF UpdateSource
  <2>2. d[1][1] \in Int
    BY <1>3, <1>5
  <2>3. s \in Vector
    BY <1>1, <2>2, VectorTypes
  <2>4. \A b \in Basis : s[b] = d[1][1] * Unit(0)[b]
    BY DEF Scale
  <2>5. s[0] = d[1][1] /\ \A b \in Stage : s[b] = 0
    BY <1>1, <2>2, <2>4, UnitEntries
  <2>6. \A b \in Stage : ~(b < 1)
    BY DEF Stage
  <2>7. /\ ButcherSource(1)[0] = d[1][1]
        /\ \A b \in Stage : ButcherSource(1)[b] = 0
    BY <1>5, <2>6, SourceEntries
  <2> HIDE DEF s
  <2> QED
    BY <1>4, <1>5, <2>1, <2>3, <2>5, <2>7, SameVector
<1>6. CASE currentstage = 2
  <2> DEFINE y == ButcherSource(1)
             F == SecondFactor
             s == AXPBY(Unit(1), y, -d[2][1], F)
  <2>1. UpdateSource(m) = s
    BY <1>6 DEF UpdateSource
  <2>2. 1 \in Stage /\ 2 \in Stage /\ tstages >= 2
    BY <1>2, <1>6, FewStages DEF Stage
  <2>3. F \in Int /\ F * d[1][1] = d[2][1] + d[2][2] /\ d[2][1] \in Int /\ -d[2][1] \in Int
        /\ d[1][1] \in Int /\ d[2][2] \in Int
    BY <1>3, <2>2, Factors
  <2>4. y \in Vector /\ y[0] = d[1][1] /\ \A b \in Stage : y[b] = 0
    <3>1. \A b \in Stage : ~(b < 1)
      BY DEF Stage
    <3> QED
      BY <2>2, <3>1, SourceEntries
  <2>5. s \in Vector
    BY <1>1, <2>2, <2>3, <2>4, VectorTypes
  <2>6. \A b \in Basis : s[b] = (-d[2][1]) * Unit(1)[b] + F * y[b]
    BY DEF AXPBY
  <2> HIDE DEF s, y, F
  <2>7. s[0] = d[2][1] + d[2][2]
    BY <1>1, <2>2, <2>3, <2>4, <2>6, UnitEntries
  <2>8. s[1] = -d[2][1]
    BY <1>1, <2>2, <2>3, <2>4, <2>6, UnitEntries
  <2>9. ASSUME NEW b \in Stage, b # 1 PROVE s[b] = 0
    BY <1>1, <2>2, <2>3, <2>4, <2>6, <2>9, UnitEntries
  <2>10. /\ ButcherSource(2)[0] = d[2][1] + d[2][2]
         /\ ButcherSource(2)[1] = -d[2][1]
         /\ \A b \in Stage : b # 1 => ButcherSource(2)[b] = 0
    <3>1. \A b \in Stage : b < 2 <=> b = 1
      BY DEF Stage
    <3> QED
      BY <2>2, <3>1, SourceEntries
  <2>11. \A b \in Stage : s[b] = ButcherSource(2)[b]
    BY <2>8, <2>9, <2>10
  <2> QED
    BY <1>4, <1>6, <2>1, <2>5, <2>7, <2>10, <2>11, SameVector
<1>7. CASE currentstage = 3
  <2> DEFINE y == ButcherSource(2)
             F == Quotient(d[3][1], d[2][1])
             P == d[3][1] + d[3][2] + d[3][3] - F * (d[2][1] + d[2][2])
             w == AXPBY(Unit(2), y, -d[3][2], F)
             s == AXPBY(Unit(0), w, P, 1)
  <2>1. UpdateSource(m) = s
    BY <1>7 DEF UpdateSource
  <2>2. 1 \in Stage /\ 2 \in Stage /\ 3 \in Stage /\ tstages = 3
    BY <1>2, <1>7, FewStages DEF Stage
  <2>3. F \in Int /\ F * d[2][1] = d[3][1]
    BY <2>2, Factors
  <2>4. /\ d[2][1] \in Int /\ d[2][2] \in Int /\ d[3][1] \in Int /\ d[3][2] \in Int
        /\ d[3][3] \in Int /\ -d[3][2] \in Int
    BY <1>3, <2>2
  <2>5. /\ y \in Vector /\ y[0] = d[2][1] + d[2][2] /\ y[1] = -d[2][1]
        /\ \A b \in Stage : b # 1 => y[b] = 0
    <3>1. \A b \in Stage : b < 2 <=> b = 1
      BY DEF Stage
    <3> QED
      BY <2>2, <3>1, SourceEntries
  <2> HIDE DEF y, F
  <2>6. P \in Int /\ P = d[3][1] + d[3][2] + d[3][3] - F * (d[2][1] + d[2][2])
    BY <2>3, <2>4
  <2> HIDE DEF P
  <2>7. w \in Vector
    BY <1>1, <2>2, <2>3, <2>4, <2>5, VectorTypes
  <2>8. \A b \in Basis : w[b] = (-d[3][2]) * Unit(2)[b] + F * y[b]
    BY DEF AXPBY
  <2> HIDE DEF w
  <2>9. s \in Vector
    BY <1>1, <2>6, <2>7, VectorTypes
  <2>10. \A b \in Basis : s[b] = P * Unit(0)[b] + 1 * w[b]
    BY DEF AXPBY
  <2> HIDE DEF s
  <2>11. w[0] = F * (d[2][1] + d[2][2])
    BY <1>1, <2>2, <2>3, <2>4, <2>5, <2>8, UnitEntries
  <2>12. w[1] = -d[3][1]
    <3>1. w[1] = F * (-d[2][1])
      BY <1>1, <2>2, <2>3, <2>4, <2>5, <2>8, UnitEntries
    <3> QED
      BY <2>3, <2>4, <3>1
  <2>13. w[2] = -d[3][2]
    BY <1>1, <2>2, <2>3, <2>4, <2>5, <2>8, UnitEntries
  <2>14. w[3] = 0
    BY <1>1, <2>2, <2>3, <2>4, <2>5, <2>8, UnitEntries
  <2>15. s[0] = P + w[0]
    BY <1>1, <2>6, <2>7, <2>10, UnitEntries DEF Vector
  <2>16. \A b \in Stage : s[b] = w[b]
    BY <1>1, <2>6, <2>7, <2>10, UnitEntries DEF Vector
  <2>17. s[0] = d[3][1] + d[3][2] + d[3][3]
    <3> DEFINE z == F * (d[2][1] + d[2][2])
    <3>1. z \in Int
      BY <2>3, <2>4
    <3>2. s[0] = P + z /\ P = d[3][1] + d[3][2] + d[3][3] - z
      BY <2>6, <2>11, <2>15
    <3> HIDE DEF z
    <3> QED
      BY <2>4, <3>1, <3>2
  <2>18. /\ ButcherSource(3)[0] = d[3][1] + d[3][2] + d[3][3]
         /\ ButcherSource(3)[1] = -d[3][1]
         /\ ButcherSource(3)[2] = -d[3][2]
         /\ ButcherSource(3)[3] = 0
    BY <2>2, SourceEntries
  <2>19. \A b \in Stage : b = 1 \/ b = 2 \/ b = 3
    BY <2>2 DEF Stage
  <2>20. \A b \in Stage : s[b] = ButcherSource(3)[b]
    BY <2>12, <2>13, <2>14, <2>16, <2>18, <2>19
  <2> QED
    BY <1>4, <1>7, <2>1, <2>9, <2>17, <2>18, <2>20, SameVector
<1> QED
  BY <1>2, <1>5, <1>6, <1>7, FewStages DEF Stage

-----------------------------------------------------------------------------
(* The steps.                                                              *)

(* The partial sums are vectors; the last one is the solution of a step.   *)
LEMMA PartialSums ==
  ASSUME Scheme
  PROVE  /\ \A k \in Basis : PartialSum(k) \in Vector
         /\ PartialSum(tstages) = Combination
         /\ PartialSum(0) = Scale(Unit(0), OldWeight)
         /\ Scale(Unit(0), OldWeight) \in Vector
<1>1. 1 - SumC \in Int /\ \A b \in Stage : c[b] \in Int
  BY SchemeTypes
<1>2. ASSUME NEW k \in Basis PROVE PartialSum(k) \in Vector
  <2>1. ASSUME NEW b \in Basis
        PROVE  (IF b = 0 THEN 1 - SumC ELSE IF b <= k THEN c[b] ELSE 0) \in Int
    BY <1>1, BasisEntries
  <2> QED
    BY <2>1 DEF PartialSum, Vector
<1>3. PartialSum(tstages) = Combination
  <2>1. \A b \in Basis : (IF b = 0 THEN 1 - SumC ELSE IF b <= tstages THEN c[b] ELSE 0)
                           = IF b = 0 THEN 1 - SumC ELSE c[b]
    BY BasisEntries
  <2> QED
    BY <2>1 DEF PartialSum, Combination
<1>4. PartialSum(0) = Scale(Unit(0), OldWeight)
  <2>1. 0 \in Basis
    BY FewStages DEF Basis
  <2>2. ASSUME NEW b \in Basis
        PROVE  (IF b = 0 THEN 1 - SumC ELSE IF b <= 0 THEN c[b] ELSE 0)
                 = OldWeight * Unit(0)[b]
    BY <1>1, <2>1, UnitEntries, BasisEntries DEF OldWeight
  <2> QED
    BY <2>2 DEF PartialSum, Scale
<1>5. 0 \in Basis
  BY FewStages DEF Basis
<1> QED
  BY <1>2, <1>3, <1>4, <1>5

(* Each stage adds its term.                                               *)
LEMMA NextTerm ==
  ASSUME Scheme, NEW k \in Stage
  PROVE  AXPBY(Unit(k), PartialSum(k - 1), c[k], 1) = PartialSum(k)
<1>1. 1 - SumC \in Int /\ \A b \in Stage : c[b] \in Int
  BY SchemeTypes
<1>2. k \in Basis /\ k \in Nat /\ k # 0
  BY FewStages DEF Basis, Stage
<1>3. ASSUME NEW b \in Basis
      PROVE  c[k] * Unit(k)[b] + 1 * PartialSum(k - 1)[b] = PartialSum(k)[b]
  <2>1. Unit(k)[b] = IF b = k THEN 1 ELSE 0
    BY <1>2, UnitEntries
  <2>2. /\ PartialSum(k - 1)[b] = IF b = 0 THEN 1 - SumC ELSE IF b <= k - 1 THEN c[b] ELSE 0
        /\ PartialSum(k)[b] = IF b = 0 THEN 1 - SumC ELSE IF b <= k THEN c[b] ELSE 0
    BY DEF PartialSum
  <2>3. b \in Nat /\ (b = 0 \/ c[b] \in Int) /\ c[k] \in Int
    BY <1>1, BasisEntries
  <2> QED
    BY <1>1, <1>2, <2>1, <2>2, <2>3
<1>4. PartialSum(k) = [b \in Basis |-> PartialSum(k)[b]]
  BY DEF PartialSum
<1> HIDE DEF PartialSum
<1> QED
  BY <1>3, <1>4 DEF AXPBY

(* The invariant holds at first.                                           *)
LEMMA InitStepping == DirkInit => DirkInv
<1> SUFFICES ASSUME DirkInit PROVE DirkInv
  OBVIOUS
<1>1. Scheme /\ phase = "previous"
  BY DEF DirkInit, Scheme
<1>2. Loops
  BY StagesAssumption, ModelsAssumption DEF DirkInit, Loops, Stage, Models
<1>3. 0 \in Basis /\ 0 \in 0 .. tsteps
  BY StagesAssumption DEF Basis
<1>4. Unit(0) \in Vector
  BY <1>3, VectorTypes
<1>5. /\ udg \in [Models -> Vector] /\ u \in [Models -> Vector]
      /\ utmp \in [Models -> Vector] /\ udgprev \in [Models -> Vector]
      /\ sdg \in [Models -> Vector]
  BY <1>4 DEF DirkInit
<1>6. odg \in [Models -> [Models -> Copies]]
  BY <1>3, <1>4 DEF DirkInit, Copies
<1>7. frames \in [Models -> Seq(Vector)] /\ \A m \in Models : Len(frames[m]) = 0
  BY DEF DirkInit
<1>8. FramesAreSolutions
  BY <1>7 DEF FramesAreSolutions
<1> QED
  BY <1>1, <1>2, <1>5, <1>6, <1>7, <1>8 DEF DirkInv

(* The scheme, and what is computed from it, stays.                        *)
LEMMA SchemeStays ==
  ASSUME Scheme, UNCHANGED <<c, d>>
  PROVE  /\ Scheme'
         /\ SumC' = SumC /\ Combination' = Combination
         /\ \A k : PartialSum(k)' = PartialSum(k)
         /\ \A k : ButcherSource(k)' = ButcherSource(k)
<1>1. Scheme'
  BY DEF Scheme, Divisible
<1>2. SumC' = SumC
  BY DEF SumC
<1>3. \A k : PartialSum(k)' = PartialSum(k)
  BY <1>2 DEF PartialSum
<1>4. \A k : ButcherSource(k)' = ButcherSource(k)
  BY DEF ButcherSource
<1>5. Combination' = Combination
  BY <1>2 DEF Combination
<1> QED
  BY <1>1, <1>2, <1>3, <1>4, <1>5

(* A step starts from the solution of the last one.                        *)
LEMMA PreviousSolutionsKeeps ==
  ASSUME DirkInv, PreviousSolutions
  PROVE  DirkInv'
<1> USE DEF PreviousSolutions
<1>1. Scheme /\ Loops /\ frames \in [Models -> Seq(Vector)]
  BY DEF DirkInv
<1>2. /\ Scheme' /\ Combination' = Combination
      /\ PartialSum(0)' = PartialSum(0)
  BY <1>1, SchemeStays
<1>3. istep < tsteps /\ phase' = "stage" /\ istep' = istep /\ model' = 0 /\ currentstage' = 1
  BY DEF MoreSteps
<1>4. Loops'
  BY <1>1, <1>3, StagesAssumption, ModelsAssumption DEF Loops, Stage, Models
<1>5. 0 \in Basis /\ 0 # tstages
  BY FewStages DEF Basis
<1>6. Unit(0) \in Vector /\ PartialSum(0) \in Vector
  BY <1>1, <1>5, VectorTypes, PartialSums
<1>7. \A m \in Models : /\ udg'[m] = Unit(0) /\ udgprev'[m] = Unit(0)
                        /\ utmp'[m] = PartialSum(0)
  BY <1>1, PartialSums DEF OldWeight
<1>8. /\ udg' \in [Models -> Vector] /\ udgprev' \in [Models -> Vector]
  BY <1>6
<1>9. utmp' \in [Models -> Vector]
  BY <1>1, <1>8, PartialSums
<1>10. \A m \in Models : StageOf(m)' = 0
  <2>1. \A m \in Models : ~(m < 0)
    BY DEF Models
  <2> QED
    BY <1>3, <2>1 DEF StageOf
<1>11. \A m \in Models : Solved(m, 0)'
  BY <1>2, <1>5, <1>7 DEF Solved
<1>12. \A m \in Models : Solved(m, StageOf(m))'
  BY <1>10, <1>11
<1>13. ~(saveSolOpt = 0 /\ LDG) => FramesAreSolutions'
  BY <1>2 DEF DirkInv, FramesAreSolutions
<1>14. /\ u' \in [Models -> Vector] /\ sdg' \in [Models -> Vector]
       /\ odg' \in [Models -> [Models -> Copies]]
       /\ frames' \in [Models -> Seq(Vector)]
  BY DEF DirkInv
<1> QED
  BY <1>2, <1>4, <1>8, <1>9, <1>12, <1>13, <1>14 DEF DirkInv

(* A frame is the solution of the step, which is complete.                 *)
LEMMA SaveSolutionsKeeps ==
  ASSUME DirkInv, SaveSolutions
  PROVE  DirkInv'
<1> USE DEF SaveSolutions
<1>1. Scheme /\ Loops
  BY DEF DirkInv
<1>2. Scheme' /\ Combination' = Combination
  BY <1>1, SchemeStays
<1>3. Loops'
  BY <1>1, StagesAssumption DEF Loops
<1>4. \A m \in Models : Frame(m) \in Vector
  BY DEF Frame, DirkInv
<1>5. frames' \in [Models -> Seq(Vector)]
  BY <1>4 DEF DirkInv
<1>6. \A m \in Models : udg[m] = Combination
  <2>1. \A m \in Models : StageOf(m) = tstages
    BY DEF StageOf
  <2> QED
    BY <1>1, <2>1, PartialSums DEF DirkInv, Solved
<1>7. ASSUME ~(saveSolOpt = 0 /\ LDG)
      PROVE  FramesAreSolutions'
  <2> SUFFICES ASSUME NEW m \in Models, NEW k \in 1 .. Len(frames'[m])
               PROVE  frames'[m][k] = Combination
    BY <1>2 DEF FramesAreSolutions
  <2>1. frames'[m] = Append(frames[m], udg[m]) /\ frames[m] \in Seq(Vector)
    BY <1>7 DEF Frame, DirkInv
  <2>2. FramesAreSolutions
    BY <1>7 DEF DirkInv
  <2>3. udg[m] \in Vector
    BY DEF DirkInv
  <2>4. CASE k \in 1 .. Len(frames[m])
    BY <2>1, <2>2, <2>3, <2>4 DEF FramesAreSolutions
  <2>5. CASE k = Len(frames[m]) + 1
    BY <1>6, <2>1, <2>3, <2>5
  <2> QED
    BY <2>1, <2>3, <2>4, <2>5
<1>8. /\ udg' \in [Models -> Vector] /\ u' \in [Models -> Vector]
      /\ utmp' \in [Models -> Vector] /\ udgprev' \in [Models -> Vector]
      /\ sdg' \in [Models -> Vector]
      /\ odg' \in [Models -> [Models -> Copies]]
  BY DEF DirkInv
<1> QED
  BY <1>2, <1>3, <1>5, <1>7, <1>8 DEF DirkInv

(* A solve takes one model one stage further, whichever loop goes on.      *)
LEMMA StagesCount ==
  ASSUME DirkInv, SolveStage
  PROVE  /\ Loops'
         /\ istep' = istep /\ istep < tsteps
         /\ StageOf(model) = currentstage - 1
         /\ \A m \in Models : StageOf(m)' = IF m = model THEN currentstage ELSE StageOf(m)
         /\ \A m \in Models : StageOf(m) \in Basis
<1> USE DEF SolveStage
<1>1. /\ currentstage \in Stage /\ model \in Models /\ phase = "stage"
      /\ istep \in 0 .. tsteps /\ istep < tsteps /\ istep' = istep
  BY DEF DirkInv, Loops
<1>2. currentstage \in Nat /\ currentstage >= 1 /\ currentstage <= tstages
  BY <1>1, FewStages DEF Stage
<1>3. model \in Nat /\ model < nummodels /\ \A m \in Models : m \in Nat /\ m < nummodels
  BY <1>1, ModelsAssumption DEF Models
<1>4. \A m \in Models : StageOf(m) = currentstage - (IF m < model THEN 0 ELSE 1)
  BY <1>1 DEF StageOf
<1>5. \A m \in Models : StageOf(m) \in Basis
  BY <1>2, <1>4, FewStages DEF Basis
<1>6. CASE model < nummodels - 1
  <2>1. model' = model + 1 /\ currentstage' = currentstage /\ phase' = "stage"
    BY <1>1, <1>6
  <2>2. Loops'
    BY <1>1, <1>3, <1>6, <2>1, ModelsAssumption DEF Loops, Models
  <2>3. \A m \in Models : StageOf(m)' = currentstage - (IF m < model + 1 THEN 0 ELSE 1)
    BY <2>1 DEF StageOf
  <2>4. \A m \in Models : StageOf(m)' = IF m = model THEN currentstage ELSE StageOf(m)
    BY <1>2, <1>3, <1>4, <2>3
  <2> QED
    BY <1>1, <1>2, <1>3, <1>4, <1>5, <2>2, <2>4
<1>7. CASE ~(model < nummodels - 1) /\ currentstage < tstages
  <2>1. model' = 0 /\ currentstage' = currentstage + 1 /\ phase' = "stage"
    BY <1>1, <1>7
  <2>2. Loops'
    BY <1>1, <1>2, <1>7, <2>1, FewStages, ModelsAssumption DEF Loops, Models, Stage
  <2>3. \A m \in Models : StageOf(m)' = currentstage
    <3>1. \A m \in Models : StageOf(m)' = currentstage' - (IF m < model' THEN 0 ELSE 1)
      BY <2>1 DEF StageOf
    <3> QED
      BY <1>2, <1>3, <2>1, <3>1
  <2>4. \A m \in Models : m = model \/ m < model
    BY <1>3, <1>7, ModelsAssumption
  <2>5. \A m \in Models : StageOf(m)' = IF m = model THEN currentstage ELSE StageOf(m)
    BY <1>2, <1>3, <1>4, <2>3, <2>4
  <2> QED
    BY <1>1, <1>2, <1>3, <1>4, <1>5, <2>2, <2>5
<1>8. CASE ~(model < nummodels - 1) /\ ~(currentstage < tstages)
  <2>1. model' = 0 /\ currentstage' = currentstage /\ phase' = "save"
    BY <1>8
  <2>2. Loops'
    BY <1>1, <2>1, ModelsAssumption DEF Loops, Models
  <2>3. \A m \in Models : StageOf(m)' = currentstage
    BY <1>2, <1>8, <2>1, FewStages DEF StageOf
  <2>4. \A m \in Models : m = model \/ m < model
    BY <1>3, <1>8, ModelsAssumption
  <2>5. \A m \in Models : StageOf(m)' = IF m = model THEN currentstage ELSE StageOf(m)
    BY <1>2, <1>3, <1>4, <2>3, <2>4
  <2> QED
    BY <1>1, <1>2, <1>3, <1>4, <1>5, <2>2, <2>5
<1> QED
  BY <1>6, <1>7, <1>8

(* The model that is solved holds one stage more.                          *)
LEMMA SolveStageSolves ==
  ASSUME DirkInv, SolveStage, NEW m, m = model, NEW k, k = currentstage
  PROVE  /\ Solved(m, k)'
         /\ udg'[m] \in Vector /\ u'[m] \in Vector /\ utmp'[m] \in Vector
         /\ sdg'[m] \in Vector
         /\ odg'[m] \in [Models -> Copies]
<1> USE DEF SolveStage
<1>1. /\ k \in Stage /\ m \in Models /\ phase = "stage"
      /\ istep \in 0 .. tsteps /\ istep < tsteps /\ istep' = istep /\ Scheme
  BY DEF DirkInv, Loops
<1>2. /\ k \in Nat /\ k >= 1 /\ k <= tstages
      /\ k \in Basis /\ k - 1 \in Basis /\ k - 1 # tstages
  BY <1>1, FewStages DEF Stage, Basis
<1>3. Solved(m, k - 1)
  BY <1>1, StagesCount DEF DirkInv
<1>4. /\ udgprev[m] = Unit(0)
      /\ utmp[m] = PartialSum(k - 1)
      /\ udg[m] = Unit(k - 1)
      /\ k > 1 => sdg[m] = ButcherSource(k - 1)
  BY <1>2, <1>3 DEF Solved
<1>5. /\ udg \in [Models -> Vector] /\ u \in [Models -> Vector]
      /\ utmp \in [Models -> Vector] /\ udgprev \in [Models -> Vector]
      /\ sdg \in [Models -> Vector]
      /\ odg \in [Models -> [Models -> Copies]]
  BY DEF DirkInv
<1>6. sdg'[m] = ButcherSource(k)
  <2>1. sdg'[m] = UpdateSource(m)
    BY <1>1, <1>5
  <2> QED
    BY <1>1, <1>4, <2>1, SourceOfStage
<1>7. u'[m] = Unit(k)
  BY <1>1, <1>5
<1>8. utmp'[m] = PartialSum(k)
  <2>1. utmp'[m] = AXPBY(Unit(k), PartialSum(k - 1), c[k], 1)
    BY <1>1, <1>4, <1>5, <1>7
  <2> QED
    BY <1>1, <2>1, NextTerm
<1>9. udg'[m] = IF k = tstages THEN PartialSum(k)
                    ELSE Unit(k)
  BY <1>1, <1>5, <1>7, <1>8
<1>10. udgprev'[m] = Unit(0)
  BY <1>4
<1>11. odg'[m] = [l \in Models |-> IF l = m THEN odg[m][l] ELSE Copy(l)]
  BY <1>1, <1>5 DEF ObtainOdg
<1>12. ASSUME NEW l \in Models \ {m}
       PROVE  LET stage == IF l < m THEN k ELSE k - 1
              IN odg'[m][l] = [step |-> istep, of |-> StageSolution(stage)]
  <2> DEFINE stage == IF l < m THEN k ELSE k - 1
  <2>1. StageOf(l) = stage
    <3>1. StageOf(l) = currentstage - (IF l < model THEN 0 ELSE 1)
      BY <1>1 DEF StageOf
    <3> QED
      BY <1>2, <3>1
  <2>2. Solved(l, stage)
    BY <1>1, <2>1 DEF DirkInv
  <2> HIDE DEF stage
  <2>3. udg[l] = StageSolution(stage)
    BY <1>1, <2>2, PartialSums DEF Solved, StageSolution
  <2>4. odg'[m][l] = [step |-> istep, of |-> udg[l]]
    BY <1>11 DEF Copy
  <2> QED
    BY <2>3, <2>4 DEF stage
<1>13. /\ \A l : PartialSum(l)' = PartialSum(l)
       /\ \A l : ButcherSource(l)' = ButcherSource(l)
  BY <1>1, SchemeStays
<1>14. Solved(m, k)'
  <2>1. /\ PartialSum(k)' = PartialSum(k) /\ ButcherSource(k)' = ButcherSource(k)
        /\ \A l : StageSolution(l)' = StageSolution(l)
    BY <1>1, <1>13, SchemeStays DEF StageSolution
  <2> QED
    BY <1>1, <1>6, <1>7, <1>8, <1>9, <1>10, <1>12, <2>1 DEF Solved
<1>15. Unit(k) \in Vector /\ PartialSum(k) \in Vector /\ ButcherSource(k) \in Vector
  BY <1>1, <1>2, VectorTypes, PartialSums, SourceEntries
<1>16. odg'[m] \in [Models -> Copies]
  <2>1. \A l \in Models : Copy(l) \in Copies /\ odg[m][l] \in Copies
    BY <1>1, <1>5 DEF Copy, Copies
  <2> QED
    BY <1>11, <2>1
<1> QED
  BY <1>6, <1>7, <1>8, <1>9, <1>14, <1>15, <1>16

(* The others keep what they hold.                                         *)
LEMMA SolveStageKeeps ==
  ASSUME DirkInv, SolveStage
  PROVE  DirkInv'
<1>1. Scheme /\ UNCHANGED <<c, d, udgprev, frames>> /\ phase = "stage"
  BY DEF DirkInv, SolveStage
<1>2. /\ Scheme' /\ Combination' = Combination
      /\ \A k : PartialSum(k)' = PartialSum(k)
      /\ \A k : ButcherSource(k)' = ButcherSource(k)
  BY <1>1, SchemeStays
<1>3. Loops' /\ istep' = istep /\ model \in Models
  BY StagesCount DEF DirkInv, Loops
<1>4. /\ udg \in [Models -> Vector] /\ u \in [Models -> Vector]
      /\ utmp \in [Models -> Vector] /\ udgprev \in [Models -> Vector]
      /\ sdg \in [Models -> Vector]
      /\ odg \in [Models -> [Models -> Copies]]
      /\ frames \in [Models -> Seq(Vector)]
  BY DEF DirkInv
<1>5. \E p, y, z, v, w : /\ udg' = [udg EXCEPT ![model] = p]
                         /\ u' = [u EXCEPT ![model] = y]
                         /\ utmp' = [utmp EXCEPT ![model] = z]
                         /\ sdg' = [sdg EXCEPT ![model] = v]
                         /\ odg' = [odg EXCEPT ![model] = w]
  BY DEF SolveStage
<1>6. ASSUME NEW m \in Models, m # model
      PROVE  /\ udg'[m] = udg[m] /\ u'[m] = u[m] /\ utmp'[m] = utmp[m]
             /\ sdg'[m] = sdg[m] /\ odg'[m] = odg[m]
  BY <1>4, <1>5, <1>6
<1>7. /\ udg'[model] \in Vector /\ u'[model] \in Vector /\ utmp'[model] \in Vector
      /\ sdg'[model] \in Vector
      /\ odg'[model] \in [Models -> Copies]
  BY SolveStageSolves
<1>8. /\ udg' \in [Models -> Vector] /\ u' \in [Models -> Vector]
      /\ utmp' \in [Models -> Vector] /\ sdg' \in [Models -> Vector]
      /\ odg' \in [Models -> [Models -> Copies]]
  BY <1>3, <1>4, <1>5, <1>7
<1>9. \A m \in Models : Solved(m, StageOf(m))'
  <2> SUFFICES ASSUME NEW m \in Models PROVE Solved(m, StageOf(m))'
    OBVIOUS
  <2>1. CASE m = model
    <3>1. StageOf(m)' = currentstage
      BY <2>1, StagesCount
    <3>2. \A k : k = currentstage => Solved(m, k)'
      BY <2>1, SolveStageSolves
    <3>3. \A k : k = StageOf(m)' => Solved(m, k)'
      BY <3>1, <3>2
    <3> QED
      BY <3>3 DEF Solved
  <2>2. CASE m # model
    <3>1. StageOf(m)' = StageOf(m)
      BY <2>2, StagesCount
    <3>2. Solved(m, StageOf(m))
      BY <1>1 DEF DirkInv
    <3>3. \A k : Solved(m, k) => Solved(m, k)'
      <4>1. \A l : StageSolution(l)' = StageSolution(l)
        BY <1>2 DEF StageSolution
      <4> QED
        BY <1>1, <1>2, <1>3, <1>6, <2>2, <4>1 DEF Solved
    <3>4. \A k : k = StageOf(m)' => Solved(m, k)'
      BY <3>1, <3>2, <3>3
    <3> QED
      BY <3>4 DEF Solved
  <2> QED
    BY <2>1, <2>2
<1>10. ~(saveSolOpt = 0 /\ LDG) => FramesAreSolutions'
  BY <1>1, <1>2 DEF DirkInv, FramesAreSolutions
<1> QED
  BY <1>1, <1>2, <1>3, <1>4, <1>8, <1>9, <1>10 DEF DirkInv

(* A stuttering step keeps the invariant.                                  *)
LEMMA SteppingStutters ==
  ASSUME DirkInv, UNCHANGED dirkvars
  PROVE  DirkInv'
<1>1. UNCHANGED <<c, d, istep, currentstage, model, phase, udg, u, utmp, udgprev,
                  sdg, odg, frames>>
  BY DEF dirkvars
<1>2. /\ Scheme' /\ Combination' = Combination
      /\ \A k : PartialSum(k)' = PartialSum(k)
      /\ \A k : ButcherSource(k)' = ButcherSource(k)
  BY <1>1, SchemeStays DEF DirkInv
<1>3. Loops'
  BY <1>1 DEF DirkInv, Loops
<1>4. ASSUME phase # "previous", NEW m \in Models
      PROVE  Solved(m, StageOf(m))'
  <2>1. StageOf(m)' = StageOf(m)
    BY <1>1 DEF StageOf
  <2>2. Solved(m, StageOf(m))
    BY <1>4 DEF DirkInv
  <2>3. \A k : Solved(m, k) => Solved(m, k)'
    <3>1. \A l : StageSolution(l)' = StageSolution(l)
      BY <1>2 DEF StageSolution
    <3> QED
      BY <1>1, <1>2, <3>1 DEF Solved
  <2>4. \A k : k = StageOf(m)' => Solved(m, k)'
    BY <2>1, <2>2, <2>3
  <2> QED
    BY <2>4 DEF Solved
<1>5. ~(saveSolOpt = 0 /\ LDG) => FramesAreSolutions'
  BY <1>1, <1>2 DEF DirkInv, FramesAreSolutions
<1> QED
  BY <1>1, <1>2, <1>3, <1>4, <1>5 DEF DirkInv

(* The time loop: what every model holds after each of its stages.         *)
THEOREM StepInvariant == DirkSpec => []DirkInv
<1>1. DirkInv /\ [DirkNext]_dirkvars => DirkInv'
  BY PreviousSolutionsKeeps, SolveStageKeeps, SaveSolutionsKeeps, SteppingStutters
  DEF DirkNext
<1> QED
  BY InitStepping, <1>1, PTL DEF DirkSpec

-----------------------------------------------------------------------------
(* The properties.                                                         *)

(* The time loop has its types, and the solution of a step combines the    *)
(* old solution and each stage once, although udg is overwritten meanwhile.*)
THEOREM StepsCombineStages == DirkSpec => []SteppingInv
<1>1. DirkInv => SteppingInv
  <2> SUFFICES ASSUME DirkInv PROVE SteppingInv
    OBVIOUS
  <2>1. SteppingTypeOK
    BY DEF DirkInv, Loops, SteppingTypeOK
  <2>2. ASSUME phase = "save", NEW m \in Models
        PROVE  udg[m] = Combination
    <3>1. StageOf(m) = tstages
      BY <2>2 DEF StageOf
    <3>2. Solved(m, tstages)
      BY <2>2, <3>1 DEF DirkInv
    <3> QED
      BY <3>2, PartialSums DEF Solved, DirkInv
  <2> QED
    BY <2>1, <2>2 DEF SteppingInv, StepIsCombination
<1> QED
  BY StepInvariant, <1>1, PTL

(* The source UpdateSource makes in place of the one before is that of the *)
(* scheme, for any coefficients its divisions are exact for.               *)
THEOREM SourcesAreButcher == DirkSpec => []SourceIsButcher
<1>1. DirkInv => SourceIsButcher
  <2> SUFFICES ASSUME DirkInv, NEW m \in Models, StageOf(m) > 0
               PROVE  sdg[m] = ButcherSource(StageOf(m))
    BY DEF SourceIsButcher
  <2>1. phase # "previous"
    BY DEF StageOf, DirkInv, Loops
  <2>2. Solved(m, StageOf(m))
    BY <2>1 DEF DirkInv
  <2> QED
    BY <2>2 DEF Solved
<1> QED
  BY StepInvariant, <1>1, PTL

(* The data a model has copied from another is the solution of this step   *)
(* that the other holds after the same stage, or after the one before,     *)
(* whichever of the two was solved first.                                  *)
THEOREM CouplingIsBounded == DirkSpec => []CouplingLagsOneStage
<1>1. DirkInv => CouplingLagsOneStage
  <2> SUFFICES ASSUME DirkInv, NEW m \in Models, NEW k \in Models, m # k, StageOf(m) > 0
               PROVE  LET stage == IF k < m THEN StageOf(m) ELSE StageOf(m) - 1
                      IN odg[m][k] = [step |-> istep, of |-> StageSolution(stage)]
    BY DEF CouplingLagsOneStage
  <2>1. phase # "previous"
    BY DEF StageOf, DirkInv, Loops
  <2>2. Solved(m, StageOf(m))
    BY <2>1 DEF DirkInv
  <2> QED
    BY <2>2 DEF Solved
<1> QED
  BY StepInvariant, <1>1, PTL

(* Every frame is the solution of a step, but for LDG with saveSolOpt = 0, *)
(* whose frames are taken from the last stage.                             *)
THEOREM FramesHoldSolutions ==
  DirkSpec => [](~(saveSolOpt = 0 /\ LDG) => FramesAreSolutions)
<1>1. DirkInv => (~(saveSolOpt = 0 /\ LDG) => FramesAreSolutions)
  BY DEF DirkInv
<1> QED
  BY StepInvariant, <1>1, PTL
=============================================================================
