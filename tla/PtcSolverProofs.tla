--------------------------- MODULE PtcSolverProofs ---------------------------
(***************************************************************************)
(* The reduced basis under the LDG nonlinear solver, for every capacity    *)
(* RBdim and any number of Newton iterations and time steps: what the ring *)
(* holds, that its columns are independent, and of which iterate the       *)
(* matrix of each product is when a guess is computed.                     *)
(***************************************************************************)
EXTENDS PtcSolver, TLAPS

Solving == {"guessed", "gmres", "update"}

(* The part of the types the ring depends on; solves are numbers.          *)
RingType ==
  /\ W \in [Column -> Nat \cup {NoVec}]
  /\ U \in [Column -> [increment : Nat \cup {NoVec}, iterate : Nat]]
  /\ RBcurrentdim \in 0 .. RBdim
  /\ RBremovedind \in Nat
  /\ n \in Nat /\ u \in Nat
  /\ stored \in Seq(Nat)

(* A ring that has not filled up is filled from column 0; a full one is    *)
(* overwritten at RBremovedind, which wraps at RBdim.                      *)
Ring ==
  /\ RBdim > 0 => RBremovedind < RBdim
  /\ RBdim = 0 => RBremovedind = 0
  /\ RBcurrentdim < RBdim => RBremovedind = RBcurrentdim

(* Solves are stored once, in order, and never when they came from the     *)
(* basis.                                                                  *)
Numbering ==
  /\ \A j \in 1 .. Len(stored) : stored[j] <= n /\ stored[j] \notin combined
  /\ \A j, k \in 1 .. Len(stored) : j < k => stored[j] < stored[k]
  /\ \A m \in combined : m \in Nat /\ m <= n
  /\ pc \in Solving =>
       /\ \A j \in 1 .. Len(stored) : stored[j] # n
       /\ (pc = "update" => status = 0) => n \notin combined

(* How many stores ago column c was written.                               *)
Age(c) == RBremovedind - 1 - c + IF c < RBremovedind THEN 0 ELSE RBdim

(* Column c holds the increment stored Age(c) stores ago.                  *)
ColumnsByAge ==
  /\ RBcurrentdim <= Len(stored)
  /\ \A c \in 0 .. RBcurrentdim - 1 : W[c] = stored[Len(stored) - Age(c)]

(* The increment of a solve is taken by u when the solve is over.          *)
IterateNumber == u = IF pc \in Solving THEN n - 1 ELSE n

(* The iterate of an older column's matrix: the one at which the increment *)
(* stored after it was solved for.                                         *)
OlderProduct(c) == Product(W[c], stored[Len(stored) - Age(c) + 1] - 1)

(* Once an increment is stored after it, the product of a column stays     *)
(* what the last guess before made it.  The newest column's is the one of  *)
(* this solve, from the guess until the update.                            *)
Products ==
  \A c \in 0 .. RBcurrentdim - 1 :
    IF Age(c) = 0
      THEN pc \in Solving => U[c] = Product(W[c], u)
      ELSE U[c] = OlderProduct(c)

RingInv ==
  RingType /\ Ring /\ ColumnsByAge /\ Numbering /\ IterateNumber /\ Products

-----------------------------------------------------------------------------
(* The empty basis satisfies the invariant.                                *)
LEMMA RingInit == Init => RingInv
<1> SUFFICES ASSUME Init PROVE RingInv
  OBVIOUS
<1> USE RBdimAssumption DEF Init, RBInit, Product
<1>1. RBcurrentdim = 0 /\ stored = <<>> /\ Len(stored) = 0
  OBVIOUS
<1>2. RingType
  BY <1>1 DEF RingType
<1>3. Ring
  BY SMT DEF Ring
<1>4. ColumnsByAge
  BY <1>1, SMT DEF ColumnsByAge
<1>5. Products
  BY <1>1, SMT DEF Products, Solving
<1>6. Numbering
  BY <1>1, SMT DEF Numbering, Solving
<1>7. IterateNumber
  BY SMT DEF IterateNumber, Solving
<1> QED
  BY <1>2, <1>3, <1>4, <1>5, <1>6, <1>7 DEF RingInv

(* Ages of the columns in use: distinct, and below the number in use.      *)
LEMMA AgeBounds ==
  ASSUME RingType, Ring, NEW c \in 0 .. RBcurrentdim - 1
  PROVE  Age(c) \in 0 .. RBcurrentdim - 1
  BY RBdimAssumption, SMT DEF RingType, Ring, Age

(* Two columns in use have different ages.                                 *)
LEMMA AgeInjective ==
  ASSUME RingType, Ring, NEW c \in 0 .. RBcurrentdim - 1,
         NEW d \in 0 .. RBcurrentdim - 1, c # d
  PROVE  Age(c) # Age(d)
  BY RBdimAssumption, SMT DEF RingType, Ring, Age

(* The column a guess recomputes is the one of age 0.                      *)
LEMMA NewestColumn ==
  ASSUME RingType, Ring, RBcurrentdim > 0
  PROVE  /\ LastColumn \in 0 .. RBcurrentdim - 1
         /\ \A c \in 0 .. RBcurrentdim - 1 : Age(c) = 0 <=> c = LastColumn
  BY RBdimAssumption, SMT DEF RingType, Ring, Age, LastColumn

(* Every age below the number of columns in use is the age of one.         *)
LEMMA AgeOnto ==
  ASSUME RingType, Ring, NEW age \in 0 .. RBcurrentdim - 1
  PROVE  \E c \in 0 .. RBcurrentdim - 1 : Age(c) = age
<1> DEFINE c == RBremovedind - 1 - age + IF age < RBremovedind THEN 0 ELSE RBdim
<1>1. c \in 0 .. RBcurrentdim - 1 /\ Age(c) = age
  BY RBdimAssumption, SMT DEF RingType, Ring, Age
<1> QED
  BY <1>1

-----------------------------------------------------------------------------
(* UpdateRB(n): the written column gets age 0, the others one more.        *)
LEMMA StorePosition ==
  ASSUME RingType, Ring, RBdim > 0, UpdateRB(n)
  PROVE  /\ RBremovedind \in Column /\ Ring'
         /\ RBcurrentdim' \in 1 .. RBdim /\ RBremovedind' \in Nat
         /\ RBremovedind \in 0 .. RBcurrentdim' - 1
         /\ LastColumn' = RBremovedind
         /\ \A c \in 0 .. RBcurrentdim' - 1 :
              IF c = RBremovedind
                THEN Age(c)' = 0
                ELSE c \in 0 .. RBcurrentdim - 1 /\ Age(c)' = Age(c) + 1
<1> USE RBdimAssumption DEF RingType, Ring, UpdateRB
<1>1. RBremovedind \in Column
  BY SMT DEF Column
<1>2. Ring' /\ RBcurrentdim' \in 1 .. RBdim /\ RBremovedind' \in Nat
  BY SMT
<1>3. RBremovedind \in 0 .. RBcurrentdim' - 1
  BY SMT
<1>4. LastColumn' = RBremovedind
  BY SMT DEF LastColumn
<1>5. ASSUME NEW c \in 0 .. RBcurrentdim' - 1, c = RBremovedind
      PROVE  Age(c)' = 0
  BY <1>5, SMT DEF Age
<1>6. ASSUME NEW c \in 0 .. RBcurrentdim' - 1, c # RBremovedind
      PROVE  c \in 0 .. RBcurrentdim - 1 /\ Age(c)' = Age(c) + 1
  BY <1>6, SMT DEF Age
<1> QED
  BY <1>1, <1>2, <1>3, <1>4, <1>5, <1>6

(* Storing an increment keeps the columns the most recent increments.      *)
LEMMA StoreKeepsRing ==
  ASSUME RingInv, RBdim > 0, UpdateRB(n), stored' = Append(stored, n), UNCHANGED n,
         u' \in Nat
  PROVE  RingType' /\ Ring' /\ ColumnsByAge'
<1>1. RingType /\ Ring /\ ColumnsByAge
  BY DEF RingInv
<1>2. /\ W' = [W EXCEPT ![RBremovedind] = n] /\ U' = U
      /\ W \in [Column -> Nat \cup {NoVec}] /\ RBremovedind \in Column
  BY <1>1, StorePosition DEF UpdateRB, RingType
<1>3. /\ stored \in Seq(Nat) /\ Len(stored) \in Nat /\ n \in Nat
      /\ stored' \in Seq(Nat) /\ Len(stored') = Len(stored) + 1
      /\ stored'[Len(stored) + 1] = n
      /\ \A j \in 1 .. Len(stored) : stored'[j] = stored[j]
  BY <1>1 DEF RingType
<1>4. RingType'
  <2>1. RBcurrentdim' \in 0 .. RBdim /\ RBremovedind' \in Nat
    BY <1>1, StorePosition
  <2> QED
    BY <1>1, <1>2, <1>3, <2>1 DEF RingType
<1>5. RBcurrentdim' <= Len(stored')
  BY <1>1, <1>3, RBdimAssumption, SMT DEF ColumnsByAge, UpdateRB, RingType
<1>6. ASSUME NEW c \in 0 .. RBcurrentdim' - 1
      PROVE  W'[c] = stored'[Len(stored') - Age(c)']
  <2>1. CASE c = RBremovedind
    <3>1. Age(c)' = 0
      BY <1>1, <2>1, StorePosition
    <3> QED
      BY <1>2, <1>3, <2>1, <3>1
  <2>2. CASE c # RBremovedind
    <3>1. c \in 0 .. RBcurrentdim - 1 /\ Age(c)' = Age(c) + 1
      BY <1>1, <2>2, StorePosition
    <3>2. Age(c) \in 0 .. RBcurrentdim - 1 /\ RBcurrentdim <= Len(stored)
      BY <1>1, <3>1, AgeBounds DEF ColumnsByAge
    <3>3. RBcurrentdim \in Nat
      BY <1>1, RBdimAssumption, SMT DEF RingType
    <3>4. Len(stored) - Age(c) \in 1 .. Len(stored)
      BY <1>3, <3>2, <3>3, SMT
    <3>5. Len(stored') - Age(c)' = Len(stored) - Age(c)
      BY <1>3, <3>1, <3>2, <3>3, SMT
    <3>6. W'[c] = W[c]
      BY <1>2, <2>2
    <3> QED
      BY <1>1, <1>3, <3>1, <3>4, <3>5, <3>6 DEF ColumnsByAge
  <2> QED
    BY <2>1, <2>2
<1>7. ColumnsByAge'
  BY <1>5, <1>6 DEF ColumnsByAge
<1> QED
  BY <1>1, <1>4, <1>7, StorePosition

(* A solve is stored when it is the last, later than all stored before.    *)
LEMMA StoreKeepsNumbering ==
  ASSUME RingType, Numbering, pc = "update", status = 0, pc' \notin Solving,
         stored' = Append(stored, n), UNCHANGED <<n, combined>>
  PROVE  Numbering'
<1>1. /\ stored \in Seq(Nat) /\ Len(stored) \in Nat /\ n \in Nat
      /\ Len(stored') = Len(stored) + 1
      /\ stored'[Len(stored) + 1] = n
      /\ \A j \in 1 .. Len(stored) : stored'[j] = stored[j] /\ stored[j] \in Nat
  BY DEF RingType
<1>2. /\ n \notin combined
      /\ \A j \in 1 .. Len(stored) : stored[j] < n
  BY <1>1 DEF Numbering, Solving
<1>3. ASSUME NEW j \in 1 .. Len(stored')
      PROVE  stored'[j] <= n /\ stored'[j] \notin combined
  <2>1. j \in 1 .. Len(stored) \/ j = Len(stored) + 1
    BY <1>1
  <2> QED
    BY <1>1, <1>2, <2>1 DEF Numbering
<1>4. ASSUME NEW j \in 1 .. Len(stored'), NEW k \in 1 .. Len(stored'), j < k
      PROVE  stored'[j] < stored'[k]
  <2>1. j \in 1 .. Len(stored) /\ (k \in 1 .. Len(stored) \/ k = Len(stored) + 1)
    BY <1>1, <1>4
  <2> QED
    BY <1>1, <1>2, <1>4, <2>1 DEF Numbering
<1> QED
  BY <1>3, <1>4 DEF Numbering

(* The Newton update keeps the invariant, stored increment or not.         *)
LEMMA UpdateKeepsRing ==
  ASSUME RingInv, NEW tooLarge \in BOOLEAN, NEW below \in BOOLEAN,
         Update(tooLarge, below)
  PROVE  RingInv'
<1>1. /\ pc = "update" /\ pc' \notin Solving /\ UNCHANGED <<n, combined, status>>
      /\ pc \in Solving /\ u' = u + 1
      /\ RingType /\ Ring /\ ColumnsByAge /\ Products /\ Numbering /\ IterateNumber
  BY DEF Update, Solving, RingInv
<1>2. u = n - 1 /\ u' \in Nat /\ IterateNumber'
  BY <1>1 DEF IterateNumber, RingType
<1>3. CASE UNCHANGED <<rbvars, stored>>
  <2>1. UNCHANGED <<W, U, RBcurrentdim, RBremovedind, stored>>
    BY <1>3 DEF rbvars
  <2>2. RingType' /\ Ring' /\ ColumnsByAge'
    BY <1>1, <1>2, <2>1 DEF RingType, Ring, ColumnsByAge, Age
  <2>3. Products'
    BY <1>1, <2>1 DEF Products, OlderProduct, Age
  <2>4. Numbering'
    BY <1>1, <2>1 DEF Numbering
  <2> QED
    BY <1>2, <2>2, <2>3, <2>4 DEF RingInv
<1>4. CASE UpdateRB(n) /\ stored' = Append(stored, n) /\ status = 0 /\ RBdim > 0
  <2>1. RingType' /\ Ring' /\ ColumnsByAge'
    BY <1>1, <1>2, <1>4, StoreKeepsRing
  <2>2. ASSUME NEW c \in 0 .. RBcurrentdim' - 1, Age(c)' # 0
        PROVE  U'[c] = OlderProduct(c)'
    <3>1. c \in 0 .. RBcurrentdim - 1 /\ c # RBremovedind /\ Age(c)' = Age(c) + 1
      BY <1>1, <1>4, <2>2, StorePosition
    <3>2. U' = U /\ W'[c] = W[c]
      BY <1>1, <1>4, <3>1, StorePosition DEF UpdateRB, RingType
    <3>3. /\ Age(c) \in 0 .. RBcurrentdim - 1 /\ RBcurrentdim \in Nat
          /\ RBcurrentdim <= Len(stored)
      BY <1>1, <3>1, AgeBounds, RBdimAssumption, SMT DEF ColumnsByAge, RingType
    <3>4. /\ Len(stored') = Len(stored) + 1 /\ stored'[Len(stored) + 1] = n
          /\ Len(stored) \in Nat /\ \A j \in 1 .. Len(stored) : stored'[j] = stored[j]
      BY <1>1, <1>4 DEF RingType
    <3>5. OlderProduct(c)' = Product(W[c], stored'[Len(stored) - Age(c) + 1] - 1)
      <4>1. Len(stored') - Age(c)' + 1 = Len(stored) - Age(c) + 1
        BY <3>1, <3>3, <3>4
      <4> QED
        BY <3>2, <4>1 DEF OlderProduct, Product
    <3>6. CASE Age(c) = 0
      <4>1. stored'[Len(stored) - Age(c) + 1] = n
        BY <3>4, <3>6
      <4> QED
        BY <1>1, <1>2, <3>1, <3>2, <3>5, <3>6, <4>1 DEF Products
    <3>7. CASE Age(c) # 0
      <4>1. Len(stored) - Age(c) + 1 \in 1 .. Len(stored)
        BY <3>3, <3>4, <3>7
      <4> QED
        BY <1>1, <3>1, <3>2, <3>4, <3>5, <3>7, <4>1 DEF Products, OlderProduct
    <3> QED
      BY <3>6, <3>7
  <2>3. Products'
    BY <1>1, <2>2 DEF Products
  <2>4. Numbering'
    BY <1>1, <1>4, StoreKeepsNumbering
  <2> QED
    BY <1>2, <2>1, <2>3, <2>4 DEF RingInv
<1> QED
  BY <1>3, <1>4 DEF Update, StoreIncrement

(* A new linear solve has a new number.                                    *)
LEMMA SolveKeepsNumbering ==
  ASSUME RingType, Numbering, n' = n + 1, UNCHANGED <<stored, combined>>,
         pc' \in Solving
  PROVE  Numbering'
<1>1. n \in Nat /\ \A j \in 1 .. Len(stored) : stored[j] \in Nat
  BY DEF RingType
<1> QED
  BY <1>1 DEF Numbering

(* A guess recomputes the product of the newest column, and no other.      *)
LEMMA GuessKeepsRing == ASSUME RingInv, Guess PROVE RingInv'
<1>1. /\ RBcurrentdim > 0 /\ n' = n + 1 /\ pc' = "guessed" /\ pc = "solve"
      /\ U' = [U EXCEPT ![LastColumn] = Product(W[LastColumn], u)]
      /\ UNCHANGED <<u, W, RBcurrentdim, RBremovedind, stored, combined>>
      /\ RingType /\ Ring /\ ColumnsByAge /\ Products /\ Numbering /\ IterateNumber
  BY DEF Guess, ComputeInitialGuess, RingInv
<1>2. LastColumn \in 0 .. RBcurrentdim - 1 /\ LastColumn \in Column
  BY <1>1, NewestColumn, RBdimAssumption, SMT DEF Column, RingType
<1>3. U' \in [Column -> [increment : Nat \cup {NoVec}, iterate : Nat]] /\ n' \in Nat
  BY <1>1, <1>2 DEF RingType, Product
<1>4. RingType' /\ Ring' /\ ColumnsByAge'
  BY <1>1, <1>3 DEF RingType, Ring, ColumnsByAge, Age
<1>5. ASSUME NEW c \in 0 .. RBcurrentdim - 1
      PROVE  IF Age(c) = 0 THEN U'[c] = Product(W[c], u) ELSE U'[c] = OlderProduct(c)
  <2>1. c \in Column /\ (Age(c) = 0 <=> c = LastColumn)
    BY <1>1, NewestColumn, RBdimAssumption, SMT DEF Column, RingType
  <2>2. CASE c = LastColumn
    BY <1>1, <1>2, <2>1, <2>2 DEF RingType
  <2>3. CASE c # LastColumn
    <3>1. U[c] = OlderProduct(c)
      BY <1>1, <2>1, <2>3 DEF Products
    <3>2. U'[c] = U[c]
      BY <1>1, <2>1, <2>3 DEF RingType
    <3> QED
      BY <2>1, <2>3, <3>1, <3>2
  <2> QED
    BY <2>2, <2>3
<1>6. Products'
  BY <1>1, <1>5 DEF Products, OlderProduct, Age
<1>7. Numbering' /\ IterateNumber'
  BY <1>1, SolveKeepsNumbering DEF Solving, IterateNumber, RingType
<1> QED
  BY <1>4, <1>6, <1>7 DEF RingInv

(* Keeping or dropping the basis after a guess keeps the invariant.        *)
LEMMA JudgeKeepsRing ==
  ASSUME RingInv, NEW worse \in BOOLEAN, NEW small \in BOOLEAN,
         JudgeGuess(worse, small)
  PROVE  RingInv'
<1>1. /\ pc = "guessed" /\ pc' \in {"gmres", "update"}
      /\ UNCHANGED <<W, U, n, stored, u>>
      /\ RingType /\ Ring /\ ColumnsByAge /\ Products /\ Numbering /\ IterateNumber
  BY DEF JudgeGuess, ResetRB, rbvars, RingInv
<1>2. \/ RBcurrentdim' = 0 /\ RBremovedind' = 0
      \/ UNCHANGED <<RBcurrentdim, RBremovedind>>
  BY DEF JudgeGuess, ResetRB, rbvars
<1>3. RingType' /\ Ring'
  BY <1>1, <1>2, RBdimAssumption, SMT DEF RingType, Ring
<1>4. ColumnsByAge' /\ Products'
  <2>1. CASE RBcurrentdim' = 0 /\ RBremovedind' = 0
    <3>1. Len(stored) \in Nat /\ 0 .. RBcurrentdim' - 1 = {}
      BY <1>1, <2>1 DEF RingType
    <3> QED
      BY <1>1, <2>1, <3>1 DEF ColumnsByAge, Products
  <2>2. CASE UNCHANGED <<RBcurrentdim, RBremovedind>>
    BY <1>1, <2>2 DEF ColumnsByAge, Age, Products, OlderProduct, Solving
  <2> QED
    BY <1>2, <2>1, <2>2
<1>5. Numbering'
  <2>1. \/ pc' = "update" /\ status' = 1 /\ combined' = combined \cup {n}
        \/ pc' = "gmres" /\ UNCHANGED combined
    BY DEF JudgeGuess
  <2>2. n \in Nat /\ \A j \in 1 .. Len(stored) : stored[j] # n
    BY <1>1 DEF Numbering, Solving, RingType
  <2> QED
    BY <1>1, <2>1, <2>2 DEF Numbering, Solving
<1>6. IterateNumber'
  BY <1>1 DEF IterateNumber, Solving
<1> QED
  BY <1>3, <1>4, <1>5, <1>6 DEF RingInv

(* Steps that leave the ring and its history alone.                        *)
LEMMA QuietKeepsRing ==
  ASSUME RingInv,
         UNCHANGED <<W, U, RBcurrentdim, RBremovedind, n, u, stored, combined>>,
         \/ pc \notin Solving /\ pc' \notin Solving
         \/ pc \in {"guessed", "gmres"} /\ pc' \in Solving
         \/ pc' = pc /\ status' = status
  PROVE  RingInv'
<1>1. RingType' /\ Ring' /\ ColumnsByAge'
  BY DEF RingInv, RingType, Ring, ColumnsByAge, Age
<1>2. Products'
  <2>1. pc' \in Solving => pc \in Solving
    BY DEF Solving
  <2>2. Products /\ UNCHANGED <<W, U, RBcurrentdim, RBremovedind, u, stored>>
    BY DEF RingInv
  <2>3. ASSUME NEW c \in 0 .. RBcurrentdim - 1
        PROVE  /\ U'[c] = U[c] /\ Age(c)' = Age(c) /\ OlderProduct(c)' = OlderProduct(c)
               /\ Product(W[c], u)' = Product(W[c], u)
    BY <2>2 DEF OlderProduct, Age, Product
  <2> QED
    BY <2>1, <2>2, <2>3 DEF Products
<1>3. Numbering' /\ IterateNumber'
  BY DEF RingInv, Numbering, IterateNumber, Solving
<1> QED
  BY <1>1, <1>2, <1>3 DEF RingInv

(* Every step keeps the invariant.                                         *)
LEMMA RingStep == ASSUME RingInv, [Next]_vars PROVE RingInv'
<1>1. CASE Call
  BY <1>1, QuietKeepsRing DEF Call, rbvars, Solving
<1>2. CASE SolveFromZero
  <2>1. /\ n' = n + 1 /\ pc' = "gmres" /\ RBcurrentdim = 0
        /\ UNCHANGED <<u, W, U, RBcurrentdim, RBremovedind, stored, combined>>
        /\ RingType /\ Ring /\ ColumnsByAge /\ Numbering
        /\ IterateNumber /\ pc = "solve"
    BY <1>2 DEF SolveFromZero, rbvars, RingInv
  <2>2. RingType' /\ Ring' /\ ColumnsByAge'
    BY <2>1 DEF RingType, Ring, ColumnsByAge, Age
  <2>3. Products'
    BY <2>1, SMT DEF Products, Solving
  <2>4. Numbering' /\ IterateNumber'
    BY <2>1, SolveKeepsNumbering DEF Solving, IterateNumber, RingType
  <2> QED
    BY <2>2, <2>3, <2>4 DEF RingInv
<1>3. CASE Guess
  BY <1>3, GuessKeepsRing
<1>4. ASSUME NEW worse \in BOOLEAN, NEW small \in BOOLEAN, JudgeGuess(worse, small)
      PROVE  RingInv'
  BY <1>4, JudgeKeepsRing
<1>5. ASSUME NEW zero \in BOOLEAN, RunGmres(zero) PROVE RingInv'
  BY <1>5, QuietKeepsRing DEF RunGmres, rbvars, Solving
<1>6. ASSUME NEW tooLarge \in BOOLEAN, NEW below \in BOOLEAN, Update(tooLarge, below)
      PROVE  RingInv'
  BY <1>6, UpdateKeepsRing
<1>7. CASE UNCHANGED vars
  BY <1>7, QuietKeepsRing DEF vars
<1> QED
  BY <1>1, <1>2, <1>3, <1>4, <1>5, <1>6, <1>7 DEF Next

(* The inductive invariant of the reduced basis holds in every reachable   *)
(* state.                                                                  *)
THEOREM RingInvariant == Spec => []RingInv
<1> QED
  BY RingInit, RingStep, PTL DEF Spec

-----------------------------------------------------------------------------
(* The ring holds the most recent increments, through wraps and resets.    *)
THEOREM BasisStaysRecent == Spec => []BasisIsRecent
<1>1. RingInv => BasisIsRecent
  <2> SUFFICES ASSUME RingInv PROVE BasisIsRecent
    OBVIOUS
  <2> DEFINE L == Len(stored)
             InUse == 0 .. RBcurrentdim - 1
  <2>1. RingType /\ Ring /\ ColumnsByAge
    BY DEF RingInv
  <2>2. ASSUME NEW c \in InUse
        PROVE  Age(c) \in InUse /\ W[c] = stored[L - Age(c)]
    BY <2>1, AgeBounds DEF ColumnsByAge
  <2>3. ASSUME NEW age \in InUse
        PROVE  \E c \in InUse : W[c] = stored[L - age]
    <3>1. PICK c \in InUse : Age(c) = age
      BY <2>1, AgeOnto
    <3> QED
      BY <2>2, <3>1
  <2>4. {W[c] : c \in InUse} = {stored[L - age] : age \in InUse}
    <3>1. ASSUME NEW v \in {W[c] : c \in InUse}
          PROVE  v \in {stored[L - age] : age \in InUse}
      <4>1. PICK c \in InUse : v = W[c]
        OBVIOUS
      <4>2. Age(c) \in InUse /\ v = stored[L - Age(c)]
        BY <2>2, <4>1
      <4> HIDE DEF InUse, L
      <4> QED
        BY <4>2
    <3>2. ASSUME NEW v \in {stored[L - age] : age \in InUse}
          PROVE  v \in {W[c] : c \in InUse}
      <4>1. PICK age \in InUse : v = stored[L - age]
        OBVIOUS
      <4>2. PICK c \in InUse : W[c] = stored[L - age]
        BY <2>3
      <4> HIDE DEF InUse, L
      <4> QED
        BY <4>1, <4>2
    <3> QED
      BY <3>1, <3>2
  <2> QED
    BY <2>1, <2>4 DEF BasisIsRecent, ColumnsByAge
<1> QED
  BY <1>1, RingInvariant, PTL

(* A guess combines the products of its own columns: the newest with the   *)
(* matrix of this solve, every older one with the matrix of the solve      *)
(* whose increment was stored next.                                        *)
THEOREM GuessUsesItsColumns == Spec => []GuessFromItsColumns
<1>1. RingInv => GuessFromItsColumns
  <2> DEFINE L == Len(stored)
             IterateOf(age) == IF age = 0 THEN u ELSE stored[L - age + 1] - 1
  <2> SUFFICES ASSUME RingInv, pc = "guessed",
                      NEW c \in 0 .. RBcurrentdim - 1,
                      NEW age \in 0 .. RBcurrentdim - 1, W[c] = stored[L - age]
               PROVE  U[c] = Product(W[c], IterateOf(age))
    BY DEF GuessFromItsColumns
  <2>1. RingType /\ Ring /\ ColumnsByAge /\ Numbering /\ Products /\ pc \in Solving
    BY DEF RingInv, Solving
  <2>2. /\ L \in Nat /\ RBcurrentdim \in Nat /\ RBcurrentdim <= L
        /\ \A j \in 1 .. L : stored[j] \in Nat
    BY <2>1, RBdimAssumption DEF RingType, ColumnsByAge
  <2>3. Age(c) \in 0 .. RBcurrentdim - 1 /\ W[c] = stored[L - Age(c)]
    BY <2>1, AgeBounds DEF ColumnsByAge
  <2>4. age = Age(c)
    <3>1. L - age \in 1 .. L /\ L - Age(c) \in 1 .. L
      BY <2>2, <2>3
    <3>2. /\ L - age < L - Age(c) => stored[L - age] < stored[L - Age(c)]
          /\ L - Age(c) < L - age => stored[L - Age(c)] < stored[L - age]
      BY <2>1, <3>1 DEF Numbering
    <3>3. stored[L - age] \in Nat /\ stored[L - age] = stored[L - Age(c)]
      BY <2>2, <2>3, <3>1
    <3> QED
      BY <2>2, <2>3, <3>2, <3>3
  <2> QED
    BY <2>1, <2>3, <2>4 DEF Products, OlderProduct
<1> QED
  BY <1>1, RingInvariant, PTL

(* The columns of the basis come from different solves of GMRES.           *)
THEOREM ColumnsAreIndependent == Spec => []ColumnsIndependent
<1>1. RingInv => ColumnsIndependent
  <2> SUFFICES ASSUME RingInv, NEW c \in 0 .. RBcurrentdim - 1
               PROVE  /\ W[c] \notin combined
                      /\ \A d \in 0 .. RBcurrentdim - 1 : c # d => W[c] # W[d]
    BY DEF ColumnsIndependent
  <2> DEFINE L == Len(stored)
  <2>1. /\ RingType /\ Ring /\ ColumnsByAge /\ Numbering
        /\ L \in Nat /\ RBcurrentdim \in Nat
        /\ \A j \in 1 .. L : stored[j] \in Nat
    BY RBdimAssumption DEF RingInv, RingType
  <2>2. ASSUME NEW d \in 0 .. RBcurrentdim - 1
        PROVE  /\ Age(d) \in Int /\ L - Age(d) \in 1 .. L
               /\ W[d] = stored[L - Age(d)]
    <3>1. Age(d) \in 0 .. RBcurrentdim - 1 /\ RBcurrentdim <= L
      BY <2>1, AgeBounds DEF ColumnsByAge
    <3> QED
      BY <2>1, <3>1 DEF ColumnsByAge
  <2>3. W[c] \notin combined
    BY <2>1, <2>2 DEF Numbering
  <2>4. ASSUME NEW d \in 0 .. RBcurrentdim - 1, c # d PROVE W[c] # W[d]
    <3>1. Age(c) # Age(d)
      BY <2>1, <2>4, AgeInjective
    <3>2. L - Age(c) < L - Age(d) \/ L - Age(d) < L - Age(c)
      BY <2>1, <2>2, <3>1
    <3>3. stored[L - Age(c)] < stored[L - Age(d)] \/ stored[L - Age(d)] < stored[L - Age(c)]
      BY <2>1, <2>2, <3>2 DEF Numbering
    <3> QED
      BY <2>1, <2>2, <3>3
  <2> QED
    BY <2>3, <2>4
<1> QED
  BY <1>1, RingInvariant, PTL

-----------------------------------------------------------------------------
(* A call makes at most maxit linear solves.                               *)
Budget ==
  /\ pc = "idle" => n <= maxit * calls
  /\ pc = "solve" => calls > 0 /\ it < maxit /\ n <= maxit * (calls - 1) + it
  /\ pc \in Solving =>
       calls > 0 /\ it < maxit /\ 0 < n /\ n <= maxit * (calls - 1) + it + 1

SolverInv == RingInv /\ PtcInv /\ Budget

(* The numbers of solves: those of call k lie in block k of maxit.         *)
LEMMA BlockOfCall ==
  ASSUME NEW m \in Nat \ {0}, NEW k \in Nat, k > 0, NEW top \in Nat, k <= top
  PROVE  /\ m * (k - 1) \in Nat /\ m * k = m * (k - 1) + m
         /\ m * k <= m * top /\ m * k \in Nat /\ m * top \in Nat
<1>1. m * (k - 1) \in Nat /\ m * k \in Nat /\ m * top \in Nat
  BY SMT
<1>2. m * k = m * (k - 1) + m
  BY SMT
<1>3. m * k <= m * top
  BY SMT
<1> QED
  BY <1>1, <1>2, <1>3

(* The numbers in play; all solves of the bounded number of calls.         *)
Bound == maxit * MaxCalls

LEMMA SolverNumbers ==
  ASSUME TypeOK
  PROVE  /\ Bound \in Nat /\ Vec = 1 .. Bound /\ 2 * maxit * MaxCalls = 2 * Bound
         /\ maxit \in Nat \ {0} /\ MaxCalls \in Nat /\ RBdim \in Nat
         /\ n \in 0 .. Bound /\ u \in 0 .. Bound
         /\ it \in 0 .. maxit /\ calls \in 0 .. MaxCalls
<1>1. maxit \in Nat \ {0} /\ MaxCalls \in Nat /\ RBdim \in Nat
      /\ Vec = 1 .. maxit * MaxCalls
  BY PtcAssumption, PtcVecAssumption, RBdimAssumption
<1>2. maxit * MaxCalls \in Nat /\ 2 * maxit * MaxCalls = 2 * (maxit * MaxCalls)
  BY <1>1, SMT
<1> QED
  BY <1>1, <1>2 DEF TypeOK, Bound

(* Twice the iterate, and the trial iterate after it.                      *)
LEMMA IterateType ==
  ASSUME TypeOK
  PROVE  /\ At(u) \in 0 .. 2 * maxit * MaxCalls
         /\ u < Bound => Trial \in 0 .. 2 * maxit * MaxCalls /\ At(u + 1) \in 0 .. 2 * maxit * MaxCalls
  BY SolverNumbers DEF At, Trial

(* During a solve the increment is not yet taken and can be.               *)
LEMMA TakenLater ==
  ASSUME TypeOK, Budget, IterateNumber, pc \in Solving
  PROVE  u = n - 1 /\ u < Bound /\ n \in Vec
  BY SolverNumbers DEF Budget, IterateNumber

(* In a call there is room for one more solve.                             *)
LEMMA RoomForSolve ==
  ASSUME TypeOK, Budget, IterateNumber, pc = "solve"
  PROVE  u = n /\ n < Bound
<1>1. /\ calls \in Nat /\ calls > 0 /\ calls <= MaxCalls /\ it < maxit /\ it \in Nat
      /\ maxit \in Nat \ {0} /\ MaxCalls \in Nat
      /\ n \in Nat /\ n <= maxit * (calls - 1) + it /\ u = n
  BY SolverNumbers DEF Budget, IterateNumber, Solving
<1>2. /\ maxit * (calls - 1) \in Nat /\ maxit * calls = maxit * (calls - 1) + maxit
      /\ maxit * calls <= maxit * MaxCalls
      /\ maxit * calls \in Nat /\ maxit * MaxCalls \in Nat
  BY <1>1, BlockOfCall
<1> QED
  BY <1>1, <1>2 DEF Bound

(* The ring has the types of the model when it is written or recomputed.   *)
LEMMA RingSteps ==
  ASSUME RingInv, TypeOK
  PROVE  /\ ComputeInitialGuess(u) => RBTypeOK'
         /\ UpdateRB(n) /\ RBdim > 0 /\ n \in Vec => RBTypeOK'
         /\ ResetRB \/ UNCHANGED rbvars => RBTypeOK'
<1>1. /\ RBTypeOK /\ RBdim \in Nat /\ RBcurrentdim \in 0 .. RBdim /\ RBremovedind \in Nat
      /\ Ring /\ RingType
  BY RBdimAssumption DEF TypeOK, RBTypeOK, RingInv, RingType
<1>2. ASSUME ComputeInitialGuess(u) PROVE RBTypeOK'
  <2>1. LastColumn \in Column /\ U' = [U EXCEPT ![LastColumn] = Product(W[LastColumn], u)]
        /\ UNCHANGED <<W, RBcurrentdim, RBremovedind>>
    BY <1>1, <1>2, SMT DEF ComputeInitialGuess, LastColumn, Column, Ring
  <2>2. W[LastColumn] \in Vec \cup {NoVec} /\ u \in Nat
    BY <1>1, <2>1 DEF RBTypeOK, RingType
  <2> QED
    BY <1>1, <2>1, <2>2 DEF RBTypeOK, Product
<1>3. ASSUME UpdateRB(n), RBdim > 0, n \in Vec PROVE RBTypeOK'
  <2>1. /\ RBremovedind \in Column /\ RBcurrentdim' \in 0 .. RBdim
        /\ RBremovedind' \in 0 .. RBdim
    BY <1>1, <1>3, SMT DEF UpdateRB, Column, Ring
  <2> QED
    BY <1>1, <1>3, <2>1 DEF UpdateRB, RBTypeOK
<1>4. ASSUME ResetRB \/ UNCHANGED rbvars PROVE RBTypeOK'
  BY <1>1, <1>4 DEF ResetRB, rbvars, RBTypeOK
<1> QED
  BY <1>2, <1>3, <1>4

(* The types of the variables of the solver are kept.                      *)
LEMMA SolverStep == ASSUME SolverInv, [Next]_vars PROVE SolverInv'
<1>1. RingInv /\ RingInv' /\ TypeOK /\ UdgIsIterate /\ Budget /\ IterateNumber
  BY RingStep DEF SolverInv, PtcInv, RingInv
<1>2. At(u) \in 0 .. 2 * maxit * MaxCalls
  BY <1>1, IterateType
<1>3. CASE Call
  <2>1. RBTypeOK'
    BY <1>1, <1>3, RingSteps DEF Call
  <2>2. TypeOK' /\ UdgIsIterate'
    BY <1>1, <1>2, <1>3, <2>1, SolverNumbers DEF Call, TypeOK, UdgIsIterate, At
  <2>3. Budget'
    BY <1>1, <1>3, SolverNumbers DEF Call, Budget, Solving
  <2> QED
    BY <1>1, <2>2, <2>3 DEF SolverInv, PtcInv
<1>4. CASE SolveFromZero \/ Guess
  <2>1. /\ pc = "solve" /\ n' = n + 1 /\ pc' \in {"guessed", "gmres"}
        /\ b' = At(u) /\ udg' \in {At(u), Trial} /\ x' \in {"zero", "guess"}
        /\ UNCHANGED <<u, status, converged, combined, stored, it, calls>>
        /\ (ComputeInitialGuess(u) \/ UNCHANGED rbvars)
    BY <1>4 DEF SolveFromZero, Guess
  <2>2. u = n /\ n < Bound
    BY <1>1, <2>1, RoomForSolve
  <2>3. RBTypeOK' /\ Trial \in 0 .. 2 * maxit * MaxCalls
    BY <1>1, <2>1, <2>2, RingSteps, IterateType
  <2>4. n' \in 0 .. maxit * MaxCalls
    BY <1>1, <2>1, <2>2, SolverNumbers DEF Bound
  <2>5. TypeOK' /\ UdgIsIterate'
    BY <1>1, <1>2, <2>1, <2>3, <2>4 DEF TypeOK, UdgIsIterate
  <2>6. Budget'
    BY <1>1, <2>1, <2>2, SolverNumbers DEF Budget, Solving
  <2> QED
    BY <1>1, <2>5, <2>6 DEF SolverInv, PtcInv
<1>5. ASSUME NEW worse \in BOOLEAN, NEW small \in BOOLEAN, JudgeGuess(worse, small)
      PROVE  SolverInv'
  <2>1. /\ pc = "guessed" /\ pc' \in {"gmres", "update"} /\ x' \in {"zero", x}
        /\ status' \in {1, status} /\ combined' \in {combined, combined \cup {n}}
        /\ UNCHANGED <<u, udg, b, n, converged, stored, it, calls>>
        /\ (ResetRB \/ UNCHANGED rbvars)
    BY <1>5 DEF JudgeGuess
  <2>2. n \in Vec
    BY <1>1, <2>1, TakenLater DEF Solving
  <2>3. TypeOK' /\ UdgIsIterate'
    BY <1>1, <2>1, <2>2, RingSteps DEF TypeOK, UdgIsIterate
  <2>4. Budget'
    BY <1>1, <2>1 DEF Budget, Solving
  <2> QED
    BY <1>1, <2>3, <2>4 DEF SolverInv, PtcInv
<1>6. ASSUME NEW zero \in BOOLEAN, RunGmres(zero) PROVE SolverInv'
  <2>1. /\ pc = "gmres" /\ pc' = "update" /\ x' \in {"zero", "gmres"} /\ udg' = Trial
        /\ status' = 0
        /\ UNCHANGED <<rbvars, u, b, n, converged, combined, stored, it, calls>>
    BY <1>6 DEF RunGmres
  <2>2. Trial \in 0 .. 2 * maxit * MaxCalls
    BY <1>1, <2>1, TakenLater, IterateType DEF Solving
  <2>3. TypeOK' /\ UdgIsIterate'
    BY <1>1, <2>1, <2>2, RingSteps DEF TypeOK, UdgIsIterate
  <2>4. Budget'
    BY <1>1, <2>1 DEF Budget, Solving
  <2> QED
    BY <1>1, <2>3, <2>4 DEF SolverInv, PtcInv
<1>7. ASSUME NEW tooLarge \in BOOLEAN, NEW below \in BOOLEAN, Update(tooLarge, below)
      PROVE  SolverInv'
  <2>1. /\ pc = "update" /\ u' = u + 1 /\ udg' = At(u') /\ converged' \in BOOLEAN
        /\ UNCHANGED <<b, n, x, status, combined, calls>>
        /\ \/ pc' = "aborted" /\ UNCHANGED <<rbvars, stored, it>>
           \/ /\ pc' = "idle" \/ (pc' = "solve" /\ it + 1 # maxit)
              /\ it' = it + 1
              /\ \/ UNCHANGED <<rbvars, stored>>
                 \/ UpdateRB(n) /\ RBdim > 0 /\ stored' = Append(stored, n)
    BY <1>7 DEF Update, EvaluatedAt, StoreIncrement, LastIteration
  <2>2. u = n - 1 /\ u < Bound /\ n \in Vec
    BY <1>1, <2>1, TakenLater DEF Solving
  <2>3. u' = n /\ u' \in 0 .. maxit * MaxCalls
    BY <1>1, <2>1, <2>2, SolverNumbers DEF Bound
  <2>4. udg' \in 0 .. 2 * maxit * MaxCalls
    BY <1>1, <2>1, <2>2, IterateType
  <2>5. RBTypeOK' /\ stored' \in Seq(Vec)
    <3>1. stored \in Seq(Vec)
      BY <1>1 DEF TypeOK
    <3>2. CASE UNCHANGED rbvars /\ UNCHANGED stored
      BY <1>1, <3>1, <3>2, RingSteps
    <3>3. CASE UpdateRB(n) /\ RBdim > 0 /\ stored' = Append(stored, n)
      <4>1. RBTypeOK'
        BY <1>1, <2>2, <3>3, RingSteps
      <4>2. stored' \in Seq(Vec)
        BY <2>2, <3>1, <3>3
      <4> QED
        BY <4>1, <4>2
    <3> QED
      BY <2>1, <3>2, <3>3, Zenon
  <2>6. it \in Nat /\ it < maxit /\ it' \in 0 .. maxit
    <3>1. it \in Nat /\ maxit \in Nat /\ it < maxit
      BY <1>1, <2>1, SolverNumbers DEF Budget, Solving
    <3>2. it' = it \/ it' = it + 1
      BY <2>1, Zenon
    <3> QED
      BY <3>1, <3>2
  <2>7. TypeOK'
    <3>1. pc' \in {"idle", "solve", "guessed", "gmres", "update", "aborted"}
      BY <2>1
    <3> QED
      BY <1>1, <2>1, <2>3, <2>4, <2>5, <2>6, <3>1 DEF TypeOK
  <2>8. UdgIsIterate'
    <3>1. udg' = At(u)'
      BY <2>1 DEF At
    <3> QED
      BY <3>1 DEF UdgIsIterate
  <2>9. Budget'
    <3>1. /\ n \in Nat /\ it \in Nat /\ calls \in Nat /\ calls > 0 /\ calls <= MaxCalls
          /\ maxit \in Nat \ {0} /\ MaxCalls \in Nat /\ n <= maxit * (calls - 1) + it + 1
      BY <1>1, <2>1, SolverNumbers DEF Budget, Solving
    <3>2. maxit * (calls - 1) \in Nat /\ maxit * calls = maxit * (calls - 1) + maxit
      BY <3>1, BlockOfCall
    <3>3. UNCHANGED <<n, calls>> /\ u' = n
      BY <2>1, <2>3
    <3>4. CASE pc' = "solve" /\ it' = it + 1 /\ it + 1 # maxit
      BY <2>6, <3>1, <3>3, <3>4 DEF Budget, Solving
    <3>5. CASE pc' \in {"idle", "aborted"}
      <4>1. n <= maxit * calls
        BY <2>6, <3>1, <3>2
      <4> QED
        BY <3>3, <3>5, <4>1 DEF Budget, Solving
    <3> QED
      BY <2>1, <3>4, <3>5, Zenon
  <2> QED
    BY <1>1, <2>7, <2>8, <2>9 DEF SolverInv, PtcInv
<1>8. CASE UNCHANGED vars
  <2>1. UNCHANGED rbvars
    BY <1>8 DEF vars, rbvars
  <2>2. TypeOK'
    BY <1>1, <1>8, <2>1, RingSteps DEF vars, TypeOK
  <2>3. UdgIsIterate' /\ Budget'
    BY <1>1, <1>8 DEF vars, UdgIsIterate, At, Budget
  <2> QED
    BY <1>1, <2>2, <2>3 DEF SolverInv, PtcInv
<1> QED
  BY <1>3, <1>4, <1>5, <1>6, <1>7, <1>8 DEF Next

(* The invariant of the solver holds before the first call.                *)
LEMMA SolverInit == Init => SolverInv
<1> SUFFICES ASSUME Init PROVE SolverInv
  OBVIOUS
<1>1. RingInv
  BY RingInit
<1>2. /\ maxit \in Nat \ {0} /\ MaxCalls \in Nat /\ RBdim \in Nat
      /\ maxit * MaxCalls \in Nat /\ 2 * maxit * MaxCalls \in Nat
  BY PtcAssumption, RBdimAssumption, SMT
<1>3. RBTypeOK /\ stored \in Seq(Vec)
  BY <1>2 DEF Init, RBInit, RBTypeOK, Product
<1>4. UdgIsIterate /\ Budget
  BY <1>2 DEF Init, UdgIsIterate, At, Budget, Solving
<1>5. TypeOK
  <2>1. 0 \in 0 .. maxit * MaxCalls /\ 0 \in 0 .. 2 * maxit * MaxCalls
        /\ 0 \in 0 .. maxit /\ 0 \in 0 .. MaxCalls
    BY <1>2
  <2> QED
    BY <1>3, <2>1, Zenon DEF Init, TypeOK
<1> QED
  BY <1>1, <1>4, <1>5 DEF SolverInv, PtcInv

(* For any capacity, iteration limit and number of calls the solver keeps  *)
(* its types, and between two linear solves and on return udg belongs to   *)
(* the iterate u, whatever trial iterates were evaluated.                  *)
THEOREM UdgFollowsIterate == Spec => []PtcInv
<1>1. SolverInv => PtcInv
  BY DEF SolverInv
<1> QED
  BY <1>1, SolverInit, SolverStep, PTL DEF Spec
=============================================================================
