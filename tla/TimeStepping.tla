----------------------------- MODULE TimeStepping -----------------------------
(***************************************************************************)
(* One DIRK time step after another of several coupled PDE models: the     *)
(* time loop of src/backend/Main/main.cpp with PreviousSolutions,          *)
(* UpdateSource, UpdateSolution (src/backend/Solution), the coupling       *)
(* through odg at the head of SteadyProblem, and the frames SaveSolutions  *)
(* writes.                                                                 *)
(*                                                                         *)
(* The source term of a stage is built in place from the one of the stage  *)
(* before, and the solution of the step is accumulated in utmp while the   *)
(* stages overwrite udg.  Both are linear, so a vector is represented by   *)
(* its coefficients over the solution the step started from (index 0) and  *)
(* the solutions of its stages (1 .. tstages).  The coefficients c and d   *)
(* of the scheme are small integers, any that divide where the code        *)
(* divides.  The time step is 1.                                           *)
(***************************************************************************)
EXTENDS Integers, Sequences

CONSTANTS
  nummodels,  \* number of PDE models, coupled through odg
  tstages,    \* number of DIRK stages: 1, 2 or 3
  tsteps,     \* number of time steps
  LDG,        \* spatialScheme = 0
  saveSolOpt, \* 0: frames hold u only, 1: all of udg
  Coeff       \* values of the coefficients c and d of the scheme

ASSUME StagesAssumption == tstages \in 1 .. 3 /\ tsteps \in Nat
ASSUME ModelsAssumption == nummodels \in Nat \ {0}
ASSUME SaveAssumption == LDG \in BOOLEAN /\ saveSolOpt \in {0, 1}
ASSUME CoeffAssumption == Coeff \subseteq Int

Models == 0 .. nummodels - 1
Stage == 1 .. tstages
Basis == 0 .. tstages

VARIABLES
  c, d,      \* DIRKcoeff_c, and DIRKcoeff_d as d[k][l], l <= k
  istep, currentstage, model, phase,
  udg,       \* sol.udg of every model
  u,         \* sys.u: what the nonlinear solver left there (LDG)
  utmp,      \* sys.utmp
  udgprev,   \* sys.udgprev
  sdg,       \* sol.sdg, with the factor 1/dt taken out
  odg,       \* odg[m][k]: udg of model k as model m has copied it last,
             \* with the step it was copied in
  frames     \* frames[m]: what SaveSolutions has appended to outsol

dirkvars == <<c, d, istep, currentstage, model, phase, udg, u, utmp, udgprev,
              sdg, odg, frames>>

-----------------------------------------------------------------------------
(* Vectors.                                                                *)
Unit(k) == [b \in Basis |-> IF b = k THEN 1 ELSE 0]
AXPBY(x, y, a, b) == [k \in Basis |-> a * x[k] + b * y[k]]
Scale(x, a) == [k \in Basis |-> a * x[k]]

(* Exact quotients, whatever the signs.                                    *)
Divides(a, b) == b % (IF a < 0 THEN -a ELSE a) = 0
Quotient(b, a) == IF a < 0 THEN (-b) \div (-a) ELSE b \div a

SumOf(v) ==
  LET sum[k \in 0 .. tstages] == IF k = 0 THEN 0 ELSE sum[k - 1] + v[k]
  IN sum[tstages]

SumC == SumOf(c)

-----------------------------------------------------------------------------
MoreSteps == istep < tsteps

OldWeight_Whole == 1  \* mistake: utmp starts as the old solution
OldWeight == 1 - SumC

(* For all models: the solution of the last step becomes index 0.          *)
PreviousSolutions ==
  /\ phase = "previous"
  /\ MoreSteps
  /\ udg' = [m \in Models |-> Unit(0)]
  /\ udgprev' = udg'
  /\ utmp' = [m \in Models |-> Scale(udgprev'[m], OldWeight)]
  /\ currentstage' = 1
  /\ model' = 0
  /\ phase' = "stage"
  /\ UNCHANGED <<c, d, istep, u, sdg, odg, frames>>

SecondFactor_NoDiagonal ==  \* mistake: d[2][2] is left out
  Quotient(d[2][1], d[1][1])
SecondFactor == Quotient(d[2][1] + d[2][2], d[1][1])

(* UpdateSource: sdg of the stage, from sdg of the stage before, udg and   *)
(* udgprev.                                                                *)
UpdateSource(m) ==
  LET pcalar == d[3][1] + d[3][2] + d[3][3]
                - Quotient(d[3][1], d[2][1]) * (d[2][1] + d[2][2])
  IN CASE currentstage = 1 -> Scale(udg[m], d[1][1])
       [] currentstage = 2 ->
            AXPBY(udg[m], sdg[m], -d[2][1], SecondFactor)
       [] currentstage = 3 ->
            AXPBY(udgprev[m],
                  AXPBY(udg[m], sdg[m], -d[3][2], Quotient(d[3][1], d[2][1])),
                  pcalar, 1)

(* What model k holds now; a vector is over the solutions of its step.     *)
Copy(k) == [step |-> istep, of |-> udg[k]]

ObtainOdg_OncePerStep(m) ==  \* mistake: in the first stage only
  [k \in Models |-> IF k = m \/ currentstage > 1 THEN odg[m][k] ELSE Copy(k)]

(* SteadyProblem: odg from udgarray, the udg of the other models.          *)
ObtainOdg(m) == [k \in Models |-> IF k = m THEN odg[m][k] ELSE Copy(k)]

(* One pass of the loop over models: the source, odg from the other        *)
(* models, the solve, and UpdateSolution.                                  *)
SolveStage ==
  /\ phase = "stage"
  /\ sdg' = [sdg EXCEPT ![model] = UpdateSource(model)]
  /\ odg' = [odg EXCEPT ![model] = ObtainOdg(model)]
  /\ u' = [u EXCEPT ![model] = Unit(currentstage)]
  /\ utmp' = [utmp EXCEPT ![model] = AXPBY(u'[model], @, c[currentstage], 1)]
  /\ udg' = [udg EXCEPT ![model] =
               IF currentstage = tstages THEN utmp'[model] ELSE u'[model]]
  /\ IF model < nummodels - 1
       THEN model' = model + 1 /\ UNCHANGED <<currentstage, phase>>
       ELSE /\ model' = 0
            /\ IF currentstage < tstages
                 THEN currentstage' = currentstage + 1 /\ UNCHANGED phase
                 ELSE phase' = "save" /\ UNCHANGED currentstage
  /\ UNCHANGED <<c, d, istep, udgprev, frames>>

Frame_LastStage(m) ==  \* mistake for HDG: u of the last stage
  IF saveSolOpt = 0 THEN u[m] ELSE udg[m]
Frame(m) == IF saveSolOpt = 0 /\ LDG THEN u[m] ELSE udg[m]

(* SaveSolutions (saveSolFreq = 1) for all models.                         *)
SaveSolutions ==
  /\ phase = "save"
  /\ frames' = [m \in Models |-> Append(frames[m], Frame(m))]
  /\ istep' = istep + 1
  /\ phase' = "previous"
  /\ UNCHANGED <<c, d, currentstage, model, udg, u, utmp, udgprev, sdg, odg>>

(* The stages are implicit, and the code divides by d[1][1] and d[2][1].   *)
Divisible(e) ==
  /\ \A k \in Stage : e[k][k] # 0
  /\ tstages >= 2 => Divides(e[1][1], e[2][1] + e[2][2])
  /\ tstages = 3 => e[2][1] # 0 /\ Divides(e[2][1], e[3][1])

LowerTriangular ==
  {e \in [Stage -> [Stage -> Coeff \cup {0}]] :
     \A k, l \in Stage : l > k => e[k][l] = 0}

DirkInit ==
  /\ c \in [Stage -> Coeff]
  /\ d \in LowerTriangular
  /\ Divisible(d)
  /\ istep = 0 /\ currentstage = 1 /\ model = 0
  /\ phase = "previous"
  /\ udg = [m \in Models |-> Unit(0)]
  /\ u = udg /\ utmp = udg /\ udgprev = udg /\ sdg = udg
  /\ odg = [m \in Models |-> [k \in Models |-> [step |-> 0, of |-> Unit(0)]]]
  /\ frames = [m \in Models |-> <<>>]

DirkNext == PreviousSolutions \/ SolveStage \/ SaveSolutions

DirkSpec == DirkInit /\ [][DirkNext]_dirkvars

-----------------------------------------------------------------------------
(* Properties.                                                             *)

(* The stage of the current step model m has completed.                    *)
StageOf(m) ==
  IF phase = "save" THEN tstages
  ELSE IF phase = "stage" THEN currentstage - (IF m < model THEN 0 ELSE 1)
  ELSE 0

Vector == [Basis -> Int]
Copies == [step : 0 .. tsteps, of : Vector]

(* Every variable has its type.                                            *)
SteppingTypeOK ==
  /\ istep \in 0 .. tsteps /\ currentstage \in Stage /\ model \in Models
  /\ phase \in {"previous", "stage", "save"}
  /\ \A x \in {udg, u, utmp, udgprev, sdg} : x \in [Models -> Vector]
  /\ odg \in [Models -> [Models -> Copies]]
  /\ frames \in [Models -> Seq(Vector)]

(* The source of stage k of the scheme: d[k][1] + ... + d[k][k] times the  *)
(* solution the step started from minus d[k][l] times the stages l before. *)
ButcherSource(k) ==
  [b \in Basis |-> IF b = 0 THEN SumOf(d[k])
                   ELSE IF b < k THEN -d[k][b] ELSE 0]

(* The source UpdateSourceDIRK builds in place, stage after stage, is the  *)
(* one of the scheme.                                                      *)
SourceIsButcher ==
  \A m \in Models : StageOf(m) > 0 => sdg[m] = ButcherSource(StageOf(m))

(* (1 - sum c) times the old solution plus c[k] times each stage.          *)
Combination == [b \in Basis |-> IF b = 0 THEN 1 - SumC ELSE c[b]]

(* The solution of the step combines the old one and every stage, once     *)
(* each, although the stages overwrite udg.                                *)
StepIsCombination ==
  phase = "save" => \A m \in Models : udg[m] = Combination

(* The main invariant: types, and the solution of the step that of the     *)
(* scheme.                                                                 *)
SteppingInv == SteppingTypeOK /\ StepIsCombination

(* What a model holds after stage k: after the last, the solution of the   *)
(* step.                                                                   *)
StageSolution(k) == IF k = tstages THEN Combination ELSE Unit(k)

(* A model is solved with the solutions of this step the others hold at    *)
(* that time: a model before it in the loop has already completed the same *)
(* stage (and with the last stage the step), a later one is a stage        *)
(* behind.                                                                 *)
CouplingLagsOneStage ==
  \A m, k \in Models : (m # k /\ StageOf(m) > 0) =>
    LET stage == IF k < m THEN StageOf(m) ELSE StageOf(m) - 1
    IN odg[m][k] = [step |-> istep, of |-> StageSolution(stage)]

(* "SaveSolutions(...): Save solutions to binary files": a frame is the    *)
(* solution of the step.  For LDG with saveSolOpt = 0 the code does not    *)
(* have this one (see Frame).                                              *)
FramesAreSolutions ==
  \A m \in Models : \A k \in 1 .. Len(frames[m]) : frames[m][k] = Combination
=============================================================================
