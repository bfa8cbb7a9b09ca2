# A verification model of Exasim

Exasim solves systems of partial differential equations with discontinuous
Galerkin methods on many MPI ranks. The front ends (Julia, MATLAB, Python) write
a problem description; the preprocessing turns it into a mesh and a partition of
it, and the C++ backend (`src/backend`) solves it: it marches in time or in
pseudo-time, solves a nonlinear system at each stage by Newton's method, each
linear system by GMRES, and evaluates residuals and matrix products in parallel,
overlapping computation with messages.

The numbers are floating point and out of reach here. What is modelled is what
surrounds them, where a mistake gives a wrong result without any error: which
version of which array a kernel reads, which element a message position stands
for, which increment a basis column holds, what is put back when a step is
rejected, what a file holds after a death. Data is abstracted to where it comes
from (the evaluation, solve, step or element number), control is kept.

- [Inventory](#inventory) of the system
- [Modules](#modules) and how they correspond to the code
- [Runs](#runs): what TLC checks, the bounds, the fairness
- [Proofs](#proofs): what TLAPS establishes for all constants
- [Disagreements](#disagreements) between the code and its own words
- [What is not modelled](#what-is-not-modelled) and the [plan](#plan)

## Inventory

Paths are relative to `src/backend`.

| Component | State it keeps | Operations | Hard part | Correct when |
|---|---|---|---|---|
| Domain decomposition, `Preprocessing/domaindecomposition.cpp` | one `DMD` per rank: `elempart`, `elempartpts`, `elemrecv`, `elemsend`, `nbsd`, counts | `build_dmdldg`, `build_dmdhdg`, `create_elemsend` | send and receive lists are built separately and matched by position; sets as sorted vectors | each message has a partner of the same length, each ghost position gets its element, interior work needs no ghost |
| Parallel decomposition, `Preprocessing/parmetisexasim.cpp` | the same, on the rank it belongs to; `nbinfo`, `ElementClassification` | face matching, classification, two rounds of messages for the second layer, two for the send lists, one per field | no rank sees the mesh; counts and rows travel apart, orders differ on every rank | same parts as the serial one, files hold what the owner computed, no rank waits for ever |
| Message layer, as `Discretization/residual.cpp`, `matvec.cpp` use MPI | `buffsend`, `buffrecv`, `requests` | pack, `MPI_Isend`, `MPI_Irecv`, `MPI_Waitall` | buffers belong to the library until the wait | no buffer written while a send is pending |
| LDG residual, `residual.cpp` with `getuhat.cpp`, `qequation.cpp`, `uequation.cpp` | `udg`, `uh`, `Ru`, ghosts | `RuResidualMPI` | work before and after the wait, traces computed twice | the value depends on the current iterate of the rank and its neighbours alone |
| HDG product and assembly, `matvec.cpp` | element products, interface fluxes | `hdgMatVec`, `hdgAssembleLinearSystemMPI`, `hdgAssembleResidualMPI` | sends results; two communicators, one request array | the same |
| GMRES, `Solver/gmres.cpp` | `v`, `H`, `s`, `cs`, `sn`, `x`, `r` | restart cycles, two overloads | arrays reused in each cycle, two counters | the update uses the columns of the cycle, each once |
| Reduced basis, `Preconditioning/preconditioner.cpp`, `Solver/ptcsolver.cpp` | ring `W`, products `U`, `RBcurrentdim`, `RBremovedind` | guess, update, reset | position and count apart, one product computed anew per solve | columns recent and distinct, each product beside its own increment and with a known matrix |
| LDG nonlinear solver, `PTCsolver`, `LinearSolver` | `sys.u`, `sys.x`, `sys.b`, `sol.udg` | guess, judge, GMRES, update | trial iterates overwrite `udg` | after each step `udg` belongs to `sys.u` |
| HDG Newton, `NewtonSolver` in `Solution/solution.cpp` | `sys.u`, `uh`, `udg`, norms, `alpha` | full step, damped search, abort | three copies of the unknown, NaN | copies equal, stored increments as applied |
| Pseudo-time continuation, `SteadyProblem_PTC` | `dt[]`, `udgprev`, two times, `conv_flag` | accept, reject, double, stop | rejected steps are retried | a rejected step leaves nothing behind in the conserved components (in the trace and the gradient it does) |
| Time stepping, `Main/main.cpp`, `previoussolutions.cpp`, `updatesource.cpp`, `updatesolution.cpp` | `sdg`, `utmp`, `udgprev`, `odg` per model | stages of DIRK, coupling of models | recurrences in place, one model after the other | source and combination are those of the scheme |
| Checkpoint and restart, `SaveSolutions`, `ReadSolutions`, `main.cpp` | restart files and a stream of frames per rank, offset, time, average | write, die, restart | ranks write separately, files torn by a death, streams that are never flushed | a run continues from what was saved, what is left can be read |
| Adaptive viscosity in `SteadyProblem`, rollback (`SaveState`, `RestoreState`) | `avField`; copies of the state | passes of smoothing with an exchange each; save, restore | the exchange shares buffer, tag and requests with the products | every element, ghost or not, has had the same passes |
| Set-up (`discretization.cpp`, `setstructs.cpp`, `connectivity.cpp`, ...) | blocks, index tables | read, allocate, fill | sequential | index tables are inverse to each other |
| Point locator, wall model, visualization, postprocessing, front ends, code generation | - | geometry, output | floating point, I/O | not considered |

How they interact. Preprocessing, by one process for all ranks or by every rank for
itself, writes the `DMD` lists to files; every rank reads its own and from then on
refreshes ghosts by position only. `main` drives the
time loop; it calls `PreviousSolutions`, then for every stage and every model
`UpdateSource`, `SteadyProblem` and `UpdateSolution`, then `SaveSolutions`.
`SteadyProblem` copies the coupled fields of the other models and calls
`PTCsolver` (LDG) or `NewtonSolver` (HDG). These call `LinearSolver`, which asks
the reduced basis for a guess and runs GMRES; GMRES evaluates `RuResidualMPI` or
`hdgMatVec`, and takes norms with `MPI_Allreduce`. The ranks run the same program
and nothing else synchronises them but these reductions and the messages between
neighbours. There are no threads on the host; the asynchronous parts are MPI and
the death of the job.

The hazards, each at its line with the properties that would catch it, are in
`PROJECT.json` ("hazards").

## Modules

| Module | Models | State of the model |
|---|---|---|
| `DomainDecomposition` | the serial decomposition, both schemes | the mesh `e2e`, owners, scheme (inputs), the records `dmd`, the loop counter `i` |
| `ParDomainDecomposition` | the decomposition by all ranks at once (`ParallelPreprocessing`) | the mesh and its owners (inputs); per rank `elemGlobalID`, `nbinfo`, `cls`, `dmd`, `fields`, `pc`; `msgs`, `aborted` |
| `Preprocessing` | the two ways to the same files | both, and `mode` |
| `PointToPoint` | nonblocking messages (external: MPI) | `buffsend`, `unsent`, `chan`, `unrecv`, `buffrecv` |
| `ResidualExchange` | the LDG residual on all ranks | the messages; per rank `pc`, iterate `u`, `ghost`, `uhat`, `q`, `Ru` |
| `HdgExchange` | the HDG products on all ranks, coupled domains, and the smoothing of the viscosity field before a solve | two sets of messages; `v`, `we`, `Ri`, `w`, `av` |
| `SynchronousEvaluation` | abstract: what both promise | `done`, `sources` |
| `ReducedBasis` | the ring of increments | `W`, `U`, `RBcurrentdim`, `RBremovedind` |
| `PtcSolver` (EXTENDS `ReducedBasis`) | LDG nonlinear and linear solver | `u`, `udg`, `b`, `x`, `status`, counters, two histories |
| `NewtonSolver` (INSTANCE of `ReducedBasis`) | HDG Newton with line search | `u`, `uh`, `udg`, `normOf`, norms, `alpha`, ring |
| `Gmres` | both overloads of GMRES | `i`, `j`, `H`, `x`, `updates`, `relError`, `result` |
| `PtcContinuation` | `SteadyProblem_PTC` | `udg` and its gradient `q`, `uh`, `u`, `dt`, times, flags |
| `TimeStepping` | DIRK and the coupling of models | vectors as coefficients over the stages |
| `Checkpoint` | restart files of all ranks | `files`, `mem`, `time`, the state of the job |
| `...MC` | instances for TLC | values of the constants |
| `...Proofs` | theorems | - |

How to read them against the code (`PROJECT.json` "map" has the lines of every
definition):

- **One action per operation.** `Start`, `Interior` and `Finish` of
  `ResidualExchange` are the parts of `RuResidualMPI` before the work that
  overlaps, that work, and `MPI_Waitall` with everything after it. A rank does
  nothing else another rank can see in between. `FullStep`, `Halve` and
  `FinishIteration` of `NewtonSolver` are the full step, one pass of the damped
  loop, and the rest of the iteration. An action of a rank in
  `ParDomainDecomposition` reaches from one blocking MPI call to the next.
- **Arrays are where their content comes from.** In `ResidualExchange` a block of
  the residual is the set of iterates it was computed from, so a stale ghost is
  an old number in a set that must have one element. In `NewtonSolver` an iterate
  is the length, in sixteenths, of each step taken: `1 :> 16 @@ 2 :> 4` is
  `u0 + x1 + x2/4`. In `TimeStepping` a vector is its coefficients over the old
  solution and the stages, which is exact because the recurrences are linear, and what
  a model copies from another one (`odg`) is such a vector of that model and its
  step. In `ReducedBasis` a product is its increment and the iterate of its matrix:
  `ComputeInitialGuessAndPreconditioner` ("compute V = J(u)*W",
  `preconditioner.cpp:90`, `:142`) computes that of one column per solve, the others
  keep the matrix of an earlier one. In `PtcContinuation` an array is the set of
  steps whose increments are in it, and `hdgGetQ` joins those of its two inputs. In
  `Checkpoint` a solution is the sequence of its time steps. In
  `ParDomainDecomposition` a column of a field is the field and the element it
  was computed for.
- **Norms and comparisons are outcomes.** Whether a norm is below the tolerance
  is chosen, with NaN as an outcome where the code can meet it
  (`NewtonSolver.Less`, `Gmres.RelErrors`); floating-point constants become
  integers (`10 * alpha > 16` in sixteenths is `alpha > 0.1`; `dt` in
  `PtcContinuation` is a decimal fraction, computed with and compared exactly).
- **A sorted vector is the listing of a set.** `InOrder` puts at place j the element
  with j - 1 others below it, in whatever order the code sorts by: numbers
  (`Sorted`), rows of three numbers (`RowLess`), requests (`RequestLess`), pairs of a
  map (`ByElement`). `std::set_difference` and `std::set_intersection` are modelled as
  the merge passes they are, since in one place their input is not sorted.
- **A send row is the answer to a request.** `create_elemsend` walks over the ranks
  and the rows of each; row j of `elemrecv` of rank p that names k as the owner is the
  request `<<p, j>>`, and `elemsend(k)` answers its `Requests` in the order of the walk.
- **Operators with a suffix and the comment "mistake"** (`Waitall_NoWait`) stand
  before the operator they vary. They are not part of the model: replacing the
  operator by one of them shows that the property that guards it can fail.

Composition. `PointToPoint` is instantiated once in `ResidualExchange` and twice in
`HdgExchange`. Both implement `SynchronousEvaluation`: the refinement mapping
counts an evaluation as done from `Finish` to the next `Start`, when the result is
in its array, and keeps the last value in between, when the array is work space.
The passes of smoothing in `HdgExchange` map to stutters: they stay within a domain,
so that the other one may be several of them ahead.
`ReducedBasis` is shared by the two nonlinear solvers, which differ in when they
update it. `Preprocessing` EXTENDS the serial `DomainDecomposition` and instantiates
`ParDomainDecomposition` on the same variables, so that every invariant of the
first is checked of both; the second instantiates the first as a reference (its
operators say what each part should be) without running it.

How the parallel decomposition is abstracted: two elements share at most one face,
so that a face is named by its two elements; ParMETIS is external and may choose
any distribution; elements arrive in the order `MPI_Alltoallv` concatenates them,
records and ghosts in any order a hash table may give; the nodes of the elements
and the tags of boundary faces are fields like the others. A count passed to `MPI_Isend` in a variable of the loop body is read
when it is sent or later (`eager`), and a message that is longer than its receive
stops the job (`aborted`), as the default error handler does.

## Runs

All runs use a few nodes, elements or steps; the inputs that are not named are
enumerated in full. Deadlock is not checked because every one of these programs
ends; that nobody waits for ever is stated as liveness instead where several
ranks are involved (`AllFinish`, `CallsEnd`).

| Run | Instance | States | Shows |
|---|---|---|---|
| `dmd` | 4 elements, 3 ranks, every distribution, both schemes; the serial way on every conforming mesh, the parallel way on a line, a line closed by a periodic pair and a star, with counts read early or late | 165,396 | both ways: messages pair and have equal length (`MessagesPair`), every ghost position receives its element (`ExchangeFillsGhosts`), no element twice (`ElempartIsPartition`), interior work is local, the stencil is stored, HDG sends only what is computed by then. The parallel way gives every rank the parts the serial way does (`SameAsSerial`), its files the columns of the owner in the order of `elempart` (`FieldsOfOwner`), and no rank waits for ever (`AllBuilt`) |
| `dmd_coupled` | 4 elements, 2 ranks, coupled interface | violation | see [Disagreements](#disagreements) |
| `residual_line` | 3 ranks in a line, 3 evaluations, a reduction after the second | 4,749 | a finished residual has one source (`ResidualConsistent`); the send buffer is free when packed; neighbours at most one evaluation apart; implements the synchronous evaluation; all finish |
| `hdg_coupled` | domains of 2 and 1 ranks, 7 operations: two passes of smoothing, two products and a reduction, one pass, two products | 15,986 | the same for two kinds of messages and one wait (`HdgInv`); smoothing does not mix with them, nor one pass with another |
| `newton` | 2 iterations, 2 calls, 4 residual levels and NaN, basis of 2 | 155,426 | the copies of the iterate agree and the norm is theirs (`NewtonInv`), the basis holds steps as applied, a failed search is visible to the caller, every call ends |
| `ptc_ldg` | basis of 3, 3 iterations, 3 calls | 1,235,821 | `udg` returns to the iterate after trials, the ring holds the most recent increments through wraps and resets, none twice; a guess mixes the product of the newest column with the matrix of this solve and those of the older ones with the matrices they were last used with, each beside its own increment (`GuessFromItsColumns`) |
| `ptc_continuation` | 7 steps, first `dt` 1e-4, 5e-4, 1e-9 or 5e-9, both run modes | 6,147 | the conserved components have the accepted increments and no others (`UdgKeepsAccepted`); the trace and the gradient take those of rejected steps from `sys.u` with the next accepted one (`TraceKeepsRejected`); after a rejection no step below the floor; the last frame is the last solution |
| `ptc_stale_trace` | the same | violation | see below |
| `gmres` | all `maxit` to 14, all restarts to 6; LDG with whole cycles only | 6,139 | updates use the columns of their cycle, no column is lost, a result below `maxit` means converged |
| `gmres_ldg_partial` | LDG with any `maxit` | violation | see below |
| `stepping` | 2 models, 3 stages, 2 steps, coefficients -1, 0, 1 | 66,096 | the source built in place and the accumulated solution are those of the scheme; what a model has copied of another is what that one held, of this step and at most one stage behind; frames are solutions |
| `checkpoint` | 2 ranks, 4 equal steps, a checkpoint and a frame every 2, 3 runs | 1,320,415 | a run continues from the step it was restarted from, on all ranks and in all arrays; at most one checkpoint is incomplete at a death; a run does not touch older ones; its time is that of its solution; the file of frames is of one run, without gaps, the same on all ranks as far as it goes |

Why the bounds are enough:

- `dmd`: a second layer of ghosts owned by a third rank needs three ranks and a
  path of three elements; four elements add elements that are interior, empty
  ranks, and two neighbours through the same element. Most of it is proved for
  every size ([Proofs](#proofs)). In the star the second layer of a
  rank has several owners, none of them its neighbour; the periodic line has
  a pair within one rank or between two, and ranks that are neighbours through a
  face and a pair at once;
  two fields are enough for the columns of one to be taken for those of the next.
- `residual_line`, `hdg_coupled`: what can go wrong needs one rank a step ahead of
  its neighbour with the last message still under way, that is two evaluations
  and two ranks; the third rank lets the ends drift apart, and the third
  evaluation uses the buffers again. Two passes of smoothing in a row are the
  default (`AVsmoothingIter`). The proofs remove the bounds, for both.
- `newton`, `ptc_ldg`, `ptc_continuation`, `gmres`: the invariants are proved for every
  bound; the instances are those that reach every case.
- `newton`: one iteration can halve four times, and two give every order of
  damped, full, zero and aborted steps, with a ring of two that wraps in the
  second call.
- `ptc_ldg`: nine linear solves and a ring of three: it wraps twice and can be
  reset at each position.
- `gmres`: every remainder of `maxit` by the restart length, with at least two
  full cycles.
- `ptc_continuation`: six steps are enough for five rejections in a row down to the
  floor, for steps rejected between accepted ones, and for a first step below the
  floor; a first digit other than 1 tells the floor from a count of rejections.
- `stepping`: three stages are the most the code has; the recurrences are
  polynomials of low degree in the coefficients.
- `checkpoint`: the second run can die over the files of the first, the third reads
  what two runs have left.

Fairness. `ResidualExchange` and `HdgExchange` assume weak fairness of every rank
(it is a running process), of the progress of each posted message (MPI guarantees
it once both sides are in `MPI_Waitall`) and of a reduction all ranks have entered.
`Preprocessing` assumes the same of every rank and of its collective calls; nothing
is claimed of the end of the serial way, a loop over the ranks that waits for
nothing. `NewtonSolver` is one sequential process that runs on. Nothing else is assumed; in
particular no order between ranks, and a send may be read by the library at any
moment until it completes.

## Proofs

Checked by TLAPS for every value of the constants that satisfies the named
assumptions of the modules.

**`ResidualExchangeProofs`** - any set of ranks, any symmetric neighbour relation, any
number of evaluations and reductions, with or without a frozen viscosity.
`ResidualConsistent` and `SkewBounded` say nothing of messages under way and are
not inductive. `ExchangeInv` adds, for every pair of ranks (`InTransit`), that the
iterate of the sender is the iterate of the receiver plus what is in the channel,
unread or not yet received, and that the channel holds consecutive versions; that
the send buffer holds the current iterate (`Packed`); and what a rank has computed
at each point (`Blocks`). From it follow `TypeCorrect`, `ResidualIsConsistent`,
`SendBufferIsStable`, `SkewIsBounded` and `Refinement`: the initial states map to
initial states, `Finish` maps to an evaluation, every other step to a stutter.

**`HdgExchangeProofs`** - any set of ranks, any symmetric relations of neighbours within a
domain and across the interface, any sequence of products, reductions and passes
of smoothing. `HdgInv` is about finished results and says nothing of messages.
`ProductInv` counts, for every pair of ranks and each of the two kinds of messages
(`ElemPair`, `FacePair`), what is posted, in the channel and received, with one
formula (`Pair`) and two orders: every operation sends elements, only products send
faces, and a rank posts the faces after the elements. The passes of smoothing are
not counted for the faces, which is why a domain may be several of them ahead and
no flux is taken for that of another product. From it: `ProductsAreConsistent` and
`Refinement`; for the latter the invariant also says that the result in the array is
that of the last product (`LastResult`).

**`PtcSolverProofs`** - any capacity of the basis, number of iterations and calls.
`RingInv` relates position and count (`Ring`), the columns to the history of stored
increments (`ColumnsByAge`), the products to the columns and the iterates of their matrices
(`Products`: once an increment is stored after it, the product of a column stays what
the last guess before made it; that of the newest column is the one of this solve,
from the guess until the update), and numbers the solves (`Numbering`: stored once,
in order, and never if they came from the basis). From it follow `BasisStaysRecent`, `GuessUsesItsColumns` and
`ColumnsAreIndependent`. `UdgFollowsIterate` is `PtcInv`: it needs that right after a
guess is judged or GMRES has returned `udg` is at the trial iterate they evaluated
last, and, for the types, a budget of linear solves (call k uses at most `maxit` of
them, so that the solves in all stay below `maxit * MaxCalls`).

**`NewtonSolverProofs`** - any iteration limit, number of calls, residual levels and
capacity of the basis. `CopiesAgree` and `FailureIsVisible` depend on the norms being
those of the iterate kept, and `BasisHoldsAppliedSteps` on the step the last increment
had when it was stored; `NewtonIInv` adds that no increment has a step before it is
solved for (`StepsTaken`), that a column never holds the increment of the iteration
in progress (`ColumnsApplied`), that two columns hold different ones (`ColumnsDiffer`),
and the budget of solves.

**`AccumulationProofs`** - the innermost and the outermost loop, which both add up a
solution from arrays they write again.

*GMRES*, any `maxit` and restart length, both overloads. That no column is lost
concerns past cycles only through the columns taken. `CycleInv` counts: every cycle
but the last ran through `nrest` columns, so that `j = (cycle - 1) * nrest + i`; with
division by `nrest` this finds each iteration among the columns taken (`Taken`).
From it `NoIterationIsLost` and `ResultBelowMaxitIsConverged`.
`UpdatesUseTheirCycle` assumes `WholeCycles` (HDG, or a `maxit` that is a multiple of
the restart length): without it the code does not have the property, which is what
`gmres_ldg_partial` shows.

*Time stepping*, any number of models and of steps, one to three stages, any integer
coefficients whose quotients are exact. The properties speak of the end of a step or
of the stage a model has completed. `DirkInv` says what every model holds between:
`udg`, `u` and `sdg` of the last stage it has solved, which is that of the loop for the
models before `model` and the one before it for the others (`StageOf`), and in `utmp`
the old solution and the stages up to there (`PartialSum`), each with its weight, and
in `odg` what the other models held when it was solved. From it `StepsCombineStages`,
`SourcesAreButcher` and `CouplingIsBounded`. `FramesHoldSolutions` leaves out LDG with
`saveSolOpt = 0`, where the code writes the last stage (see
[Disagreements](#disagreements)).

**`PtcContinuationProofs`** - any number of steps and any positive decimal fraction as the
first `dt`, those below the floor included. Between the solve and the decision `udg`
has an increment that is not accepted yet and `udgprev` has not, while trace and
gradient have those of all steps, rejected ones too (`Undecided`); the floor holds
once a step was rejected, because a rejection tests the step it leaves behind and
doubling keeps that above the floor (`DoublingStaysAbove`). From `LoopInv`:
`ContinuationIsSound` and `FinalSolutionIsSaved`.

**`CheckpointProofs`** - any set of ranks, distances between checkpoints and frames, number of
steps, and number of runs that die anywhere. Two invariants. `WriterInv` says where
the ranks are and what they have closed (`CheckpointsWritten`), whatever the files
hold and for any time steps; its bound on the numbers of files comes from the runs
(`RunNumbers`: a run continues at most where all earlier ones together could get).
From it `OlderCheckpointsAreKept` and `AlwaysOneToRestartFrom`. `ContentInv` says that
file n, memory and frames hold the solution with as many steps as they should,
unless it goes back to a torn file; it assumes `OneSize`, steps of equal size. From
it `RunsContinue` and `FramesAreOfOneRun`. The assumption is needed: a restarted
run begins with the first entries of `dt` again, so that with steps of unequal
size (`Dt = <<1, 2, 1, 1>>`) TLC finds checkpoints of one number left by two runs that
are not the same solution, one on each rank, and both properties fail.

**`PreprocessingProofs`** - any mesh, number of ranks and distribution, for the files
either way of preprocessing writes.

*One process for all ranks.* Three facts of the mesh need no list: turning an edge
around, an element of one rank next to one of another is in the ghost layer seen
from one side and in the interface seen from the other (`InteriorLocal`,
`InterfaceCoversSends`, and, over one layer or two, `ExchangeIsMutual`, without which
`MPI_Waitall` would not return). Everything else is about the lists. `DmdInv` says of
every record built that `elempart` is a numbering of the owned and ghost elements in
four ascending blocks (`Numbering`), that `elemrecv` lists its ghost positions by owner
and then by position, and, after `create_elemsend`, that send rows and counts answer
these rows (`Answered`). What it rests on:

- the listing of a finite set by an order is a one-to-one sequence that rises
  (`InOrderLists`), and there is one only (`ListingRanks`);
- the merge pass on two sorted vectors is the listing of the difference
  (`MergeOfSorted`: the pass is a table over the pairs of positions; there is exactly one
  table with its equations, by a least counterexample, and the listing satisfies them);
- a search finds the one position of an element (`SearchFinds`), so that no -1 gets
  into a row;
- with the rows grouped by neighbour, the sums of the counts are the places where
  the groups begin (`GroupPlace`); the rows for k at p and the send rows for p at k
  are in the same order, so that message and ghosts match place by place
  (`ListsAligned`).

From it `RecordsTyped`, `NumberingIsPartition`, `StencilIsStored`, `InteriorIsLocal` (the
first block of `elempart` has no neighbour elsewhere), `SentIsComputed`,
`MessagesArePaired` and `GhostsAreFilled`. They are stated under `Uncoupled`, that is
without HDG and coupled interface elements at once: there the vector merged is not
sorted and the code does lose elements, as `dmd_coupled` shows.

*All ranks at once.* `ParInv` follows a rank through the procedure. The blocks the ranks
read are the mesh, each element in one of them (`BlocksAreMesh`), so that after the
migration a rank holds the elements it owns, once (`Moved`); faces are found in
three stages (`Topology`: those within a rank, those between ranks, those joined by a
periodic pair), with the records in `nbinfo` of those found across ranks; the classification then has the
serial sets (`Classes`); the rows a rank sends tell all that lies across the faces of
its interface elements, with owners (`RowsTell`), so that whoever receives them from
all its neighbours has the whole second layer (`OuterAre`), and a count read too late
either stops the job or was none too small (`ReceiveRowsKeeps`); what
`buildElempart` writes numbers these sets (`Filled`). The invariant is
`RanksKnowTheirParts`, for any order of messages. From it `PartsAgree`: a run that
completes has put into each part of each rank what the serial way puts there.

`SerialWay` is the refinement that carries the theorems on the serial way over to
`PreprocessingSpec`; with the above, `NumberingEitherWay`, `StencilEitherWay` and
`InteriorEitherWay` hold of the files whoever wrote them.

The named assumptions say no more than the inputs of the program: a rank exists,
neighbour relations are symmetric, counts are natural numbers and the limits
positive, and there is a first time step (`main.cpp:421` reads `dt[0]`), which is positive.

Only model-checked:

- liveness (`AllFinish`, `AllBuilt`, `CallsEnd`): it needs ENABLED;
- the last rounds of the parallel decomposition, from the send lists on:
  `FieldsOfOwner`, and, of the files written by all ranks, `MessagesPair`,
  `ExchangeFillsGhosts`, `SentWasComputed` and the types of the rows (of those written
  by one process they are proved). The modules concatenate and filter sequences
  there with recursive operators (`FlattenSeq`, `SelectSeq`, `SetToSortSeq`), which the
  provers cannot expand.

## Disagreements

Three are shown by runs that TLC finds violated:

1. `dmd_coupled`: with a coupled interface `build_dmdhdg` puts the interface elements
   of the other domain first in `bndelem` and then passes it, unsorted, to
   `std::set_difference` (`domaindecomposition.cpp:345`). Interface elements stay
   in the interior part and appear twice in `elempart`.
2. `gmres_ldg_partial`: the LDG overload ends a cycle with column `nrest-1`
   (`gmres.cpp:277`) where the HDG one uses `i-1` (`gmres.cpp:549`). If `maxit` ends
   a cycle early, the update takes columns of the cycle before or never written.
3. `ptc_stale_trace`: a rejected pseudo-time step restores `udg` and recomputes `uh`
   (`solution.cpp:789-792`) but not `sys.u`; the next Newton step assembles the
   system at `uh`, adds the increment to the rejected `sys.u` and copies that to `uh`
   (`:343`), from which `hdgGetQ` computes the gradient in `udg` (`:356`, `:394`). So the
   rejected increment, reverted in the conserved components, is back in the trace and
   in the gradient when the next step is accepted (`TraceKeepsRejected`, proved).

Others are stated in the modules next to the properties that hold, with the reason
why the code does not have them; adding the property to the INVARIANTS of the
configuration gives the counterexample:

| Property | Configuration | Why |
|---|---|---|
| `NewtonSolver.NanExits` | `newton` | a NaN from the line search of the last iteration fails both comparisons and is returned (`solution.cpp:386`), unlike "increases more than 1e6 or nan. Save and exit." (`:382`) |
| `PtcContinuation.TimeReverted` | `ptc_continuation` | the variable `time` is advanced for rejected steps too (`:862`), "Revert time step" (`:785`) |
| `PtcContinuation.WarningMeansMaxSteps` | `ptc_continuation` | `conv_flag` is set by run mode 10 only (`:864`) |
| `Checkpoint.AverageContinues` | `checkpoint` | the average is written to `solavg_np*` (`:931`) and looked for in `avg_np*` (`:608`) |
| `Checkpoint.FramesKept` | `checkpoint` | a restarted run empties the frames of the run it continues (`solution.h:53`), also when it then ends for want of a checkpoint; the frames lie in one file without their number, so that a reader takes the first of them for the first of all |
| `Par!CountsReceived` of `Preprocessing` | `dmd` | "Send our count to nbRank" (`parmetisexasim.cpp:2516`): the count is in a variable of the loop body (`:2514`), is passed to `MPI_Isend` (`:2517`) and gone before the wait (`:2528`); with a library that reads it later the receiver may get another number. `SameAsSerial` and `AllBuilt` show that this stops the job or is harmless, and never makes a wrong partition |
| `Checkpoint.TimeOfSolution` | `checkpoint` with `Dt` of unequal steps | the restart time is `restart*dt[0]` (`main.cpp:421`) |
| `TimeStepping.FramesAreSolutions` | `stepping` with `LDG = TRUE` | the frame is `sys.u`, the last stage (`solution.cpp:912`) |

## What is not modelled

- Floating-point kernels, quadrature, block Jacobi and Schwarz preconditioners, the
  polynomial preconditioner: their arithmetic is the algorithm.
- In the parallel decomposition: ParMETIS, parsing and the geometric matching of
  periodic faces (an input here). It has no coupled interface: `intepartpts`
  stays empty whatever the input says.
- The averaging in a pass of smoothing (`DG2CG2`): data.
- Coupled domains in time stepping (`main.cpp:333-408`), run modes that only read or
  only postprocess: planned.
- The rollback of `SaveState`/`RestoreState` (`solution.cpp:86-173`): nothing in
  `src/backend` calls it, so there is no behaviour to state properties of.
- The restart of steady runs. By reading: `ReadSolutions` (`solution.cpp:1031`) reads
  the file of frames the constructor has emptied before (`solution.h:53`), and
  with `saveSolOpt = 0` (`:1033`) it does not skip the header of three numbers that
  `:1039` skips. No restart of a steady run can succeed, so that there is nothing
  to check of what follows it.
- The collection file of the visualization: by reading, `pvdwrite_series` numbers the
  files from 1 (`visualization.cpp:337`) where `SaveParaview` adds the offset of a
  restart.
- BDF time stepping: no caller reaches it (`timestepcoeff.cpp:132` fills a copy).
- One rank with a coupled interface (`domaindecomposition.cpp:84`): a sequential
  branch without states to explore; it appends to a vector that is already full
  of zeros and writes to one that has no size.
- Wall-model sampling, point location, visualization, postprocessing: geometry and
  output. Kokkos, METIS, SymEngine, tinyexpr: third-party.

The abstraction leaves out: message sizes at run time (the layout is checked in
`dmd`), failures of MPI or of the disk other than the death of the job, and
overflow of counters and rounding (the time step of `PtcContinuation` is exact). Two
coupled domains whose inputs do not agree on `coupledcondition` (`matvec.cpp:299`)
are not represented either: the model has one relation for both.

## Plan

Done: proofs of the exchanges, of both nonlinear solvers, of GMRES and time stepping,
of the continuation, of the checkpoints, of the lists the serial decomposition
builds, and of the parts the parallel one finds. In this order:

1. The send lists and the fields of `ParDomainDecomposition`, written without
   recursive operators, and then `FieldsOfOwner`.
2. `Checkpoint` with several models and the run modes that only read.
3. `Blocks`: the block lists of elements and faces as pure operators, checked against
   their definition.
