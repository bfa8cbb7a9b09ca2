------------------------ MODULE PtcContinuationProofs ------------------------
(***************************************************************************)
(* Pseudo-transient continuation for any number of steps and any initial   *)
(* step: what accepted and rejected steps leave in the conserved           *)
(* components, the trace and the gradient, that no step is made below the  *)
(* floor of 1e-8 once one was rejected, and that the last solution saved   *)
(* is the final one.                                                       *)
(*                                                                         *)
(* What holds between two steps is not inductive: while a step is decided  *)
(* upon, udg has its increment and udgprev has not.                        *)
(***************************************************************************)
EXTENDS PtcContinuation, TLAPS

Looping == {"step", "decide"}

(* A step decided upon is not the last.                                    *)
Undone == pc = "decide" => MoreSteps

(* While a step is decided upon, udg has its increment, udgprev has not;   *)
(* the trace and the gradient have those of all steps.                     *)
Undecided ==
  pc = "decide" => /\ udg \ {Steady} = accepted \cup {istep}
                   /\ udgprev \ {Steady} = accepted
                   /\ u = StepsMade \cup {istep} /\ uh = u /\ q = u

(* The pseudo-time steps do not involve the steady solver.                 *)
NotSteady ==
  pc \in Looping =>
    /\ Steady \notin udg /\ accepted \subseteq StepsMade
    /\ pc = "decide" => Steady \notin udgprev

(* Below the floor no step was rejected.                                   *)
Floor == pc \in Looping /\ Below(dt, 8) => accepted = StepsMade

(* conv_flag is set when the final solution has been saved.                *)
Saving ==
  /\ pc \in Looping => conv_flag = 0
  /\ pc = "finish" /\ conv_flag = 1 => saved # <<>> /\ saved[Len(saved)] = <<udg, q>>
  /\ LastSavedIsFinal

LoopInv ==
  /\ TypeOK /\ Undone /\ UdgKeepsAccepted /\ TraceKeepsRejected /\ Undecided
  /\ NotSteady /\ Floor /\ Saving

-----------------------------------------------------------------------------
(* Doubling a step above the floor keeps it there.                         *)
LEMMA DoublingStaysAbove ==
  ASSUME NEW d \in [num : Nat \ {0}, ten : Nat], ~Below(d, 8)
  PROVE  ~Below([d EXCEPT !.num = 2 * @], 8)
<1> DEFINE e == [d EXCEPT !.num = 2 * @]
<1>1. e.num = 2 * d.num /\ e.ten = d.ten /\ d.num \in Nat /\ d.ten \in Nat
  OBVIOUS
<1> HIDE DEF e
<1>2. SUFFICES ASSUME Below(e, 8) PROVE Below(d, 8)
  BY DEF e
<1>3. d.ten > 8 /\ 2 * d.num < 10 ^ (d.ten - 8)
  BY <1>1, <1>2 DEF Below
<1>4. d.ten - 8 \in Nat
  BY <1>1, <1>3
<1>5. \A v \in Nat : 2 * v < 10 ^ (d.ten - 8) => v < 10 ^ (d.ten - 8)
  BY <1>4, SMT
<1> QED
  BY <1>1, <1>3, <1>5 DEF Below

(* The constants.                                                          *)
LEMMA LoopTypes ==
  ASSUME TypeOK
  PROVE  /\ tsteps \in Nat \ {0} /\ Step \cup {Steady} = 0 .. tsteps
         /\ istep \in Nat /\ istep \in Step /\ istep # Steady /\ Steady \notin Step
         /\ StepsMade \subseteq Step /\ istep \notin StepsMade
  BY TstepsAssumption DEF TypeOK, Step, Steady, StepsMade

-----------------------------------------------------------------------------
(* The invariant holds when the continuation starts.                       *)
LEMMA LoopInit == Init => LoopInv
<1> SUFFICES ASSUME Init PROVE LoopInv
  OBVIOUS
<1> USE TstepsAssumption, Dt0Assumption DEF Init
<1>1. TypeOK
  <2>1. dt \in [num : Nat \ {0}, ten : Nat]
    OBVIOUS
  <2>2. istep \in Step /\ saved \in Seq(Content \X Content) /\ {} \in Content
    BY DEF Step, Content
  <2> QED
    BY <2>1, <2>2 DEF TypeOK
<1>2. StepsMade = {}
  BY DEF StepsMade
<1>3. Undone /\ UdgKeepsAccepted /\ Undecided /\ TraceKeepsRejected
  BY <1>2 DEF Undone, UdgKeepsAccepted, Undecided, TraceKeepsRejected
<1>4. NotSteady /\ Floor
  BY <1>2 DEF NotSteady, Floor
<1>5. Saving
  BY DEF Saving, LastSavedIsFinal
<1> QED
  BY <1>1, <1>3, <1>4, <1>5 DEF LoopInv

(* A step adds its increment to udg and keeps the solution before it.      *)
LEMMA AdvanceKeeps == ASSUME LoopInv, Advance PROVE LoopInv'
<1>1. /\ TypeOK /\ UdgKeepsAccepted /\ TraceKeepsRejected /\ NotSteady /\ Floor
      /\ Saving /\ pc = "step" /\ MoreSteps /\ maxiter' = "one" /\ udgprev' = udg
      /\ udg' = udg \cup {istep} /\ u' = u \cup {istep} /\ uh' = u'
      /\ q' = udg' \cup uh'
      /\ w' = w \cup {istep} /\ pc' \in {"decide", "aborted"}
      /\ UNCHANGED <<runmode, istep, dt, elapsed, accepted, tdep, conv_flag, saved, end>>
  BY DEF Advance, GetQ, LoopInv
<1>2. istep \in Step \cup {Steady} /\ istep # Steady /\ istep \notin StepsMade
  BY <1>1, LoopTypes
<1>3. TypeOK'
  <2>1. udg' \in Content /\ uh' \in Content /\ u' \in Content /\ w' \in Content
        /\ q' \in Content /\ udgprev' \in Content
    BY <1>1, <1>2 DEF TypeOK, Content
  <2>2. pc' \in {"step", "decide", "finish", "warned", "done", "aborted"}
    BY <1>1
  <2> QED
    BY <1>1, <2>1, <2>2 DEF TypeOK
<1>4. UNCHANGED StepsMade
  BY <1>1 DEF StepsMade
<1>5. Undone' /\ Floor' /\ NotSteady'
  BY <1>1, <1>2, <1>4
     DEF Undone, MoreSteps, Floor, NotSteady, Looping, Below, Steady
<1>6. u = StepsMade /\ udg \ {Steady} = accepted /\ accepted \subseteq StepsMade
      /\ Steady \notin udg
  BY <1>1 DEF TraceKeepsRejected, UdgKeepsAccepted, NotSteady, Looping
<1>7. UdgKeepsAccepted' /\ TraceKeepsRejected' /\ Undecided'
  <2>1. u' = StepsMade \cup {istep} /\ q' = u' /\ udg' \ {Steady} = accepted \cup {istep}
    BY <1>1, <1>2, <1>6
  <2> QED
    BY <1>1, <1>4, <1>6, <2>1
       DEF UdgKeepsAccepted, TraceKeepsRejected, Undecided, Steady
<1>8. Saving'
  BY <1>1 DEF Saving, Looping, LastSavedIsFinal
<1> QED
  BY <1>3, <1>5, <1>7, <1>8 DEF LoopInv

(* The next step, with another dt and with what was decided in udg.        *)
LEMMA NextStepKeeps ==
  ASSUME LoopInv, pc = "decide", NEW d, NextStep(d),
         d \in [num : Nat \ {0}, ten : Nat],
         udg' \in Content, UNCHANGED <<u, w, udgprev>>,
         udg' \ {Steady} = accepted', Steady \notin udg', q' = uh',
         \/ accepted' = accepted /\ uh' = accepted /\ ~Below(d, 8)
         \/ /\ accepted' = accepted \cup {istep} /\ uh' = u
            /\ Below(d, 8) => Below(dt, 8)
  PROVE  LoopInv'
<1>1. /\ TypeOK /\ Undone /\ Undecided /\ NotSteady /\ Floor /\ Saving /\ MoreSteps
      /\ elapsed' = elapsed \cup {istep} /\ dt' = d /\ istep' = istep + 1 /\ pc' = "step"
      /\ UNCHANGED <<runmode, conv_flag, saved, tdep, maxiter, end>>
  BY DEF NextStep, LoopInv, Undone
<1>2. /\ tsteps \in Nat \ {0} /\ istep \in Nat /\ istep \in Step
      /\ StepsMade \subseteq Step /\ istep \notin StepsMade
  BY <1>1, LoopTypes
<1>3. istep' \in Step /\ StepsMade' = StepsMade \cup {istep} /\ istep' - 1 = istep
  BY <1>1, <1>2 DEF MoreSteps, Step, StepsMade
<1>4. /\ accepted \subseteq StepsMade /\ istep \notin accepted
      /\ u = StepsMade \cup {istep}
  BY <1>1, <1>2 DEF NotSteady, Looping, Undecided
<1>5. TypeOK'
  <2>1. accepted' \in SUBSET Step /\ uh' \in Content /\ q' \in Content
    BY <1>1, <1>2, <1>4 DEF TypeOK, Content
  <2>2. elapsed' \in SUBSET Step
    BY <1>1, <1>2 DEF TypeOK
  <2> QED
    BY <1>1, <1>3, <2>1, <2>2 DEF TypeOK
<1>6. TraceKeepsRejected'
  BY <1>1, <1>3, <1>4 DEF TraceKeepsRejected
<1>7. UdgKeepsAccepted' /\ Undecided' /\ Undone'
  BY <1>1 DEF UdgKeepsAccepted, Undecided, Undone
<1>8. NotSteady'
  <2>1. Steady' = Steady /\ accepted' \subseteq StepsMade'
    BY <1>3, <1>4 DEF Steady
  <2>2. pc' # "decide" /\ Steady \notin udg'
    BY <1>1
  <2> QED
    BY <2>1, <2>2 DEF NotSteady
<1>9. Floor'
  <2>1. ASSUME Below(dt, 8)', accepted' = accepted \cup {istep} PROVE accepted' = StepsMade'
    <3>1. Below(dt, 8)
      BY <1>1, <1>4, <2>1 DEF Below
    <3> QED
      BY <1>1, <1>3, <2>1, <3>1 DEF Floor, Looping
  <2> QED
    BY <1>1, <2>1 DEF Floor, Below
<1>10. Saving'
  BY <1>1 DEF Saving, Looping, LastSavedIsFinal
<1> QED
  BY <1>5, <1>6, <1>7, <1>8, <1>9, <1>10 DEF LoopInv

(* Leaving the loop: the floor and the step count do not matter any more.  *)
LEMMA LeaveLoopKeeps ==
  ASSUME LoopInv, pc = "decide", NEW why \in {"stalled", "steady"}, LeaveLoop(why),
         udg' \in Content, q' \in Content, uh' \in Content, u' \in Content,
         w' \in Content,
         accepted' \in SUBSET Step, udg' \ {Steady} = accepted', udgprev' = udgprev,
         tdep' \in {0, 1}, maxiter' \in {"one", "user"}, conv_flag' \in {0, 1},
         saved' \in Seq(Content \X Content),
         conv_flag' = 1 => saved' # <<>> /\ saved'[Len(saved')] = <<udg', q'>>
  PROVE  LoopInv'
<1>1. /\ TypeOK /\ end' = why /\ pc' = "finish"
      /\ UNCHANGED <<runmode, istep, dt, elapsed>>
  BY DEF LeaveLoop, LoopInv
<1>2. TypeOK'
  BY <1>1 DEF TypeOK
<1>3. /\ Undone' /\ Floor' /\ NotSteady' /\ UdgKeepsAccepted' /\ Undecided'
      /\ TraceKeepsRejected'
  BY <1>1 DEF Undone, Floor, NotSteady, Looping, UdgKeepsAccepted, Undecided,
              TraceKeepsRejected, Steady
<1>4. Saving'
  BY <1>1 DEF Saving, Looping, LastSavedIsFinal
<1> QED
  BY <1>2, <1>3, <1>4 DEF LoopInv

(* A rejected step is taken out of udg, uh and q; the step it leaves is    *)
(* above the floor, or the loop ends.                                      *)
LEMMA RejectKeeps == ASSUME LoopInv, Reject PROVE LoopInv'
<1> DEFINE smaller == [dt EXCEPT !.ten = @ + 1]
<1>1. /\ TypeOK /\ Undecided /\ NotSteady /\ Saving /\ pc = "decide"
      /\ udg' = udgprev /\ uh' = udgprev /\ q' = udgprev
      /\ UNCHANGED <<u, w, udgprev, accepted>>
      /\ \/ LeaveLoop("stalled") /\ UNCHANGED <<conv_flag, saved, tdep, maxiter>>
         \/ ~Below(smaller, 8) /\ NextStep(smaller)
  BY DEF Reject, Restored, GetQ, StepTooSmall, LoopInv
<1>2. /\ udg' \in Content /\ uh' \in Content /\ q' \in Content
      /\ accepted' \in SUBSET Step /\ udg' \ {Steady} = accepted'
  BY <1>1 DEF TypeOK, Undecided
<1>3. CASE LeaveLoop("stalled") /\ UNCHANGED <<conv_flag, saved, tdep, maxiter>>
  <2>1. conv_flag = 0 /\ u \in Content /\ w \in Content /\ tdep \in {0, 1}
        /\ maxiter \in {"one", "user"} /\ saved \in Seq(Content \X Content)
    BY <1>1 DEF Saving, Looping, TypeOK
  <2> QED
    BY <1>1, <1>2, <1>3, <2>1, LeaveLoopKeeps
<1>4. CASE ~Below(smaller, 8) /\ NextStep(smaller)
  <2>1. smaller \in [num : Nat \ {0}, ten : Nat]
    BY <1>1 DEF TypeOK
  <2> HIDE DEF smaller
  <2>2. Steady \notin udgprev /\ udgprev = accepted
    BY <1>1 DEF Undecided, NotSteady, Looping
  <2> QED
    BY <1>1, <1>2, <1>4, <2>1, <2>2, NextStepKeeps
<1> QED
  BY <1>1, <1>3, <1>4

(* What an accepted step leaves in udg.                                    *)
LEMMA AcceptedUdg ==
  ASSUME LoopInv, pc = "decide", accepted' = accepted \cup {istep}
  PROVE  accepted' \in SUBSET Step /\ udg \ {Steady} = accepted'
  BY LoopTypes DEF LoopInv, TypeOK, Undecided

(* An accepted step stays in udg, and the next one is not smaller.         *)
LEMMA AcceptKeeps ==
  ASSUME LoopInv, AcceptSame \/ AcceptDouble
  PROVE  LoopInv'
<1>1. /\ pc = "decide" /\ TypeOK /\ Undecided /\ NotSteady
      /\ accepted' = accepted \cup {istep} /\ UNCHANGED <<udg, q, uh, u, w, udgprev>>
  BY DEF AcceptSame, AcceptDouble, Accept, LoopInv
<1>2. /\ udg' \in Content /\ udg' \ {Steady} = accepted' /\ Steady \notin udg'
      /\ q' = uh' /\ uh' = u
  BY <1>1, AcceptedUdg DEF TypeOK, NotSteady, Looping, Undecided
<1>3. dt \in [num : Nat \ {0}, ten : Nat]
  BY <1>1 DEF TypeOK
<1>4. CASE AcceptSame
  <2>1. NextStep(dt)
    BY <1>4 DEF AcceptSame, Accept
  <2> QED
    BY <1>1, <1>2, <1>3, <2>1, NextStepKeeps
<1>5. CASE AcceptDouble
  <2> DEFINE d == [dt EXCEPT !.num = 2 * @]
  <2>1. NextStep(d)
    BY <1>5 DEF AcceptDouble, Accept
  <2>2. d \in [num : Nat \ {0}, ten : Nat]
    BY <1>3
  <2>3. Below(d, 8) => Below(dt, 8)
    BY <1>3, DoublingStaysAbove
  <2> HIDE DEF d
  <2> QED
    BY <1>1, <1>2, <2>1, <2>2, <2>3, NextStepKeeps
<1> QED
  BY <1>4, <1>5

(* The last entry of a file after one more solution.                       *)
LEMMA SavedLast ==
  ASSUME NEW file \in Seq(Content \X Content), NEW sol \in Content \X Content
  PROVE  /\ Append(file, sol) \in Seq(Content \X Content) /\ Append(file, sol) # <<>>
         /\ Append(file, sol)[Len(Append(file, sol))] = sol
  OBVIOUS

(* Both ways to find the steady state save the solution they end with.     *)
LEMMA SteadyKeeps ==
  ASSUME LoopInv, SteadyReached \/ SteadySolve
  PROVE  LoopInv'
<1>1. /\ TypeOK /\ Saving /\ pc = "decide" /\ accepted' = accepted \cup {istep}
      /\ udgprev' = udgprev /\ q' = udg' \cup uh'
  BY DEF SteadyReached, SteadySolve, GetQ, LoopInv
<1>2. /\ accepted' \in SUBSET Step /\ udg \ {Steady} = accepted'
      /\ udg \in Content /\ uh \in Content /\ u \in Content /\ w \in Content
      /\ saved \in Seq(Content \X Content) /\ conv_flag = 0
      /\ tdep \in {0, 1} /\ maxiter \in {"one", "user"}
  BY <1>1, AcceptedUdg DEF TypeOK, Saving, Looping
<1>3. CASE SteadyReached
  <2>1. /\ LeaveLoop("steady") /\ conv_flag' = 1 /\ saved' = Append(saved, <<udg, q'>>)
        /\ UNCHANGED <<udg, uh, u, w, tdep, maxiter>>
    BY <1>3 DEF SteadyReached
  <2>2. q' \in Content
    BY <1>1, <1>2, <2>1 DEF Content
  <2>3. saved' \in Seq(Content \X Content) /\ saved' # <<>>
        /\ saved'[Len(saved')] = <<udg', q'>>
    BY <1>2, <2>1, <2>2, SavedLast
  <2> QED
    BY <1>1, <1>2, <2>1, <2>2, <2>3, LeaveLoopKeeps
<1>4. CASE SteadySolve
  <2>1. /\ tdep' = 0 /\ maxiter' = "user" /\ conv_flag' = 0
        /\ udg' = udg \cup {Steady} /\ uh' = uh \cup {Steady} /\ u' = uh'
        /\ w' = w \cup {Steady}
        /\ \/ saved' = Append(saved, <<udg', q'>>) /\ LeaveLoop("steady")
           \/ pc' = "aborted" /\ UNCHANGED <<runmode, saved, end, istep, dt, elapsed>>
    BY <1>2, <1>4 DEF SteadySolve
  <2>2. /\ udg' \in Content /\ uh' \in Content /\ u' \in Content /\ w' \in Content
        /\ q' \in Content /\ udg' \ {Steady} = accepted'
    BY <1>1, <1>2, <2>1 DEF Content
  <2>3. CASE saved' = Append(saved, <<udg', q'>>) /\ LeaveLoop("steady")
    <3>1. saved' \in Seq(Content \X Content) /\ saved' # <<>>
          /\ saved'[Len(saved')] = <<udg', q'>>
      BY <1>2, <2>2, <2>3, SavedLast
    <3> QED
      BY <1>1, <1>2, <2>1, <2>2, <2>3, <3>1, LeaveLoopKeeps
  <2>4. CASE pc' = "aborted" /\ UNCHANGED <<runmode, saved, end, istep, dt, elapsed>>
    <3>1. TypeOK'
      BY <1>1, <1>2, <2>1, <2>2, <2>4 DEF TypeOK
    <3>2. /\ Undone' /\ UdgKeepsAccepted' /\ TraceKeepsRejected' /\ Undecided'
          /\ NotSteady' /\ Floor' /\ Saving'
      BY <2>4 DEF Undone, UdgKeepsAccepted, TraceKeepsRejected, Undecided, NotSteady,
                  Floor, Saving, Looping, LastSavedIsFinal
    <3> QED
      BY <3>1, <3>2 DEF LoopInv
  <2> QED
    BY <2>1, <2>3, <2>4
<1> QED
  BY <1>3, <1>4

(* After the loop the final solution is saved, unless it has been.         *)
LEMMA FinishKeeps == ASSUME LoopInv, Finish PROVE LoopInv'
<1>1. /\ TypeOK /\ UdgKeepsAccepted /\ Saving /\ pc = "finish"
      /\ UNCHANGED <<runmode, istep, dt, udg, q, uh, u, w, udgprev, elapsed, accepted,
                     maxiter, conv_flag, end>>
      /\ \/ tdep' = 0 /\ saved' = Append(saved, <<udg, q>>) /\ pc' = "warned"
         \/ conv_flag # 0 /\ pc' = "done" /\ UNCHANGED <<tdep, saved>>
  BY DEF Finish, SavesAtTheEnd, LoopInv
<1>2. CASE saved' = Append(saved, <<udg, q>>) /\ tdep' = 0 /\ pc' = "warned"
  <2>1. saved' \in Seq(Content \X Content) /\ saved' # <<>>
        /\ saved'[Len(saved')] = <<udg', q'>>
    BY <1>1, <1>2, SavedLast DEF TypeOK
  <2>2. TypeOK'
    BY <1>1, <1>2, <2>1 DEF TypeOK
  <2> QED
    BY <1>1, <1>2, <2>1, <2>2
       DEF LoopInv, Undone, UdgKeepsAccepted, TraceKeepsRejected, Undecided, NotSteady,
           Floor, Looping, Saving, LastSavedIsFinal, Steady
<1>3. CASE conv_flag # 0 /\ pc' = "done" /\ UNCHANGED <<tdep, saved>>
  <2>1. TypeOK' /\ conv_flag = 1
    BY <1>1, <1>3 DEF TypeOK
  <2> QED
    BY <1>1, <1>3, <2>1
       DEF LoopInv, Undone, UdgKeepsAccepted, TraceKeepsRejected, Undecided, NotSteady,
           Floor, Looping, Saving, LastSavedIsFinal, Steady
<1> QED
  BY <1>1, <1>2, <1>3

(* Every step keeps the invariant.                                         *)
LEMMA LoopStep == ASSUME LoopInv, [Next]_vars PROVE LoopInv'
<1>1. CASE Advance
  BY <1>1, AdvanceKeeps
<1>2. CASE Reject
  BY <1>2, RejectKeeps
<1>3. CASE AcceptSame \/ AcceptDouble
  BY <1>3, AcceptKeeps
<1>4. CASE SteadyReached \/ SteadySolve
  BY <1>4, SteadyKeeps
<1>5. CASE OutOfSteps
  <2>1. /\ LoopInv /\ pc = "step" /\ end' = "maxsteps" /\ pc' = "finish"
        /\ UNCHANGED <<runmode, istep, dt, udg, q, uh, u, w, udgprev, elapsed, accepted,
                       tdep, maxiter, conv_flag, saved>>
    BY <1>5 DEF OutOfSteps
  <2>2. TypeOK'
    BY <2>1 DEF LoopInv, TypeOK
  <2> QED
    BY <2>1, <2>2 DEF LoopInv, Undone, UdgKeepsAccepted, TraceKeepsRejected, Undecided,
                      NotSteady, Floor, Looping, Saving, LastSavedIsFinal, Steady
<1>6. CASE Finish
  BY <1>6, FinishKeeps
<1>7. CASE UNCHANGED vars
  <2>1. LoopInv /\ TypeOK'
    BY <1>7 DEF vars, LoopInv, TypeOK
  <2>2. Undone' /\ UdgKeepsAccepted' /\ TraceKeepsRejected' /\ Undecided'
    BY <1>7, <2>1 DEF vars, LoopInv, Undone, MoreSteps, UdgKeepsAccepted,
                      TraceKeepsRejected, StepsMade, Undecided, Steady
  <2>3. NotSteady' /\ Floor' /\ Saving'
    BY <1>7, <2>1 DEF vars, LoopInv, NotSteady, Floor, StepsMade, Looping, Below, Saving,
                      LastSavedIsFinal, Steady
  <2> QED
    BY <2>1, <2>2, <2>3 DEF LoopInv
<1> QED
  BY <1>1, <1>2, <1>3, <1>4, <1>5, <1>6, <1>7 DEF Next

(* The inductive invariant of the continuation holds in every state.       *)
THEOREM LoopInvariant == Spec => []LoopInv
<1> QED
  BY LoopInit, LoopStep, PTL DEF Spec

-----------------------------------------------------------------------------
(* For any number of steps and any initial step: the arrays have their     *)
(* types; the conserved components keep the accepted increments and no     *)
(* other; the trace and the gradient take the rejected ones up again with  *)
(* the next accepted step; and no step is made with dt below 1e-8 after    *)
(* one was rejected.                                                       *)
THEOREM ContinuationIsSound == Spec => []ContinuationInv
<1>1. LoopInv => ContinuationInv
  BY DEF LoopInv, ContinuationInv, StepAboveFloor, Floor, Looping
<1> QED
  BY <1>1, LoopInvariant, PTL

(* Whichever way the loop ends, the last solution in the file is the final *)
(* one.                                                                    *)
THEOREM FinalSolutionIsSaved == Spec => []LastSavedIsFinal
<1>1. LoopInv => LastSavedIsFinal
  BY DEF LoopInv, Saving
<1> QED
  BY <1>1, LoopInvariant, PTL
=============================================================================
