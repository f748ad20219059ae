------------------------- MODULE FermentDriverProofs ------------------------
(***************************************************************************)
(* The closed loop of advisor, validator and reducer, for plans of any     *)
(* size and any grouping.  What a call may do is described once, by what   *)
(* the three know together when it is made (NextSteps); the invariants     *)
(* and the progress of the workflow follow from that description.          *)
(***************************************************************************)
EXTENDS FermentDriver, FermentStateProofs

(* The advisor's active phase is an active phase, if there is one. *)
LEMMA ActivePhaseFound ==
    ASSUME NEW g \in Ferments
    PROVE  IF PhasesIn(g, {"active"}) = {}
           THEN FindActivePhase(g) = NoPhase
           ELSE FindActivePhase(g) \in PhasesIn(g, {"active"})
<1>1. NoPhase \notin Phases
  BY FermentAssumption DEF Phases, NoPhase
<1>2. PhasesIn(g, {"active"}) # {} => First(PhasesIn(g, {"active"})) \in PhasesIn(g, {"active"})
  BY FirstPhase DEF PhasesIn
<1>3. g.activePhaseId \in Phases \cup {NoPhase}
  BY DEF Ferments
<1> QED
  BY <1>1, <1>2, <1>3 DEF FindActivePhase, PhasesIn

(* What the advice for an active phase says of the steps of that phase. *)
AdviceOnSteps(g, a) ==
    \/ a.kind = "refine" /\ StepsOf(g, a.phase) = {}
    \/ a.kind = "recover_step" /\ a.step \in StepsIn(g, a.phase, {"failed"})
    \/ a.kind = "start_step" /\ a.step \in StepsIn(g, a.phase, {"pending"})
    \/ a.kind = "complete_step" /\ a.step \in StepsIn(g, a.phase, {"running"})
    \/ /\ a.kind = "complete_phase"
       /\ StepsOf(g, a.phase) # {}
       /\ StepsIn(g, a.phase, {"pending", "running", "failed"}) = {}

LEMMA NextInPhaseIs ==
    ASSUME NEW g \in Ferments, NEW p \in Phases
    PROVE  NextInPhase(g, p).phase = p /\ AdviceOnSteps(g, NextInPhase(g, p))
<1> DEFINE failed == StepsIn(g, p, {"failed"})
           pending == StepsIn(g, p, {"pending"})
           running == StepsIn(g, p, {"running"})
<1>1. /\ failed # {} => First(failed) \in failed
      /\ pending # {} => First(pending) \in pending
      /\ running # {} => First(running) \in running
  BY FirstStep DEF StepsIn
<1>2. StepsIn(g, p, {"pending", "running", "failed"}) = failed \cup pending \cup running
  BY DEF StepsIn
<1>3. NextInPhase(g, p) =
        CASE StepsOf(g, p) = {} -> Action("refine", p, NoStep)
          [] failed # {} -> Action("recover_step", p, First(failed))
          [] failed = {} /\ pending # {} -> Action("start_step", p, First(pending))
          [] failed = {} /\ pending = {} /\ running # {} ->
                 Action("complete_step", p, First(running))
          [] OTHER -> Action("complete_phase", p, NoStep)
  BY DEF NextInPhase
<1>4. StepsOf(g, p) = {} => failed = {} /\ pending = {} /\ running = {}
  BY DEF StepsOf, StepsIn
<1> DEFINE a == NextInPhase(g, p)
<1> HIDE DEF failed, pending, running, a
<1>5. \/ StepsOf(g, p) = {} /\ a = Action("refine", p, NoStep)
      \/ failed # {} /\ a = Action("recover_step", p, First(failed))
      \/ pending # {} /\ a = Action("start_step", p, First(pending))
      \/ running # {} /\ a = Action("complete_step", p, First(running))
      \/ /\ StepsOf(g, p) # {} /\ failed = {} /\ pending = {} /\ running = {}
         /\ a = Action("complete_phase", p, NoStep)
  <2>1. CASE StepsOf(g, p) = {}
    BY <1>3, <1>4, <2>1, Zenon DEF a
  <2>2. CASE StepsOf(g, p) # {} /\ failed # {}
    BY <1>3, <2>2, Zenon DEF a
  <2>3. CASE StepsOf(g, p) # {} /\ failed = {} /\ pending # {}
    BY <1>3, <2>3, Zenon DEF a
  <2>4. CASE StepsOf(g, p) # {} /\ failed = {} /\ pending = {} /\ running # {}
    BY <1>3, <2>4, Zenon DEF a
  <2>5. CASE StepsOf(g, p) # {} /\ failed = {} /\ pending = {} /\ running = {}
    BY <1>3, <2>5, Zenon DEF a
  <2> QED
    BY <2>1, <2>2, <2>3, <2>4, <2>5
<1>6. a.phase = p /\ AdviceOnSteps(g, a)
  BY <1>1, <1>2, <1>5 DEF AdviceOnSteps, Action, failed, pending, running
<1> QED
  BY <1>6 DEF a

(* What the advice says of the ferment it is given for. *)
AdviceOn(g, a) ==
    \/ /\ a.kind \in {"none", "pause"}
       /\ \/ g.status \in {"complete", "abandoned", "paused"}
          \/ /\ ~AllPhasesTerminal(g)
             /\ PhasesIn(g, {"active"}) = {}
             /\ g.status = "planned" => PhasesIn(g, {"planned"}) = {}
    \/ /\ g.status \notin {"complete", "abandoned", "paused"}
       /\ \/ a.kind = "scope" /\ Present(g) = {}
          \/ a.kind = "recover_phase" /\ a.phase \in PhasesIn(g, {"failed"})
          \/ /\ PhasesIn(g, {"failed"}) = {}
             /\ Present(g) # {}
             /\ \/ a.kind = "complete_ferment" /\ AllPhasesTerminal(g)
                \/ /\ a.kind = "activate_phase"
                   /\ g.status = "planned"
                   /\ a.phase \in PhasesIn(g, {"planned"})
                \/ a.phase \in PhasesIn(g, {"active"}) /\ AdviceOnSteps(g, a)

LEMMA AdviceFits ==
    ASSUME NEW g \in Ferments
    PROVE  AdviceOn(g, DetermineNextAction(g))
<1> DEFINE active == FindActivePhase(g)
           failed == PhasesIn(g, {"failed"})
           planned == PhasesIn(g, {"planned"})
<1>1. failed # {} => First(failed) \in failed
  BY FirstPhase DEF PhasesIn
<1>2. planned # {} => First(planned) \in planned
  BY FirstPhase DEF PhasesIn
<1>3. active # NoPhase => active \in PhasesIn(g, {"active"}) /\ active \in Phases
  BY ActivePhaseFound DEF PhasesIn
<1>3a. active = NoPhase => PhasesIn(g, {"active"}) = {}
  <2>1. NoPhase \notin PhasesIn(g, {"active"})
    BY FermentAssumption DEF PhasesIn, Phases, NoPhase
  <2> QED
    BY <2>1, ActivePhaseFound
<1>4. active # NoPhase =>
        NextInPhase(g, active).phase = active /\ AdviceOnSteps(g, NextInPhase(g, active))
  BY <1>3, NextInPhaseIs
<1> HIDE DEF active, failed, planned
<1> DEFINE a == DetermineNextAction(g)
<1>5. a = IF g.status \in {"complete", "abandoned"} THEN PlainAction("none")
          ELSE IF g.status = "paused" THEN PlainAction("pause")
          ELSE IF Present(g) = {} THEN PlainAction("scope")
          ELSE IF failed # {} THEN Action("recover_phase", First(failed), NoStep)
          ELSE IF AllPhasesTerminal(g) THEN PlainAction("complete_ferment")
          ELSE IF active # NoPhase THEN NextInPhase(g, active)
          ELSE IF g.status = "planned" /\ planned # {}
               THEN Action("activate_phase", First(planned), NoStep)
          ELSE IF g.status = "running" THEN PlainAction("pause")
          ELSE PlainAction("none")
  BY Zenon DEF DetermineNextAction, active, failed, planned
<1> HIDE DEF a
<1>6. AdviceOn(g, a)
  BY <1>1, <1>2, <1>3, <1>3a, <1>4, <1>5 DEF AdviceOn, Action, PlainAction, failed, planned
<1> QED
  BY <1>6 DEF a

-----------------------------------------------------------------------------
(* What the loop does to a ferment *)

(* A phase or a group is activated only while nothing is active, and a     *)
(* planned phase only while none has failed.                               *)
ActivatesNext(g, h) ==
    /\ g.status = "planned"
    /\ \/ \E p \in Phases : /\ g.phase[p] \in {"planned", "failed"}
                            /\ PhasesIn(g, {"failed"}) # {} => g.phase[p] = "failed"
                            /\ h = ActivatePhase(g, p)
       \/ \E k \in Groups : PlannedInGroup(g, k) # {} /\ h = ActivatePhaseGroup(g, k)

(* Steps are planned only where there are none. *)
RefinesBare(g, h) ==
    \E p \in PhasesIn(g, {"active"}), list \in StepPlans :
        StepsOf(g, p) = {} /\ h = RefinePhase(g, p, list)

(* A step waits to be started, or started again. *)
StartsStep(g, h) ==
    \E p \in PhasesIn(g, {"active"}) : \E s \in StepsIn(g, p, {"pending", "failed"}) :
        h = SetStep(g, p, s, "running")

SkipsStep(g, h) ==
    \E p \in PhasesIn(g, {"active"}) : \E s \in StepsIn(g, p, {"failed"}) :
        h = SetStep(g, p, s, "skipped")

(* A worker's step ends with the given status. *)
EndsWork(g, h, status) ==
    \E p \in Phases : \E s \in StepsIn(g, p, {"running"}) : h = SetStep(g, p, s, status)

(* An active phase ends when all of its steps have ended well. *)
EndsPhase(g, h, status) ==
    \E p \in PhasesIn(g, {"active"}) :
        /\ StepsIn(g, p, {"pending", "running", "failed"}) = {}
        /\ PhasesIn(g, {"failed"}) = {}
        /\ h = EndPhase(g, p, status)

SkipsPhase(g, h) ==
    \E p \in PhasesIn(g, {"failed"}) : g.status = "planned" /\ h = EndPhase(g, p, "skipped")

(* The ferment is completed when all of its phases are over. *)
Closes(g, h) == Present(g) # {} /\ Finishes(g, h)

(* The work goes on, or something about it fails. *)
Succeeds(g, h) ==
    \/ Scopes(g, h)
    \/ ActivatesNext(g, h)
    \/ RefinesBare(g, h)
    \/ StartsStep(g, h)
    \/ SkipsStep(g, h)
    \/ EndsWork(g, h, "done")
    \/ EndsWork(g, h, "verified")
    \/ EndsPhase(g, h, "completed")
    \/ SkipsPhase(g, h)
    \/ Closes(g, h)

Fails(g, h) == EndsWork(g, h, "failed") \/ EndsPhase(g, h, "failed")

(* What the FSM knows when it permits an event in a ferment at work. *)
LEMMA FsmKnows ==
    ASSUME NEW g \in Ferments, NEW event, NEW p \in Phases, NEW s,
           g.status \notin {"complete", "abandoned", "paused"}, FsmPermits(g, event, p, s)
    PROVE  /\ event = "ACTIVATE_PHASE" => /\ g.status = "planned"
                                         /\ g.phase[p] \in {"planned", "failed"}
           /\ event = "SKIP_PHASE" => g.status = "planned" \/ g.phase[p] = "active"
           /\ event = "START_STEP" => g.phase[p] = "active"
<1>1. FsmState(g) \in {"DRAFT", "PLANNED", "PHASE_ACTIVE", "STEP_RUNNING"}
  BY DEF FsmState, Ferments, FermentStatuses
<1>2. FsmState(g) = "PLANNED" => g.status = "planned"
  BY DEF FsmState, Ferments, FermentStatuses
<1>3. event \in FsmEventsOf(FsmState(g)) /\ FsmGuard(g, FsmState(g), event, p, s)
  BY DEF FsmPermits
<1> DEFINE state == FsmState(g)
<1> HIDE DEF state
<1>4. CASE event = "ACTIVATE_PHASE"
  BY <1>1, <1>2, <1>3, <1>4
     DEF FsmEventsOf, FsmGuard, PhaseExistsAndPlanned
<1>5. CASE event = "SKIP_PHASE"
  BY <1>1, <1>2, <1>3, <1>5 DEF FsmGuard, PhaseActive
<1>6. CASE event = "START_STEP"
  BY <1>1, <1>2, <1>3, <1>6 DEF FsmGuard, StartStepInActivePhase, PhaseActive
<1> QED
  BY <1>4, <1>5, <1>6

(* A running step ends well, or fails. *)
LEMMA FinishCallSteps ==
    ASSUME f \in Ferments, NEW p \in Phases, NEW s \in StepsIn(f, p, {"running"}),
           NEW call \in FinishCalls(p, s)
    PROVE  /\ call.cmd \in Commands
           /\ \/ call.faulty = FALSE /\ Succeeds(f, ApplyCommand(f, call.cmd))
              \/ call.faulty = TRUE /\ Fails(f, ApplyCommand(f, call.cmd))
<1> DEFINE g == ApplyCommand(f, call.cmd)
<1>1. s \in Steps
  BY DEF StepsIn
<1>2. CASE call = StepCall("COMPLETE_STEP", "complete_step", p, s, FALSE)
  <2>1. call.cmd \in Commands /\ call.faulty = FALSE /\ g = SetStep(f, p, s, "done")
    BY <1>1, <1>2 DEF StepCall, Call, Commands, StepCommands, ApplyCommand
  <2> QED
    BY <2>1 DEF EndsWork, Succeeds
<1>3. CASE call = StepCall("COMPLETE_STEP", "verify_pass", p, s, FALSE)
  <2>1. call.cmd \in Commands /\ call.faulty = FALSE /\ g = SetStep(f, p, s, "verified")
    BY <1>1, <1>3 DEF StepCall, Call, Commands, StepCommands, ApplyCommand
  <2> QED
    BY <2>1 DEF EndsWork, Succeeds
<1>4. CASE call = StepCall("COMPLETE_STEP", "fail_step", p, s, TRUE)
  <2>1. call.cmd \in Commands /\ call.faulty = TRUE /\ g = SetStep(f, p, s, "failed")
    BY <1>1, <1>4 DEF StepCall, Call, Commands, StepCommands, ApplyCommand
  <2> QED
    BY <2>1 DEF EndsWork, Fails
<1> QED
  BY <1>2, <1>3, <1>4 DEF FinishCalls

(* A call the advice names is a command, of one of these steps. *)
LEMMA AdvisedCallSteps ==
    ASSUME f \in Ferments, NEW a, AdviceOn(f, a), NEW call \in AdvisedCalls(a), Works(a, call)
    PROVE  /\ call.cmd \in Commands
           /\ \/ call.faulty = FALSE /\ Succeeds(f, ApplyCommand(f, call.cmd))
              \/ call.faulty = TRUE /\ Fails(f, ApplyCommand(f, call.cmd))
<1> DEFINE g == ApplyCommand(f, call.cmd)
<1>0. /\ FsmAgrees(a, call)
      /\ Accepts(f, call.cmd)
  BY DEF Works, Admits
<1>1. CASE a.kind \in {"none", "pause"}
  BY <1>1 DEF AdvisedCalls
<1>2. CASE a.kind = "scope"
  <2>1. PICK plan \in PhasePlans :
          call = Call("SCOPE_FERMENT", [type |-> "scope", plan |-> plan], FALSE)
    BY <1>2 DEF AdvisedCalls
  <2>2. call.cmd \in Commands /\ call.faulty = FALSE /\ g = Scope(f, plan)
    BY <2>1 DEF Call, Commands, ApplyCommand
  <2>3. f.status = "draft"
    BY <1>0, <2>1 DEF Call, Accepts, ScopeAllowed
  <2> QED
    BY <2>2, <2>3 DEF Scopes, Succeeds
<1>3. CASE a.kind = "refine"
  <2>1. PICK list \in StepPlans :
          call = Call("REFINE_PHASE", [type |-> "refine_phase", phase |-> a.phase, steps |-> list],
                      FALSE)
    BY <1>3 DEF AdvisedCalls
  <2>2. a.phase \in PhasesIn(f, {"active"}) /\ StepsOf(f, a.phase) = {}
    BY <1>3 DEF AdviceOn, AdviceOnSteps
  <2>3. call.cmd \in Commands /\ call.faulty = FALSE /\ g = RefinePhase(f, a.phase, list)
    BY <2>1, <2>2 DEF Call, Commands, ApplyCommand, PhasesIn
  <2> QED
    BY <2>2, <2>3 DEF RefinesBare, Succeeds
<1>4. ASSUME NEW p \in Phases, NEW s \in Steps, p = a.phase, s = a.step,
             f.status \notin {"complete", "abandoned", "paused"},
             s \in StepsIn(f, p, {"pending", "failed"}),
             call = StepCall("START_STEP", "start_step", p, s, FALSE)
      PROVE  /\ call.cmd \in Commands
             /\ call.faulty = FALSE /\ Succeeds(f, g)
  <2>1. call.cmd \in Commands /\ call.faulty = FALSE /\ g = SetStep(f, p, s, "running")
    BY <1>4 DEF Call, StepCall, Commands, StepCommands, ApplyCommand
  <2>2. f.phase[p] = "active"
    BY <1>0, <1>4, FsmKnows DEF FsmAgrees, Call, StepCall
  <2> QED
    BY <1>4, <2>1, <2>2 DEF StartsStep, Succeeds, PhasesIn
<1>5. CASE a.kind = "start_step"
  <2>1. /\ f.status \notin {"complete", "abandoned", "paused"}
        /\ a.phase \in Phases /\ a.step \in Steps
        /\ a.step \in StepsIn(f, a.phase, {"pending", "failed"})
    BY <1>5 DEF AdviceOn, AdviceOnSteps, PhasesIn, StepsIn
  <2>2. call = StepCall("START_STEP", "start_step", a.phase, a.step, FALSE)
    BY <1>5 DEF AdvisedCalls
  <2> QED
    BY <1>4, <2>1, <2>2
<1>6. CASE a.kind = "recover_step"
  <2>1. /\ f.status \notin {"complete", "abandoned", "paused"}
        /\ a.phase \in PhasesIn(f, {"active"}) /\ a.phase \in Phases /\ a.step \in Steps
        /\ a.step \in StepsIn(f, a.phase, {"failed"})
        /\ a.step \in StepsIn(f, a.phase, {"pending", "failed"})
    BY <1>6 DEF AdviceOn, AdviceOnSteps, PhasesIn, StepsIn
  <2>2. CASE call = StepCall("START_STEP", "start_step", a.phase, a.step, FALSE)
    BY <1>4, <2>1, <2>2
  <2>3. CASE call = StepCall("SKIP_STEP", "skip_step", a.phase, a.step, FALSE)
    <3>1. /\ call.cmd \in Commands /\ call.faulty = FALSE
          /\ g = SetStep(f, a.phase, a.step, "skipped")
      BY <2>1, <2>3 DEF Call, StepCall, Commands, StepCommands, ApplyCommand
    <3> QED
      BY <2>1, <3>1 DEF SkipsStep, Succeeds
  <2> QED
    BY <1>6, <2>2, <2>3 DEF AdvisedCalls
<1>7. CASE a.kind = "complete_step"
  <2>1. a.phase \in Phases /\ a.step \in StepsIn(f, a.phase, {"running"})
    BY <1>7 DEF AdviceOn, AdviceOnSteps, PhasesIn
  <2>2. call \in FinishCalls(a.phase, a.step)
    BY <1>7 DEF AdvisedCalls
  <2> QED
    BY <2>1, <2>2, FinishCallSteps
<1>8. CASE a.kind = "complete_phase"
  <2>1. /\ a.phase \in PhasesIn(f, {"active"}) /\ a.phase \in Phases
        /\ StepsIn(f, a.phase, {"pending", "running", "failed"}) = {}
        /\ PhasesIn(f, {"failed"}) = {}
    BY <1>8 DEF AdviceOn, AdviceOnSteps, PhasesIn
  <2>2. CASE call = PhaseCall("COMPLETE_PHASE", "complete_phase", a.phase, FALSE)
    <3>1. call.cmd \in Commands /\ call.faulty = FALSE /\ g = EndPhase(f, a.phase, "completed")
      BY <2>1, <2>2 DEF Call, PhaseCall, Commands, PhaseCommands, ApplyCommand
    <3> QED
      BY <2>1, <3>1 DEF EndsPhase, Succeeds
  <2>3. CASE call = PhaseCall("FAIL_PHASE", "fail_phase", a.phase, TRUE)
    <3>1. call.cmd \in Commands /\ call.faulty = TRUE /\ g = EndPhase(f, a.phase, "failed")
      BY <2>1, <2>3 DEF Call, PhaseCall, Commands, PhaseCommands, ApplyCommand
    <3> QED
      BY <2>1, <3>1 DEF EndsPhase, Fails
  <2> QED
    BY <1>8, <2>2, <2>3 DEF AdvisedCalls
<1>9. ASSUME a.kind \in {"activate_phase", "recover_phase"}, call = ActivateCall(a.phase)
      PROVE  /\ call.cmd \in Commands
             /\ call.faulty = FALSE /\ Succeeds(f, g)
  <2>1. /\ f.status \notin {"complete", "abandoned", "paused"} /\ a.phase \in Phases
        /\ f.phase[a.phase] \in {"planned", "failed"}
        /\ PhasesIn(f, {"failed"}) # {} => f.phase[a.phase] = "failed"
    BY <1>9 DEF AdviceOn, AdviceOnSteps, PhasesIn
  <2>2. f.status = "planned"
    BY <1>0, <1>9, <2>1, FsmKnows DEF FsmAgrees, ActivateCall, PhaseCall, Call
  <2>3. CASE f.phaseGroup[a.phase] = NoGroup
    <3>1. /\ call.cmd \in Commands /\ call.faulty = FALSE
          /\ g = ActivatePhase(f, a.phase)
      BY <1>9, <2>1, <2>3
         DEF ActivateCall, PhaseCall, Call, Commands, PhaseCommands, ApplyCommand
    <3> QED
      BY <2>1, <2>2, <3>1 DEF ActivatesNext, Succeeds
  <2>4. CASE f.phaseGroup[a.phase] # NoGroup
    <3>1. f.phaseGroup[a.phase] \in Groups
      BY <2>1, <2>4 DEF Ferments, Cohorts
    <3>2. /\ call.cmd \in Commands /\ call.faulty = FALSE
          /\ g = ActivatePhaseGroup(f, f.phaseGroup[a.phase])
      BY <1>9, <2>4, <3>1 DEF ActivateCall, Call, Commands, ApplyCommand
    <3>3. PlannedInGroup(f, f.phaseGroup[a.phase]) # {}
      BY <1>0, <1>9, <2>4 DEF ActivateCall, Call, Accepts
    <3> QED
      BY <2>2, <3>1, <3>2, <3>3 DEF ActivatesNext, Succeeds
  <2> QED
    BY <2>3, <2>4
<1>10. CASE a.kind = "activate_phase"
  BY <1>9, <1>10 DEF AdvisedCalls
<1>11. CASE a.kind = "recover_phase"
  <2>1. CASE call = ActivateCall(a.phase)
    BY <1>9, <1>11, <2>1
  <2>2. CASE call = PhaseCall("SKIP_PHASE", "skip_phase", a.phase, FALSE)
    <3>1. /\ f.status \notin {"complete", "abandoned", "paused"}
          /\ a.phase \in PhasesIn(f, {"failed"}) /\ a.phase \in Phases
          /\ f.phase[a.phase] = "failed"
      BY <1>11 DEF AdviceOn, AdviceOnSteps, PhasesIn
    <3>2. call.cmd \in Commands /\ call.faulty = FALSE /\ g = EndPhase(f, a.phase, "skipped")
      BY <2>2, <3>1 DEF Call, PhaseCall, Commands, PhaseCommands, ApplyCommand
    <3>3. f.status = "planned"
      BY <1>0, <2>2, <3>1, FsmKnows DEF FsmAgrees, PhaseCall, Call
    <3> QED
      BY <3>1, <3>2, <3>3 DEF SkipsPhase, Succeeds
  <2> QED
    BY <1>11, <2>1, <2>2 DEF AdvisedCalls
<1>12. CASE a.kind = "complete_ferment"
  <2>1. call = Call("NONE", [type |-> "complete_ferment"], FALSE)
    BY <1>12 DEF AdvisedCalls
  <2>2. call.cmd \in Commands /\ call.faulty = FALSE /\ g = CompleteFerment(f)
    BY <2>1 DEF Call, Commands, PlainCommands, ApplyCommand
  <2>3. /\ f.status \notin {"complete", "abandoned", "paused"}
        /\ AllPhasesTerminal(f) /\ Present(f) # {}
    BY <1>12 DEF AdviceOn, AdviceOnSteps
  <2> QED
    BY <2>2, <2>3 DEF Finishes, Closes, Succeeds
<1> QED
  BY <1>1, <1>2, <1>3, <1>5, <1>6, <1>7, <1>8, <1>10, <1>11, <1>12
     DEF AdviceOn, AdviceOnSteps

(* One admitted command, or nothing. *)
Commits(g, h) ==
    \/ \E cmd \in Commands : Admits(g, cmd) /\ h = ApplyCommand(g, cmd)
    \/ h = g

(* A step of the loop is one of these, counts what it spends, and is one   *)
(* admitted command.                                                       *)
LEMMA NextSteps ==
    ASSUME f \in Ferments, faults \in Nat, [Next]_vars
    PROVE  /\ Commits(f, f')
           /\ \/ Succeeds(f, f') /\ faults' = faults /\ interrupts' = interrupts
              \/ Fails(f, f') /\ faults' = faults + 1 /\ interrupts' = interrupts
              \/ Pauses(f, f') /\ faults' = faults /\ interrupts' = interrupts + 1
              \/ Resumes(f, f') /\ faults' = faults /\ interrupts' = interrupts
              \/ UNCHANGED vars
<1>1. ASSUME NEW a, NEW call, Make(a, call), call.cmd \in Commands,
             \/ call.faulty = FALSE /\ Succeeds(f, ApplyCommand(f, call.cmd))
             \/ call.faulty = TRUE /\ Fails(f, ApplyCommand(f, call.cmd))
      PROVE  /\ Commits(f, f')
             /\ \/ Succeeds(f, f') /\ faults' = faults /\ interrupts' = interrupts
                \/ Fails(f, f') /\ faults' = faults + 1 /\ interrupts' = interrupts
  <2>1. /\ Admits(f, call.cmd)
        /\ f' = ApplyCommand(f, call.cmd)
        /\ faults' = faults + (IF call.faulty THEN 1 ELSE 0)
        /\ interrupts' = interrupts
    BY <1>1 DEF Make, Works
  <2>2. Commits(f, f')
    BY <1>1, <2>1 DEF Commits
  <2>3. faults + 0 = faults
    OBVIOUS
  <2> QED
    BY <1>1, <2>1, <2>2, <2>3
<1>2. CASE FollowAdvice
  <2>1. PICK call \in AdvisedCalls(DetermineNextAction(f)) : Make(DetermineNextAction(f), call)
    BY <1>2 DEF FollowAdvice
  <2>2. Works(DetermineNextAction(f), call)
    BY <2>1 DEF Make
  <2> QED
    BY <1>1, <2>1, <2>2, AdviceFits, AdvisedCallSteps
<1>3. CASE WorkerReturns
  <2>1. PICK p \in Phases : \E s \in StepsIn(f, p, {"running"}) :
            \E call \in FinishCalls(p, s) : Make(Action("complete_step", p, s), call)
    BY <1>3 DEF WorkerReturns
  <2>2. PICK s \in StepsIn(f, p, {"running"}) :
            \E call \in FinishCalls(p, s) : Make(Action("complete_step", p, s), call)
    BY <2>1
  <2>3. PICK call \in FinishCalls(p, s) : Make(Action("complete_step", p, s), call)
    BY <2>2
  <2> QED
    BY <1>1, <2>3, FinishCallSteps
<1>4. CASE Interrupt
  <2>1. [type |-> "pause"] \in Commands
    BY DEF Commands, PlainCommands
  <2>2. Admits(f, [type |-> "pause"]) /\ ApplyCommand(f, [type |-> "pause"]) = Pause(f)
    BY <1>4 DEF Interrupt, Admits, BridgeAdmits, Accepts, ApplyCommand, StepCommands
  <2>3. Commits(f, f')
    BY <1>4, <2>1, <2>2 DEF Interrupt, Commits
  <2> QED
    BY <1>4, <2>3 DEF Interrupt, Pauses, Accepts
<1>5. CASE UserResume
  <2>1. [type |-> "resume"] \in Commands
    BY DEF Commands, PlainCommands
  <2>2. Admits(f, [type |-> "resume"]) /\ ApplyCommand(f, [type |-> "resume"]) = Resume(f)
    BY <1>5 DEF UserResume, Admits, BridgeAdmits, CommandsAllowedWhilePaused, Accepts,
                ApplyCommand, StepCommands
  <2>3. Commits(f, f')
    BY <1>5, <2>1, <2>2 DEF UserResume, Commits
  <2> QED
    BY <1>5, <2>3 DEF UserResume, Resumes, Accepts
<1>6. CASE UNCHANGED vars
  BY <1>6 DEF vars, Commits
<1> QED
  BY <1>2, <1>3, <1>4, <1>5, <1>6 DEF Next

(* The steps of the loop that touch a step leave the phases alone, those   *)
(* that touch a phase the steps.                                           *)
LEMMA StepMoves ==
    ASSUME NEW g \in Ferments, NEW h,
           \/ RefinesBare(g, h) \/ StartsStep(g, h) \/ SkipsStep(g, h)
           \/ \E status \in StepStatuses : EndsWork(g, h, status)
    PROVE  h.phase = g.phase /\ h.status = g.status
  BY DEF RefinesBare, StartsStep, SkipsStep, EndsWork, RefinePhase, SetStep, Ferments

LEMMA PhaseMoves ==
    ASSUME NEW g \in Ferments, NEW h,
           \/ ActivatesNext(g, h) \/ SkipsPhase(g, h)
           \/ \E status \in TerminalPhaseStatuses : EndsPhase(g, h, status)
           \/ Closes(g, h) \/ Resumes(g, h)
    PROVE  h.step = g.step
  BY DEF ActivatesNext, SkipsPhase, EndsPhase, Closes, Finishes, Resumes, ActivatePhase,
         ActivatePhaseGroup, EndPhase, SettleAfterPhaseTerminal, CompleteFerment, Resume, Ferments

(* Setting a step changes that slot and no other.                          *)
LEMMA SetStepSets ==
    ASSUME NEW g \in Ferments, NEW p \in Phases, NEW s \in Steps, NEW status
    PROVE  \A q \in Phases : \A t \in Steps :
               SetStep(g, p, s, status).step[q][t]
                 = IF q = p /\ t = s THEN status ELSE g.step[q][t]
  BY DEF SetStep, Ferments

(* The phases of S become active, which were planned or failed, and no     *)
(* other phase changes.                                                    *)
MakesActive(g, h, S) ==
    /\ h.status = "running" /\ h.phaseGroup = g.phaseGroup
    /\ S # {} /\ S \subseteq PhasesIn(g, {"planned", "failed"})
    /\ \A q \in Phases : h.phase[q] = IF q \in S THEN "active" ELSE g.phase[q]

(* They are either one phase, a failed one if there is one, or members of  *)
(* one group.                                                              *)
BelongTogether(g, S) ==
    \/ /\ \A p, q \in S : p = q
       /\ PhasesIn(g, {"failed"}) # {} => S \subseteq PhasesIn(g, {"failed"})
    \/ \E k \in Groups : \A p \in S : g.phaseGroup[p] = k

(* An activation, where nothing is active yet, is of that kind.            *)
LEMMA ActivationMoves ==
    ASSUME NEW g \in Ferments, NEW h, StatusFits(g), ActivatesNext(g, h)
    PROVE  /\ PhasesIn(g, {"active"}) = {}
           /\ \E S \in SUBSET Phases : MakesActive(g, h, S) /\ BelongTogether(g, S)
<1>1. \A q \in Phases : g.phase[q] # "active"
  BY DEF ActivatesNext, StatusFits, PhasesIn
<1>2. PhasesIn(g, {"active"}) = {}
  BY <1>1 DEF PhasesIn
<1>3. ASSUME NEW p \in Phases, g.phase[p] \in {"planned", "failed"},
             PhasesIn(g, {"failed"}) # {} => g.phase[p] = "failed", h = ActivatePhase(g, p)
      PROVE  \E S \in SUBSET Phases : MakesActive(g, h, S) /\ BelongTogether(g, S)
  <2>1. /\ h.status = "running" /\ h.phaseGroup = g.phaseGroup
        /\ \A q \in Phases : h.phase[q] = IF q = p THEN "active"
                                         ELSE IF g.phase[q] = "active" THEN "planned"
                                         ELSE g.phase[q]
    BY <1>3 DEF ActivatePhase, ActivateSinglePhase, Ferments
  <2>2. MakesActive(g, h, {p})
    BY <1>1, <1>3, <2>1 DEF MakesActive, PhasesIn
  <2>3. BelongTogether(g, {p})
    BY <1>3 DEF BelongTogether, PhasesIn
  <2>4. {p} \in SUBSET Phases
    OBVIOUS
  <2> QED
    BY <2>2, <2>3, <2>4, Zenon
<1>4. ASSUME NEW k \in Groups, PlannedInGroup(g, k) # {}, h = ActivatePhaseGroup(g, k)
      PROVE  \E S \in SUBSET Phases : MakesActive(g, h, S) /\ BelongTogether(g, S)
  <2>1. /\ h.status = "running" /\ h.phaseGroup = g.phaseGroup
        /\ \A q \in Phases :
              h.phase[q] = IF q \in PlannedInGroup(g, k) THEN "active"
                           ELSE IF g.phase[q] = "active" /\ g.phaseGroup[q] # k THEN "planned"
                           ELSE g.phase[q]
    BY <1>4 DEF ActivatePhaseGroup, Ferments
  <2>2. MakesActive(g, h, PlannedInGroup(g, k))
    BY <1>1, <1>4, <2>1 DEF MakesActive, PlannedInGroup, PhasesIn
  <2>3. BelongTogether(g, PlannedInGroup(g, k))
    BY DEF BelongTogether, PlannedInGroup
  <2>4. PlannedInGroup(g, k) \in SUBSET Phases
    BY DEF PlannedInGroup
  <2> QED
    BY <2>2, <2>3, <2>4, Zenon
<1> QED
  BY <1>2, <1>3, <1>4, Zenon DEF ActivatesNext

-----------------------------------------------------------------------------
(* Work is in order *)

(* Steps run only in active phases, and those of a completed phase have    *)
(* all ended.                                                              *)
WorkInOrder(g) ==
    \A p \in Phases :
        /\ StepsIn(g, p, {"running"}) # {} => g.phase[p] = "active"
        /\ g.phase[p] = "completed" =>
              \A s \in StepsOf(g, p) : g.step[p][s] \in TerminalStepStatuses

(* The same, said of one slot at a time.                                   *)
LEMMA WorkSlots ==
    ASSUME NEW g
    PROVE  WorkInOrder(g) <=>
             \A p \in Phases, s \in Steps :
               /\ g.step[p][s] = "running" => g.phase[p] = "active"
               /\ g.phase[p] = "completed" =>
                     g.step[p][s] = "absent" \/ g.step[p][s] \in TerminalStepStatuses
  BY DEF WorkInOrder, StepsIn, StepsOf

(* Ending a phase changes its status and no other phase's.                 *)
LEMMA EndPhaseSets ==
    ASSUME NEW g \in Ferments, NEW p \in Phases, NEW status \in TerminalPhaseStatuses
    PROVE  /\ EndPhase(g, p, status).phase = [g.phase EXCEPT ![p] = status]
           /\ EndPhase(g, p, status).phaseGroup = g.phaseGroup
  BY DEF EndPhase, SettleAfterPhaseTerminal, Ferments

(* The same, said of one phase at a time.                                  *)
LEMMA EndPhaseSlots ==
    ASSUME NEW g \in Ferments, NEW p \in Phases, NEW status \in TerminalPhaseStatuses,
           NEW h, h = EndPhase(g, p, status)
    PROVE  /\ h.phaseGroup = g.phaseGroup
           /\ \A q \in Phases : h.phase[q] = IF q = p THEN status ELSE g.phase[q]
<1>1. h.phase = [g.phase EXCEPT ![p] = status] /\ h.phaseGroup = g.phaseGroup
  BY EndPhaseSets
<1> QED
  BY <1>1 DEF Ferments

(* Nothing the loop does puts the work out of order.                       *)
LEMMA StepsKeepWorkInOrder ==
    ASSUME NEW g \in Ferments, NEW h, StatusFits(g), WorkInOrder(g),
           Succeeds(g, h) \/ Fails(g, h) \/ Pauses(g, h) \/ Resumes(g, h)
    PROVE  WorkInOrder(h)
<1> SUFFICES \A p \in Phases, s \in Steps :
               /\ h.step[p][s] = "running" => h.phase[p] = "active"
               /\ h.phase[p] = "completed" =>
                     h.step[p][s] = "absent" \/ h.step[p][s] \in TerminalStepStatuses
  BY WorkSlots
<1>a. \A p \in Phases, s \in Steps :
        /\ g.step[p][s] = "running" => g.phase[p] = "active"
        /\ g.phase[p] = "completed" =>
              g.step[p][s] = "absent" \/ g.step[p][s] \in TerminalStepStatuses
  BY WorkSlots
<1>1. CASE Scopes(g, h)
  BY <1>1 DEF Scopes, Scope, BuildSteps, Ferments
<1>2. CASE ActivatesNext(g, h)
  <2>1. PICK S \in SUBSET Phases : MakesActive(g, h, S)
    BY <1>2, ActivationMoves
  <2>2. /\ h.step = g.step
        /\ \A q \in Phases : h.phase[q] = "active" \/ h.phase[q] = g.phase[q]
    BY <1>2, <2>1, PhaseMoves DEF MakesActive
  <2> QED
    BY <1>a, <2>2
<1>3. CASE RefinesBare(g, h)
  <2>1. PICK p \in PhasesIn(g, {"active"}), list \in StepPlans : h = RefinePhase(g, p, list)
    BY <1>3 DEF RefinesBare
  <2>2. \A q \in Phases : q # p => h.step[q] = g.step[q]
    BY <2>1 DEF RefinePhase, Ferments
  <2>3. g.phase[p] = "active"
    BY DEF PhasesIn
  <2> QED
    BY <1>3, <1>a, <2>2, <2>3, StepMoves
<1>4. CASE StartsStep(g, h) \/ SkipsStep(g, h)
  <2>1. PICK p \in PhasesIn(g, {"active"}), s \in Steps, status \in {"running", "skipped"} :
            h = SetStep(g, p, s, status)
    BY <1>4 DEF StartsStep, SkipsStep, StepsIn
  <2>2. p \in Phases /\ g.phase[p] = "active"
    BY DEF PhasesIn
  <2> QED
    BY <1>4, <1>a, <2>1, <2>2, StepMoves, SetStepSets
<1>5. ASSUME NEW status \in TerminalStepStatuses, EndsWork(g, h, status)
      PROVE  \A p \in Phases, s \in Steps :
               /\ h.step[p][s] = "running" => h.phase[p] = "active"
               /\ h.phase[p] = "completed" =>
                     h.step[p][s] = "absent" \/ h.step[p][s] \in TerminalStepStatuses
  <2>1. PICK p \in Phases, s \in Steps : h = SetStep(g, p, s, status)
    BY <1>5 DEF EndsWork, StepsIn
  <2>2. h.phase = g.phase
    BY <1>5, StepMoves DEF TerminalStepStatuses, StepStatuses
  <2>3. status # "running"
    BY DEF TerminalStepStatuses
  <2> QED
    BY <1>a, <2>1, <2>2, <2>3, SetStepSets
<1>6. ASSUME NEW status \in TerminalPhaseStatuses, EndsPhase(g, h, status)
      PROVE  \A p \in Phases, s \in Steps :
               /\ h.step[p][s] = "running" => h.phase[p] = "active"
               /\ h.phase[p] = "completed" =>
                     h.step[p][s] = "absent" \/ h.step[p][s] \in TerminalStepStatuses
  <2>1. PICK p \in PhasesIn(g, {"active"}) :
            StepsIn(g, p, {"pending", "running", "failed"}) = {} /\ h = EndPhase(g, p, status)
    BY <1>6 DEF EndsPhase
  <2>2. p \in Phases /\ h.phase = [g.phase EXCEPT ![p] = status] /\ h.step = g.step
    BY <1>6, <2>1, EndPhaseSets, PhaseMoves DEF PhasesIn
  <2>3. \A s \in Steps : g.step[p][s] = "absent" \/ g.step[p][s] \in {"done", "verified", "skipped"}
    BY <2>1, <2>2 DEF StepsIn, Ferments, StepStatuses
  <2> QED
    BY <1>a, <2>2, <2>3 DEF Ferments, TerminalStepStatuses
<1>7. CASE SkipsPhase(g, h)
  <2>1. PICK p \in PhasesIn(g, {"failed"}) : h = EndPhase(g, p, "skipped")
    BY <1>7 DEF SkipsPhase
  <2>2. /\ p \in Phases /\ g.phase[p] = "failed"
        /\ h.phase = [g.phase EXCEPT ![p] = "skipped"] /\ h.step = g.step
    BY <1>7, <2>1, EndPhaseSets, PhaseMoves DEF PhasesIn, TerminalPhaseStatuses
  <2> QED
    BY <1>a, <2>2 DEF Ferments
<1>8. CASE Closes(g, h) \/ Resumes(g, h)
  BY <1>8, <1>a, StatusHandlers, PhaseMoves DEF Closes
<1>9. CASE Pauses(g, h)
  <2>1. h.phase = g.phase
    BY <1>9, StatusHandlers
  <2>2. \A p \in Phases, s \in Steps :
          h.step[p][s] = IF g.step[p][s] = "running" THEN "pending" ELSE g.step[p][s]
    BY <1>9 DEF Pauses, Pause, Ferments
  <2> QED
    BY <1>a, <2>1, <2>2
<1> QED
  BY <1>1, <1>2, <1>3, <1>4, <1>5, <1>6, <1>7, <1>8, <1>9
     DEF Succeeds, Fails, TerminalStepStatuses, TerminalPhaseStatuses

-----------------------------------------------------------------------------
(* The invariant of the loop, for every plan: the promises of the reducer, *)
(* and the order of the work, which the reducer alone does not keep.       *)
SoundDriver ==
    /\ f \in Ferments /\ faults \in Nat
    /\ StatusFits(f)
    /\ OneGroupActive(f)
    /\ OneCohortRunning(f)
    /\ QuietWhenPaused(f)
    /\ FinishedWhenComplete(f)
    /\ EmptyDraft(f)
    /\ WorkInOrder(f)

(* A new ferment is sound.                                                 *)
LEMMA InitSound == Init => SoundDriver
<1> SUFFICES ASSUME Init PROVE SoundDriver
  OBVIOUS
<1>1. f \in Ferments /\ faults \in Nat
  BY NewFermentType DEF Init
<1>2. StatusFits(f) /\ OneGroupActive(f)
  BY DEF Init, NewFerment, StatusFits, OneGroupActive, PhasesIn
<1>3. OneCohortRunning(f) /\ QuietWhenPaused(f) /\ FinishedWhenComplete(f)
  BY DEF Init, NewFerment, OneCohortRunning, QuietWhenPaused, FinishedWhenComplete, StepsIn
<1>4. EmptyDraft(f) /\ WorkInOrder(f)
  BY DEF Init, NewFerment, EmptyDraft, WorkInOrder, Present, StepsOf, StepsIn
<1> QED
  BY <1>1, <1>2, <1>3, <1>4 DEF SoundDriver

(* And stays sound.                                                        *)
LEMMA NextSound == SoundDriver /\ [Next]_vars => SoundDriver'
<1> SUFFICES ASSUME SoundDriver, [Next]_vars PROVE SoundDriver'
  OBVIOUS
<1> USE DEF SoundDriver
<1>1. Reduces(f, f')
  <2>1. Commits(f, f')
    BY NextSteps
  <2>2. CASE f' = f
    BY <2>2 DEF Reduces, OtherwiseReduces
  <2> QED
    BY <2>1, <2>2, AdmittedReduces DEF Commits
<1>2. faults' \in Nat
  BY NextSteps DEF vars
<1>3. f' \in Ferments /\ StatusFits(f') /\ OneGroupActive(f')
  BY <1>1, ReducesType, ReducesStatusFits, ReducesOneGroupActive
<1>4. OneCohortRunning(f') /\ QuietWhenPaused(f')
  BY <1>1, ReducesOneCohortRunning, ReducesQuietWhenPaused
<1>5. FinishedWhenComplete(f') /\ EmptyDraft(f')
  BY <1>1, ReducesFinishedWhenComplete, ReducesEmptyDraft
<1>6. WorkInOrder(f')
  BY NextSteps, StepsKeepWorkInOrder DEF vars
<1> QED
  BY <1>2, <1>3, <1>4, <1>5, <1>6

(* The loop keeps every promise of the reducer and the work in order.      *)
THEOREM DriverIsSound == Spec => []SoundDriver
  BY InitSound, NextSound, PTL DEF Spec

(* The advice never completes a phase over unfinished work, and nothing    *)
(* starts work in a phase that is over, whatever the plan and its groups.  *)
(* The reducer alone allows both.                                          *)
THEOREM CompletedMeansDone == Spec => []CompletedPhasesAreDone
<1>1. SoundDriver => CompletedPhasesAreDone
  BY DEF SoundDriver, WorkInOrder, CompletedPhasesAreDone, PhasesIn
<1> QED
  BY <1>1, DriverIsSound, PTL

(* The stored ferment, as the loop changes it. *)
Store == INSTANCE FermentStore WITH ferment <- f, New <- NewFerment

(* Driven by its own advice, the agent uses the store as anybody else: one *)
(* admitted command at a time.                                             *)
THEOREM DriverImplementsStore == Spec => Store!Spec
<1>1. Init => Store!Init
  BY DEF Init, Store!Init
<1>2. SoundDriver /\ [Next]_vars => [Store!Next]_f
  BY NextSteps DEF SoundDriver, Commits, Store!Next, Store!Mutate
<1> QED
  BY <1>1, <1>2, DriverIsSound, PTL DEF Spec, Store!Spec

-----------------------------------------------------------------------------
(* The way forward *)

(* The agent has something to scope and to refine with, and no plan is     *)
(* empty: a plan without phases has no way forward, in the code as in the  *)
(* model.                                                                  *)
PlansGiven ==
    /\ PhasePlans # {} /\ StepPlans # {}
    /\ \A plan \in PhasePlans : Len(plan) > 0

(* A ferment that was scoped has phases. *)
PlanNotEmpty(g) == g.status # "draft" => Present(g) # {}

(* No phase has failed while another is active.                            *)
FailureIsAlone(g) == PhasesIn(g, {"failed"}) # {} => PhasesIn(g, {"active"}) = {}

(* One has, and no worker is out: in a parallel group this can happen, and *)
(* then the tools the advice names are refused.                            *)
Stuck(g) == g.status = "running" /\ PhasesIn(g, {"failed"}) # {} /\ ~AnyStepRunning(g)

(* No step of the loop takes phases away, and a draft leaves its state     *)
(* with phases only.                                                       *)
LEMMA StepsKeepPlanNotEmpty ==
    ASSUME PlansGiven, NEW g \in Ferments, NEW h, StatusFits(g), PlanNotEmpty(g), EmptyDraft(g),
           Succeeds(g, h) \/ Fails(g, h) \/ Pauses(g, h) \/ Resumes(g, h)
    PROVE  PlanNotEmpty(h)
<1>1. CASE Scopes(g, h)
  <2>1. PICK plan \in PhasePlans :
            h.phase = [q \in Phases |-> IF q <= Len(plan) THEN "planned" ELSE "absent"]
    BY <1>1 DEF Scopes, Scope, Ferments
  <2>2. 1 \in Phases /\ 1 <= Len(plan)
    <3>1. plan \in Seq([group : Cohorts, steps : Seq(Cohorts)]) /\ Len(plan) <= MaxPhases
      BY FermentAssumption
    <3>2. Len(plan) \in Nat /\ MaxPhases \in Nat /\ Len(plan) > 0
      BY <3>1, FermentAssumption DEF PlansGiven
    <3> QED
      BY <3>1, <3>2 DEF Phases
  <2>3. h.phase[1] # "absent"
    BY <2>1, <2>2
  <2> QED
    BY <2>2, <2>3 DEF PlanNotEmpty, Present
<1>2. CASE ActivatesNext(g, h)
  <2>1. PICK S \in SUBSET Phases : MakesActive(g, h, S)
    BY <1>2, ActivationMoves
  <2>2. PICK p \in S : h.phase[p] = "active"
    BY <2>1 DEF MakesActive
  <2> QED
    BY <2>2 DEF PlanNotEmpty, Present
<1>3. ASSUME h.phase = g.phase, h.status = g.status \/ Present(g) # {}
      PROVE  PlanNotEmpty(h)
  BY <1>3 DEF PlanNotEmpty, Present
<1>4. CASE \/ RefinesBare(g, h) \/ StartsStep(g, h) \/ SkipsStep(g, h)
           \/ EndsWork(g, h, "done") \/ EndsWork(g, h, "verified") \/ EndsWork(g, h, "failed")
  BY <1>3, <1>4, StepMoves DEF StepStatuses
<1>5. ASSUME NEW p \in Phases, NEW status \in TerminalPhaseStatuses, h = EndPhase(g, p, status)
      PROVE  PlanNotEmpty(h)
  <2>1. h.phase = [g.phase EXCEPT ![p] = status]
    BY <1>5, EndPhaseSets
  <2>2. h.phase[p] = status /\ status # "absent"
    BY <2>1 DEF TerminalPhaseStatuses, Ferments
  <2> QED
    BY <2>2 DEF PlanNotEmpty, Present
<1>6. CASE \/ EndsPhase(g, h, "completed") \/ EndsPhase(g, h, "failed") \/ SkipsPhase(g, h)
  BY <1>5, <1>6 DEF EndsPhase, SkipsPhase, PhasesIn, TerminalPhaseStatuses
<1>7. CASE Closes(g, h)
  BY <1>3, <1>7, StatusHandlers DEF Closes
<1>8. CASE Pauses(g, h) \/ Resumes(g, h)
  <2>1. Present(g) # {}
    BY <1>8 DEF PlanNotEmpty, Pauses, Resumes
  <2> QED
    BY <1>3, <1>8, <2>1, StatusHandlers
<1> QED
  BY <1>1, <1>2, <1>4, <1>6, <1>7, <1>8 DEF Succeeds, Fails

(* A failed phase can be skipped when no phase is active. *)
LEMMA RecoveryIsAccepted ==
    ASSUME f \in Ferments, StatusFits(f), EmptyDraft(f), FailureIsAlone(f),
           NEW a, AdviceOn(f, a), a.kind = "recover_phase"
    PROVE  \E call \in AdvisedCalls(a) : Works(a, call)
<1> DEFINE call == PhaseCall("SKIP_PHASE", "skip_phase", a.phase, FALSE)
<1>1. call \in AdvisedCalls(a)
  BY DEF AdvisedCalls
<1>2. /\ f.status \notin {"complete", "abandoned", "paused"}
      /\ a.phase \in Phases /\ f.phase[a.phase] = "failed"
      /\ PhasesIn(f, {"active"}) = {}
  BY DEF AdviceOn, AdviceOnSteps, PhasesIn, FailureIsAlone
<1>3. f.status # "draft"
  BY <1>2 DEF EmptyDraft, Present
<1>4. f.status = "planned"
  BY <1>2, <1>3 DEF StatusFits, Ferments, FermentStatuses
<1>5. FsmPermits(f, "SKIP_PHASE", a.phase, StepOf(call.cmd))
  BY <1>4 DEF FsmPermits, FsmState, FsmEventsOf, FsmGuard
<1>6. Admits(f, call.cmd)
  BY <1>2 DEF Admits, BridgeAdmits, Accepts, PhaseCall, Call, StepCommands, Present
<1> QED
  BY <1>1, <1>5, <1>6 DEF Works, FsmAgrees, PhaseCall, Call

(* A step that runs can be reported. *)
LEMMA ReportIsAccepted ==
    ASSUME f \in Ferments, f.status = "running", WorkInOrder(f),
           NEW p \in Phases, NEW s \in StepsIn(f, p, {"running"})
    PROVE  \E call \in FinishCalls(p, s) : Works(Action("complete_step", p, s), call)
<1> DEFINE cmd == [type |-> "complete_step", phase |-> p, step |-> s]
<1>1. Call("COMPLETE_STEP", cmd, FALSE) \in FinishCalls(p, s)
  BY DEF FinishCalls, StepCall
<1>2. s \in Steps /\ f.step[p][s] = "running" /\ f.phase[p] = "active"
  BY DEF StepsIn, WorkInOrder
<1>3. HasStep(f, p, s)
  BY <1>2 DEF HasStep, Present, StepsOf
<1>4. FsmState(f) = "STEP_RUNNING"
  BY DEF FsmState, AnyStepRunning
<1>5. FsmPermits(f, "COMPLETE_STEP", p, StepOf(cmd))
  BY <1>2, <1>3, <1>4 DEF FsmPermits, FsmEventsOf, FsmGuard, StepCompleted, StepOf
<1>6. Admits(f, cmd)
  BY <1>3 DEF Admits, BridgeAdmits, Accepts, StepCommands
<1> QED
  BY <1>1, <1>5, <1>6 DEF Works, FsmAgrees, Call, Action

(* In an active phase where nothing runs, what the advice names is         *)
(* accepted.                                                               *)
LEMMA PhaseWorkIsAccepted ==
    ASSUME f \in Ferments, f.status = "running", ~AnyStepRunning(f), StepPlans # {},
           NEW a, a.phase \in PhasesIn(f, {"active"}), AdviceOnSteps(f, a)
    PROVE  \E call \in AdvisedCalls(a) : Works(a, call)
<1>1. /\ a.phase \in Phases /\ f.phase[a.phase] = "active" /\ a.phase \in Present(f)
      /\ \A q \in Phases : StepsIn(f, q, {"running"}) = {}
  BY DEF PhasesIn, Present, AnyStepRunning
<1>2. FsmState(f) = "PHASE_ACTIVE"
  BY DEF FsmState
<1>3. CASE a.kind = "refine"
  <2>1. PICK list \in StepPlans : TRUE
    OBVIOUS
  <2> DEFINE cmd == [type |-> "refine_phase", phase |-> a.phase, steps |-> list]
  <2>2. Call("REFINE_PHASE", cmd, FALSE) \in AdvisedCalls(a)
    BY <1>3 DEF AdvisedCalls
  <2>3. FsmPermits(f, "REFINE_PHASE", a.phase, StepOf(cmd))
    BY <1>2 DEF FsmPermits, FsmEventsOf, FsmGuard
  <2>4. Admits(f, cmd)
    BY <1>1 DEF Admits, BridgeAdmits, Accepts, StepCommands
  <2> QED
    BY <2>2, <2>3, <2>4 DEF Works, FsmAgrees, Call
<1>4. CASE a.kind = "recover_step"
  <2> DEFINE cmd == [type |-> "skip_step", phase |-> a.phase, step |-> a.step]
  <2>1. Call("SKIP_STEP", cmd, FALSE) \in AdvisedCalls(a)
    BY <1>4 DEF AdvisedCalls, StepCall
  <2>2. HasStep(f, a.phase, a.step) /\ f.step[a.phase][a.step] = "failed"
    BY <1>1, <1>4 DEF AdviceOnSteps, StepsIn, HasStep, StepsOf
  <2>3. FsmPermits(f, "SKIP_STEP", a.phase, StepOf(cmd))
    BY <1>2, <2>2 DEF FsmPermits, FsmEventsOf, FsmGuard, StepOf, StepSkipped
  <2>4. Admits(f, cmd)
    BY <2>2 DEF Admits, BridgeAdmits, Accepts, StepCommands
  <2> QED
    BY <2>1, <2>3, <2>4 DEF Works, FsmAgrees, Call
<1>5. CASE a.kind = "start_step"
  <2> DEFINE cmd == [type |-> "start_step", phase |-> a.phase, step |-> a.step]
  <2>1. Call("START_STEP", cmd, FALSE) \in AdvisedCalls(a)
    BY <1>5 DEF AdvisedCalls, StepCall
  <2>2. HasStep(f, a.phase, a.step)
    BY <1>1, <1>5 DEF AdviceOnSteps, StepsIn, HasStep, StepsOf
  <2>3. ~HasNonParallelRunningStep(f, a.step)
    BY <1>1 DEF HasNonParallelRunningStep, Ferments
  <2>4. FsmPermits(f, "START_STEP", a.phase, StepOf(cmd))
    BY <1>1, <1>2, <2>3
       DEF FsmPermits, FsmEventsOf, FsmGuard, StepOf, StartStepInActivePhase, PhaseActive
  <2>5. Admits(f, cmd)
    BY <1>1, <2>2 DEF Admits, BridgeAdmits, Accepts, StartStepAllowed, StepCommands
  <2> QED
    BY <2>1, <2>4, <2>5 DEF Works, FsmAgrees, Call
<1>6. CASE a.kind = "complete_phase"
  <2> DEFINE cmd == [type |-> "complete_phase", phase |-> a.phase]
  <2>1. Call("COMPLETE_PHASE", cmd, FALSE) \in AdvisedCalls(a)
    BY <1>6 DEF AdvisedCalls, PhaseCall
  <2>2. FsmPermits(f, "COMPLETE_PHASE", a.phase, StepOf(cmd))
    BY <1>1, <1>2 DEF FsmPermits, FsmEventsOf, FsmGuard, PhaseActive
  <2>3. Admits(f, cmd)
    BY <1>1 DEF Admits, BridgeAdmits, Accepts, StepCommands
  <2> QED
    BY <2>1, <2>2, <2>3 DEF Works, FsmAgrees, Call
<1>7. CASE a.kind = "complete_step"
  BY <1>1, <1>7 DEF AdviceOnSteps
<1> QED
  BY <1>3, <1>4, <1>5, <1>6, <1>7 DEF AdviceOnSteps

(* So are the calls that begin, activate and complete. *)
LEMMA ActivationIsAccepted ==
    ASSUME f \in Ferments, f.status = "planned",
           NEW a, a.kind = "activate_phase", a.phase \in PhasesIn(f, {"planned"})
    PROVE  \E call \in AdvisedCalls(a) : Works(a, call)
<1> DEFINE call == ActivateCall(a.phase)
<1>1. call \in AdvisedCalls(a)
  BY DEF AdvisedCalls
<1>2. a.phase \in Phases /\ f.phase[a.phase] = "planned"
  BY DEF PhasesIn
<1>3. call.event = "ACTIVATE_PHASE"
  BY DEF ActivateCall, PhaseCall, Call
<1>4. FsmPermits(f, "ACTIVATE_PHASE", a.phase, StepOf(call.cmd))
  BY <1>2 DEF FsmPermits, FsmState, FsmEventsOf, FsmGuard, PhaseExistsAndPlanned
<1>5. CASE f.phaseGroup[a.phase] = NoGroup
  <2>1. call.cmd = [type |-> "activate_phase", phase |-> a.phase]
    BY <1>5 DEF ActivateCall, PhaseCall, Call
  <2>2. Admits(f, call.cmd)
    BY <1>2, <2>1 DEF Admits, BridgeAdmits, Accepts, StepCommands
  <2> QED
    BY <1>1, <1>3, <1>4, <2>2 DEF Works, FsmAgrees
<1>6. CASE f.phaseGroup[a.phase] # NoGroup
  <2>1. call.cmd = [type |-> "activate_phase_group", group |-> f.phaseGroup[a.phase]]
    BY <1>6 DEF ActivateCall, Call
  <2>2. PlannedInGroup(f, f.phaseGroup[a.phase]) # {}
    BY <1>2 DEF PlannedInGroup
  <2>3. Admits(f, call.cmd)
    BY <2>1, <2>2 DEF Admits, BridgeAdmits, Accepts, StepCommands
  <2> QED
    BY <1>1, <1>3, <1>4, <2>3 DEF Works, FsmAgrees
<1> QED
  BY <1>5, <1>6

LEMMA ScopingIsAccepted ==
    ASSUME f \in Ferments, f.status = "draft", PhasePlans # {}, NEW a, a.kind = "scope"
    PROVE  \E call \in AdvisedCalls(a) : Works(a, call)
<1>1. PICK plan \in PhasePlans : TRUE
  OBVIOUS
<1> DEFINE cmd == [type |-> "scope", plan |-> plan]
<1>2. Call("SCOPE_FERMENT", cmd, FALSE) \in AdvisedCalls(a)
  BY DEF AdvisedCalls
<1>3. FsmPermits(f, "SCOPE_FERMENT", a.phase, StepOf(cmd))
  BY DEF FsmPermits, FsmState, FsmEventsOf, FsmGuard
<1>4. Admits(f, cmd)
  BY DEF Admits, BridgeAdmits, Accepts, ScopeAllowed, StepCommands
<1> QED
  BY <1>2, <1>3, <1>4 DEF Works, FsmAgrees, Call

LEMMA CompletionIsAccepted ==
    ASSUME f.status \notin {"complete", "abandoned", "paused"}, AllPhasesTerminal(f),
           NEW a, a.kind = "complete_ferment"
    PROVE  \E call \in AdvisedCalls(a) : Works(a, call)
<1> DEFINE cmd == [type |-> "complete_ferment"]
<1>1. Call("NONE", cmd, FALSE) \in AdvisedCalls(a)
  BY DEF AdvisedCalls
<1>2. Admits(f, cmd)
  BY DEF Admits, BridgeAdmits, Accepts, StepCommands
<1> QED
  BY <1>1, <1>2 DEF Works, FsmAgrees, Call

(* Where plans are not empty and the ferment is not stuck, there is a way  *)
(* forward.                                                                *)
LEMMA ForwardUnlessStuck ==
    ASSUME PlansGiven, SoundDriver, PlanNotEmpty(f), ~Stuck(f)
    PROVE  WayForward
<1> SUFFICES ASSUME f.status \notin {"complete", "abandoned", "paused"}
             PROVE  \/ \E call \in AdvisedCalls(DetermineNextAction(f)) :
                           Works(DetermineNextAction(f), call)
                    \/ \E p \in Phases : \E s \in StepsIn(f, p, {"running"}) :
                           \E call \in FinishCalls(p, s) :
                               Works(Action("complete_step", p, s), call)
  BY Zenon DEF WayForward
<1> DEFINE a == DetermineNextAction(f)
<1>1. AdviceOn(f, a)
  BY AdviceFits DEF SoundDriver
<1> HIDE DEF a
<1>2. /\ f \in Ferments /\ StatusFits(f) /\ EmptyDraft(f) /\ WorkInOrder(f)
      /\ f.status \in {"draft", "planned", "running"}
  BY DEF SoundDriver, Ferments, FermentStatuses
<1>3. CASE f.status = "draft"
  <2>1. /\ Present(f) = {} /\ AllPhasesTerminal(f)
        /\ \A S \in SUBSET PhaseStatuses : PhasesIn(f, S) = {}
    BY <1>2, <1>3 DEF EmptyDraft, Present, AllPhasesTerminal, PhasesIn, PhaseStatuses
  <2>2. PhasesIn(f, {"failed"}) = {}
    BY <2>1 DEF PhaseStatuses
  <2>3. a.kind = "scope"
    BY <1>1, <1>3, <2>1, <2>2 DEF AdviceOn
  <2> QED
    BY <1>2, <1>3, <2>3, ScopingIsAccepted DEF PlansGiven, a
<1>4. CASE f.status \in {"planned", "running"}
  <2>1. Present(f) # {}
    BY <1>4 DEF PlanNotEmpty
  <2>2. f.status = "running" <=> PhasesIn(f, {"active"}) # {}
    BY <1>2, <1>4 DEF StatusFits
  <2>3. a.kind \notin {"none", "pause", "scope"}
    <3>1. ASSUME ~AllPhasesTerminal(f), PhasesIn(f, {"active"}) = {}
          PROVE  PhasesIn(f, {"planned"}) # {}
      BY <1>2, <3>1
         DEF AllPhasesTerminal, PhasesIn, Present, Ferments, PhaseStatuses, TerminalPhaseStatuses
    <3>2. f.status = "running" \/ (f.status = "planned" /\ PhasesIn(f, {"active"}) = {})
      BY <1>4, <2>2
    <3> QED
      BY <1>1, <2>1, <2>2, <3>1, <3>2 DEF AdviceOn, AdviceOnSteps
  <2>4. CASE a.kind = "recover_phase"
    <3>1. PhasesIn(f, {"failed"}) # {}
      BY <1>1, <2>4 DEF AdviceOn, AdviceOnSteps
    <3>2. CASE AnyStepRunning(f)
      <4>1. PhasesIn(f, {"active"}) # {}
        BY <1>2, <3>2 DEF AnyStepRunning, WorkInOrder, PhasesIn
      <4> QED
        BY <1>2, <2>2, <3>2, <4>1, ReportIsAccepted DEF AnyStepRunning
    <3>3. CASE ~AnyStepRunning(f)
      <4>1. FailureIsAlone(f)
        BY <1>4, <2>2, <3>1, <3>3 DEF Stuck, FailureIsAlone
      <4> QED
        BY <1>1, <1>2, <2>4, <4>1, RecoveryIsAccepted DEF a
    <3> QED
      BY <3>2, <3>3
  <2>5. CASE a.kind = "complete_ferment"
    <3>1. AllPhasesTerminal(f)
      BY <1>1, <2>5 DEF AdviceOn, AdviceOnSteps
    <3> QED
      BY <2>5, <3>1, CompletionIsAccepted DEF a
  <2>6. CASE a.kind = "activate_phase"
    <3>1. f.status = "planned" /\ a.phase \in PhasesIn(f, {"planned"})
      BY <1>1, <2>6 DEF AdviceOn, AdviceOnSteps
    <3> QED
      BY <1>2, <2>6, <3>1, ActivationIsAccepted DEF a
  <2>7. CASE a.phase \in PhasesIn(f, {"active"}) /\ AdviceOnSteps(f, a)
    <3>1. f.status = "running"
      BY <2>2, <2>7
    <3>2. CASE AnyStepRunning(f)
      BY <1>2, <3>1, <3>2, ReportIsAccepted DEF AnyStepRunning
    <3>3. CASE ~AnyStepRunning(f)
      BY <1>2, <2>7, <3>1, <3>3, PhaseWorkIsAccepted DEF PlansGiven, a
    <3> QED
      BY <3>2, <3>3
  <2> QED
    BY <1>1, <2>3, <2>4, <2>5, <2>6, <2>7 DEF AdviceOn
<1> QED
  BY <1>2, <1>3, <1>4

(* And where it is stuck, there is none: what the advice names is neither  *)
(* retrying nor bypassing a phase for the FSM while another is active.     *)
LEMMA NoneWhenStuck == ASSUME SoundDriver, Stuck(f) PROVE ~WayForward
<1> DEFINE a == DetermineNextAction(f)
<1>1. AdviceOn(f, a) /\ StatusFits(f) /\ f.status = "running" /\ PhasesIn(f, {"failed"}) # {}
  BY AdviceFits DEF SoundDriver, Stuck
<1> HIDE DEF a
<1>2. PhasesIn(f, {"active"}) # {} /\ Present(f) # {} /\ AllPhasesTerminal(f) \in BOOLEAN
  BY <1>1 DEF StatusFits, PhasesIn, Present, AllPhasesTerminal
<1>3. a.kind = "recover_phase" /\ a.phase \in Phases /\ f.phase[a.phase] = "failed"
  <2>1. a.kind = "recover_phase" /\ a.phase \in PhasesIn(f, {"failed"})
    BY <1>1, <1>2 DEF AdviceOn
  <2> QED
    BY <2>1 DEF PhasesIn
<1>4. FsmState(f) = "PHASE_ACTIVE"
  BY <1>1 DEF FsmState, Stuck
<1>5. ASSUME NEW call \in AdvisedCalls(a) PROVE ~Works(a, call)
  <2>1. call.event \in {"ACTIVATE_PHASE", "SKIP_PHASE"}
    BY <1>3 DEF AdvisedCalls, ActivateCall, PhaseCall, Call
  <2>2. ~FsmPermits(f, "ACTIVATE_PHASE", a.phase, StepOf(call.cmd))
    BY <1>4 DEF FsmPermits, FsmEventsOf
  <2>3. ~FsmPermits(f, "SKIP_PHASE", a.phase, StepOf(call.cmd))
    BY <1>3, <1>4 DEF FsmPermits, FsmEventsOf, FsmGuard, PhaseActive
  <2> QED
    BY <2>1, <2>2, <2>3 DEF Works, FsmAgrees
<1>6. \A p \in Phases : StepsIn(f, p, {"running"}) = {}
  BY DEF Stuck, AnyStepRunning
<1> QED
  BY <1>1, <1>5, <1>6 DEF WayForward, a

(* No plan that was given is lost. *)
LEMMA PhasesStay == ASSUME PlansGiven PROVE Spec => []PlanNotEmpty(f)
<1>1. Init => PlanNotEmpty(f)
  BY DEF Init, NewFerment, PlanNotEmpty
<1>2. SoundDriver /\ PlanNotEmpty(f) /\ [Next]_vars => PlanNotEmpty(f)'
  <2> SUFFICES ASSUME SoundDriver, PlanNotEmpty(f), [Next]_vars PROVE PlanNotEmpty(f')
    BY DEF PlanNotEmpty, Present
  <2> QED
    BY NextSteps, StepsKeepPlanNotEmpty DEF SoundDriver, vars
<1> QED
  BY <1>1, <1>2, DriverIsSound, PTL DEF Spec

(* Whatever the plan and its groups, a call the advice names is accepted   *)
(* or a worker is out whose report will be, with exactly one exception: a  *)
(* phase has failed beside an active one, and nothing runs.                *)
THEOREM ForwardUnlessFailureBesideWork ==
    ASSUME PlansGiven
    PROVE  Spec => [](WayForward <=> ~Stuck(f))
<1>1. SoundDriver /\ PlanNotEmpty(f) => (WayForward <=> ~Stuck(f))
  <2>1. WayForward \in BOOLEAN
    BY DEF WayForward
  <2> QED
    BY <2>1, ForwardUnlessStuck, NoneWhenStuck
<1> QED
  BY <1>1, DriverIsSound, PhasesStay, PTL

(* A failed phase can be bypassed when the advice says so, unless another  *)
(* is active.                                                              *)
THEOREM RecoveryUnlessFailureBesideWork == Spec => [](FailureIsAlone(f) => RecoveryWorks)
<1>1. SoundDriver => (FailureIsAlone(f) => RecoveryWorks)
  BY AdviceFits, RecoveryIsAccepted DEF SoundDriver, RecoveryWorks
<1> QED
  BY <1>1, DriverIsSound, PTL

-----------------------------------------------------------------------------
(* Sequential plans: no phase belongs to a parallel group *)

PlansSequential == \A plan \in PhasePlans : \A i \in DOMAIN plan : plan[i].group = NoGroup

NoneGrouped(g) == \A p \in Phases : g.phaseGroup[p] = NoGroup

(* One phase at a time: at most one has failed, and then none is active. *)
OneFailure(g) ==
    /\ \A p, q \in PhasesIn(g, {"failed"}) : p = q
    /\ FailureIsAlone(g)

(* Groups are given to phases by scoping, and by nothing else. *)
LEMMA GroupsAreScoped ==
    ASSUME NEW g \in Ferments, NEW h, StatusFits(g),
           Succeeds(g, h) \/ Fails(g, h) \/ Pauses(g, h) \/ Resumes(g, h)
    PROVE  Scopes(g, h) \/ h.phaseGroup = g.phaseGroup
<1>1. CASE ActivatesNext(g, h)
  BY <1>1, ActivationMoves DEF MakesActive
<1>2. CASE RefinesBare(g, h) \/ StartsStep(g, h) \/ SkipsStep(g, h)
  BY <1>2 DEF RefinesBare, StartsStep, SkipsStep, RefinePhase, SetStep, Ferments
<1>3. ASSUME NEW status, EndsWork(g, h, status)
      PROVE  h.phaseGroup = g.phaseGroup
  BY <1>3 DEF EndsWork, SetStep, Ferments
<1>4. ASSUME NEW status \in TerminalPhaseStatuses, EndsPhase(g, h, status)
      PROVE  h.phaseGroup = g.phaseGroup
  BY <1>4, EndPhaseSlots DEF EndsPhase, PhasesIn
<1>5. CASE SkipsPhase(g, h)
  <2>1. "skipped" \in TerminalPhaseStatuses
    BY DEF TerminalPhaseStatuses
  <2> QED
    BY <1>5, <2>1, EndPhaseSlots DEF SkipsPhase, PhasesIn
<1>6. CASE Closes(g, h) \/ Pauses(g, h) \/ Resumes(g, h)
  BY <1>6, StatusHandlers DEF Closes
<1> QED
  BY <1>1, <1>2, <1>3, <1>4, <1>5, <1>6 DEF Succeeds, Fails, TerminalPhaseStatuses

(* A sequential plan stays one. *)
LEMMA StepsKeepNoneGrouped ==
    ASSUME PlansSequential, NEW g \in Ferments, NEW h, StatusFits(g), NoneGrouped(g),
           Succeeds(g, h) \/ Fails(g, h) \/ Pauses(g, h) \/ Resumes(g, h)
    PROVE  NoneGrouped(h)
<1>1. CASE h.phaseGroup = g.phaseGroup
  BY <1>1 DEF NoneGrouped
<1>2. CASE Scopes(g, h)
  <2>1. PICK plan \in PhasePlans : h = Scope(g, plan)
    BY <1>2 DEF Scopes
  <2> DEFINE asked == [i \in DOMAIN plan |-> plan[i].group]
  <2>2. \A i \in DOMAIN plan : ResolveCohorts(asked)[i] = NoGroup
    BY DEF ResolveCohorts, PlansSequential
  <2>3. \A p \in Phases : p <= Len(plan) => p \in DOMAIN plan
    <3>1. plan \in Seq([group : Cohorts, steps : Seq(Cohorts)])
      BY FermentAssumption
    <3> QED
      BY <3>1 DEF Phases
  <2>4. \A p \in Phases : h.phaseGroup[p] = IF p <= Len(plan) THEN ResolveCohorts(asked)[p]
                                            ELSE NoGroup
    BY <2>1 DEF Scope, Ferments
  <2> QED
    BY <2>2, <2>3, <2>4 DEF NoneGrouped
<1> QED
  BY <1>1, <1>2, GroupsAreScoped

(* The active phase is alone, so when it fails nothing else is active; and *)
(* a phase is activated beside a failed one by nothing the advice names.   *)
LEMMA StepsKeepOneFailure ==
    ASSUME NEW g \in Ferments, NEW h, StatusFits(g), OneGroupActive(g), NoneGrouped(g),
           OneFailure(g), Succeeds(g, h) \/ Fails(g, h) \/ Pauses(g, h) \/ Resumes(g, h)
    PROVE  OneFailure(h)
<1>1. CASE h.phase = g.phase
  BY <1>1 DEF OneFailure, FailureIsAlone, PhasesIn
<1>2. CASE Scopes(g, h)
  <2>1. \A p \in Phases : h.phase[p] # "failed"
    BY <1>2 DEF Scopes, Scope, Ferments
  <2> QED
    BY <2>1 DEF OneFailure, FailureIsAlone, PhasesIn
<1>3. CASE ActivatesNext(g, h)
  <2>1. PICK S \in SUBSET Phases : MakesActive(g, h, S) /\ BelongTogether(g, S)
    BY <1>3, ActivationMoves
  <2>2. PhasesIn(g, {"failed"}) # {} => S \subseteq PhasesIn(g, {"failed"})
    BY <2>1, FermentAssumption DEF BelongTogether, MakesActive, NoneGrouped
  <2>3. \A p \in Phases : h.phase[p] = IF p \in S THEN "active" ELSE g.phase[p]
    BY <2>1 DEF MakesActive
  <2>4. S # {}
    BY <2>1 DEF MakesActive
  <2>5. PhasesIn(h, {"failed"}) = {}
    BY <2>2, <2>3, <2>4 DEF PhasesIn, OneFailure
  <2> QED
    BY <2>5 DEF OneFailure, FailureIsAlone
<1>4. ASSUME NEW status \in TerminalPhaseStatuses, EndsPhase(g, h, status)
      PROVE  OneFailure(h)
  <2>1. PICK p \in PhasesIn(g, {"active"}) :
            PhasesIn(g, {"failed"}) = {} /\ h = EndPhase(g, p, status)
    BY <1>4 DEF EndsPhase
  <2>a. p \in Phases
    BY DEF PhasesIn
  <2>2. \A q \in Phases : h.phase[q] = IF q = p THEN status ELSE g.phase[q]
    BY <2>1, <2>a, EndPhaseSlots
  <2>3. \A q \in Phases : q # p => g.phase[q] \notin {"active", "failed"}
    BY <2>1 DEF OneGroupActive, NoneGrouped, PhasesIn
  <2>4. status # "active"
    BY DEF TerminalPhaseStatuses
  <2> QED
    BY <2>2, <2>3, <2>4 DEF OneFailure, FailureIsAlone, PhasesIn
<1>5. CASE SkipsPhase(g, h)
  <2>1. PICK p \in PhasesIn(g, {"failed"}) : h = EndPhase(g, p, "skipped")
    BY <1>5 DEF SkipsPhase
  <2>a. p \in Phases
    BY DEF PhasesIn
  <2>2. \A q \in Phases : h.phase[q] = IF q = p THEN "skipped" ELSE g.phase[q]
    BY <2>1, <2>a, EndPhaseSlots DEF TerminalPhaseStatuses
  <2> QED
    BY <2>2 DEF OneFailure, FailureIsAlone, PhasesIn
<1>6. CASE \/ RefinesBare(g, h) \/ StartsStep(g, h) \/ SkipsStep(g, h)
           \/ EndsWork(g, h, "done") \/ EndsWork(g, h, "verified") \/ EndsWork(g, h, "failed")
  BY <1>1, <1>6, StepMoves DEF StepStatuses
<1>7. CASE Closes(g, h) \/ Pauses(g, h) \/ Resumes(g, h)
  BY <1>1, <1>7, StatusHandlers DEF Closes
<1> QED
  BY <1>2, <1>3, <1>4, <1>5, <1>6, <1>7 DEF Succeeds, Fails, TerminalPhaseStatuses

(* A sequential plan is worked one phase at a time. *)
LEMMA OnePhaseAtATime ==
    ASSUME PlansSequential
    PROVE  Spec => [](NoneGrouped(f) /\ OneFailure(f))
<1> DEFINE Inv == NoneGrouped(f) /\ OneFailure(f)
<1>1. Init => Inv
  BY DEF Init, NewFerment, NoneGrouped, OneFailure, FailureIsAlone, PhasesIn
<1>2. SoundDriver /\ Inv /\ [Next]_vars => Inv'
  <2> SUFFICES ASSUME SoundDriver, NoneGrouped(f), OneFailure(f), [Next]_vars
               PROVE  NoneGrouped(f') /\ OneFailure(f')
    BY DEF NoneGrouped, OneFailure, FailureIsAlone, PhasesIn
  <2> QED
    BY NextSteps, StepsKeepNoneGrouped, StepsKeepOneFailure DEF SoundDriver, vars
<1> QED
  BY <1>1, <1>2, DriverIsSound, PTL DEF Spec

(* With a sequential plan there is always a way forward.                   *)
THEOREM AlwaysForward ==
    ASSUME PlansGiven, PlansSequential
    PROVE  Spec => []WayForward
<1>1. SoundDriver /\ OneFailure(f) => ~Stuck(f)
  BY DEF SoundDriver, OneFailure, FailureIsAlone, StatusFits, Stuck
<1> QED
  BY <1>1, DriverIsSound, OnePhaseAtATime, ForwardUnlessFailureBesideWork, PTL

(* And a failed phase can always be bypassed when the advice says so.      *)
THEOREM RecoveryAlwaysWorks == ASSUME PlansSequential PROVE Spec => []RecoveryWorks
<1>1. OneFailure(f) => FailureIsAlone(f)
  BY DEF OneFailure
<1> QED
  BY <1>1, OnePhaseAtATime, RecoveryUnlessFailureBesideWork, PTL

-----------------------------------------------------------------------------
(* Progress *)

(* What is left to do: phases to be activated, active phases to be         *)
(* planned, steps to be started, and steps to be reported.                 *)
Open(g) == PhasesIn(g, {"planned", "failed"})
Bare(g) == {p \in PhasesIn(g, {"active"}) : StepsOf(g, p) = {}}
Waiting(g) == {ps \in Phases \X Steps : g.step[ps[1]][ps[2]] \in {"pending", "failed"}}
Running(g) == {ps \in Phases \X Steps : g.step[ps[1]][ps[2]] = "running"}

Shrinks(S, T) == T \subseteq S /\ T # S

(* A paused ferment is taken up again, and a planned one concluded.        *)
Concludes(status, next) ==
    \/ status = "paused" /\ next \in {"planned", "running", "complete"}
    \/ status = "planned" /\ next = "complete"

(* Less is left to do, in the order in which the work is done: a phase may *)
(* bring steps when it is activated or planned, but never comes back       *)
(* itself.                                                                 *)
Advances(g, h) ==
    \/ g.status = "draft" /\ h.status # "draft"
    \/ /\ g.status # "draft" /\ h.status # "draft"
       /\ \/ Shrinks(Open(g), Open(h))
          \/ /\ Open(g) = Open(h)
             /\ \/ Shrinks(PhasesIn(g, {"active"}), PhasesIn(h, {"active"}))
                \/ /\ PhasesIn(g, {"active"}) = PhasesIn(h, {"active"})
                   /\ \/ Shrinks(Bare(g), Bare(h))
                      \/ /\ Bare(g) = Bare(h)
                         /\ \/ Shrinks(Waiting(g), Waiting(h))
                            \/ /\ Waiting(g) = Waiting(h)
                               /\ \/ Shrinks(Running(g), Running(h))
                                  \/ /\ Running(g) = Running(h)
                                     /\ Concludes(g.status, h.status)

(* Advancing is a strict order, so a ferment that only advances never      *)
(* comes back to where it was.                                             *)
LEMMA AdvancingIsAnOrder ==
    /\ \A g : ~Advances(g, g)
    /\ \A g, h, k : Advances(g, h) /\ Advances(h, k) => Advances(g, k)
<1>1. ASSUME NEW S, NEW T, NEW U
      PROVE  /\ ~Shrinks(S, S)
             /\ Shrinks(S, T) /\ Shrinks(T, U) => Shrinks(S, U)
  BY DEF Shrinks
<1>2. \A a, b, c : /\ ~Concludes(a, a)
                   /\ Concludes(a, b) /\ Concludes(b, c) => Concludes(a, c)
  BY DEF Concludes
<1>3. \A g : ~Advances(g, g)
  BY <1>1, <1>2 DEF Advances
<1>4. ASSUME NEW g, NEW h, NEW k, Advances(g, h), Advances(h, k)
      PROVE  Advances(g, k)
  BY <1>1, <1>2, <1>4 DEF Advances
<1> QED
  BY <1>3, <1>4

(* Step plans plan a step.  Nothing in the code demands it: an empty list  *)
(* is stored, and the advice asks for the same phase to be refined again.  *)
StepsGiven == \A list \in StepPlans : Len(list) > 0

(* A step that leaves the phases alone and does not give or take steps.    *)
LEMMA SameSlots ==
    ASSUME NEW g, NEW h, h.phase = g.phase,
           \A p \in Phases, s \in Steps : h.step[p][s] = "absent" <=> g.step[p][s] = "absent"
    PROVE  /\ Open(g) = Open(h) /\ PhasesIn(g, {"active"}) = PhasesIn(h, {"active"})
           /\ Bare(g) = Bare(h)
<1>1. \A S : PhasesIn(g, S) = PhasesIn(h, S)
  BY DEF PhasesIn
<1>2. \A p \in Phases : StepsOf(g, p) = StepsOf(h, p)
  BY DEF StepsOf
<1> QED
  BY <1>1, <1>2 DEF Open, Bare, PhasesIn

LEMMA SuccessAdvances ==
    ASSUME StepsGiven, NEW g \in Ferments, NEW h, StatusFits(g), EmptyDraft(g), Succeeds(g, h)
    PROVE  Advances(g, h)
<1>1. CASE Scopes(g, h)
  BY <1>1 DEF Scopes, Scope, Ferments, Advances
<1>2. CASE ActivatesNext(g, h)
  <2>1. PICK S \in SUBSET Phases : MakesActive(g, h, S)
    BY <1>2, ActivationMoves
  <2>2. /\ h.status = "running" /\ g.status = "planned"
        /\ S # {} /\ S \subseteq Open(g)
        /\ \A q \in Phases : h.phase[q] = IF q \in S THEN "active" ELSE g.phase[q]
    BY <1>2, <2>1 DEF MakesActive, ActivatesNext, Open
  <2>3. Shrinks(Open(g), Open(h))
    BY <2>2 DEF Shrinks, Open, PhasesIn
  <2> QED
    BY <2>2, <2>3 DEF Advances
<1>3. CASE RefinesBare(g, h)
  <2>1. PICK p \in PhasesIn(g, {"active"}), list \in StepPlans :
            StepsOf(g, p) = {} /\ h = RefinePhase(g, p, list)
    BY <1>3 DEF RefinesBare
  <2>2. p \in Phases /\ p \in Bare(g) /\ g.status # "draft"
    BY <2>1 DEF PhasesIn, Bare, StatusFits
  <2>3. h.phase = g.phase /\ h.status = g.status
    BY <1>3, StepMoves
  <2>4. \A q \in Phases : h.step[q] = IF q = p THEN BuildSteps(list) ELSE g.step[q]
    BY <2>1, <2>2 DEF RefinePhase, Ferments
  <2>5. 1 \in Steps /\ h.step[p][1] = "pending"
    <3>1. list \in Seq(Cohorts) /\ Len(list) <= MaxSteps /\ MaxSteps \in Nat /\ Len(list) > 0
      BY FermentAssumption DEF StepsGiven
    <3>2. Len(list) \in Nat
      BY <3>1
    <3>3. 1 \in Steps /\ 1 <= Len(list)
      BY <3>1, <3>2 DEF Steps
    <3> QED
      BY <2>2, <2>4, <3>3 DEF BuildSteps
  <2>6. p \notin Bare(h)
    BY <2>5 DEF Bare, StepsOf
  <2>7. \A q \in Phases \ {p} : StepsOf(h, q) = StepsOf(g, q)
    BY <2>4 DEF StepsOf
  <2>8. \A S : PhasesIn(g, S) = PhasesIn(h, S)
    BY <2>3 DEF PhasesIn
  <2>9. Bare(h) \subseteq Bare(g)
    BY <2>6, <2>7, <2>8 DEF Bare, PhasesIn
  <2> QED
    BY <2>2, <2>3, <2>6, <2>8, <2>9 DEF Advances, Shrinks, Open
<1>4. ASSUME NEW p \in PhasesIn(g, {"active"}), NEW s \in StepsIn(g, p, {"pending", "failed"}),
             NEW status, status \in {"running", "skipped"}, h = SetStep(g, p, s, status)
      PROVE  Advances(g, h)
  <2>1. /\ p \in Phases /\ s \in Steps
        /\ g.step[p][s] \in {"pending", "failed"} /\ g.step[p][s] # "absent"
        /\ status \notin {"pending", "failed", "absent"}
    BY <1>4 DEF PhasesIn, StepsIn
  <2>2. \A q \in Phases, t \in Steps : h.step[q][t] = IF q = p /\ t = s THEN status
                                                     ELSE g.step[q][t]
    BY <1>4, <2>1, SetStepSets
  <2>3. h.phase = g.phase /\ h.status = g.status /\ g.status # "draft"
    BY <1>4 DEF SetStep, Ferments, StatusFits
  <2>b. \A q \in Phases, t \in Steps : h.step[q][t] = "absent" <=> g.step[q][t] = "absent"
    BY <2>1, <2>2
  <2>4. /\ Open(g) = Open(h) /\ PhasesIn(g, {"active"}) = PhasesIn(h, {"active"})
        /\ Bare(g) = Bare(h)
    BY <2>b, <2>3, SameSlots
  <2>5. Waiting(h) \subseteq Waiting(g)
    BY <2>1, <2>2 DEF Waiting
  <2>6. <<p, s>> \in Waiting(g) /\ <<p, s>> \notin Waiting(h)
    <3>1. h.step[p][s] = status /\ <<p, s>> \in Phases \X Steps
      BY <2>1, <2>2
    <3> QED
      BY <2>1, <3>1 DEF Waiting
  <2> QED
    BY <2>3, <2>4, <2>5, <2>6 DEF Advances, Shrinks
<1>5. CASE StartsStep(g, h) \/ SkipsStep(g, h)
  BY <1>4, <1>5 DEF StartsStep, SkipsStep, StepsIn
<1>6. ASSUME NEW status \in {"done", "verified"}, EndsWork(g, h, status)
      PROVE  Advances(g, h)
  <2>a. PICK p \in Phases : \E s \in StepsIn(g, p, {"running"}) : h = SetStep(g, p, s, status)
    BY <1>6 DEF EndsWork
  <2>1. PICK s \in StepsIn(g, p, {"running"}) : h = SetStep(g, p, s, status)
    BY <2>a
  <2>2. s \in Steps /\ g.step[p][s] = "running"
    BY DEF StepsIn
  <2>3. \A q \in Phases, t \in Steps : h.step[q][t] = IF q = p /\ t = s THEN status
                                                     ELSE g.step[q][t]
    BY <2>1, <2>2, SetStepSets
  <2>4. h.phase = g.phase /\ h.status = g.status
    BY <2>1 DEF SetStep, Ferments
  <2>5. g.status # "draft"
    BY <2>2 DEF EmptyDraft, StepsOf
  <2>6. /\ Open(g) = Open(h) /\ PhasesIn(g, {"active"}) = PhasesIn(h, {"active"})
        /\ Bare(g) = Bare(h)
    BY <2>2, <2>3, <2>4, SameSlots
  <2>7. Waiting(g) = Waiting(h)
    BY <2>2, <2>3 DEF Waiting
  <2>8. Running(h) \subseteq Running(g)
    BY <2>2, <2>3 DEF Running
  <2>9. <<p, s>> \in Running(g) \ Running(h)
    BY <2>2, <2>3 DEF Running
  <2> QED
    BY <2>4, <2>5, <2>6, <2>7, <2>8, <2>9 DEF Advances, Shrinks
<1>7. CASE EndsPhase(g, h, "completed")
  <2>1. PICK p \in PhasesIn(g, {"active"}) : h = EndPhase(g, p, "completed")
    BY <1>7 DEF EndsPhase
  <2>2. p \in Phases /\ g.phase[p] = "active" /\ "completed" \in TerminalPhaseStatuses
    BY DEF PhasesIn, TerminalPhaseStatuses
  <2>3. \A q \in Phases : h.phase[q] = IF q = p THEN "completed" ELSE g.phase[q]
    BY <2>1, <2>2, EndPhaseSlots
  <2>4. g.status # "draft" /\ h.status # "draft"
    BY <2>1 DEF StatusFits, EndPhase, SettleAfterPhaseTerminal, Ferments
  <2>5. Open(g) = Open(h) /\ Shrinks(PhasesIn(g, {"active"}), PhasesIn(h, {"active"}))
    BY <2>2, <2>3 DEF Open, Shrinks, PhasesIn
  <2> QED
    BY <2>4, <2>5 DEF Advances
<1>8. CASE SkipsPhase(g, h)
  <2>1. PICK p \in PhasesIn(g, {"failed"}) : g.status = "planned" /\ h = EndPhase(g, p, "skipped")
    BY <1>8 DEF SkipsPhase
  <2>2. p \in Phases /\ g.phase[p] = "failed" /\ "skipped" \in TerminalPhaseStatuses
    BY DEF PhasesIn, TerminalPhaseStatuses
  <2>3. \A q \in Phases : h.phase[q] = IF q = p THEN "skipped" ELSE g.phase[q]
    BY <2>1, <2>2, EndPhaseSlots
  <2>4. h.status # "draft"
    BY <2>1 DEF EndPhase, SettleAfterPhaseTerminal, Ferments
  <2>5. Shrinks(Open(g), Open(h))
    BY <2>2, <2>3 DEF Open, Shrinks, PhasesIn
  <2> QED
    BY <2>1, <2>4, <2>5 DEF Advances
<1>9. CASE Closes(g, h)
  <2>1. h.status = "complete" /\ h.phase = g.phase /\ h.step = g.step
    BY <1>9 DEF Closes, Finishes, CompleteFerment, Ferments
  <2>2. PhasesIn(g, {"active"}) = {}
    BY <1>9 DEF Closes, Finishes, AllPhasesTerminal, Present, PhasesIn, TerminalPhaseStatuses
  <2>3. g.status = "planned"
    BY <1>9, <2>2 DEF Closes, Finishes, StatusFits, EmptyDraft, Ferments, FermentStatuses
  <2> QED
    BY <2>1, <2>3, SameSlots DEF Advances, Waiting, Running, Concludes
<1> QED
  BY <1>1, <1>2, <1>3, <1>5, <1>6, <1>7, <1>8, <1>9 DEF Succeeds

(* Resuming takes up a ferment as it was left.                             *)
LEMMA ResumingAdvances ==
    ASSUME NEW g \in Ferments, NEW h, Resumes(g, h)
    PROVE  Advances(g, h)
<1>1. g.status = "paused" /\ h.status \in {"planned", "running"}
  BY DEF Resumes, Resume, Ferments
<1>2. h.phase = g.phase /\ h.step = g.step
  BY StatusHandlers, PhaseMoves
<1> QED
  BY <1>1, <1>2, SameSlots DEF Advances, Waiting, Running, Concludes

(* Every step of the loop spends one of the failures or interruptions it   *)
(* is allowed, or brings the ferment nearer to its end.                    *)
Progress ==
    [][\/ faults' = faults + 1 /\ interrupts' = interrupts
       \/ faults' = faults /\ interrupts' = interrupts + 1
       \/ faults' = faults /\ interrupts' = interrupts /\ Advances(f, f')]_vars

(* The advice never goes round in a circle, whatever the plan and its      *)
(* groups: with the failures and pauses counted, the work left shrinks.    *)
THEOREM AdviceProgresses == ASSUME StepsGiven PROVE Spec => Progress
<1>1. SoundDriver /\ [Next]_vars =>
        [\/ faults' = faults + 1 /\ interrupts' = interrupts
         \/ faults' = faults /\ interrupts' = interrupts + 1
         \/ faults' = faults /\ interrupts' = interrupts /\ Advances(f, f')]_vars
  BY NextSteps, SuccessAdvances, ResumingAdvances DEF SoundDriver
<1> QED
  BY <1>1, DriverIsSound, PTL DEF Spec, Progress
=============================================================================
