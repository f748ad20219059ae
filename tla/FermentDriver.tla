---------------------------- MODULE FermentDriver ---------------------------
(***************************************************************************)
(* The workflow as the agent is driven through it: every tool result,      *)
(* error text and nudge names the one action of determineNextAction        *)
(* (formatNextActionHint in src/extensions/ferment/tool-helpers.ts,        *)
(* scheduler.ts), and the agent calls the tool it names.  Three modules    *)
(* that were written apart have to agree for this to work: the advisor,    *)
(* the FSM the tool asks first, and the reducer that decides.              *)
(*                                                                         *)
(* A tool call is one step here: what happens while it waits is the matter *)
(* of FermentSession.  Verifications and phases may fail MaxFaults times   *)
(* and the user may pause MaxInterrupts times; both bounds stand for the   *)
(* assumption that the work can be done in the end.                        *)
(***************************************************************************)
EXTENDS FermentFsm, FermentEngine

CONSTANTS MaxFaults, MaxInterrupts

ASSUME DriverAssumption == MaxFaults \in Nat /\ MaxInterrupts \in Nat

VARIABLES f, faults, interrupts

vars == <<f, faults, interrupts>>

Init == f = NewFerment /\ faults = 0 /\ interrupts = 0

-----------------------------------------------------------------------------
(* A tool call: the event its handler asks the FSM about, the command it   *)
(* then issues, and whether it records a failure of the work.              *)
Call(event, cmd, faulty) == [event |-> event, cmd |-> cmd, faulty |-> faulty]
PhaseCall(event, type, p, faulty) == Call(event, [type |-> type, phase |-> p], faulty)
StepCall(event, type, p, s, faulty) ==
    Call(event, [type |-> type, phase |-> p, step |-> s], faulty)

(* activate_ferment_phase activates a grouped phase through its group. *)
ActivateCall(p) ==
    IF f.phaseGroup[p] # NoGroup
    THEN Call("ACTIVATE_PHASE",
              [type |-> "activate_phase_group", group |-> f.phaseGroup[p]], FALSE)
    ELSE PhaseCall("ACTIVATE_PHASE", "activate_phase", p, FALSE)

(* The ways a step ends: completed, verified, or failed by the judge after *)
(* its verification exited with an error.                                  *)
FinishCalls(p, s) ==
    {StepCall("COMPLETE_STEP", "complete_step", p, s, FALSE),
     StepCall("COMPLETE_STEP", "verify_pass", p, s, FALSE),
     StepCall("COMPLETE_STEP", "fail_step", p, s, TRUE)}

(* The tool calls an advised action names. *)
AdvisedCalls(a) ==
    CASE a.kind = "scope" ->
           {Call("SCOPE_FERMENT", [type |-> "scope", plan |-> plan], FALSE) :
                plan \in PhasePlans}
      [] a.kind = "activate_phase" -> {ActivateCall(a.phase)}
      [] a.kind = "refine" ->
           {Call("REFINE_PHASE", [type |-> "refine_phase", phase |-> a.phase, steps |-> list],
                 FALSE) : list \in StepPlans}
      [] a.kind = "start_step" ->
           {StepCall("START_STEP", "start_step", a.phase, a.step, FALSE)}
      [] a.kind = "complete_step" -> FinishCalls(a.phase, a.step)
      [] a.kind = "recover_step" ->
           {StepCall("START_STEP", "start_step", a.phase, a.step, FALSE),
            StepCall("SKIP_STEP", "skip_step", a.phase, a.step, FALSE)}
      [] a.kind = "complete_phase" ->
           {PhaseCall("COMPLETE_PHASE", "complete_phase", a.phase, FALSE),
            PhaseCall("FAIL_PHASE", "fail_phase", a.phase, TRUE)}
      [] a.kind = "recover_phase" ->
           {ActivateCall(a.phase), PhaseCall("SKIP_PHASE", "skip_phase", a.phase, FALSE)}
      [] a.kind = "complete_ferment" -> {Call("NONE", [type |-> "complete_ferment"], FALSE)}
      [] a.kind \in {"none", "pause"} -> {}

StepOf(cmd) == IF "step" \in DOMAIN cmd THEN cmd.step ELSE NoStep

(* The FSM is asked about the phase the call names, even when the command  *)
(* that follows is about its whole group.                                  *)
FsmAgrees(a, call) ==
    \/ call.event = "NONE" /\ f.status \notin {"complete", "abandoned"}
    \/ call.event # "NONE" /\ FsmPermits(f, call.event, a.phase, StepOf(call.cmd))

Works(a, call) == FsmAgrees(a, call) /\ Admits(f, call.cmd)

Make(a, call) ==
    /\ Works(a, call)
    /\ f' = ApplyCommand(f, call.cmd)
    /\ faults' = faults + (IF call.faulty THEN 1 ELSE 0)
    /\ faults' <= MaxFaults
    /\ UNCHANGED interrupts

(* The agent does what it is told. *)
FollowAdvice == \E call \in AdvisedCalls(DetermineNextAction(f)) :
                    Make(DetermineNextAction(f), call)

(* A worker returns, and the agent reports its step as the result of       *)
(* start_ferment_step asked it to, whatever the advice is by then.         *)
WorkerReturns ==
    \E p \in Phases : \E s \in StepsIn(f, p, {"running"}) :
        \E call \in FinishCalls(p, s) : Make(Action("complete_step", p, s), call)

(* The user pauses, or the process is restarted and recovery pauses. *)
Interrupt ==
    /\ Accepts(f, [type |-> "pause"])
    /\ interrupts < MaxInterrupts
    /\ f' = Pause(f)
    /\ interrupts' = interrupts + 1
    /\ UNCHANGED faults

UserResume ==
    /\ Accepts(f, [type |-> "resume"])
    /\ f' = Resume(f)
    /\ UNCHANGED <<faults, interrupts>>

Next == FollowAdvice \/ WorkerReturns \/ Interrupt \/ UserResume

(* The scheduler nudges an idle agent, workers return or time out, and a   *)
(* user who wants the work done resumes it; nobody has to interrupt.       *)
Fairness == WF_vars(FollowAdvice) /\ WF_vars(WorkerReturns) /\ WF_vars(UserResume)

Spec == Init /\ [][Next]_vars /\ Fairness

-----------------------------------------------------------------------------
(* There is always a way forward: unless the ferment is over or paused,    *)
(* some call the advice names is accepted, or a worker is still out whose  *)
(* result will be.                                                         *)
WayForward ==
    f.status \notin {"complete", "abandoned", "paused"} =>
        \/ \E call \in AdvisedCalls(DetermineNextAction(f)) : Works(DetermineNextAction(f), call)
        \/ \E p \in Phases : \E s \in StepsIn(f, p, {"running"}) :
              \E call \in FinishCalls(p, s) : Works(Action("complete_step", p, s), call)

(* A failed phase can be retried or bypassed whenever the advice says so.  *)
RecoveryWorks ==
    LET a == DetermineNextAction(f)
    IN a.kind = "recover_phase" => \E call \in AdvisedCalls(a) : Works(a, call)

(* The advice never completes a phase over work that is not finished: the  *)
(* steps of a completed phase have all ended.                              *)
CompletedPhasesAreDone ==
    \A p \in PhasesIn(f, {"completed"}) :
        \A s \in StepsOf(f, p) : f.step[p][s] \in TerminalStepStatuses

(* Following the advice finishes the ferment. *)
Completes == <>[](f.status = "complete")
=============================================================================
