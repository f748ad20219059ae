----------------------------- MODULE FermentFsm -----------------------------
(***************************************************************************)
(* The validator the agent's tools consult before they issue a command     *)
(* (src/ferment/fsm.ts through src/extensions/ferment/fsm-adapter.ts).  It *)
(* is a second opinion on the same ferment: its own states, its own table  *)
(* of events and its own guards, which are not those of applyCommand.      *)
(***************************************************************************)
EXTENDS FermentState

AnyStepRunning(f) == \E p \in Phases : StepsIn(f, p, {"running"}) # {}

(* computeFsmState: one running step anywhere makes it STEP_RUNNING. *)
FsmState(f) ==
    CASE f.status = "draft" -> "DRAFT"
      [] f.status = "planned" -> "PLANNED"
      [] f.status = "running" -> IF AnyStepRunning(f) THEN "STEP_RUNNING" ELSE "PHASE_ACTIVE"
      [] f.status = "paused" -> "PAUSED"
      [] f.status = "complete" -> "COMPLETE"
      [] f.status = "abandoned" -> "ABANDONED"

(* The events the table of transitions knows in each state, for the events *)
(* some tool asks about.                                                   *)
FsmEventsOf(state) ==
    CASE state = "DRAFT" -> {"SCOPE_FERMENT"}
      [] state = "PLANNED" -> {"ACTIVATE_PHASE", "REFINE_PHASE", "SKIP_PHASE", "SCOPE_FERMENT"}
      [] state = "PHASE_ACTIVE" -> {"REFINE_PHASE", "START_STEP", "COMPLETE_PHASE", "SKIP_PHASE",
                                    "FAIL_PHASE", "SKIP_STEP", "FAIL_STEP"}
      [] state = "STEP_RUNNING" -> {"COMPLETE_STEP", "VERIFY_STEP", "SKIP_STEP", "FAIL_STEP",
                                    "START_STEP"}
      [] state = "COMPLETE" -> {"COMPLETE_PHASE", "SKIP_PHASE", "FAIL_PHASE", "COMPLETE_STEP",
                                "SKIP_STEP", "FAIL_STEP", "VERIFY_STEP"}
      [] state \in {"PAUSED", "ABANDONED"} -> {}

(* Only the phase the pointer names is searched for a running step, and    *)
(* the step is looked up there by its index, whatever phase was asked for. *)
HasNonParallelRunningStep(f, s) ==
    LET a == f.activePhaseId
    IN /\ a # NoPhase
       /\ StepsIn(f, a, {"running"}) \ {s} # {}
       /\ ~ /\ s \in StepsOf(f, a)
            /\ InSameParallelCohort(f.stepGroup[a][First(StepsIn(f, a, {"running"}) \ {s})],
                                    f.stepGroup[a][s])

PhaseActive(f, p) == f.phase[p] = "active"
PhaseExistsAndPlanned(f, p) == f.phase[p] \in {"planned", "failed"}
StartStepInActivePhase(f, p, s) == PhaseActive(f, p) /\ ~HasNonParallelRunningStep(f, s)
StepCompleted(f, p, s) == HasStep(f, p, s) /\ f.step[p][s] = "running"
StepSkipped(f, p, s) == HasStep(f, p, s) /\ f.step[p][s] \notin {"done", "verified"}
StepFailed(f, p, s) == HasStep(f, p, s) /\ f.step[p][s] \in {"running", "pending"}

(* The guard of an event; COMPLETE has none at all, and neither has        *)
(* skipping a phase while no phase is active.                              *)
FsmGuard(f, state, event, p, s) ==
    \/ state = "COMPLETE"
    \/ CASE event \in {"SCOPE_FERMENT", "REFINE_PHASE"} -> TRUE
         [] event = "ACTIVATE_PHASE" -> PhaseExistsAndPlanned(f, p)
         [] event \in {"COMPLETE_PHASE", "FAIL_PHASE"} -> PhaseActive(f, p)
         [] event = "SKIP_PHASE" -> state = "PLANNED" \/ PhaseActive(f, p)
         [] event = "START_STEP" -> StartStepInActivePhase(f, p, s)
         [] event \in {"COMPLETE_STEP", "VERIFY_STEP"} -> StepCompleted(f, p, s)
         [] event = "SKIP_STEP" -> StepSkipped(f, p, s)
         [] event = "FAIL_STEP" -> StepFailed(f, p, s)

(* validateFsmTransition returns no error.  Events that carry no phase or  *)
(* step pass a slot their guard does not read.                             *)
FsmPermits(f, event, p, s) ==
    /\ event \in FsmEventsOf(FsmState(f))
    /\ FsmGuard(f, FsmState(f), event, p, s)
=============================================================================
