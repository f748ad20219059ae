---------------------------- MODULE FermentEvents ---------------------------
(***************************************************************************)
(* The event form of a command.  Besides the ferment applyCommand returns, *)
(* the store keeps an append-only log, and what a command does is written  *)
(* twice: once in the reducer (FermentState) and once as the events        *)
(* commandToEvents derives from it (src/ferment/event-mapper.ts) and the   *)
(* effect applyFermentEvent gives each of them when the log is read back   *)
(* (src/ferment/event-store.ts).                                           *)
(*                                                                         *)
(* Events that carry only names, goals, grades, decisions or memories are  *)
(* left out with the data they carry.                                      *)
(***************************************************************************)
EXTENDS FermentState

Event(type) == [type |-> type]
PhaseEvent(type, p) == [type |-> type, phase |-> p]
StepEvent(type, p, s) == [type |-> type, phase |-> p, step |-> s]

(* Slip: a group activation is announced phase first. *)
SlipPhaseFirst(pre, e) ==
    IF e.type = "phase_group_activated"
    THEN <<PhaseEvent("phase_activated", First(e.phases)), e>>
    ELSE IF pre.status # "running" THEN <<Event("ferment_running"), e>> ELSE <<e>>

(* Activation writes the new status as an event of its own, and only when  *)
(* the status changes.                                                     *)
AfterRunning(pre, e) ==
    IF pre.status # "running" THEN <<Event("ferment_running"), e>> ELSE <<e>>

(* The phases a group activation started: the active phases of the group   *)
(* that carry the time stamp of this very command.                         *)
NewlyStarted(pre, post, g) ==
    {p \in Phases : post.phase[p] = "active" /\ post.phaseGroup[p] = g
                    /\ pre.phase[p] = "planned"}

(* commandToEvents: the events of a command that took pre to post. *)
CommandToEvents(c, pre, post) ==
    CASE c.type = "scope" ->
           IF Present(post) # {}
           THEN <<[type |-> "scoping_phases_set", phases |-> post], Event("ferment_planned")>>
           ELSE <<Event("ferment_planned")>>
      [] c.type = "activate_phase" ->
           AfterRunning(pre, PhaseEvent("phase_activated", c.phase))
      [] c.type = "activate_phase_group" ->
           AfterRunning(pre, [type |-> "phase_group_activated",
                              phases |-> NewlyStarted(pre, post, c.group)])
      [] c.type = "refine_phase" ->
           <<[type |-> "phase_refined", phase |-> c.phase, step |-> post.step[c.phase],
              stepGroup |-> post.stepGroup[c.phase]]>>
      [] c.type = "complete_phase" -> <<PhaseEvent("phase_completed", c.phase)>>
      [] c.type = "skip_phase" -> <<PhaseEvent("phase_skipped", c.phase)>>
      [] c.type = "fail_phase" -> <<PhaseEvent("phase_failed", c.phase)>>
      [] c.type = "start_step" -> <<StepEvent("step_started", c.phase, c.step)>>
      [] c.type = "complete_step" -> <<StepEvent("step_completed", c.phase, c.step)>>
      [] c.type = "verify_pass" -> <<StepEvent("step_verified", c.phase, c.step)>>
      [] c.type = "verify_fail" -> <<StepEvent("step_not_verified", c.phase, c.step)>>
      [] c.type = "skip_step" -> <<StepEvent("step_skipped", c.phase, c.step)>>
      [] c.type = "fail_step" -> <<StepEvent("step_failed", c.phase, c.step)>>
      [] c.type = "update_step_description" -> <<Event("step_description_updated")>>
      [] c.type = "complete_ferment" -> <<Event("ferment_completed")>>
      [] c.type = "pause" -> <<Event("ferment_paused")>>
      [] c.type = "resume" -> <<Event("ferment_resumed")>>
      [] c.type = "abandon" -> <<Event("ferment_abandoned")>>

(* Slip: nothing is demoted. *)
SlipGroupAdded(f, started) ==
    [f EXCEPT !.activePhaseId = First(started),
              !.phase = [q \in Phases |-> IF q \in started THEN "active" ELSE f.phase[q]]]
(* phase_group_activated on the reader's side: the listed phases start and *)
(* EVERY other active phase goes back to planned.                          *)
GroupActivated(f, started) ==
    [f EXCEPT !.activePhaseId = First(started),
              !.phase = [q \in Phases |-> IF q \in started THEN "active"
                                          ELSE IF f.phase[q] = "active" THEN "planned"
                                          ELSE f.phase[q]]]

(* applyFermentEvent.  step_verified with a failing result is the event    *)
(* step_not_verified here.                                                 *)
ApplyFermentEvent(f, e) ==
    CASE e.type = "scoping_phases_set" ->
           [f EXCEPT !.phase = e.phases.phase, !.phaseGroup = e.phases.phaseGroup,
                     !.step = e.phases.step, !.stepGroup = e.phases.stepGroup]
      [] e.type = "ferment_planned" -> [f EXCEPT !.status = "planned"]
      [] e.type = "ferment_running" -> [f EXCEPT !.status = "running"]
      [] e.type = "phase_activated" ->
           [f EXCEPT !.activePhaseId = e.phase, !.phase = ActivateSinglePhase(f, e.phase)]
      [] e.type = "phase_group_activated" -> GroupActivated(f, e.phases)
      [] e.type = "phase_refined" ->
           [f EXCEPT !.step[e.phase] = e.step, !.stepGroup[e.phase] = e.stepGroup]
      [] e.type = "phase_completed" -> EndPhase(f, e.phase, "completed")
      [] e.type = "phase_skipped" -> EndPhase(f, e.phase, "skipped")
      [] e.type = "phase_failed" -> EndPhase(f, e.phase, "failed")
      [] e.type = "step_started" -> SetStep(f, e.phase, e.step, "running")
      [] e.type \in {"step_completed", "step_not_verified"} -> SetStep(f, e.phase, e.step, "done")
      [] e.type = "step_verified" -> SetStep(f, e.phase, e.step, "verified")
      [] e.type = "step_skipped" -> SetStep(f, e.phase, e.step, "skipped")
      [] e.type = "step_failed" -> SetStep(f, e.phase, e.step, "failed")
      [] e.type = "step_description_updated" -> f
      [] e.type = "ferment_completed" -> CompleteFerment(f)
      [] e.type = "ferment_paused" -> Pause(f)
      [] e.type = "ferment_resumed" -> Resume(f)
      [] e.type = "ferment_abandoned" -> Abandon(f)

(* A command has at most two events. *)
ApplyEvents(f, events) ==
    CASE Len(events) = 0 -> f
      [] Len(events) = 1 -> ApplyFermentEvent(f, events[1])
      [] Len(events) = 2 -> ApplyFermentEvent(ApplyFermentEvent(f, events[1]), events[2])
=============================================================================
