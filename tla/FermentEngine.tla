--------------------------- MODULE FermentEngine ----------------------------
(***************************************************************************)
(* The advisor (src/ferment/engine.ts): a pure function from a ferment to  *)
(* the one action the agent is told to take next.  Its answer is put in    *)
(* the tool results, in the FSM's error texts and in the scheduler's       *)
(* nudges, so it is what drives the workflow forward.                      *)
(***************************************************************************)
EXTENDS FermentState

Action(kind, p, s) == [kind |-> kind, phase |-> p, step |-> s]
NoStep == 0
PlainAction(kind) == Action(kind, NoPhase, NoStep)

(* The pointer is trusted only while it names an active phase. *)
FindActivePhase(f) ==
    IF f.activePhaseId # NoPhase /\ f.phase[f.activePhaseId] = "active" THEN f.activePhaseId
    ELSE IF PhasesIn(f, {"active"}) # {} THEN First(PhasesIn(f, {"active"}))
    ELSE NoPhase

(* Slip: a phase is done when nothing runs in it. *)
SlipPendingOverlooked(f, a) ==
    LET failed == StepsIn(f, a, {"failed"})
        running == StepsIn(f, a, {"running"})
        first == StepsIn(f, a, {"pending"}) \cap {1}
    IN CASE StepsOf(f, a) = {} -> Action("refine", a, NoStep)
         [] failed # {} -> Action("recover_step", a, First(failed))
         [] failed = {} /\ first # {} -> Action("start_step", a, 1)
         [] failed = {} /\ first = {} /\ running # {} ->
                Action("complete_step", a, First(running))
         [] OTHER -> Action("complete_phase", a, NoStep)

(* What to do inside an active phase a. *)
NextInPhase(f, a) ==
    LET failed == StepsIn(f, a, {"failed"})
        pending == StepsIn(f, a, {"pending"})
        running == StepsIn(f, a, {"running"})
    IN CASE StepsOf(f, a) = {} -> Action("refine", a, NoStep)
         [] failed # {} -> Action("recover_step", a, First(failed))
         [] failed = {} /\ pending # {} -> Action("start_step", a, First(pending))
         [] failed = {} /\ pending = {} /\ running # {} ->
                Action("complete_step", a, First(running))
         [] OTHER -> Action("complete_phase", a, NoStep)

DetermineNextAction(f) ==
    LET active == FindActivePhase(f)
        failed == PhasesIn(f, {"failed"})
        planned == PhasesIn(f, {"planned"})
    IN IF f.status \in {"complete", "abandoned"} THEN PlainAction("none")
       ELSE IF f.status = "paused" THEN PlainAction("pause")
       ELSE IF Present(f) = {} THEN PlainAction("scope")
       ELSE IF failed # {} THEN Action("recover_phase", First(failed), NoStep)
       ELSE IF AllPhasesTerminal(f) THEN PlainAction("complete_ferment")
       ELSE IF active # NoPhase THEN NextInPhase(f, active)
       ELSE IF f.status = "planned" /\ planned # {}
            THEN Action("activate_phase", First(planned), NoStep)
       ELSE IF f.status = "running" THEN PlainAction("pause")
       ELSE PlainAction("none")
=============================================================================
