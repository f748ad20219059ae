--------------------------- MODULE FermentSession ---------------------------
(***************************************************************************)
(* One ferment in one running session: the agent's ferment tools           *)
(* (src/extensions/ferment/tools), the user's slash commands and progress  *)
(* menu, and restarts of the process, all writing the same ferment.        *)
(*                                                                         *)
(* JavaScript runs a handler to its next await without interruption, so a  *)
(* tool that never awaits is one action.  A tool that awaits (a            *)
(* verification command, a judge, a dropdown) validates in one action,     *)
(* parks in its slot of calls, and commits in another, when the ferment    *)
(* may be a different one.  The same goes for the menu: its options are    *)
(* computed from the ferment it was opened on.                             *)
(*                                                                         *)
(* Left out: the counters that decide WHEN a tool escalates to the user    *)
(* (three starts of a step, four blocked completions of a phase) and the   *)
(* gate verdicts; a tool may escalate, or be refused, at any call.         *)
(***************************************************************************)
EXTENDS FermentFsm, FermentEngine

CONSTANTS
    Calls,          \* slots for tool calls the agent has in flight at once
    Menus,          \* whether the user works with the /ferment progress menu
    ManualPolicy    \* continuation policy: manual (interactive) or automated

ASSUME SessionAssumption == Menus \in BOOLEAN /\ ManualPolicy \in BOOLEAN

VARIABLES
    f,        \* the ferment
    calls,    \* what each in-flight tool call is waiting for
    menu      \* the command the user's open menu is about to issue

vars == <<f, calls, menu>>

(* A call waits for something about a step, about a phase, or about the    *)
(* ferment as a whole.                                                     *)
StepAwaits == {"stuck", "verifying", "judging", "choosing", "verifying_only"}
PlainAwaits == {"idle", "boundary", "closing"}
CallStates ==
         [at : StepAwaits, phase : Phases, step : Steps]
    \cup [at : {"escalated"}, phase : Phases, step : {NoStep}]
    \cup [at : PlainAwaits, phase : {NoPhase}, step : {NoStep}]
Parked(at, p, s) == [at |-> at, phase |-> p, step |-> s]
Idle == Parked("idle", NoPhase, NoStep)
NoCommand == [type |-> "none"]

TypeOK ==
    /\ f \in Ferments
    /\ calls \in [Calls -> CallStates]
    /\ menu \in Commands \cup {NoCommand}

Init ==
    /\ f = NewFerment
    /\ calls = [c \in Calls |-> Idle]
    /\ menu = NoCommand

-----------------------------------------------------------------------------
(* Commands as the handlers build them *)

OnPhase(type, p) == [type |-> type, phase |-> p]
OnStep(type, p, s) == [type |-> type, phase |-> p, step |-> s]
Plain(type) == [type |-> type]

(* applyAndPersist: a refused command leaves the ferment as it is. *)
Outcome(cmd) == IF Admits(f, cmd) THEN ApplyCommand(f, cmd) ELSE f

(* A tool call without an await: validate, issue, return. *)
Issue(c, cmd) ==
    /\ calls[c] = Idle
    /\ Admits(f, cmd)
    /\ f' = ApplyCommand(f, cmd)
    /\ UNCHANGED <<calls, menu>>

(* A tool call that goes to wait for something. *)
Park(c, at, p, s) ==
    /\ calls[c] = Idle
    /\ calls' = [calls EXCEPT ![c] = Parked(at, p, s)]
    /\ UNCHANGED <<f, menu>>

(* The last command of a call that waited; the call returns either way. *)
Finish(c, cmd) ==
    /\ f' = Outcome(cmd)
    /\ calls' = [calls EXCEPT ![c] = Idle]
    /\ UNCHANGED menu

(* A command in the middle of a call: refused, the call returns early. *)
Proceed(c, cmd, next) ==
    /\ f' = Outcome(cmd)
    /\ calls' = [calls EXCEPT ![c] = IF Admits(f, cmd) THEN next ELSE Idle]
    /\ UNCHANGED menu

Return(c) == calls' = [calls EXCEPT ![c] = Idle] /\ UNCHANGED <<f, menu>>

-----------------------------------------------------------------------------
(* The agent's tools *)

ScopeTool(c, plan) ==
    /\ FsmPermits(f, "SCOPE_FERMENT", NoPhase, NoStep)
    /\ Issue(c, [type |-> "scope", plan |-> plan])

(* Slip: one phase of a group is activated on its own. *)
SlipSingleActivation(c, p) ==
    /\ FsmPermits(f, "ACTIVATE_PHASE", p, NoStep)
    /\ Issue(c, OnPhase("activate_phase", p))

(* A phase in a group is activated with its whole group. *)
ActivatePhaseTool(c, p) ==
    /\ FsmPermits(f, "ACTIVATE_PHASE", p, NoStep)
    /\ Issue(c, IF f.phaseGroup[p] # NoGroup
                THEN [type |-> "activate_phase_group", group |-> f.phaseGroup[p]]
                ELSE OnPhase("activate_phase", p))

RefinePhaseTool(c, p, list) ==
    /\ FsmPermits(f, "REFINE_PHASE", p, NoStep)
    /\ Issue(c, [type |-> "refine_phase", phase |-> p, steps |-> list])

(* Started too often, the step goes to the user before it is started. *)
StartStepTool(c, p, s) ==
    /\ HasStep(f, p, s)
    /\ FsmPermits(f, "START_STEP", p, s)
    /\ \/ Issue(c, OnStep("start_step", p, s))
       \/ Park(c, "stuck", p, s)

AnswerStuck(c) ==
    /\ calls[c].at = "stuck"
    /\ \/ \E type \in {"start_step", "skip_step"} :
              Finish(c, OnStep(type, calls[c].phase, calls[c].step))
       \/ Finish(c, Plain("pause"))
       \/ Return(c)

(* A step without a verification command completes at once. *)
CompleteStepTool(c, p, s) ==
    /\ FsmPermits(f, "COMPLETE_STEP", p, s)
    /\ \/ Issue(c, OnStep("complete_step", p, s))
       \/ Park(c, "verifying", p, s)

(* The verification exits: its result is recorded whatever the step became *)
(* meanwhile, and a failing one goes to the judge with the step done.      *)
VerificationExits(c) ==
    LET p == calls[c].phase
        s == calls[c].step
    IN /\ calls[c].at = "verifying"
       /\ \/ Finish(c, OnStep("verify_pass", p, s))
          \/ Proceed(c, OnStep("verify_fail", p, s), Parked("judging", p, s))

(* The judge accepts the step as it is, or fails it; with a terminal at    *)
(* hand the user then chooses how to recover.                              *)
JudgeAnswers(c) ==
    LET p == calls[c].phase
        s == calls[c].step
    IN /\ calls[c].at = "judging"
       /\ \/ Return(c)
          \/ Proceed(c, OnStep("fail_step", p, s), Parked("choosing", p, s))

(* Retrying with an edited prompt issues update_step_description before    *)
(* start_step, which changes nothing that is modelled.                     *)
ChooseRecovery(c) ==
    /\ calls[c].at = "choosing"
    /\ \/ \E type \in {"start_step", "skip_step"} :
              Finish(c, OnStep(type, calls[c].phase, calls[c].step))
       \/ Finish(c, OnPhase("fail_phase", calls[c].phase))
       \/ Return(c)

(* Slip: the call forgets which step it verifies. *)
SlipStepForgotten(c, p, s) ==
    /\ FsmPermits(f, "VERIFY_STEP", p, s)
    /\ Park(c, "verifying_only", p, NoStep)

VerifyStepTool(c, p, s) ==
    /\ FsmPermits(f, "VERIFY_STEP", p, s)
    /\ Park(c, "verifying_only", p, s)

VerifyStepExits(c) ==
    /\ calls[c].at = "verifying_only"
    /\ \E type \in {"verify_pass", "verify_fail"} :
           Finish(c, OnStep(type, calls[c].phase, calls[c].step))

SkipStepTool(c, p, s) ==
    FsmPermits(f, "SKIP_STEP", p, s) /\ Issue(c, OnStep("skip_step", p, s))

FailStepTool(c, p, s) ==
    FsmPermits(f, "FAIL_STEP", p, s) /\ Issue(c, OnStep("fail_step", p, s))

(* decideContinuation waits: the next phase starts only with the user's    *)
(* consent once an earlier phase has ended.                                *)
WaitsAtBoundary(g) ==
    LET next == DetermineNextAction(g)
    IN /\ ManualPolicy
       /\ next.kind = "activate_phase"
       /\ \E p \in 1 .. (next.phase - 1) : g.phase[p] \in TerminalPhaseStatuses

(* Ending a phase, then asking at the boundary. *)
EndPhaseAndAsk(c, cmd) ==
    /\ f' = Outcome(cmd)
    /\ calls' = [calls EXCEPT ![c] = IF Admits(f, cmd) /\ WaitsAtBoundary(ApplyCommand(f, cmd))
                                     THEN Parked("boundary", NoPhase, NoStep) ELSE Idle]
    /\ UNCHANGED menu

(* Block flags that do not go away are escalated to the user. *)
CompletePhaseTool(c, p) ==
    /\ FsmPermits(f, "COMPLETE_PHASE", p, NoStep)
    /\ \/ calls[c] = Idle /\ EndPhaseAndAsk(c, OnPhase("complete_phase", p))
       \/ Park(c, "escalated", p, NoStep)

AnswerEscalation(c) ==
    /\ calls[c].at = "escalated"
    /\ \/ EndPhaseAndAsk(c, OnPhase("complete_phase", calls[c].phase))
       \/ \E type \in {"abandon", "pause"} : Finish(c, Plain(type))

AnswerBoundary(c) ==
    /\ calls[c].at = "boundary"
    /\ Return(c) \/ Finish(c, Plain("pause"))

SkipPhaseTool(c, p) ==
    /\ p \in Present(f)
    /\ FsmPermits(f, "SKIP_PHASE", p, NoStep)
    /\ calls[c] = Idle
    /\ EndPhaseAndAsk(c, OnPhase("skip_phase", p))

FailPhaseTool(c, p) ==
    /\ p \in Present(f)
    /\ FsmPermits(f, "FAIL_PHASE", p, NoStep)
    /\ Issue(c, OnPhase("fail_phase", p))

(* Completing the ferment checks its status, asks the journey judge, and   *)
(* only then whether the phases are over.                                  *)
CompleteFermentTool(c) ==
    /\ f.status \notin {"complete", "abandoned"}
    /\ Park(c, "closing", NoPhase, NoStep)

(* Slip: the phases are not looked at after the judge has answered. *)
SlipJudgeTrusted(c) ==
    /\ calls[c].at = "closing"
    /\ f' = CompleteFerment(f)
    /\ calls' = [calls EXCEPT ![c] = Idle]
    /\ UNCHANGED menu

JourneyJudged(c) ==
    /\ calls[c].at = "closing"
    /\ Finish(c, Plain("complete_ferment"))

-----------------------------------------------------------------------------
(* The user *)

(* /ferment pause, and /ferment exit. *)
UserPause == f' = Pause(f) /\ Accepts(f, Plain("pause")) /\ UNCHANGED <<calls, menu>>

UserResume == f' = Resume(f) /\ Accepts(f, Plain("resume")) /\ UNCHANGED <<calls, menu>>

(* /ferment abandon asks for confirmation on the active ferment. *)
AskAbandon ==
    /\ menu = NoCommand
    /\ f.status \notin {"complete", "abandoned"}
    /\ menu' = Plain("abandon")
    /\ UNCHANGED <<f, calls>>

StepMenu(p, s) ==
         (IF f.step[p][s] \in {"pending", "running"} THEN {OnStep("complete_step", p, s)} ELSE {})
    \cup (IF f.step[p][s] = "failed" THEN {OnStep("start_step", p, s)} ELSE {})
    \cup (IF f.step[p][s] # "skipped" THEN {OnStep("skip_step", p, s)} ELSE {})

PhaseMenu(p) ==
    LET current == f.phase[p] = "active" \/ p = f.activePhaseId
        allDone == /\ StepsOf(f, p) # {}
                   /\ \A s \in StepsOf(f, p) : f.step[p][s] \in TerminalStepStatuses
    IN   (IF f.phase[p] = "planned" /\ p # f.activePhaseId
          THEN {OnPhase("activate_phase", p)} ELSE {})
    \cup (IF current /\ allDone THEN {OnPhase("complete_phase", p)} ELSE {})
    \cup (IF current THEN {OnPhase("fail_phase", p), OnPhase("skip_phase", p)} ELSE {})
    \cup (IF f.phase[p] = "failed"
          THEN {OnPhase("activate_phase", p), OnPhase("skip_phase", p)} ELSE {})

(* The menu offers what fits the ferment when it opens. *)
OpenMenu ==
    /\ Menus
    /\ menu = NoCommand
    /\ \E p \in Present(f) :
          menu' \in PhaseMenu(p) \cup UNION {StepMenu(p, s) : s \in StepsOf(f, p)}
    /\ UNCHANGED <<f, calls>>

(* The user picks the entry, without a second look at the ferment. *)
PickMenu ==
    /\ menu # NoCommand
    /\ f' = Outcome(menu)
    /\ menu' = NoCommand
    /\ UNCHANGED calls

CloseMenu == menu # NoCommand /\ menu' = NoCommand /\ UNCHANGED <<f, calls>>

(* The process ends and a new session starts: calls and menus are gone.    *)
(* Without a marker for the active ferment, session_start pauses whatever  *)
(* the dead process left running or planned.                               *)
Restart ==
    /\ f' \in {f, IF Accepts(f, Plain("pause")) THEN Pause(f) ELSE f}
    /\ calls' = [c \in Calls |-> Idle]
    /\ menu' = NoCommand

-----------------------------------------------------------------------------
ToolStarts(c) ==
    \/ \E plan \in PhasePlans : ScopeTool(c, plan)
    \/ \E p \in Present(f) :
          \/ ActivatePhaseTool(c, p)
          \/ \E list \in StepPlans : RefinePhaseTool(c, p, list)
          \/ CompletePhaseTool(c, p)
          \/ SkipPhaseTool(c, p)
          \/ FailPhaseTool(c, p)
    \/ \E p \in Phases, s \in Steps :
          \/ StartStepTool(c, p, s)
          \/ CompleteStepTool(c, p, s)
          \/ VerifyStepTool(c, p, s)
          \/ SkipStepTool(c, p, s)
          \/ FailStepTool(c, p, s)
    \/ CompleteFermentTool(c)

ToolContinues(c) ==
    \/ AnswerStuck(c)
    \/ VerificationExits(c)
    \/ JudgeAnswers(c)
    \/ ChooseRecovery(c)
    \/ VerifyStepExits(c)
    \/ AnswerEscalation(c)
    \/ AnswerBoundary(c)
    \/ JourneyJudged(c)

UserActs == UserPause \/ UserResume \/ AskAbandon \/ OpenMenu \/ PickMenu \/ CloseMenu

Next == (\E c \in Calls : ToolStarts(c) \/ ToolContinues(c)) \/ UserActs \/ Restart

Spec == Init /\ [][Next]_vars
-----------------------------------------------------------------------------
(* Safety *)

(* The status and the phases tell one story: a draft or planned ferment    *)
(* has no active phase, and a running one has its pointer on an active     *)
(* phase.  Pausing, demoting, ending a phase and resuming each update them *)
(* in their own handler.                                                   *)
StatusMatchesPhases == StatusFits(f)

(* Phases are active together only as members of one parallel group, which *)
(* both activation handlers have to bring about.                           *)
OneActiveGroup == OneGroupActive(f)

(* Steps of a phase run together only as members of one cohort, although   *)
(* start_step compares the new step with just one of those running.        *)
OneRunningCohort == OneCohortRunning(f)

(* Nothing runs in a paused ferment, whatever calls were waiting when it   *)
(* was paused.                                                             *)
PausedIsQuiet == QuietWhenPaused(f)

(* A complete ferment has no unfinished phase, although the judge is asked *)
(* before the phases are looked at and late calls still end phases.        *)
CompleteIsFinished == FinishedWhenComplete(f)

(* "No tool calls can mutate state while paused": only resume and abandon  *)
(* get through, and they leave every phase and step as it was.             *)
PausedIsFrozen ==
    [][f.status = "paused" =>
         /\ f'.status \in {"paused", "planned", "running", "abandoned"}
         /\ f'.phase = f.phase /\ f'.step = f.step]_vars

(* Re-planning never takes away a step that is running: its slot and its   *)
(* cohort stay, however the step then ends.                                *)
RunningStepKept ==
    [][\A p \in Phases, s \in Steps :
         f.step[p][s] = "running" =>
             f'.step[p][s] # "absent" /\ f'.stepGroup[p][s] = f.stepGroup[p][s]]_vars

(* A parallel group is activated and demoted as a whole: only an entry of  *)
(* the progress menu leaves one of its phases waiting beside an active     *)
(* one.                                                                    *)
OnlyMenuSplitsGroups == [][GroupsWhole(f) => GroupsWhole(f') \/ PickMenu]_vars

(* An abandoned ferment is permanently stopped and cannot be resumed.      *)
AbandonedIsFinal == [][f.status = "abandoned" => f'.status = "abandoned"]_vars

(* The ferment is one atomic object: tools that wait, menus that were      *)
(* opened earlier and restarts change it only by a command that is         *)
(* admitted at the very moment it is applied, never by what they saw       *)
(* before.                                                                 *)
Store == INSTANCE FermentStore WITH ferment <- f, New <- NewFerment
SessionIsAtomic == Store!Spec
=============================================================================
