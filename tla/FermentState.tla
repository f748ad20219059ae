---------------------------- MODULE FermentState ----------------------------
(***************************************************************************)
(* The pure state machine of a ferment: the value every command is applied *)
(* to and, for each command of applyCommand (src/ferment/state-machine.ts  *)
(* with src/ferment/lifecycle.ts), when it is accepted and what it         *)
(* returns.  A ferment is one record: its status, its active-phase         *)
(* pointer, and for every phase and step slot a status and the parallel    *)
(* cohort it belongs to.  A slot the plan does not use is "absent".        *)
(* Names, goals, grades, summaries and timestamps are left out: no guard   *)
(* reads them.                                                             *)
(***************************************************************************)
EXTENDS Integers, Sequences, FiniteSetsExt

CONSTANTS
    MaxPhases,        \* bound on the phases of a plan
    MaxSteps,         \* bound on the steps of a phase
    Groups,           \* the parallel_group numbers a plan may use
    NoGroup,          \* groupIndex undefined: the item is sequential
    PhasePlans,       \* the phase lists scope may be given
    StepPlans,        \* the step lists refine_phase may be given
    ParallelEnabled   \* CHEAP_FERMENT_DISABLE_PARALLEL is not "1"

Phases == 1 .. MaxPhases
Steps == 1 .. MaxSteps
NoPhase == 0
Cohorts == Groups \cup {NoGroup}

FermentStatuses == {"draft", "planned", "running", "paused", "complete", "abandoned"}
PhaseStatuses == {"planned", "active", "completed", "skipped", "failed"}
StepStatuses == {"pending", "running", "done", "skipped", "verified", "failed"}
TerminalPhaseStatuses == {"completed", "skipped", "failed"}
TerminalStepStatuses == {"done", "verified", "skipped", "failed"}

(* A step list is a sequence of requested groups; a phase list a sequence  *)
(* of a requested group and a step list per phase.                         *)
ASSUME FermentAssumption ==
    /\ MaxPhases \in Nat /\ MaxSteps \in Nat
    /\ NoGroup \notin Groups
    /\ ParallelEnabled \in BOOLEAN
    /\ \A list \in StepPlans : list \in Seq(Cohorts) /\ Len(list) <= MaxSteps
    /\ \A plan \in PhasePlans :
          /\ plan \in Seq([group : Cohorts, steps : Seq(Cohorts)])
          /\ Len(plan) <= MaxPhases
          /\ \A i \in DOMAIN plan : Len(plan[i].steps) <= MaxSteps

Ferments ==
    [status : FermentStatuses,
     activePhaseId : Phases \cup {NoPhase},
     phase : [Phases -> PhaseStatuses \cup {"absent"}],
     phaseGroup : [Phases -> Cohorts],
     step : [Phases -> [Steps -> StepStatuses \cup {"absent"}]],
     stepGroup : [Phases -> [Steps -> Cohorts]]]

(* A ferment as create() makes it: a draft without phases. *)
NewFerment ==
    [status |-> "draft",
     activePhaseId |-> NoPhase,
     phase |-> [p \in Phases |-> "absent"],
     phaseGroup |-> [p \in Phases |-> NoGroup],
     step |-> [p \in Phases |-> [s \in Steps |-> "absent"]],
     stepGroup |-> [p \in Phases |-> [s \in Steps |-> NoGroup]]]

-----------------------------------------------------------------------------
(* Reading a ferment *)

Present(f) == {p \in Phases : f.phase[p] # "absent"}
PhasesIn(f, S) == {p \in Phases : f.phase[p] \in S}
StepsOf(f, p) == {s \in Steps : f.step[p][s] # "absent"}
StepsIn(f, p, S) == {s \in Steps : f.step[p][s] \in S}
HasStep(f, p, s) == p \in Present(f) /\ s \in StepsOf(f, p)

(* Array.find on phases or steps: the lowest index of a non-empty set. *)
First(S) == Min(S)

(* Slip: only the step to be started is looked at. *)
SlipEitherParallel(g, h) == ParallelEnabled /\ h # NoGroup

(* Members of one parallel cohort: `parallel` is set exactly when the      *)
(* group is, so comparing the groups is enough.                            *)
InSameParallelCohort(g, h) == ParallelEnabled /\ g # NoGroup /\ g = h

(* A requested group nobody shares collapses to sequential. *)
ResolveCohorts(asked) ==
    [i \in DOMAIN asked |->
        IF \E j \in DOMAIN asked \ {i} : asked[j] = asked[i] THEN asked[i] ELSE NoGroup]

(* The step slots of one phase after building a step list. *)
BuildSteps(list) == [s \in Steps |-> IF s <= Len(list) THEN "pending" ELSE "absent"]
BuildStepGroups(list) ==
    [s \in Steps |-> IF s <= Len(list) THEN ResolveCohorts(list)[s] ELSE NoGroup]

-----------------------------------------------------------------------------
(* What each command does to a ferment it is accepted for *)

Scope(f, plan) ==
    LET asked == [i \in DOMAIN plan |-> plan[i].group]
        list(p) == IF p <= Len(plan) THEN plan[p].steps ELSE <<>>
    IN [f EXCEPT !.status = "planned",
                 !.phase = [p \in Phases |-> IF p <= Len(plan) THEN "planned" ELSE "absent"],
                 !.phaseGroup = [p \in Phases |-> IF p <= Len(plan)
                                                  THEN ResolveCohorts(asked)[p] ELSE NoGroup],
                 !.step = [p \in Phases |-> BuildSteps(list(p))],
                 !.stepGroup = [p \in Phases |-> BuildStepGroups(list(p))]]

(* Slip: the phase that was active stays active. *)
SlipNoDemotion(f, p) == [f.phase EXCEPT ![p] = "active"]

(* Activating one phase sends every other active phase back to planned. *)
ActivateSinglePhase(f, p) ==
    [q \in Phases |-> IF q = p THEN "active"
                      ELSE IF f.phase[q] = "active" THEN "planned" ELSE f.phase[q]]

ActivatePhase(f, p) ==
    [f EXCEPT !.status = "running",
              !.activePhaseId = p,
              !.phase = ActivateSinglePhase(f, p)]

PlannedInGroup(f, g) == {p \in Phases : f.phase[p] = "planned" /\ f.phaseGroup[p] = g}

(* Activating a group starts its planned phases, and sends back to planned *)
(* the active phases of every other group.                                 *)
ActivatePhaseGroup(f, g) ==
    [f EXCEPT !.status = "running",
              !.activePhaseId = First(PlannedInGroup(f, g)),
              !.phase = [q \in Phases |->
                  IF q \in PlannedInGroup(f, g) THEN "active"
                  ELSE IF f.phase[q] = "active" /\ f.phaseGroup[q] # g THEN "planned"
                  ELSE f.phase[q]]]

RefinePhase(f, p, list) ==
    [f EXCEPT !.step[p] = BuildSteps(list), !.stepGroup[p] = BuildStepGroups(list)]

SetStep(f, p, s, status) == [f EXCEPT !.step[p][s] = status]

(* Slips: the pointer outlives the phase, or the status does. *)
SlipPointerKept(f, phase) ==
    [f EXCEPT !.phase = phase,
              !.status = IF \E p \in Phases : phase[p] = "active" THEN "running" ELSE "planned"]
SlipStillRunning(f, phase) ==
    LET active == {p \in Phases : phase[p] = "active"}
    IN [f EXCEPT !.phase = phase,
                 !.activePhaseId = IF active # {} THEN First(active) ELSE NoPhase]

(* Ending a phase: the ferment keeps running while another phase is        *)
(* active, and falls back to planned when none is.                         *)
SettleAfterPhaseTerminal(f, phase) ==
    LET active == {p \in Phases : phase[p] = "active"}
    IN [f EXCEPT !.phase = phase,
                 !.status = IF active # {} THEN "running" ELSE "planned",
                 !.activePhaseId = IF active # {} THEN First(active) ELSE NoPhase]

EndPhase(f, p, status) == SettleAfterPhaseTerminal(f, [f.phase EXCEPT ![p] = status])

CompleteFerment(f) == [f EXCEPT !.status = "complete"]

(* Pausing resets running steps: their workers are being killed. *)
Pause(f) ==
    [f EXCEPT !.status = "paused",
              !.step = [p \in Phases |-> [s \in Steps |->
                  IF f.step[p][s] = "running" THEN "pending" ELSE f.step[p][s]]]]

(* Slip: resuming forgets what was active. *)
SlipResumePlanned(f) == [f EXCEPT !.status = "planned"]

Resume(f) ==
    LET active == PhasesIn(f, {"active"})
    IN [f EXCEPT !.status = IF active # {} THEN "running" ELSE "planned",
                 !.activePhaseId = IF active # {} THEN First(active) ELSE NoPhase]

Abandon(f) == [f EXCEPT !.status = "abandoned"]

-----------------------------------------------------------------------------
(* Commands and their guards.  A command is a record with a type and the   *)
(* arguments its handler reads.                                            *)

PhaseCommands == {"activate_phase", "complete_phase", "skip_phase", "fail_phase"}
StepCommands == {"start_step", "complete_step", "verify_pass", "verify_fail",
                 "skip_step", "fail_step", "update_step_description"}
PlainCommands == {"complete_ferment", "pause", "resume", "abandon"}

Commands ==
         [type : {"scope"}, plan : PhasePlans]
    \cup [type : {"refine_phase"}, phase : Phases, steps : StepPlans]
    \cup [type : {"activate_phase_group"}, group : Groups]
    \cup [type : PhaseCommands, phase : Phases]
    \cup [type : StepCommands, phase : Phases, step : Steps]
    \cup [type : PlainCommands]

(* Slip: a planned ferment may be scoped again. *)
SlipRescope(f) == f.status \in {"draft", "planned"}

(* scope replaces the plan of a draft, and of nothing else. *)
ScopeAllowed(f) == f.status = "draft"

(* start_step looks only at the FIRST other running step of the phase. *)
StartStepAllowed(f, p, s) ==
    LET running == StepsIn(f, p, {"running"}) \ {s}
    IN running # {} => InSameParallelCohort(f.stepGroup[p][First(running)], f.stepGroup[p][s])

AllPhasesTerminal(f) == \A p \in Present(f) : f.phase[p] \in TerminalPhaseStatuses

(* applyCommand returns ok; an abandon always does. *)
Accepts(f, c) ==
    /\ c.type = "scope" => ScopeAllowed(f)
    /\ c.type = "activate_phase" => f.phase[c.phase] \in {"planned", "failed"}
    /\ c.type = "activate_phase_group" => PlannedInGroup(f, c.group) # {}
    /\ c.type = "refine_phase" => /\ f.phase[c.phase] = "active"
                                  /\ StepsIn(f, c.phase, {"running"}) = {}
    /\ c.type = "complete_phase" => f.phase[c.phase] = "active"
    /\ c.type \in {"skip_phase", "fail_phase"} => c.phase \in Present(f)
    /\ c.type \in StepCommands => HasStep(f, c.phase, c.step)
    /\ c.type = "start_step" => StartStepAllowed(f, c.phase, c.step)
    /\ c.type = "complete_ferment" => /\ f.status \notin {"complete", "abandoned"}
                                      /\ AllPhasesTerminal(f)
    /\ c.type = "pause" => f.status \in {"running", "planned"}
    /\ c.type = "resume" => f.status = "paused"

(* The ferment applyCommand returns for an accepted command.  verify_step  *)
(* carries its outcome in the type; a failing one leaves the step done.    *)
ApplyCommand(f, c) ==
    CASE c.type = "scope" -> Scope(f, c.plan)
      [] c.type = "activate_phase" -> ActivatePhase(f, c.phase)
      [] c.type = "activate_phase_group" -> ActivatePhaseGroup(f, c.group)
      [] c.type = "refine_phase" -> RefinePhase(f, c.phase, c.steps)
      [] c.type = "complete_phase" -> EndPhase(f, c.phase, "completed")
      [] c.type = "skip_phase" -> EndPhase(f, c.phase, "skipped")
      [] c.type = "fail_phase" -> EndPhase(f, c.phase, "failed")
      [] c.type = "start_step" -> SetStep(f, c.phase, c.step, "running")
      [] c.type \in {"complete_step", "verify_fail"} -> SetStep(f, c.phase, c.step, "done")
      [] c.type = "verify_pass" -> SetStep(f, c.phase, c.step, "verified")
      [] c.type = "skip_step" -> SetStep(f, c.phase, c.step, "skipped")
      [] c.type = "fail_step" -> SetStep(f, c.phase, c.step, "failed")
      [] c.type = "update_step_description" -> f
      [] c.type = "complete_ferment" -> CompleteFerment(f)
      [] c.type = "pause" -> Pause(f)
      [] c.type = "resume" -> Resume(f)
      [] c.type = "abandon" -> Abandon(f)

(* Slip: the bridge lets every command through. *)
SlipOpenBridge(f, c) == TRUE

(* The bridge every tool, menu and slash command goes through: a paused    *)
(* ferment takes nothing but resume and abandon.                           *)
CommandsAllowedWhilePaused == {"resume", "abandon"}
BridgeAdmits(f, c) == f.status = "paused" => c.type \in CommandsAllowedWhilePaused

Admits(f, c) == BridgeAdmits(f, c) /\ Accepts(f, c)

-----------------------------------------------------------------------------
(* What the reducer promises of a ferment *)

(* The status and the phases tell one story: a draft or planned ferment    *)
(* has no active phase, a running one has its pointer on an active phase.  *)
StatusFits(f) ==
    /\ f.status \in {"draft", "planned"} => PhasesIn(f, {"active"}) = {}
    /\ f.status = "running" => f.activePhaseId \in PhasesIn(f, {"active"})

(* Phases are active together only as members of one parallel group. *)
OneGroupActive(f) ==
    \A p, q \in PhasesIn(f, {"active"}) :
        p # q => f.phaseGroup[p] = f.phaseGroup[q] /\ f.phaseGroup[p] # NoGroup

(* A group is active as a whole: none of its phases waits while another is *)
(* active.                                                                 *)
GroupsWhole(f) ==
    \A p, q \in Phases :
        /\ f.phaseGroup[p] = f.phaseGroup[q] /\ f.phaseGroup[p] # NoGroup
        /\ f.phase[p] = "active"
        => f.phase[q] # "planned"

(* Steps of a phase run together only as members of one cohort. *)
OneCohortRunning(f) ==
    \A p \in Phases : \A s, t \in StepsIn(f, p, {"running"}) :
        s # t => InSameParallelCohort(f.stepGroup[p][s], f.stepGroup[p][t])

(* Nothing runs in a paused ferment. *)
QuietWhenPaused(f) == f.status = "paused" => \A p \in Phases : StepsIn(f, p, {"running"}) = {}

(* A complete ferment has no unfinished phase. *)
FinishedWhenComplete(f) == f.status = "complete" => AllPhasesTerminal(f)

(* A draft has neither phases nor steps. *)
EmptyDraft(f) ==
    f.status = "draft" => Present(f) = {} /\ \A p \in Phases : StepsOf(f, p) = {}
=============================================================================
