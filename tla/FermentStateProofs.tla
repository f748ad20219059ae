------------------------- MODULE FermentStateProofs -------------------------
(***************************************************************************)
(* What the reducer keeps true, for plans of any size.  A command the      *)
(* bridge admits takes a ferment to another one by one of a few steps      *)
(* (Reduces); each promise of FermentState is shown to survive every one   *)
(* of them.                                                                *)
(***************************************************************************)
EXTENDS FermentState, WellFoundedInduction, TLAPS

(* The lowest index of a non-empty set of indices is one of them. *)
LEMMA FirstIsIn ==
    ASSUME NEW N \in Nat, NEW S \in SUBSET (1 .. N), S # {}
    PROVE  First(S) \in S
<1> DEFINE R == {ss \in Nat \X Nat : ss[1] < ss[2]}
<1>1. S \subseteq Nat
  OBVIOUS
<1>2. OpToRel(<, Nat) = R
  BY Zenon DEF OpToRel
<1>3. IsWellFoundedOn(R, Nat)
  BY <1>2, NatLessThanWellFounded, Zenon
<1> HIDE DEF R
<1>4. PICK n \in S : \A m \in S : <<m, n>> \notin R
  BY <1>1, <1>3, WFMin, Zenon
<1>5. \A m \in S : n <= m
  <2> TAKE m \in S
  <2>1. m \in Nat /\ n \in Nat
    BY <1>1
  <2>2. ~(m < n)
    <3> SUFFICES ASSUME m < n PROVE FALSE
      OBVIOUS
    <3>1. <<m, n>> \in R
      BY <2>1 DEF R
    <3> QED
      BY <3>1, <1>4, Zenon
  <2> QED
    BY <2>1, <2>2
<1> QED
  BY <1>5, Zenon DEF First, Min

(* The same for a set of phases and a set of steps of a ferment. *)
LEMMA FirstPhase ==
    ASSUME NEW S \in SUBSET Phases, S # {}
    PROVE  First(S) \in S
  BY FirstIsIn, FermentAssumption DEF Phases

(* The lowest step of a set of steps is one of them.                       *)
LEMMA FirstStep ==
    ASSUME NEW S \in SUBSET Steps, S # {}
    PROVE  First(S) \in S
  BY FirstIsIn, FermentAssumption DEF Steps

-----------------------------------------------------------------------------
(* The steps a ferment can take *)

Scopes(f, g) == \E plan \in PhasePlans : f.status = "draft" /\ g = Scope(f, plan)

Activates(f, g) ==
    \E p \in Phases : /\ f.status # "paused"
                      /\ f.phase[p] \in {"planned", "failed"}
                      /\ g = ActivatePhase(f, p)

ActivatesGroup(f, g) ==
    \E k \in Groups : /\ f.status # "paused"
                      /\ PlannedInGroup(f, k) # {}
                      /\ g = ActivatePhaseGroup(f, k)

Refines(f, g) ==
    \E p \in Phases, list \in StepPlans :
        /\ f.status # "paused"
        /\ f.phase[p] = "active"
        /\ StepsIn(f, p, {"running"}) = {}
        /\ g = RefinePhase(f, p, list)

Ends(f, g) ==
    \E p \in Phases, status \in TerminalPhaseStatuses :
        /\ f.status # "paused"
        /\ p \in Present(f)
        /\ g = EndPhase(f, p, status)

Starts(f, g) ==
    \E p \in Phases, s \in Steps :
        /\ f.status # "paused"
        /\ HasStep(f, p, s)
        /\ StartStepAllowed(f, p, s)
        /\ g = SetStep(f, p, s, "running")

EndsStep(f, g) ==
    \E p \in Phases, s \in Steps, status \in TerminalStepStatuses :
        /\ f.status # "paused"
        /\ HasStep(f, p, s)
        /\ g = SetStep(f, p, s, status)

Finishes(f, g) ==
    /\ f.status \notin {"complete", "abandoned", "paused"}
    /\ AllPhasesTerminal(f)
    /\ g = CompleteFerment(f)

Pauses(f, g) == f.status \in {"running", "planned"} /\ g = Pause(f)
Resumes(f, g) == f.status = "paused" /\ g = Resume(f)
Abandons(f, g) == g = Abandon(f)

(* Every step but the activation of a single phase, and every step. *)
OtherwiseReduces(f, g) ==
    \/ Scopes(f, g)
    \/ ActivatesGroup(f, g)
    \/ Refines(f, g)
    \/ Ends(f, g)
    \/ Starts(f, g)
    \/ EndsStep(f, g)
    \/ Finishes(f, g)
    \/ Pauses(f, g)
    \/ Resumes(f, g)
    \/ Abandons(f, g)
    \/ g = f

Reduces(f, g) == Activates(f, g) \/ OtherwiseReduces(f, g)

(* The arguments of a command, by its type. *)
LEMMA CommandArguments ==
    ASSUME NEW c \in Commands
    PROVE  \/ c.type = "scope" /\ c.plan \in PhasePlans
           \/ c.type = "refine_phase" /\ c.phase \in Phases /\ c.steps \in StepPlans
           \/ c.type = "activate_phase_group" /\ c.group \in Groups
           \/ c.type \in PhaseCommands /\ c.phase \in Phases
           \/ c.type \in StepCommands /\ c.phase \in Phases /\ c.step \in Steps
           \/ c.type \in PlainCommands
  BY DEF Commands

(* An admitted command is one of those steps. *)
LEMMA AdmittedReduces ==
    ASSUME NEW f, NEW c \in Commands, Admits(f, c)
    PROVE  /\ c.type # "activate_phase" => OtherwiseReduces(f, ApplyCommand(f, c))
           /\ Reduces(f, ApplyCommand(f, c))
<1> DEFINE g == ApplyCommand(f, c)
<1>a. Accepts(f, c) /\ (f.status = "paused" => c.type \in {"resume", "abandon"})
  BY DEF Admits, BridgeAdmits, CommandsAllowedWhilePaused
<1>1. CASE c.type = "scope" /\ c.plan \in PhasePlans
  <2>1. g = Scope(f, c.plan)
    BY <1>1 DEF ApplyCommand
  <2>2. f.status = "draft"
    BY <1>a, <1>1 DEF Accepts, ScopeAllowed
  <2> QED
    BY <1>1, <2>1, <2>2 DEF Scopes, Reduces, OtherwiseReduces
<1>2. CASE c.type = "refine_phase" /\ c.phase \in Phases /\ c.steps \in StepPlans
  <2>1. g = RefinePhase(f, c.phase, c.steps)
    BY <1>2 DEF ApplyCommand
  <2>2. /\ f.status # "paused"
        /\ f.phase[c.phase] = "active"
        /\ StepsIn(f, c.phase, {"running"}) = {}
    BY <1>a, <1>2 DEF Accepts
  <2> QED
    BY <1>2, <2>1, <2>2 DEF Refines, Reduces, OtherwiseReduces
<1>3. CASE c.type = "activate_phase_group" /\ c.group \in Groups
  <2>1. g = ActivatePhaseGroup(f, c.group)
    BY <1>3 DEF ApplyCommand
  <2>2. f.status # "paused" /\ PlannedInGroup(f, c.group) # {}
    BY <1>a, <1>3 DEF Accepts
  <2> QED
    BY <1>3, <2>1, <2>2 DEF ActivatesGroup, Reduces, OtherwiseReduces
<1>4. CASE c.type \in PhaseCommands /\ c.phase \in Phases
  <2>1. CASE c.type = "activate_phase"
    <3>1. g = ActivatePhase(f, c.phase)
      BY <2>1 DEF ApplyCommand
    <3>2. f.status # "paused" /\ f.phase[c.phase] \in {"planned", "failed"}
      BY <1>a, <2>1 DEF Accepts
    <3> QED
      BY <1>4, <2>1, <3>1, <3>2 DEF Activates, Reduces
  <2>2. CASE c.type \in {"complete_phase", "skip_phase", "fail_phase"}
    <3>1. f.status # "paused" /\ c.phase \in Present(f)
      BY <1>a, <1>4, <2>2 DEF Accepts, Present
    <3>2. \E status \in TerminalPhaseStatuses : g = EndPhase(f, c.phase, status)
      BY <2>2 DEF ApplyCommand, TerminalPhaseStatuses
    <3> QED
      BY <1>4, <3>1, <3>2 DEF Ends, Reduces, OtherwiseReduces
  <2> QED
    BY <1>4, <2>1, <2>2 DEF PhaseCommands
<1>5. CASE c.type \in StepCommands /\ c.phase \in Phases /\ c.step \in Steps
  <2>0. f.status # "paused" /\ HasStep(f, c.phase, c.step)
    BY <1>a, <1>5 DEF Accepts, StepCommands
  <2>1. CASE c.type = "start_step"
    <3>1. g = SetStep(f, c.phase, c.step, "running")
      BY <2>1 DEF ApplyCommand
    <3>2. StartStepAllowed(f, c.phase, c.step)
      BY <1>a, <2>1 DEF Accepts
    <3> QED
      BY <1>5, <2>0, <3>1, <3>2 DEF Starts, Reduces, OtherwiseReduces
  <2>2. CASE c.type = "update_step_description"
    <3>1. g = f
      BY <2>2 DEF ApplyCommand
    <3> QED
      BY <3>1 DEF Reduces, OtherwiseReduces
  <2>3. CASE c.type \in StepCommands \ {"start_step", "update_step_description"}
    <3>1. \E status \in TerminalStepStatuses : g = SetStep(f, c.phase, c.step, status)
      BY <2>3 DEF ApplyCommand, TerminalStepStatuses, StepCommands
    <3> QED
      BY <1>5, <2>0, <3>1 DEF EndsStep, Reduces, OtherwiseReduces
  <2> QED
    BY <1>5, <2>1, <2>2, <2>3 DEF StepCommands
<1>6. CASE c.type \in PlainCommands
  <2>1. CASE c.type = "complete_ferment"
    <3>1. g = CompleteFerment(f)
      BY <2>1 DEF ApplyCommand
    <3> QED
      BY <1>a, <2>1, <3>1 DEF Accepts, Finishes, Reduces, OtherwiseReduces
  <2>2. CASE c.type = "pause"
    <3>1. g = Pause(f)
      BY <2>2 DEF ApplyCommand
    <3> QED
      BY <1>a, <2>2, <3>1 DEF Accepts, Pauses, Reduces, OtherwiseReduces
  <2>3. CASE c.type = "resume"
    <3>1. g = Resume(f)
      BY <2>3 DEF ApplyCommand
    <3> QED
      BY <1>a, <2>3, <3>1 DEF Accepts, Resumes, Reduces, OtherwiseReduces
  <2>4. CASE c.type = "abandon"
    <3>1. g = Abandon(f)
      BY <2>4 DEF ApplyCommand
    <3> QED
      BY <3>1 DEF Abandons, Reduces, OtherwiseReduces
  <2> QED
    BY <1>6, <2>1, <2>2, <2>3, <2>4 DEF PlainCommands
<1> QED
  BY <1>1, <1>2, <1>3, <1>4, <1>5, <1>6, CommandArguments
-----------------------------------------------------------------------------
(* Types *)

(* Resolving the requested groups yields groups.                           *)
LEMMA ResolveCohortsType ==
    ASSUME NEW n \in Nat, NEW asked \in [1 .. n -> Cohorts], NEW i \in 1 .. n
    PROVE  ResolveCohorts(asked)[i] \in Cohorts
  BY DEF ResolveCohorts, Cohorts

(* A step list fills the step slots of one phase.                          *)
LEMMA BuildStepsType ==
    ASSUME NEW list \in Seq(Cohorts)
    PROVE  /\ BuildSteps(list) \in [Steps -> StepStatuses \cup {"absent"}]
           /\ BuildStepGroups(list) \in [Steps -> Cohorts]
<1>1. BuildSteps(list) \in [Steps -> StepStatuses \cup {"absent"}]
  BY DEF BuildSteps, StepStatuses
<1>2. ASSUME NEW s \in Steps, s <= Len(list)
      PROVE  ResolveCohorts(list)[s] \in Cohorts
  <2>1. Len(list) \in Nat /\ list \in [1 .. Len(list) -> Cohorts]
    OBVIOUS
  <2>2. s \in 1 .. Len(list)
    BY <1>2, <2>1, FermentAssumption DEF Steps
  <2> QED
    BY <2>1, <2>2, ResolveCohortsType
<1>3. NoGroup \in Cohorts
  BY DEF Cohorts
<1> QED
  BY <1>1, <1>2, <1>3 DEF BuildStepGroups

(* A sequence as a function. *)
LEMMA SeqAsFunction ==
    ASSUME NEW S, NEW list \in Seq(S)
    PROVE  Len(list) \in Nat /\ DOMAIN list = 1 .. Len(list) /\ list \in [1 .. Len(list) -> S]
  OBVIOUS

(* A ferment whose phases and steps are all replaced. *)
LEMMA ReplacedPlanType ==
    ASSUME NEW f \in Ferments, NEW status \in FermentStatuses,
           NEW phase \in [Phases -> PhaseStatuses \cup {"absent"}],
           NEW phaseGroup \in [Phases -> Cohorts],
           NEW step \in [Phases -> [Steps -> StepStatuses \cup {"absent"}]],
           NEW stepGroup \in [Phases -> [Steps -> Cohorts]]
    PROVE  [f EXCEPT !.status = status, !.phase = phase, !.phaseGroup = phaseGroup,
                     !.step = step, !.stepGroup = stepGroup] \in Ferments
  BY DEF Ferments

(* Scoping a plan yields a well-formed ferment. *)
LEMMA ScopeType ==
    ASSUME NEW f \in Ferments, NEW plan \in PhasePlans
    PROVE  Scope(f, plan) \in Ferments
<1> DEFINE asked == [i \in DOMAIN plan |-> plan[i].group]
           list(p) == IF p <= Len(plan) THEN plan[p].steps ELSE <<>>
<1>1. /\ plan \in [1 .. Len(plan) -> [group : Cohorts, steps : Seq(Cohorts)]]
      /\ Len(plan) \in Nat
      /\ DOMAIN plan = 1 .. Len(plan)
  <2>1. plan \in Seq([group : Cohorts, steps : Seq(Cohorts)])
    BY FermentAssumption
  <2> QED
    BY <2>1, SeqAsFunction, Zenon
<1>2. asked \in [1 .. Len(plan) -> Cohorts]
  BY <1>1
<1>3. \A p \in Phases : p <= Len(plan) => p \in 1 .. Len(plan)
  BY <1>1, FermentAssumption DEF Phases
<1>4. ASSUME NEW p \in Phases
      PROVE  list(p) \in Seq(Cohorts)
  BY <1>1, <1>3
<1>5. ASSUME NEW p \in Phases, p <= Len(plan)
      PROVE  ResolveCohorts(asked)[p] \in Cohorts
  BY <1>1, <1>2, <1>3, <1>5, ResolveCohortsType
<1> HIDE DEF asked, list
<1> DEFINE phase == [p \in Phases |-> IF p <= Len(plan) THEN "planned" ELSE "absent"]
           phaseGroup == [p \in Phases |-> IF p <= Len(plan)
                                           THEN ResolveCohorts(asked)[p] ELSE NoGroup]
           step == [p \in Phases |-> BuildSteps(list(p))]
           stepGroup == [p \in Phases |-> BuildStepGroups(list(p))]
<1>6. step \in [Phases -> [Steps -> StepStatuses \cup {"absent"}]]
  BY <1>4, BuildStepsType
<1>7. stepGroup \in [Phases -> [Steps -> Cohorts]]
  BY <1>4, BuildStepsType
<1>8. phaseGroup \in [Phases -> Cohorts]
  BY <1>5 DEF Cohorts
<1>9. phase \in [Phases -> PhaseStatuses \cup {"absent"}]
  BY DEF PhaseStatuses
<1>10. "planned" \in FermentStatuses
  BY DEF FermentStatuses
<1>11. Scope(f, plan) =
        [f EXCEPT !.status = "planned", !.phase = phase, !.phaseGroup = phaseGroup,
                  !.step = step, !.stepGroup = stepGroup]
  BY Zenon DEF Scope, asked, list
<1> HIDE DEF phase, phaseGroup, step, stepGroup
<1>12. [f EXCEPT !.status = "planned", !.phase = phase, !.phaseGroup = phaseGroup,
                 !.step = step, !.stepGroup = stepGroup] \in Ferments
  BY <1>6, <1>7, <1>8, <1>9, <1>10, ReplacedPlanType
<1> QED
  BY <1>11, <1>12, Zenon

(* Ending a phase yields a well-formed ferment.                            *)
LEMMA EndPhaseType ==
    ASSUME NEW f \in Ferments, NEW p \in Phases, NEW status \in TerminalPhaseStatuses
    PROVE  EndPhase(f, p, status) \in Ferments
<1> DEFINE phase == [f.phase EXCEPT ![p] = status]
           active == {q \in Phases : phase[q] = "active"}
<1>1. phase \in [Phases -> PhaseStatuses \cup {"absent"}]
  BY DEF Ferments, TerminalPhaseStatuses, PhaseStatuses
<1>2. active # {} => First(active) \in Phases
  BY FirstPhase
<1> HIDE DEF active
<1> QED
  BY <1>1, <1>2 DEF EndPhase, SettleAfterPhaseTerminal, Ferments, FermentStatuses, active

(* Setting the status of a step yields a well-formed ferment.              *)
LEMMA SetStepType ==
    ASSUME NEW f \in Ferments, NEW p \in Phases, NEW s \in Steps, NEW status \in StepStatuses
    PROVE  SetStep(f, p, s, status) \in Ferments
  BY DEF SetStep, Ferments

(* The ferment create() makes is well formed.                              *)
LEMMA NewFermentType == NewFerment \in Ferments
  BY DEF NewFerment, Ferments, FermentStatuses, Cohorts

(* Every step of the reducer keeps a ferment well formed. *)
LEMMA ReducesType ==
    ASSUME NEW f \in Ferments, NEW g, Reduces(f, g)
    PROVE  g \in Ferments
<1>1. CASE Scopes(f, g)
  BY <1>1, ScopeType DEF Scopes
<1>2. CASE Activates(f, g)
  <2>1. PICK p \in Phases : g = ActivatePhase(f, p)
    BY <1>2 DEF Activates
  <2>2. ActivateSinglePhase(f, p) \in [Phases -> PhaseStatuses \cup {"absent"}]
    BY DEF ActivateSinglePhase, Ferments, PhaseStatuses
  <2> QED
    BY <2>1, <2>2 DEF ActivatePhase, Ferments, FermentStatuses
<1>3. CASE ActivatesGroup(f, g)
  <2>1. PICK k \in Groups : PlannedInGroup(f, k) # {} /\ g = ActivatePhaseGroup(f, k)
    BY <1>3 DEF ActivatesGroup
  <2>2. First(PlannedInGroup(f, k)) \in Phases
    BY <2>1, FirstPhase DEF PlannedInGroup
  <2> DEFINE phase == [q \in Phases |->
                  IF q \in PlannedInGroup(f, k) THEN "active"
                  ELSE IF f.phase[q] = "active" /\ f.phaseGroup[q] # k THEN "planned"
                  ELSE f.phase[q]]
  <2>3. phase \in [Phases -> PhaseStatuses \cup {"absent"}]
    BY DEF Ferments, PhaseStatuses
  <2>4. g = [f EXCEPT !.status = "running", !.activePhaseId = First(PlannedInGroup(f, k)),
                      !.phase = phase]
    BY <2>1 DEF ActivatePhaseGroup
  <2> HIDE DEF phase
  <2> QED
    BY <2>2, <2>3, <2>4 DEF Ferments, FermentStatuses
<1>4. CASE Refines(f, g)
  <2>1. PICK p \in Phases, list \in StepPlans : g = RefinePhase(f, p, list)
    BY <1>4 DEF Refines
  <2>2. /\ BuildSteps(list) \in [Steps -> StepStatuses \cup {"absent"}]
        /\ BuildStepGroups(list) \in [Steps -> Cohorts]
    BY BuildStepsType, FermentAssumption
  <2> QED
    BY <2>1, <2>2 DEF RefinePhase, Ferments
<1>5. CASE Ends(f, g)
  BY <1>5, EndPhaseType DEF Ends
<1>6. CASE Starts(f, g)
  BY <1>6, SetStepType DEF Starts, StepStatuses
<1>7. CASE EndsStep(f, g)
  BY <1>7, SetStepType DEF EndsStep, StepStatuses, TerminalStepStatuses
<1>8. CASE Finishes(f, g)
  BY <1>8 DEF Finishes, CompleteFerment, Ferments, FermentStatuses
<1>9. CASE Pauses(f, g)
  <2> DEFINE step == [p \in Phases |-> [s \in Steps |->
                  IF f.step[p][s] = "running" THEN "pending" ELSE f.step[p][s]]]
  <2>1. step \in [Phases -> [Steps -> StepStatuses \cup {"absent"}]]
    BY DEF Ferments, StepStatuses
  <2>2. g = [f EXCEPT !.status = "paused", !.step = step]
    BY <1>9 DEF Pauses, Pause
  <2> HIDE DEF step
  <2> QED
    BY <2>1, <2>2 DEF Ferments, FermentStatuses
<1>10. CASE Resumes(f, g)
  <2>1. PhasesIn(f, {"active"}) # {} => First(PhasesIn(f, {"active"})) \in Phases
    BY FirstPhase DEF PhasesIn
  <2> QED
    BY <1>10, <2>1 DEF Resumes, Resume, Ferments, FermentStatuses
<1>11. CASE Abandons(f, g)
  BY <1>11 DEF Abandons, Abandon, Ferments, FermentStatuses
<1>12. CASE g = f
  BY <1>12
<1> QED
  BY <1>1, <1>2, <1>3, <1>4, <1>5, <1>6, <1>7, <1>8, <1>9, <1>10, <1>11, <1>12 DEF Reduces, OtherwiseReduces
-----------------------------------------------------------------------------
(* Promises *)

(* What the handlers of steps leave alone, and what those of phases do. *)
LEMMA StepHandlers ==
    ASSUME NEW f \in Ferments, NEW g, Refines(f, g) \/ Starts(f, g) \/ EndsStep(f, g)
    PROVE  /\ g.status = f.status /\ g.activePhaseId = f.activePhaseId
           /\ g.phase = f.phase /\ g.phaseGroup = f.phaseGroup
           /\ f.status # "paused"
  BY DEF Refines, Starts, EndsStep, RefinePhase, SetStep, Ferments

(* The handlers of phases leave groups and steps alone.                    *)
LEMMA PhaseHandlers ==
    ASSUME NEW f \in Ferments, NEW g,
           \/ Activates(f, g) \/ ActivatesGroup(f, g) \/ Ends(f, g)
           \/ Finishes(f, g) \/ Resumes(f, g) \/ Abandons(f, g)
    PROVE  g.phaseGroup = f.phaseGroup /\ g.step = f.step /\ g.stepGroup = f.stepGroup
  BY DEF Activates, ActivatesGroup, Ends, Finishes, Resumes, Abandons, ActivatePhase,
         ActivatePhaseGroup, EndPhase, SettleAfterPhaseTerminal, CompleteFerment, Resume, Abandon,
         Ferments

(* The handlers of the ferment as a whole leave the phases alone.          *)
LEMMA StatusHandlers ==
    ASSUME NEW f \in Ferments, NEW g,
           Finishes(f, g) \/ Pauses(f, g) \/ Resumes(f, g) \/ Abandons(f, g)
    PROVE  g.phase = f.phase /\ g.phaseGroup = f.phaseGroup
  BY DEF Finishes, Pauses, Resumes, Abandons, CompleteFerment, Pause, Resume, Abandon, Ferments

(* Settling puts the pointer on an active phase, or the status on planned. *)
LEMMA EndsSettles ==
    ASSUME NEW f \in Ferments, NEW p \in Phases, NEW status \in TerminalPhaseStatuses
    PROVE  LET g == EndPhase(f, p, status)
           IN  /\ g.phase = [f.phase EXCEPT ![p] = status]
               /\ g.status \in {"running", "planned"}
               /\ g.status = "running" => g.activePhaseId \in PhasesIn(g, {"active"})
               /\ g.status = "planned" => PhasesIn(g, {"active"}) = {}
<1> DEFINE phase == [f.phase EXCEPT ![p] = status]
           active == {q \in Phases : phase[q] = "active"}
           g == SettleAfterPhaseTerminal(f, phase)
<1>1. active # {} => First(active) \in active
  BY FirstPhase
<1>2. /\ g.phase = phase
      /\ g.status = (IF active # {} THEN "running" ELSE "planned")
      /\ g.activePhaseId = (IF active # {} THEN First(active) ELSE NoPhase)
  BY DEF SettleAfterPhaseTerminal, Ferments
<1>3. PhasesIn(g, {"active"}) = active
  BY <1>2 DEF PhasesIn
<1> HIDE DEF active
<1>4. g = EndPhase(f, p, status)
  BY DEF EndPhase
<1> HIDE DEF g, phase
<1>5. /\ g.status \in {"running", "planned"}
      /\ g.status = "running" => g.activePhaseId \in PhasesIn(g, {"active"})
      /\ g.status = "planned" => PhasesIn(g, {"active"}) = {}
  BY <1>1, <1>2, <1>3
<1>6. g.phase = [f.phase EXCEPT ![p] = status]
  BY <1>2 DEF phase
<1> QED
  BY <1>4, <1>5, <1>6, Zenon

(* The status keeps fitting the phases. *)
LEMMA ReducesStatusFits ==
    ASSUME NEW f \in Ferments, NEW g, Reduces(f, g), StatusFits(f)
    PROVE  StatusFits(g)
<1>1. CASE Scopes(f, g)
  BY <1>1 DEF Scopes, Scope, StatusFits, PhasesIn, Ferments
<1>2. CASE Activates(f, g)
  BY <1>2 DEF Activates, ActivatePhase, ActivateSinglePhase, StatusFits, PhasesIn, Ferments
<1>3. CASE ActivatesGroup(f, g)
  <2>1. PICK k \in Groups : PlannedInGroup(f, k) # {} /\ g = ActivatePhaseGroup(f, k)
    BY <1>3 DEF ActivatesGroup
  <2>2. First(PlannedInGroup(f, k)) \in PlannedInGroup(f, k)
    BY <2>1, FirstPhase DEF PlannedInGroup
  <2>3. PlannedInGroup(f, k) \subseteq Phases
    BY DEF PlannedInGroup
  <2> QED
    BY <2>1, <2>2, <2>3 DEF ActivatePhaseGroup, StatusFits, PhasesIn, Ferments
<1>4. CASE Refines(f, g) \/ Starts(f, g) \/ EndsStep(f, g)
  BY <1>4, StepHandlers DEF StatusFits, PhasesIn
<1>5. CASE Ends(f, g)
  BY <1>5, EndsSettles DEF Ends, StatusFits
<1>6. CASE Finishes(f, g) \/ Pauses(f, g) \/ Abandons(f, g)
  BY <1>6 DEF Finishes, Pauses, Abandons, CompleteFerment, Pause, Abandon, StatusFits, Ferments
<1>7. CASE Resumes(f, g)
  <2>1. PhasesIn(f, {"active"}) # {} => First(PhasesIn(f, {"active"})) \in PhasesIn(f, {"active"})
    BY FirstPhase DEF PhasesIn
  <2>2. PhasesIn(g, {"active"}) = PhasesIn(f, {"active"})
    BY <1>7, StatusHandlers DEF PhasesIn
  <2> QED
    BY <1>7, <2>1, <2>2 DEF Resumes, Resume, StatusFits, Ferments
<1>8. CASE g = f
  BY <1>8
<1> QED
  BY <1>1, <1>2, <1>3, <1>4, <1>5, <1>6, <1>7, <1>8 DEF Reduces, OtherwiseReduces

(* No step makes phases of two groups active together. *)
LEMMA ReducesOneGroupActive ==
    ASSUME NEW f \in Ferments, NEW g, Reduces(f, g), OneGroupActive(f)
    PROVE  OneGroupActive(g)
<1>1. CASE Scopes(f, g)
  BY <1>1 DEF Scopes, Scope, OneGroupActive, PhasesIn, Ferments
<1>2. CASE Activates(f, g)
  BY <1>2 DEF Activates, ActivatePhase, ActivateSinglePhase, OneGroupActive, PhasesIn, Ferments
<1>3. CASE ActivatesGroup(f, g)
  <2>1. PICK k \in Groups : g = ActivatePhaseGroup(f, k)
    BY <1>3 DEF ActivatesGroup
  <2>2. \A p \in PhasesIn(g, {"active"}) : g.phaseGroup[p] = k
    BY <2>1 DEF ActivatePhaseGroup, PhasesIn, PlannedInGroup, Ferments
  <2>3. k # NoGroup
    BY FermentAssumption
  <2> QED
    BY <2>2, <2>3 DEF OneGroupActive
<1>4. CASE Refines(f, g) \/ Starts(f, g) \/ EndsStep(f, g)
  BY <1>4, StepHandlers DEF OneGroupActive, PhasesIn
<1>5. CASE Ends(f, g)
  <2>1. PICK p \in Phases, status \in TerminalPhaseStatuses : g = EndPhase(f, p, status)
    BY <1>5 DEF Ends
  <2>2. g.phase = [f.phase EXCEPT ![p] = status]
    BY <2>1, EndsSettles
  <2>3. PhasesIn(g, {"active"}) \subseteq PhasesIn(f, {"active"})
    BY <2>2 DEF PhasesIn, TerminalPhaseStatuses, Ferments
  <2> QED
    BY <1>5, <2>3, PhaseHandlers DEF OneGroupActive
<1>6. CASE Finishes(f, g) \/ Pauses(f, g) \/ Resumes(f, g) \/ Abandons(f, g)
  BY <1>6, StatusHandlers DEF OneGroupActive, PhasesIn
<1>7. CASE g = f
  BY <1>7
<1> QED
  BY <1>1, <1>2, <1>3, <1>4, <1>5, <1>6, <1>7 DEF Reduces, OtherwiseReduces

(* Comparing with one running step is enough to keep the cohort together.  *)
LEMMA ReducesOneCohortRunning ==
    ASSUME NEW f \in Ferments, NEW g, Reduces(f, g), OneCohortRunning(f)
    PROVE  OneCohortRunning(g)
<1>1. CASE Scopes(f, g)
  <2>1. \A p \in Phases : StepsIn(g, p, {"running"}) = {}
    BY <1>1 DEF Scopes, Scope, BuildSteps, StepsIn, Ferments
  <2> QED
    BY <2>1 DEF OneCohortRunning
<1>2. CASE \/ Activates(f, g) \/ ActivatesGroup(f, g) \/ Ends(f, g)
           \/ Finishes(f, g) \/ Resumes(f, g) \/ Abandons(f, g)
  BY <1>2, PhaseHandlers DEF OneCohortRunning, StepsIn
<1>3. CASE Refines(f, g)
  <2>1. PICK p \in Phases, list \in StepPlans : g = RefinePhase(f, p, list)
    BY <1>3 DEF Refines
  <2>2. StepsIn(g, p, {"running"}) = {}
    BY <2>1 DEF RefinePhase, BuildSteps, StepsIn, Ferments
  <2>3. \A q \in Phases \ {p} : g.step[q] = f.step[q] /\ g.stepGroup[q] = f.stepGroup[q]
    BY <2>1 DEF RefinePhase, Ferments
  <2> QED
    BY <2>2, <2>3 DEF OneCohortRunning, StepsIn
<1>4. CASE Starts(f, g)
  <2>1. PICK p \in Phases, s \in Steps : StartStepAllowed(f, p, s) /\ g = SetStep(f, p, s, "running")
    BY <1>4 DEF Starts
  <2> DEFINE others == StepsIn(f, p, {"running"}) \ {s}
  <2>2. g.stepGroup = f.stepGroup /\ \A q \in Phases \ {p} : g.step[q] = f.step[q]
    BY <2>1 DEF SetStep, Ferments
  <2>3. StepsIn(g, p, {"running"}) = others \cup {s}
    BY <2>1 DEF SetStep, StepsIn, Ferments
  <2>4. \A t \in others : InSameParallelCohort(f.stepGroup[p][t], f.stepGroup[p][s])
    <3> TAKE t \in others
    <3>1. First(others) \in others
      BY FirstStep DEF StepsIn
    <3>2. InSameParallelCohort(f.stepGroup[p][First(others)], f.stepGroup[p][s])
      BY <2>1 DEF StartStepAllowed
    <3>3. t # First(others) =>
            InSameParallelCohort(f.stepGroup[p][t], f.stepGroup[p][First(others)])
      BY <3>1 DEF OneCohortRunning
    <3> QED
      BY <3>2, <3>3 DEF InSameParallelCohort
  <2>5. \A t, u \in others : t # u => InSameParallelCohort(f.stepGroup[p][t], f.stepGroup[p][u])
    BY DEF OneCohortRunning
  <2>6. \A t, u \in StepsIn(g, p, {"running"}) :
          t # u => InSameParallelCohort(f.stepGroup[p][t], f.stepGroup[p][u])
    <3> HIDE DEF others
    <3> QED
      BY <2>3, <2>4, <2>5 DEF InSameParallelCohort
  <2>7. \A q \in Phases \ {p} : StepsIn(g, q, {"running"}) = StepsIn(f, q, {"running"})
    BY <2>2 DEF StepsIn
  <2> QED
    BY <2>2, <2>6, <2>7 DEF OneCohortRunning
<1>5. CASE EndsStep(f, g) \/ Pauses(f, g)
  <2>1. g.stepGroup = f.stepGroup
    BY <1>5 DEF EndsStep, Pauses, SetStep, Pause, Ferments
  <2>2. \A p \in Phases : StepsIn(g, p, {"running"}) \subseteq StepsIn(f, p, {"running"})
    <3>1. CASE EndsStep(f, g)
      BY <3>1 DEF EndsStep, SetStep, StepsIn, TerminalStepStatuses, Ferments
    <3>2. CASE Pauses(f, g)
      BY <3>2 DEF Pauses, Pause, StepsIn, Ferments
    <3> QED
      BY <1>5, <3>1, <3>2
  <2> QED
    BY <2>1, <2>2 DEF OneCohortRunning
<1>6. CASE g = f
  BY <1>6
<1> QED
  BY <1>1, <1>2, <1>3, <1>4, <1>5, <1>6 DEF Reduces, OtherwiseReduces

(* A paused ferment stays quiet: only resuming and abandoning touch it.    *)
LEMMA ReducesQuietWhenPaused ==
    ASSUME NEW f \in Ferments, NEW g, Reduces(f, g), QuietWhenPaused(f)
    PROVE  QuietWhenPaused(g)
<1>1. CASE Pauses(f, g)
  BY <1>1 DEF Pauses, Pause, QuietWhenPaused, StepsIn, Ferments
<1>2. CASE Scopes(f, g) \/ Activates(f, g) \/ ActivatesGroup(f, g)
  BY <1>2 DEF Scopes, Scope, Activates, ActivatePhase, ActivatesGroup, ActivatePhaseGroup,
              QuietWhenPaused, Ferments
<1>3. CASE Refines(f, g) \/ Starts(f, g) \/ EndsStep(f, g)
  BY <1>3, StepHandlers DEF QuietWhenPaused
<1>4. CASE Ends(f, g)
  BY <1>4, EndsSettles DEF Ends, QuietWhenPaused
<1>5. CASE Finishes(f, g) \/ Resumes(f, g) \/ Abandons(f, g)
  BY <1>5 DEF Finishes, Resumes, Abandons, CompleteFerment, Resume, Abandon,
              QuietWhenPaused, Ferments
<1>6. CASE g = f
  BY <1>6
<1> QED
  BY <1>1, <1>2, <1>3, <1>4, <1>5, <1>6 DEF Reduces, OtherwiseReduces

(* A ferment completes only over ended phases, and ending one again takes  *)
(* it out of completion.                                                   *)
LEMMA ReducesFinishedWhenComplete ==
    ASSUME NEW f \in Ferments, NEW g, Reduces(f, g), FinishedWhenComplete(f)
    PROVE  FinishedWhenComplete(g)
<1>1. CASE Scopes(f, g) \/ Activates(f, g) \/ ActivatesGroup(f, g) \/ Pauses(f, g)
  BY <1>1 DEF Scopes, Scope, Activates, ActivatePhase, ActivatesGroup, ActivatePhaseGroup,
              Pauses, Pause, FinishedWhenComplete, Ferments
<1>2. CASE Refines(f, g) \/ Starts(f, g) \/ EndsStep(f, g)
  BY <1>2, StepHandlers DEF FinishedWhenComplete, AllPhasesTerminal, Present
<1>3. CASE Ends(f, g)
  BY <1>3, EndsSettles DEF Ends, FinishedWhenComplete
<1>4. CASE Finishes(f, g)
  BY <1>4, StatusHandlers DEF Finishes, FinishedWhenComplete, AllPhasesTerminal, Present
<1>5. CASE Resumes(f, g) \/ Abandons(f, g)
  BY <1>5 DEF Resumes, Abandons, Resume, Abandon, FinishedWhenComplete, Ferments
<1>6. CASE g = f
  BY <1>6
<1> QED
  BY <1>1, <1>2, <1>3, <1>4, <1>5, <1>6 DEF Reduces, OtherwiseReduces

(* No command puts anything into a draft but scope, which ends it.         *)
LEMMA ReducesEmptyDraft ==
    ASSUME NEW f \in Ferments, NEW g, Reduces(f, g), EmptyDraft(f)
    PROVE  EmptyDraft(g)
<1>1. CASE Scopes(f, g) \/ Activates(f, g) \/ ActivatesGroup(f, g) \/ Pauses(f, g)
  BY <1>1 DEF Scopes, Scope, Activates, ActivatePhase, ActivatesGroup, ActivatePhaseGroup,
              Pauses, Pause, EmptyDraft, Ferments
<1>2. CASE Refines(f, g) \/ Starts(f, g) \/ EndsStep(f, g)
  <2>1. f.status # "draft"
    BY <1>2 DEF Refines, Starts, EndsStep, HasStep, EmptyDraft, Present
  <2> QED
    BY <1>2, <2>1, StepHandlers DEF EmptyDraft
<1>3. CASE Ends(f, g)
  BY <1>3, EndsSettles DEF Ends, EmptyDraft
<1>4. CASE Finishes(f, g) \/ Resumes(f, g) \/ Abandons(f, g)
  BY <1>4 DEF Finishes, Resumes, Abandons, CompleteFerment, Resume, Abandon, EmptyDraft, Ferments
<1>5. CASE g = f
  BY <1>5
<1> QED
  BY <1>1, <1>2, <1>3, <1>4, <1>5 DEF Reduces, OtherwiseReduces

(* A running step keeps its slot and its cohort whatever happens to it. *)
LEMMA ReducesKeepsRunningStep ==
    ASSUME NEW f \in Ferments, NEW g, Reduces(f, g), EmptyDraft(f),
           NEW p \in Phases, NEW s \in Steps, f.step[p][s] = "running"
    PROVE  g.step[p][s] # "absent" /\ g.stepGroup[p][s] = f.stepGroup[p][s]
<1>1. f.status # "draft"
  BY DEF EmptyDraft, StepsOf
<1>2. CASE \/ Activates(f, g) \/ ActivatesGroup(f, g) \/ Ends(f, g)
           \/ Finishes(f, g) \/ Resumes(f, g) \/ Abandons(f, g)
  BY <1>2, PhaseHandlers
<1>3. CASE Refines(f, g)
  BY <1>3 DEF Refines, RefinePhase, StepsIn, Ferments
<1>4. CASE Starts(f, g)
  BY <1>4 DEF Starts, SetStep, Ferments
<1>5. CASE EndsStep(f, g)
  BY <1>5 DEF EndsStep, SetStep, TerminalStepStatuses, Ferments
<1>6. CASE Pauses(f, g)
  BY <1>6 DEF Pauses, Pause, Ferments
<1>7. CASE g = f
  BY <1>7
<1> QED
  BY <1>1, <1>2, <1>3, <1>4, <1>5, <1>6, <1>7 DEF Reduces, OtherwiseReduces, Scopes

(* Out of a pause, phases and steps come back as they were. *)
LEMMA ReducesFrozen ==
    ASSUME NEW f \in Ferments, NEW g, Reduces(f, g), f.status = "paused"
    PROVE  /\ g.status \in {"paused", "planned", "running", "abandoned"}
           /\ g.phase = f.phase /\ g.step = f.step
<1>1. CASE Resumes(f, g) \/ Abandons(f, g)
  BY <1>1 DEF Resumes, Abandons, Resume, Abandon, Ferments
<1>2. CASE g = f
  BY <1>2
<1> QED
  BY <1>1, <1>2 DEF Reduces, OtherwiseReduces, Scopes, Activates, ActivatesGroup, Refines, Ends, Starts, EndsStep,
                    Finishes, Pauses

(* Groups are activated as a whole and demoted as a whole, as long as      *)
(* phases are activated singly only outside of groups.                     *)
LEMMA ReducesGroupsWhole ==
    ASSUME NEW f \in Ferments, NEW g, GroupsWhole(f),
           \/ OtherwiseReduces(f, g)
           \/ \E p \in Phases : f.phaseGroup[p] = NoGroup /\ g = ActivatePhase(f, p)
    PROVE  GroupsWhole(g)
<1>1. CASE \E p \in Phases : f.phaseGroup[p] = NoGroup /\ g = ActivatePhase(f, p)
  <2>1. PICK p \in Phases : f.phaseGroup[p] = NoGroup /\ g = ActivatePhase(f, p)
    BY <1>1
  <2>2. g.phaseGroup = f.phaseGroup /\ \A q \in Phases \ {p} : g.phase[q] # "active"
    BY <2>1 DEF ActivatePhase, ActivateSinglePhase, Ferments
  <2> QED
    BY <2>1, <2>2 DEF GroupsWhole
<1>2. CASE Scopes(f, g)
  <2>1. PICK plan \in PhasePlans :
            g.phase = [q \in Phases |-> IF q <= Len(plan) THEN "planned" ELSE "absent"]
    BY <1>2 DEF Scopes, Scope, Ferments
  <2>2. \A q \in Phases : g.phase[q] # "active"
    BY <2>1
  <2> QED
    BY <2>2 DEF GroupsWhole
<1>3. CASE ActivatesGroup(f, g)
  <2>1. PICK k \in Groups : g = ActivatePhaseGroup(f, k)
    BY <1>3 DEF ActivatesGroup
  <2>2. g.phaseGroup = f.phaseGroup
    BY <2>1 DEF ActivatePhaseGroup, Ferments
  <2>3. \A p \in Phases : g.phase[p] = "active" => g.phaseGroup[p] = k
    BY <2>1, <2>2 DEF ActivatePhaseGroup, PlannedInGroup, Ferments
  <2>4. \A p \in Phases : g.phaseGroup[p] = k => g.phase[p] # "planned"
    BY <2>1, <2>2 DEF ActivatePhaseGroup, PlannedInGroup, Ferments
  <2> QED
    BY <2>3, <2>4 DEF GroupsWhole
<1>4. CASE Refines(f, g) \/ Starts(f, g) \/ EndsStep(f, g)
  BY <1>4, StepHandlers DEF GroupsWhole
<1>5. CASE Ends(f, g)
  <2>1. PICK p \in Phases, status \in TerminalPhaseStatuses : g = EndPhase(f, p, status)
    BY <1>5 DEF Ends
  <2>2. g.phase = [f.phase EXCEPT ![p] = status] /\ g.phaseGroup = f.phaseGroup
    BY <1>5, <2>1, EndsSettles, PhaseHandlers
  <2> QED
    BY <2>2 DEF GroupsWhole, TerminalPhaseStatuses, Ferments
<1>6. CASE Finishes(f, g) \/ Pauses(f, g) \/ Resumes(f, g) \/ Abandons(f, g)
  BY <1>6, StatusHandlers DEF GroupsWhole
<1>7. CASE g = f
  BY <1>7
<1> QED
  BY <1>1, <1>2, <1>3, <1>4, <1>5, <1>6, <1>7 DEF OtherwiseReduces
=============================================================================
