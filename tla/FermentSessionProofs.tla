------------------------ MODULE FermentSessionProofs ------------------------
(***************************************************************************)
(* The session's invariants for every plan, any number of concurrent tool  *)
(* calls and every menu.  Whatever a handler validated before it waited,   *)
(* the ferment changes only by commands the bridge and the reducer admit   *)
(* (NextReduces), so the promises of the reducer hold of the session; the  *)
(* checks of the FSM and of the menus are not needed for any of them.      *)
(***************************************************************************)
EXTENDS FermentSession, FermentStateProofs

(* Every command but the activation of a single phase. *)
OtherCommands == {cmd \in Commands : cmd.type # "activate_phase"}

(* The commands the handlers build are commands. *)
LEMMA BuiltCommands ==
    /\ \A type \in PhaseCommands, p \in Phases : OnPhase(type, p) \in Commands
    /\ \A type \in {"complete_phase", "skip_phase", "fail_phase"}, p \in Phases :
          OnPhase(type, p) \in OtherCommands
    /\ \A type \in StepCommands, p \in Phases, s \in Steps :
          OnStep(type, p, s) \in OtherCommands
    /\ \A type \in PlainCommands : Plain(type) \in OtherCommands
    /\ \A plan \in PhasePlans : [type |-> "scope", plan |-> plan] \in OtherCommands
    /\ \A p \in Phases, list \in StepPlans :
          [type |-> "refine_phase", phase |-> p, steps |-> list] \in OtherCommands
    /\ \A k \in Groups : [type |-> "activate_phase_group", group |-> k] \in OtherCommands
    /\ OtherCommands \subseteq Commands
  BY DEF OnPhase, OnStep, Plain, Commands, OtherCommands, PhaseCommands, StepCommands,
         PlainCommands

(* The atomic step: one admitted command, or nothing. *)
Commits(g, h) ==
    \/ \E cmd \in Commands : Admits(g, cmd) /\ h = ApplyCommand(g, cmd)
    \/ h = g

(* A step after which groups are still active as a whole: no phase of a    *)
(* group is activated on its own.                                          *)
SparesGroups(g, h) ==
    \/ OtherwiseReduces(g, h)
    \/ \E p \in Phases : g.phaseGroup[p] = NoGroup /\ h = ActivatePhase(g, p)

(* A command, refused or not, is at most one atomic step, and spares the   *)
(* groups unless it activates a single phase.                              *)
LEMMA OutcomeCommits ==
    ASSUME NEW cmd \in Commands
    PROVE  /\ Commits(f, Outcome(cmd))
           /\ cmd \in OtherCommands => SparesGroups(f, Outcome(cmd))
<1>1. CASE Admits(f, cmd)
  BY <1>1, AdmittedReduces DEF Outcome, Commits, SparesGroups, OtherCommands
<1>2. CASE ~Admits(f, cmd)
  BY <1>2 DEF Outcome, Commits, SparesGroups, OtherwiseReduces
<1> QED
  BY <1>1, <1>2

(* An atomic step is a step of the reducer. *)
LEMMA CommitReduces ==
    ASSUME NEW g, NEW h, Commits(g, h)
    PROVE  Reduces(g, h)
<1>1. CASE h = g
  BY <1>1 DEF Reduces, OtherwiseReduces
<1>2. ASSUME NEW cmd \in Commands, Admits(g, cmd), h = ApplyCommand(g, cmd)
      PROVE  Reduces(g, h)
  BY <1>2, AdmittedReduces
<1> QED
  BY <1>1, <1>2 DEF Commits

(* A call that waits about a step or a phase knows which one. *)
LEMMA WaitingCalls ==
    ASSUME TypeOK, NEW c \in Calls
    PROVE  /\ calls[c].at \in StepAwaits => calls[c].phase \in Phases /\ calls[c].step \in Steps
           /\ calls[c].at = "escalated" => calls[c].phase \in Phases
  BY DEF TypeOK, CallStates, StepAwaits, PlainAwaits

(* A parked call is in one of the states a call can wait in.               *)
LEMMA ParkedTypes ==
    /\ Idle \in CallStates
    /\ \A at \in {"boundary", "closing"} : Parked(at, NoPhase, NoStep) \in CallStates
    /\ \A at \in StepAwaits, p \in Phases, s \in Steps : Parked(at, p, s) \in CallStates
    /\ \A p \in Phases : Parked("escalated", p, NoStep) \in CallStates
  BY DEF Idle, Parked, CallStates, StepAwaits, PlainAwaits

(* What one call may do to the variables, by the helper it goes through. *)
CallStep(c) ==
    /\ Commits(f, f')
    /\ SparesGroups(f, f')
    /\ \E call \in CallStates : calls' = [calls EXCEPT ![c] = call]
    /\ menu' = menu

(* A tool call without an await is one atomic step.                        *)
LEMMA IssueSteps ==
    ASSUME TypeOK, NEW c \in Calls, NEW cmd \in OtherCommands, Issue(c, cmd)
    PROVE  CallStep(c)
<1>1. Commits(f, f') /\ SparesGroups(f, f')
  BY AdmittedReduces DEF Issue, Commits, SparesGroups, OtherCommands
<1>2. calls' = [calls EXCEPT ![c] = Idle]
  BY DEF Issue, TypeOK
<1> QED
  BY <1>1, <1>2, ParkedTypes DEF CallStep, Issue

(* The one tool that activates a single phase does so outside of groups.   *)
LEMMA SingleActivationSteps ==
    ASSUME TypeOK, NEW c \in Calls, NEW p \in Phases, f.phaseGroup[p] = NoGroup,
           Issue(c, OnPhase("activate_phase", p))
    PROVE  CallStep(c)
<1>1. Commits(f, f')
  BY BuiltCommands DEF Issue, Commits, PhaseCommands
<1>2. SparesGroups(f, f')
  BY DEF Issue, OnPhase, ApplyCommand, SparesGroups
<1>3. calls' = [calls EXCEPT ![c] = Idle]
  BY DEF Issue, TypeOK
<1> QED
  BY <1>1, <1>2, <1>3, ParkedTypes DEF CallStep, Issue

(* A call that goes to wait leaves the ferment alone.                      *)
LEMMA ParkSteps ==
    ASSUME NEW c \in Calls, NEW at, NEW p, NEW s, Parked(at, p, s) \in CallStates, Park(c, at, p, s)
    PROVE  CallStep(c)
  BY DEF Park, CallStep, Commits, SparesGroups, OtherwiseReduces

(* The last command of a call is one atomic step.                          *)
LEMMA FinishSteps ==
    ASSUME NEW c \in Calls, NEW cmd \in OtherCommands, Finish(c, cmd)
    PROVE  CallStep(c)
  BY OutcomeCommits, ParkedTypes DEF Finish, CallStep, OtherCommands

(* A command in the middle of a call is one atomic step.                   *)
LEMMA ProceedSteps ==
    ASSUME NEW c \in Calls, NEW cmd \in OtherCommands, NEW next \in CallStates, Proceed(c, cmd, next)
    PROVE  CallStep(c)
<1>1. (IF Admits(f, cmd) THEN next ELSE Idle) \in CallStates
  BY ParkedTypes
<1> QED
  BY <1>1, OutcomeCommits DEF Proceed, CallStep, OtherCommands

(* A call that just returns leaves the ferment alone.                      *)
LEMMA ReturnSteps ==
    ASSUME NEW c \in Calls, Return(c)
    PROVE  CallStep(c)
  BY ParkedTypes DEF Return, CallStep, Commits, SparesGroups, OtherwiseReduces

(* Ending a phase is one atomic step, asked about or not.                  *)
LEMMA EndPhaseSteps ==
    ASSUME NEW c \in Calls, NEW cmd \in OtherCommands, EndPhaseAndAsk(c, cmd)
    PROVE  CallStep(c)
<1>1. (IF Admits(f, cmd) /\ WaitsAtBoundary(ApplyCommand(f, cmd))
       THEN Parked("boundary", NoPhase, NoStep) ELSE Idle) \in CallStates
  BY ParkedTypes
<1> QED
  BY <1>1, OutcomeCommits DEF EndPhaseAndAsk, CallStep, OtherCommands

(* A tool call that starts goes through one of them. *)
LEMMA ToolStartsSteps ==
    ASSUME TypeOK, NEW c \in Calls, ToolStarts(c)
    PROVE  CallStep(c)
<1> USE BuiltCommands DEF PhaseCommands, StepCommands, PlainCommands
<1>1. CASE \E plan \in PhasePlans : ScopeTool(c, plan)
  BY <1>1, IssueSteps DEF ScopeTool
<1>2. ASSUME NEW p \in Present(f), ActivatePhaseTool(c, p)
      PROVE  CallStep(c)
  <2>1. p \in Phases /\ f.phaseGroup[p] \in Groups \cup {NoGroup}
    BY DEF Present, TypeOK, Ferments, Cohorts
  <2>2. CASE f.phaseGroup[p] # NoGroup
    BY <1>2, <2>1, <2>2, IssueSteps DEF ActivatePhaseTool
  <2>3. CASE f.phaseGroup[p] = NoGroup
    BY <1>2, <2>1, <2>3, SingleActivationSteps DEF ActivatePhaseTool
  <2> QED
    BY <2>2, <2>3
<1>3. ASSUME NEW p \in Present(f), NEW list \in StepPlans, RefinePhaseTool(c, p, list)
      PROVE  CallStep(c)
  BY <1>3, IssueSteps DEF RefinePhaseTool, Present
<1>4. ASSUME NEW p \in Present(f), CompletePhaseTool(c, p)
      PROVE  CallStep(c)
  BY <1>4, EndPhaseSteps, ParkSteps, ParkedTypes DEF CompletePhaseTool, Present
<1>5. ASSUME NEW p \in Present(f), SkipPhaseTool(c, p)
      PROVE  CallStep(c)
  BY <1>5, EndPhaseSteps DEF SkipPhaseTool, Present
<1>6. ASSUME NEW p \in Present(f), FailPhaseTool(c, p)
      PROVE  CallStep(c)
  BY <1>6, IssueSteps DEF FailPhaseTool, Present
<1>7. ASSUME NEW p \in Phases, NEW s \in Steps, StartStepTool(c, p, s)
      PROVE  CallStep(c)
  BY <1>7, IssueSteps, ParkSteps, ParkedTypes DEF StartStepTool, StepAwaits
<1>8. ASSUME NEW p \in Phases, NEW s \in Steps, CompleteStepTool(c, p, s)
      PROVE  CallStep(c)
  BY <1>8, IssueSteps, ParkSteps, ParkedTypes DEF CompleteStepTool, StepAwaits
<1>9. ASSUME NEW p \in Phases, NEW s \in Steps, VerifyStepTool(c, p, s)
      PROVE  CallStep(c)
  BY <1>9, ParkSteps, ParkedTypes DEF VerifyStepTool, StepAwaits
<1>10. ASSUME NEW p \in Phases, NEW s \in Steps, SkipStepTool(c, p, s) \/ FailStepTool(c, p, s)
       PROVE  CallStep(c)
  BY <1>10, IssueSteps DEF SkipStepTool, FailStepTool
<1>11. CASE CompleteFermentTool(c)
  BY <1>11, ParkSteps, ParkedTypes DEF CompleteFermentTool
<1> QED
  BY <1>1, <1>2, <1>3, <1>4, <1>5, <1>6, <1>7, <1>8, <1>9, <1>10, <1>11 DEF ToolStarts

(* And so does one that continues. *)
LEMMA ToolContinuesSteps ==
    ASSUME TypeOK, NEW c \in Calls, ToolContinues(c)
    PROVE  CallStep(c)
<1> USE BuiltCommands, WaitingCalls DEF PhaseCommands, StepCommands, PlainCommands, StepAwaits
<1>1. CASE AnswerStuck(c)
  BY <1>1, FinishSteps, ReturnSteps DEF AnswerStuck
<1>2. CASE VerificationExits(c)
  BY <1>2, FinishSteps, ProceedSteps, ParkedTypes DEF VerificationExits
<1>3. CASE JudgeAnswers(c)
  BY <1>3, ReturnSteps, ProceedSteps, ParkedTypes DEF JudgeAnswers
<1>4. CASE ChooseRecovery(c)
  BY <1>4, FinishSteps, ReturnSteps DEF ChooseRecovery
<1>5. CASE VerifyStepExits(c)
  BY <1>5, FinishSteps DEF VerifyStepExits
<1>6. CASE AnswerEscalation(c)
  BY <1>6, EndPhaseSteps, FinishSteps DEF AnswerEscalation
<1>7. CASE AnswerBoundary(c)
  BY <1>7, ReturnSteps, FinishSteps DEF AnswerBoundary
<1>8. CASE JourneyJudged(c)
  BY <1>8, FinishSteps DEF JourneyJudged
<1> QED
  BY <1>1, <1>2, <1>3, <1>4, <1>5, <1>6, <1>7, <1>8 DEF ToolContinues

(* The menus build commands. *)
LEMMA MenuCommands ==
    ASSUME NEW p \in Phases
    PROVE  /\ PhaseMenu(p) \subseteq Commands
           /\ \A s \in Steps : StepMenu(p, s) \subseteq Commands
  BY BuiltCommands DEF PhaseMenu, StepMenu, PhaseCommands, StepCommands

(* What the user and a restart do. *)
LEMMA UserSteps ==
    ASSUME TypeOK, UserActs \/ Restart
    PROVE  /\ Commits(f, f')
           /\ calls' \in [Calls -> CallStates]
           /\ menu' \in Commands \cup {NoCommand}
<1> USE BuiltCommands DEF PlainCommands, TypeOK
<1>1. CASE UserPause
  BY <1>1 DEF UserPause, Admits, BridgeAdmits, Accepts, ApplyCommand, Plain, Commits, StepCommands
<1>2. CASE UserResume
  BY <1>2 DEF UserResume, Admits, BridgeAdmits, CommandsAllowedWhilePaused, Accepts,
              ApplyCommand, Plain, Commits, StepCommands
<1>3. CASE AskAbandon
  BY <1>3 DEF AskAbandon, Commits
<1>4. CASE OpenMenu
  <2>1. PICK p \in Present(f) :
          menu' \in PhaseMenu(p) \cup UNION {StepMenu(p, s) : s \in StepsOf(f, p)}
    BY <1>4 DEF OpenMenu
  <2>2. p \in Phases /\ StepsOf(f, p) \subseteq Steps
    BY DEF Present, StepsOf
  <2>3. PhaseMenu(p) \subseteq Commands
    BY <2>2, MenuCommands
  <2>4. \A s \in StepsOf(f, p) : StepMenu(p, s) \subseteq Commands
    BY <2>2, MenuCommands
  <2>5. menu' \in Commands
    BY <2>1, <2>3, <2>4, Zenon
  <2> QED
    BY <1>4, <2>5 DEF OpenMenu, Commits
<1>5. CASE PickMenu
  BY <1>5, OutcomeCommits DEF PickMenu
<1>6. CASE CloseMenu
  BY <1>6 DEF CloseMenu, Commits
<1>7. CASE Restart
  <2>1. Commits(f, f')
    BY <1>7 DEF Restart, Admits, BridgeAdmits, Accepts, ApplyCommand, Plain, Commits,
                StepCommands
  <2> QED
    BY <1>7, <2>1, ParkedTypes DEF Restart
<1> QED
  BY <1>1, <1>2, <1>3, <1>4, <1>5, <1>6, <1>7 DEF UserActs

(* Picking an entry of the menu apart, neither the user nor a restart      *)
(* activates a single phase.                                               *)
LEMMA UserSparesGroups ==
    ASSUME UserActs \/ Restart
    PROVE  SparesGroups(f, f') \/ PickMenu
<1> USE DEF SparesGroups, OtherwiseReduces
<1>1. CASE UserPause
  BY <1>1 DEF UserPause, Pauses, Plain, Accepts
<1>2. CASE UserResume
  BY <1>2 DEF UserResume, Resumes, Plain, Accepts
<1>3. CASE AskAbandon \/ OpenMenu \/ CloseMenu
  BY <1>3 DEF AskAbandon, OpenMenu, CloseMenu
<1>4. CASE Restart
  BY <1>4 DEF Restart, Pauses, Plain, Accepts
<1> QED
  BY <1>1, <1>2, <1>3, <1>4 DEF UserActs

(* Every step of the session is an atomic step. *)
LEMMA NextCommits ==
    ASSUME TypeOK, [Next]_vars
    PROVE  Commits(f, f') /\ TypeOK'
<1>1. ASSUME NEW c \in Calls, CallStep(c)
      PROVE  Commits(f, f') /\ TypeOK'
  <2>1. f' \in Ferments
    BY <1>1, CommitReduces, ReducesType DEF CallStep, TypeOK
  <2>2. calls' \in [Calls -> CallStates] /\ menu' \in Commands \cup {NoCommand}
    BY <1>1 DEF CallStep, TypeOK
  <2> QED
    BY <1>1, <2>1, <2>2 DEF CallStep, TypeOK
<1>2. ASSUME NEW c \in Calls, ToolStarts(c) \/ ToolContinues(c)
      PROVE  Commits(f, f') /\ TypeOK'
  BY <1>1, <1>2, ToolStartsSteps, ToolContinuesSteps
<1>3. CASE UserActs \/ Restart
  BY <1>3, UserSteps, CommitReduces, ReducesType DEF TypeOK
<1>4. CASE UNCHANGED vars
  BY <1>4 DEF vars, TypeOK, Commits
<1> QED
  BY <1>2, <1>3, <1>4 DEF Next

(* Picking an entry of the menu apart, every step spares the groups.       *)
LEMMA NextSparesGroups ==
    ASSUME TypeOK, [Next]_vars
    PROVE  SparesGroups(f, f') \/ PickMenu
<1>1. ASSUME NEW c \in Calls, ToolStarts(c) \/ ToolContinues(c)
      PROVE  SparesGroups(f, f')
  BY <1>1, ToolStartsSteps, ToolContinuesSteps DEF CallStep
<1>2. CASE UserActs \/ Restart
  BY <1>2, UserSparesGroups
<1>3. CASE UNCHANGED vars
  BY <1>3 DEF vars, SparesGroups, OtherwiseReduces
<1> QED
  BY <1>1, <1>2, <1>3 DEF Next

(* And so a step of the reducer. *)
LEMMA NextReduces ==
    ASSUME TypeOK, [Next]_vars
    PROVE  Reduces(f, f') /\ TypeOK'
  BY NextCommits, CommitReduces

-----------------------------------------------------------------------------
(* The inductive invariant: the promises of the reducer together. *)
SoundSession ==
    /\ TypeOK
    /\ StatusMatchesPhases
    /\ OneActiveGroup
    /\ OneRunningCohort
    /\ PausedIsQuiet
    /\ CompleteIsFinished
    /\ EmptyDraft(f)

(* A new ferment keeps the promises.                                       *)
LEMMA InitSound == Init => SoundSession
<1> SUFFICES ASSUME Init PROVE SoundSession
  OBVIOUS
<1>1. TypeOK
  BY NewFermentType, ParkedTypes DEF Init, TypeOK
<1>2. StatusMatchesPhases /\ OneActiveGroup
  BY DEF Init, NewFerment, StatusMatchesPhases, OneActiveGroup, StatusFits, OneGroupActive, PhasesIn
<1>3. OneRunningCohort
  BY DEF Init, NewFerment, OneRunningCohort, OneCohortRunning, StepsIn
<1>4. PausedIsQuiet /\ CompleteIsFinished
  BY DEF Init, NewFerment, PausedIsQuiet, CompleteIsFinished, QuietWhenPaused, FinishedWhenComplete
<1>5. EmptyDraft(f)
  BY DEF Init, NewFerment, EmptyDraft, Present, StepsOf
<1> QED
  BY <1>1, <1>2, <1>3, <1>4, <1>5 DEF SoundSession

(* No step of a tool, the user or a restart breaks a promise.              *)
LEMMA NextSound == SoundSession /\ [Next]_vars => SoundSession'
<1> SUFFICES ASSUME SoundSession, [Next]_vars PROVE SoundSession'
  OBVIOUS
<1>1. f \in Ferments /\ Reduces(f, f') /\ TypeOK'
  BY NextReduces DEF SoundSession, TypeOK
<1>2. StatusMatchesPhases'
  BY <1>1, ReducesStatusFits DEF SoundSession, StatusMatchesPhases
<1>3. OneActiveGroup'
  BY <1>1, ReducesOneGroupActive DEF SoundSession, OneActiveGroup
<1>4. OneRunningCohort'
  BY <1>1, ReducesOneCohortRunning DEF SoundSession, OneRunningCohort
<1>5. PausedIsQuiet'
  BY <1>1, ReducesQuietWhenPaused DEF SoundSession, PausedIsQuiet
<1>6. CompleteIsFinished'
  BY <1>1, ReducesFinishedWhenComplete DEF SoundSession, CompleteIsFinished
<1>7. EmptyDraft(f')
  BY <1>1, ReducesEmptyDraft DEF SoundSession
<1> QED
  BY <1>1, <1>2, <1>3, <1>4, <1>5, <1>6, <1>7 DEF SoundSession

(* The session keeps all of the reducer's promises. *)
THEOREM SessionIsSound == Spec => []SoundSession
  BY InitSound, NextSound, PTL DEF Spec

(* State variables keep their types, and a waiting call knows its step.    *)
THEOREM SessionTypes == Spec => []TypeOK
<1>1. SoundSession => TypeOK
  BY DEF SoundSession
<1> QED
  BY <1>1, SessionIsSound, PTL

(* Status, pointer and phases never disagree, for any number of calls      *)
(* parked across an await and any menu left open.                          *)
THEOREM StatusAlwaysMatches == Spec => []StatusMatchesPhases
<1>1. SoundSession => StatusMatchesPhases
  BY DEF SoundSession
<1> QED
  BY <1>1, SessionIsSound, PTL

(* Only one group of phases is ever active, for any grouping of the plan.  *)
THEOREM OneGroupAtATime == Spec => []OneActiveGroup
<1>1. SoundSession => OneActiveGroup
  BY DEF SoundSession
<1> QED
  BY <1>1, SessionIsSound, PTL

(* Running steps of a phase always form one cohort: looking at the first   *)
(* running step is enough, however many there are.                         *)
THEOREM OneCohortAtATime == Spec => []OneRunningCohort
<1>1. SoundSession => OneRunningCohort
  BY DEF SoundSession
<1> QED
  BY <1>1, SessionIsSound, PTL

(* A pause kills every running step and no late call starts another.       *)
THEOREM PauseIsQuiet == Spec => []PausedIsQuiet
<1>1. SoundSession => PausedIsQuiet
  BY DEF SoundSession
<1> QED
  BY <1>1, SessionIsSound, PTL

(* A complete ferment has only ended phases.                               *)
THEOREM CompleteMeansFinished == Spec => []CompleteIsFinished
<1>1. SoundSession => CompleteIsFinished
  BY DEF SoundSession
<1> QED
  BY <1>1, SessionIsSound, PTL

(* Nothing but resuming and abandoning changes a paused ferment, and they  *)
(* leave its phases and steps as they are.                                 *)
THEOREM PauseFreezes == Spec => PausedIsFrozen
<1>1. SoundSession /\ [Next]_vars =>
        [f.status = "paused" =>
           /\ f'.status \in {"paused", "planned", "running", "abandoned"}
           /\ f'.phase = f.phase /\ f'.step = f.step]_vars
  BY NextReduces, ReducesFrozen DEF SoundSession, TypeOK
<1> QED
  BY <1>1, SessionIsSound, PTL DEF Spec, PausedIsFrozen

(* No re-planning pulls a running step away from its worker.               *)
THEOREM RunningStepsKept == Spec => RunningStepKept
<1>1. SoundSession /\ [Next]_vars =>
        [\A p \in Phases, s \in Steps :
           f.step[p][s] = "running" =>
               f'.step[p][s] # "absent" /\ f'.stepGroup[p][s] = f.stepGroup[p][s]]_vars
  BY NextReduces, ReducesKeepsRunningStep DEF SoundSession, TypeOK
<1> QED
  BY <1>1, SessionIsSound, PTL DEF Spec, RunningStepKept

(* Whatever the tools wait for and whoever pauses, resumes, abandons or    *)
(* restarts meanwhile, a parallel group is activated and demoted as a      *)
(* whole; only the menu takes single phases out of it.                     *)
THEOREM GroupsStayWhole == Spec => OnlyMenuSplitsGroups
<1>1. TypeOK /\ [Next]_vars => [GroupsWhole(f) => GroupsWhole(f') \/ PickMenu]_vars
  <2> SUFFICES ASSUME TypeOK, [Next]_vars, GroupsWhole(f), ~PickMenu
               PROVE  GroupsWhole(f')
    OBVIOUS
  <2>1. SparesGroups(f, f')
    BY NextSparesGroups
  <2> QED
    BY <2>1, ReducesGroupsWhole DEF TypeOK, SparesGroups
<1> QED
  BY <1>1, SessionTypes, PTL DEF Spec, OnlyMenuSplitsGroups

(* The session is an atomic store: no call or menu that waited applies     *)
(* what it saw before to a ferment that has moved on.                      *)
THEOREM SessionImplementsStore == Spec => SessionIsAtomic
<1>1. Init => Store!Init
  BY DEF Init, Store!Init
<1>2. TypeOK /\ [Next]_vars => [Store!Next]_f
  BY NextCommits DEF Commits, Store!Next, Store!Mutate
<1> QED
  BY <1>1, <1>2, SessionTypes, PTL DEF Spec, SessionIsAtomic, Store!Spec
=============================================================================
