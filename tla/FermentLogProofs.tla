-------------------------- MODULE FermentLogProofs --------------------------
(***************************************************************************)
(* The two descriptions of a command agree: for every plan, the events of  *)
(* an admitted command fold to the ferment the reducer returns, as long as *)
(* parallel groups are activated as a whole, which the tools see to.  From *)
(* there: what is read back is what was written, and a torn write keeps    *)
(* the work of a command or loses it, but never splits it.                 *)
(***************************************************************************)
EXTENDS FermentLog, FermentStateProofs

(* Ferments with the same fields are the same. *)
LEMMA SameFields ==
    ASSUME NEW f \in Ferments, NEW g \in Ferments,
           f.status = g.status, f.activePhaseId = g.activePhaseId,
           f.phase = g.phase, f.phaseGroup = g.phaseGroup,
           f.step = g.step, f.stepGroup = g.stepGroup
    PROVE  f = g
  BY DEF Ferments

(* Folding one event applies it.                                           *)
LEMMA OneEvent ==
    ASSUME NEW f, NEW e
    PROVE  ApplyEvents(f, <<e>>) = ApplyFermentEvent(f, e)
  BY DEF ApplyEvents

(* Folding two events applies one after the other.                         *)
LEMMA TwoEvents ==
    ASSUME NEW f, NEW d, NEW e
    PROVE  ApplyEvents(f, <<d, e>>) = ApplyFermentEvent(ApplyFermentEvent(f, d), e)
  BY DEF ApplyEvents

(* A scoped ferment has a phase: no plan is empty. *)
LEMMA ScopedIsPresent ==
    ASSUME NEW f \in Ferments, NEW plan \in PhasePlans
    PROVE  Present(Scope(f, plan)) # {}
<1>1. plan \in Seq([group : Cohorts, steps : Seq(Cohorts)]) /\ Len(plan) <= MaxPhases
  BY FermentAssumption
<1>2. plan # <<>>
  BY LogAssumption
<1>3. Len(plan) \in Nat /\ Len(plan) # 0
  <2>1. Len(plan) \in Nat
    BY <1>1, SeqAsFunction
  <2>2. ASSUME Len(plan) = 0 PROVE FALSE
    BY <1>1, <1>2, <2>2
  <2> QED
    BY <2>1, <2>2
<1>4. 1 \in Phases
  BY <1>1, <1>3, FermentAssumption DEF Phases
<1>5. Scope(f, plan).phase[1] = "planned"
  BY <1>3, <1>4 DEF Scope, Ferments
<1> QED
  BY <1>4, <1>5 DEF Present

(* The group activation event lists the phases the command activated. *)
LEMMA NewlyStartedPlanned ==
    ASSUME NEW f \in Ferments, NEW k \in Groups
    PROVE  NewlyStarted(f, ActivatePhaseGroup(f, k), k) = PlannedInGroup(f, k)
  BY DEF NewlyStarted, ActivatePhaseGroup, PlannedInGroup, Ferments

(* Reader and reducer demote the same phases when the group is whole. *)
LEMMA GroupActivatedAgrees ==
    ASSUME NEW f \in Ferments, NEW k \in Groups, PlannedInGroup(f, k) # {}, GroupsWhole(f)
    PROVE  [GroupActivated(f, PlannedInGroup(f, k)) EXCEPT !.status = "running"]
             = ActivatePhaseGroup(f, k)
<1>1. \A q \in Phases : f.phase[q] = "active" => f.phaseGroup[q] # k
  BY FermentAssumption DEF GroupsWhole, PlannedInGroup
<1>2. GroupActivated(f, PlannedInGroup(f, k)).phase = ActivatePhaseGroup(f, k).phase
  BY <1>1 DEF GroupActivated, ActivatePhaseGroup, PlannedInGroup, Ferments
<1> QED
  BY <1>2 DEF GroupActivated, ActivatePhaseGroup, Ferments

-----------------------------------------------------------------------------
(* Reading a command's events back gives what the reducer returned, and    *)
(* reading only some of them gives the work of before or of after, never a *)
(* paused ferment that was not paused already.                             *)
ReadBack(f, c) ==
    LET g == ApplyCommand(f, c)
        events == CommandToEvents(c, f, g)
    IN  /\ events # <<>>
        /\ ApplyEvents(f, events) = g
        /\ \A kept \in SomeOf(events) \ {<<>>} :
              LET h == ApplyEvents(f, kept)
              IN  /\ h \in Ferments
                  /\ Work(h) \in {Work(f), Work(g)}
                  /\ h.status # "paused"

(* For the commands that have a single event there is nothing to tear. *)
LEMMA SingleEventReadsBack ==
    ASSUME NEW f, NEW c, NEW e,
           CommandToEvents(c, f, ApplyCommand(f, c)) = <<e>>,
           ApplyFermentEvent(f, e) = ApplyCommand(f, c)
    PROVE  ReadBack(f, c)
<1>1. SomeOf(<<e>>) = {<<>>} /\ <<e>> # <<>>
  BY DEF SomeOf
<1>2. ApplyEvents(f, <<e>>) = ApplyCommand(f, c)
  BY OneEvent
<1> QED
  BY <1>1, <1>2 DEF ReadBack

(* scope: the phases and the status are two events. *)
LEMMA ScopeReadsBack ==
    ASSUME NEW f \in Ferments, NEW c \in Commands, Admits(f, c), c.type = "scope"
    PROVE  ReadBack(f, c)
<1> DEFINE g == ApplyCommand(f, c)
           phases == [type |-> "scoping_phases_set", phases |-> g]
           planned == Event("ferment_planned")
           filled == ApplyFermentEvent(f, phases)
<1>1. c.plan \in PhasePlans
  BY CommandArguments DEF PhaseCommands, StepCommands, PlainCommands
<1>2. g = Scope(f, c.plan) /\ f.status = "draft"
  BY DEF ApplyCommand, Admits, Accepts, ScopeAllowed
<1>3. g \in Ferments /\ Present(g) # {}
  BY <1>1, <1>2, ScopeType, ScopedIsPresent
<1>4. CommandToEvents(c, f, g) = <<phases, planned>>
  BY <1>3 DEF CommandToEvents
<1>5. filled = [f EXCEPT !.phase = g.phase, !.phaseGroup = g.phaseGroup,
                         !.step = g.step, !.stepGroup = g.stepGroup]
  BY DEF ApplyFermentEvent
<1>6. \A h : ApplyFermentEvent(h, planned) = [h EXCEPT !.status = "planned"]
  BY DEF ApplyFermentEvent, Event
<1>7. g.status = "planned" /\ g.activePhaseId = f.activePhaseId
  BY <1>2 DEF Scope, Ferments
<1> HIDE DEF g, phases, planned, filled
<1>8. filled \in Ferments /\ Work(filled) = Work(g) /\ filled.status = "draft"
  BY <1>2, <1>3, <1>5 DEF Ferments, Work
<1>9. [filled EXCEPT !.status = "planned"] = g
  BY <1>3, <1>5, <1>7, SameFields DEF Ferments
<1>10. /\ [f EXCEPT !.status = "planned"] \in Ferments
       /\ Work([f EXCEPT !.status = "planned"]) = Work(f)
       /\ [f EXCEPT !.status = "planned"].status = "planned"
  BY DEF Ferments, Work, FermentStatuses
<1>11. ApplyEvents(f, <<phases, planned>>) = g
  BY <1>6, <1>9, TwoEvents DEF filled
<1>12. SomeOf(<<phases, planned>>) \ {<<>>} \subseteq {<<phases>>, <<planned>>}
  BY DEF SomeOf
<1>13. ApplyEvents(f, <<phases>>) = filled
  BY OneEvent DEF filled
<1>14. ApplyEvents(f, <<planned>>) = [f EXCEPT !.status = "planned"]
  BY <1>6, OneEvent
<1>15. <<phases, planned>> # <<>>
  OBVIOUS
<1>16. ASSUME NEW kept \in SomeOf(<<phases, planned>>) \ {<<>>}
       PROVE  /\ ApplyEvents(f, kept) \in Ferments
              /\ Work(ApplyEvents(f, kept)) \in {Work(f), Work(g)}
              /\ ApplyEvents(f, kept).status # "paused"
  <2>1. CASE kept = <<phases>>
    BY <2>1, <1>8, <1>13
  <2>2. CASE kept = <<planned>>
    BY <2>2, <1>10, <1>14
  <2> QED
    BY <2>1, <2>2, <1>12
<1> QED
  BY <1>4, <1>11, <1>15, <1>16 DEF ReadBack, g

(* Activation: the status and the phases are two events unless the ferment *)
(* is running already.                                                     *)
LEMMA ActivationReadsBack ==
    ASSUME NEW f \in Ferments, NEW c, NEW e, f.status # "paused",
           CommandToEvents(c, f, ApplyCommand(f, c)) = AfterRunning(f, e),
           ApplyFermentEvent(f, e) \in Ferments,
           ApplyFermentEvent(f, e).status = f.status,
           [ApplyFermentEvent(f, e) EXCEPT !.status = "running"] = ApplyCommand(f, c),
           ApplyFermentEvent([f EXCEPT !.status = "running"], e) = ApplyCommand(f, c)
    PROVE  ReadBack(f, c)
<1> DEFINE g == ApplyCommand(f, c)
           running == Event("ferment_running")
           h == ApplyFermentEvent(f, e)
<1>1. \A k : ApplyFermentEvent(k, running) = [k EXCEPT !.status = "running"]
  BY DEF ApplyFermentEvent, Event
<1>2. Work(h) = Work(g)
  BY DEF Work, Ferments
<1>3. /\ [f EXCEPT !.status = "running"] \in Ferments
      /\ Work([f EXCEPT !.status = "running"]) = Work(f)
      /\ [f EXCEPT !.status = "running"].status = "running"
  BY DEF Ferments, Work, FermentStatuses
<1> HIDE DEF g, running, h
<1>4. CASE f.status = "running"
  <2>1. CommandToEvents(c, f, g) = <<e>>
    BY <1>4 DEF AfterRunning, g
  <2>2. h = g
    BY <1>4, SameFields DEF Ferments, g, h
  <2> QED
    BY <2>1, <2>2, SingleEventReadsBack DEF g, h
<1>5. CASE f.status # "running"
  <2>1. CommandToEvents(c, f, g) = <<running, e>>
    BY <1>5 DEF AfterRunning, g, running
  <2>2. ApplyEvents(f, <<running, e>>) = g
    BY <1>1, TwoEvents DEF g
  <2>3. SomeOf(<<running, e>>) \ {<<>>} \subseteq {<<running>>, <<e>>}
    BY DEF SomeOf
  <2>4. ApplyEvents(f, <<running>>) = [f EXCEPT !.status = "running"]
    BY <1>1, OneEvent
  <2>5. ApplyEvents(f, <<e>>) = h
    BY OneEvent DEF h
  <2>6. h \in Ferments /\ h.status # "paused"
    BY DEF h
  <2>7. ASSUME NEW kept \in SomeOf(<<running, e>>) \ {<<>>}
        PROVE  /\ ApplyEvents(f, kept) \in Ferments
               /\ Work(ApplyEvents(f, kept)) \in {Work(f), Work(g)}
               /\ ApplyEvents(f, kept).status # "paused"
    <3>1. CASE kept = <<running>>
      BY <3>1, <1>3, <2>4
    <3>2. CASE kept = <<e>>
      BY <3>2, <1>2, <2>5, <2>6
    <3> QED
      BY <3>1, <3>2, <2>3
  <2>8. <<running, e>> # <<>>
    OBVIOUS
  <2> QED
    BY <2>1, <2>2, <2>7, <2>8 DEF ReadBack, g
<1> QED
  BY <1>4, <1>5

(* Activating one phase: the reader demotes what the reducer demotes.      *)
LEMMA ActivatePhaseReadsBack ==
    ASSUME NEW f \in Ferments, NEW c \in Commands, Admits(f, c), c.type = "activate_phase"
    PROVE  ReadBack(f, c)
<1> DEFINE e == PhaseEvent("phase_activated", c.phase)
<1>1. c.phase \in Phases
  BY CommandArguments DEF PhaseCommands, StepCommands, PlainCommands
<1>2. f.status # "paused"
  BY DEF Admits, BridgeAdmits, CommandsAllowedWhilePaused
<1>3. ApplyCommand(f, c) = ActivatePhase(f, c.phase)
  BY DEF ApplyCommand
<1>4. CommandToEvents(c, f, ApplyCommand(f, c)) = AfterRunning(f, e)
  BY DEF CommandToEvents
<1>5. \A k : ApplyFermentEvent(k, e) =
               [k EXCEPT !.activePhaseId = c.phase, !.phase = ActivateSinglePhase(k, c.phase)]
  BY DEF ApplyFermentEvent, PhaseEvent
<1> HIDE DEF e
<1>6. ActivateSinglePhase(f, c.phase) \in [Phases -> PhaseStatuses \cup {"absent"}]
  BY DEF ActivateSinglePhase, Ferments, PhaseStatuses
<1>7. ActivateSinglePhase([f EXCEPT !.status = "running"], c.phase)
        = ActivateSinglePhase(f, c.phase)
  BY DEF ActivateSinglePhase, Ferments
<1>8. ApplyFermentEvent(f, e) \in Ferments /\ ApplyFermentEvent(f, e).status = f.status
  <2> DEFINE phase == ActivateSinglePhase(f, c.phase)
  <2>1. ApplyFermentEvent(f, e) = [f EXCEPT !.activePhaseId = c.phase, !.phase = phase]
    BY <1>5
  <2>2. phase \in [Phases -> PhaseStatuses \cup {"absent"}]
    BY <1>6
  <2> HIDE DEF phase
  <2> QED
    BY <1>1, <2>1, <2>2 DEF Ferments
<1>9. [ApplyFermentEvent(f, e) EXCEPT !.status = "running"] = ApplyCommand(f, c)
  BY <1>3, <1>5 DEF ActivatePhase, Ferments
<1>10. ApplyFermentEvent([f EXCEPT !.status = "running"], e) = ApplyCommand(f, c)
  BY <1>3, <1>5, <1>7 DEF ActivatePhase, Ferments
<1> QED
  BY <1>2, <1>4, <1>8, <1>9, <1>10, ActivationReadsBack

(* Activating a group: the same, while the group is whole.                 *)
LEMMA ActivateGroupReadsBack ==
    ASSUME NEW f \in Ferments, NEW c \in Commands, Admits(f, c), GroupsWhole(f),
           c.type = "activate_phase_group"
    PROVE  ReadBack(f, c)
<1> DEFINE started == PlannedInGroup(f, c.group)
           e == [type |-> "phase_group_activated", phases |-> started]
<1>1. c.group \in Groups
  BY CommandArguments DEF PhaseCommands, StepCommands, PlainCommands
<1>2. f.status # "paused" /\ started # {}
  BY DEF Admits, BridgeAdmits, CommandsAllowedWhilePaused, Accepts
<1>3. ApplyCommand(f, c) = ActivatePhaseGroup(f, c.group)
  BY DEF ApplyCommand
<1>4. CommandToEvents(c, f, ApplyCommand(f, c)) = AfterRunning(f, e)
  BY <1>1, <1>3, NewlyStartedPlanned DEF CommandToEvents
<1>5. \A k : ApplyFermentEvent(k, e) = GroupActivated(k, started)
  BY DEF ApplyFermentEvent
<1>6. First(started) \in Phases
  BY <1>2, FirstPhase DEF PlannedInGroup
<1> HIDE DEF e, started
<1>7. GroupActivated(f, started) \in Ferments /\ GroupActivated(f, started).status = f.status
  <2> DEFINE phase == [q \in Phases |-> IF q \in started THEN "active"
                                          ELSE IF f.phase[q] = "active" THEN "planned"
                                          ELSE f.phase[q]]
  <2>1. phase \in [Phases -> PhaseStatuses \cup {"absent"}]
    BY DEF Ferments, PhaseStatuses
  <2>2. GroupActivated(f, started) = [f EXCEPT !.activePhaseId = First(started), !.phase = phase]
    BY DEF GroupActivated
  <2> HIDE DEF phase
  <2> QED
    BY <1>6, <2>1, <2>2 DEF Ferments
<1>8. [GroupActivated(f, started) EXCEPT !.status = "running"] = ApplyCommand(f, c)
  BY <1>1, <1>2, <1>3, GroupActivatedAgrees DEF started
<1>9. GroupActivated([f EXCEPT !.status = "running"], started) = ApplyCommand(f, c)
  <2>1. GroupActivated([f EXCEPT !.status = "running"], started)
          = [GroupActivated(f, started) EXCEPT !.status = "running"]
    BY DEF GroupActivated, Ferments
  <2> QED
    BY <1>8, <2>1
<1> QED
  BY <1>2, <1>4, <1>5, <1>7, <1>8, <1>9, ActivationReadsBack

(* Re-refining writes the step list as the reducer built it. *)
LEMMA RefineReadsBack ==
    ASSUME NEW f \in Ferments, NEW c \in Commands, Admits(f, c), c.type = "refine_phase"
    PROVE  ReadBack(f, c)
<1> DEFINE g == ApplyCommand(f, c)
           e == [type |-> "phase_refined", phase |-> c.phase, step |-> g.step[c.phase],
                 stepGroup |-> g.stepGroup[c.phase]]
<1>1. c.phase \in Phases
  BY CommandArguments DEF PhaseCommands, StepCommands, PlainCommands
<1>2. g = RefinePhase(f, c.phase, c.steps)
  BY DEF ApplyCommand
<1>3. /\ g.step[c.phase] = BuildSteps(c.steps)
      /\ g.stepGroup[c.phase] = BuildStepGroups(c.steps)
  BY <1>1, <1>2 DEF RefinePhase, Ferments
<1>4. CommandToEvents(c, f, g) = <<e>>
  BY DEF CommandToEvents
<1>5. ApplyFermentEvent(f, e)
        = [f EXCEPT !.step[c.phase] = g.step[c.phase],
                    !.stepGroup[c.phase] = g.stepGroup[c.phase]]
  BY DEF ApplyFermentEvent
<1> HIDE DEF e
<1>6. ApplyFermentEvent(f, e) = g
  BY <1>2, <1>3, <1>5 DEF RefinePhase
<1> QED
  BY <1>4, <1>6, SingleEventReadsBack

(* A command whose only event folds to what the reducer returns. *)
SoleEvent(f, c, e) ==
    /\ CommandToEvents(c, f, ApplyCommand(f, c)) = <<e>>
    /\ ApplyFermentEvent(f, e) = ApplyCommand(f, c)

(* Such a command reads back.                                              *)
LEMMA SoleEventReadsBack ==
    ASSUME NEW f, NEW c, NEW e, SoleEvent(f, c, e)
    PROVE  ReadBack(f, c)
  BY SingleEventReadsBack DEF SoleEvent

(* The commands on a step have one event of their own. *)
LEMMA StepReadsBack ==
    ASSUME NEW f \in Ferments, NEW c \in Commands, c.type \in StepCommands
    PROVE  ReadBack(f, c)
<1>1. c.type = "start_step" => SoleEvent(f, c, StepEvent("step_started", c.phase, c.step))
  BY DEF SoleEvent, CommandToEvents, ApplyFermentEvent, ApplyCommand, StepEvent
<1>2. c.type = "complete_step" => SoleEvent(f, c, StepEvent("step_completed", c.phase, c.step))
  BY DEF SoleEvent, CommandToEvents, ApplyFermentEvent, ApplyCommand, StepEvent
<1>3. c.type = "verify_pass" => SoleEvent(f, c, StepEvent("step_verified", c.phase, c.step))
  BY DEF SoleEvent, CommandToEvents, ApplyFermentEvent, ApplyCommand, StepEvent
<1>4. c.type = "verify_fail" => SoleEvent(f, c, StepEvent("step_not_verified", c.phase, c.step))
  BY DEF SoleEvent, CommandToEvents, ApplyFermentEvent, ApplyCommand, StepEvent
<1>5. c.type = "skip_step" => SoleEvent(f, c, StepEvent("step_skipped", c.phase, c.step))
  BY DEF SoleEvent, CommandToEvents, ApplyFermentEvent, ApplyCommand, StepEvent
<1>6. c.type = "fail_step" => SoleEvent(f, c, StepEvent("step_failed", c.phase, c.step))
  BY DEF SoleEvent, CommandToEvents, ApplyFermentEvent, ApplyCommand, StepEvent
<1>7. c.type = "update_step_description" => SoleEvent(f, c, Event("step_description_updated"))
  BY DEF SoleEvent, CommandToEvents, ApplyFermentEvent, ApplyCommand, Event
<1> QED
  BY <1>1, <1>2, <1>3, <1>4, <1>5, <1>6, <1>7, SoleEventReadsBack DEF StepCommands

(* The commands that end a phase have one event, which settles the ferment *)
(* as the command does.                                                    *)
LEMMA EndReadsBack ==
    ASSUME NEW f \in Ferments, NEW c \in Commands,
           c.type \in {"complete_phase", "skip_phase", "fail_phase"}
    PROVE  ReadBack(f, c)
<1>1. c.type = "complete_phase" => SoleEvent(f, c, PhaseEvent("phase_completed", c.phase))
  BY DEF SoleEvent, CommandToEvents, ApplyFermentEvent, ApplyCommand, PhaseEvent
<1>2. c.type = "skip_phase" => SoleEvent(f, c, PhaseEvent("phase_skipped", c.phase))
  BY DEF SoleEvent, CommandToEvents, ApplyFermentEvent, ApplyCommand, PhaseEvent
<1>3. c.type = "fail_phase" => SoleEvent(f, c, PhaseEvent("phase_failed", c.phase))
  BY DEF SoleEvent, CommandToEvents, ApplyFermentEvent, ApplyCommand, PhaseEvent
<1> QED
  BY <1>1, <1>2, <1>3, SoleEventReadsBack

(* So have the commands on the ferment as a whole. *)
LEMMA PlainReadsBack ==
    ASSUME NEW f \in Ferments, NEW c \in Commands, c.type \in PlainCommands
    PROVE  ReadBack(f, c)
<1>1. c.type = "complete_ferment" => SoleEvent(f, c, Event("ferment_completed"))
  BY DEF SoleEvent, CommandToEvents, ApplyFermentEvent, ApplyCommand, Event
<1>2. c.type = "pause" => SoleEvent(f, c, Event("ferment_paused"))
  BY DEF SoleEvent, CommandToEvents, ApplyFermentEvent, ApplyCommand, Event
<1>3. c.type = "resume" => SoleEvent(f, c, Event("ferment_resumed"))
  BY DEF SoleEvent, CommandToEvents, ApplyFermentEvent, ApplyCommand, Event
<1>4. c.type = "abandon" => SoleEvent(f, c, Event("ferment_abandoned"))
  BY DEF SoleEvent, CommandToEvents, ApplyFermentEvent, ApplyCommand, Event
<1> QED
  BY <1>1, <1>2, <1>3, <1>4, SoleEventReadsBack DEF PlainCommands

(* Every admitted command reads back as the reducer decided it, for every  *)
(* ferment whose parallel groups are activated as a whole.                 *)
THEOREM CommandsReadBack ==
    ASSUME NEW f \in Ferments, NEW c \in Commands, Admits(f, c), GroupsWhole(f)
    PROVE  ReadBack(f, c)
<1>1. \/ c.type \in {"scope", "refine_phase", "activate_phase_group", "activate_phase"}
      \/ c.type \in {"complete_phase", "skip_phase", "fail_phase"}
      \/ c.type \in StepCommands \cup PlainCommands
  BY CommandArguments DEF PhaseCommands
<1> QED
  BY <1>1, ScopeReadsBack, RefineReadsBack, ActivateGroupReadsBack, ActivatePhaseReadsBack,
     EndReadsBack, StepReadsBack, PlainReadsBack

-----------------------------------------------------------------------------
(* What every write keeps.  The parallel groups of the ferment that is     *)
(* read must be whole, or reader and reducer would part ways at the next   *)
(* group activation; Work is all these promises depend on.                 *)
SoundRead(f) == f \in Ferments /\ GroupsWhole(f) /\ OneGroupActive(f) /\ QuietWhenPaused(f)

SoundLog ==
    /\ TypeOK
    /\ Readable => SoundRead(Get)
    /\ SoundRead(snap)
    /\ FoldMatchesSnapshot

(* Soundness depends on the work and on not being paused, no more.         *)
LEMMA SameWork ==
    ASSUME NEW f \in Ferments, NEW h \in Ferments, SoundRead(f),
           Work(h) = Work(f), h.status # "paused"
    PROVE  SoundRead(h)
  BY DEF SoundRead, Work, GroupsWhole, OneGroupActive, QuietWhenPaused, PhasesIn

(* What the reducer returns is as sound as what it was given, as phases of *)
(* a group are never activated one by one.                                 *)
LEMMA ReducedIsSound ==
    ASSUME MenuActivation = FALSE, NEW c \in Commands, Accepted(c), SoundRead(Get)
    PROVE  SoundRead(ApplyCommand(Get, c))
<1> DEFINE g == ApplyCommand(Get, c)
<1>1. /\ c.type # "activate_phase" => OtherwiseReduces(Get, g)
      /\ Reduces(Get, g)
  BY AdmittedReduces DEF Accepted
<1>2. Get \in Ferments
  BY DEF SoundRead
<1>3. g \in Ferments
  BY <1>1, <1>2, ReducesType
<1>4. OneGroupActive(g)
  BY <1>1, <1>2, ReducesOneGroupActive DEF SoundRead
<1>5. QuietWhenPaused(g)
  BY <1>1, <1>2, ReducesQuietWhenPaused DEF SoundRead
<1>6. GroupsWhole(g)
  <2>1. CASE c.type = "activate_phase"
    <3>1. Get.phaseGroup[c.phase] = NoGroup
      BY <2>1 DEF Accepted, Issued
    <3>2. c.phase \in Phases
      BY <2>1, CommandArguments DEF PhaseCommands, StepCommands, PlainCommands
    <3>3. g = ActivatePhase(Get, c.phase)
      BY <2>1 DEF ApplyCommand
    <3> QED
      BY <1>2, <3>1, <3>2, <3>3, ReducesGroupsWhole DEF SoundRead
  <2>2. CASE c.type # "activate_phase"
    BY <1>1, <1>2, <2>2, ReducesGroupsWhole DEF SoundRead
  <2> QED
    BY <2>1, <2>2
<1> QED
  BY <1>3, <1>4, <1>5, <1>6 DEF SoundRead

(* A write of command c that keeps the events kept: all of them, or a part. *)
WriteOf(c, kept) ==
    /\ Accepted(c)
    /\ \/ kept = EventsOf(c) /\ torn' = FALSE
       \/ kept \in SomeOf(EventsOf(c)) /\ torn' = TRUE
    /\ snap' = ApplyCommand(Get, c)
    /\ log' = AppendEvents(kept)

(* Every step but a deletion is a write of some command. *)
LEMMA NextIsWrite ==
    ASSUME Next, ~DeletedElsewhere
    PROVE  \E c \in Commands : \E kept : WriteOf(c, kept)
  BY DEF Next, Write, TornWrite, Mutate, WriteOf

(* The work that is read after a write is that of before or of after it.   *)
LEMMA WriteSound ==
    ASSUME MenuActivation = FALSE, SoundLog, Next, ~DeletedElsewhere
    PROVE  /\ SoundLog'
           /\ log \in Ferments /\ log' \in Ferments => Work(log') \in {Work(log), Work(snap')}
<1>0. PICK c \in Commands : \E kept : WriteOf(c, kept)
  BY NextIsWrite
<1>1. PICK kept :
        /\ Accepted(c)
        /\ \/ kept = EventsOf(c) /\ torn' = FALSE
           \/ kept \in SomeOf(EventsOf(c)) /\ torn' = TRUE
        /\ snap' = ApplyCommand(Get, c)
        /\ log' = AppendEvents(kept)
  BY <1>0 DEF WriteOf
<1>2. SoundRead(Get) /\ Admits(Get, c) /\ Readable
  BY <1>1 DEF Accepted, SoundLog
<1>3. SoundRead(snap')
  BY <1>1, <1>2, ReducedIsSound
<1>4. ReadBack(Get, c)
  BY <1>2, CommandsReadBack DEF SoundRead
<1>5. snap' \in Ferments /\ torn' \in BOOLEAN
  BY <1>1, <1>3 DEF SoundRead
<1>6. BrokenLog \notin Ferments /\ NoLog \notin Ferments /\ NoLog # BrokenLog
  BY LogAssumption
<1>7. CASE log \in Ferments
  <2>1. Get = log /\ log \in Ferments
    BY <1>6, <1>7 DEF Get
  <2>2. CASE kept = <<>>
    <3>1. log' = log
      BY <1>1, <2>2 DEF AppendEvents
    <3>2. torn' = TRUE
      BY <1>1, <1>4, <2>2 DEF ReadBack, EventsOf
    <3>3. Get' = log
      BY <1>6, <1>7, <3>1 DEF Get
    <3> QED
      BY <1>2, <1>3, <1>5, <1>7, <2>1, <3>1, <3>2, <3>3
      DEF SoundLog, TypeOK, FoldMatchesSnapshot
  <2>3. CASE kept # <<>>
    <3>1. log' = ApplyEvents(log, kept)
      BY <1>1, <1>7, <2>3 DEF AppendEvents
    <3>2. CASE kept = EventsOf(c)
      <4>1. log' = snap'
        BY <1>1, <1>4, <2>1, <3>1, <3>2 DEF ReadBack, EventsOf
      <4>2. Get' = snap'
        BY <1>5, <1>6, <4>1 DEF Get
      <4> QED
        BY <1>3, <1>5, <4>1, <4>2 DEF SoundLog, TypeOK, FoldMatchesSnapshot
    <3>3. CASE kept \in SomeOf(EventsOf(c)) /\ torn' = TRUE
      <4>1. /\ log' \in Ferments
            /\ Work(log') \in {Work(log), Work(snap')}
            /\ log'.status # "paused"
        BY <1>1, <1>4, <2>1, <2>3, <3>1, <3>3 DEF ReadBack, EventsOf
      <4>2. SoundRead(log')
        BY <1>2, <1>3, <1>5, <2>1, <4>1, SameWork
      <4>3. Get' = log'
        BY <1>6, <4>1 DEF Get
      <4> QED
        BY <1>3, <1>5, <3>3, <4>1, <4>2, <4>3 DEF SoundLog, TypeOK, FoldMatchesSnapshot
    <3> QED
      BY <1>1, <3>2, <3>3
  <2> QED
    BY <2>2, <2>3
<1>8. CASE log \notin Ferments
  <2>1. log = NoLog
    BY <1>2, <1>8 DEF SoundLog, TypeOK, Readable
  <2>2. log' = NoLog \/ log' = BrokenLog
    BY <1>1, <1>8, <2>1 DEF AppendEvents
  <2>3. log' = NoLog => Get' = snap'
    BY DEF Get
  <2> QED
    BY <1>3, <1>5, <1>6, <1>8, <2>2, <2>3
    DEF SoundLog, TypeOK, FoldMatchesSnapshot, Readable
<1> QED
  BY <1>7, <1>8

(* A deletion leaves the cached document, which is sound.                  *)
LEMMA DeletionSound ==
    ASSUME SoundLog, DeletedElsewhere
    PROVE  SoundLog' /\ log' \notin Ferments
<1>1. log' = NoLog /\ torn' = TRUE /\ snap' = snap
  BY DEF DeletedElsewhere
<1>2. Get' = snap /\ NoLog \notin Ferments
  BY <1>1, LogAssumption DEF Get
<1> QED
  BY <1>1, <1>2 DEF SoundLog, TypeOK, FoldMatchesSnapshot

LEMMA StepSound ==
    ASSUME MenuActivation = FALSE, SoundLog, Next
    PROVE  /\ SoundLog'
           /\ log \in Ferments /\ log' \in Ferments => Work(log') \in {Work(log), Work(snap')}
BY WriteSound, DeletionSound

(* A new ferment is read as it was written.                                *)
LEMMA InitSoundLog == Init => SoundLog
<1> SUFFICES ASSUME Init PROVE SoundLog
  OBVIOUS
<1>1. snap = NewFerment /\ log \in {NewFerment, NoLog} /\ torn = FALSE
  BY DEF Init
<1>2. NewFerment \in Ferments
  BY NewFermentType
<1>3. Get = NewFerment
  BY <1>1 DEF Get
<1>4. SoundRead(NewFerment)
  BY <1>2 DEF SoundRead, NewFerment, GroupsWhole, OneGroupActive, QuietWhenPaused, PhasesIn
<1> QED
  BY <1>1, <1>2, <1>3, <1>4, LogAssumption DEF SoundLog, TypeOK, FoldMatchesSnapshot

(* Nothing is lost while nothing is written.                               *)
LEMMA StutterSoundLog == SoundLog /\ UNCHANGED vars => SoundLog'
  BY DEF SoundLog, vars, TypeOK, Readable, SoundRead, Get, FoldMatchesSnapshot

(* As long as grouped phases are activated by their group, every whole     *)
(* write is read back as it was written, for every plan, every order of    *)
(* commands and any events lost before.                                    *)
THEOREM LogReadsBack ==
    ASSUME MenuActivation = FALSE
    PROVE  Spec => []SoundLog
<1>1. SoundLog /\ [Next]_vars => SoundLog'
  BY StepSound, StutterSoundLog
<1> QED
  BY <1>1, InitSoundLog, PTL DEF Spec

(* What is read back is what was written. *)
THEOREM FoldAlwaysMatches ==
    ASSUME MenuActivation = FALSE
    PROVE  Spec => []FoldMatchesSnapshot
<1>1. SoundLog => FoldMatchesSnapshot
  BY DEF SoundLog
<1> QED
  BY <1>1, LogReadsBack, PTL

(* Whatever events are lost, the ferment read back keeps its groups apart  *)
(* and is quiet while it is paused.                                        *)
THEOREM LogStaysSound ==
    ASSUME MenuActivation = FALSE
    PROVE  Spec => []LogIsSound
<1>1. SoundLog => LogIsSound
  BY LogAssumption DEF SoundLog, LogIsSound, SoundRead, Readable, Get
<1> QED
  BY <1>1, LogReadsBack, PTL

(* A torn write keeps the work of its command as a whole or loses it.      *)
THEOREM TornWritesKeepWork ==
    ASSUME MenuActivation = FALSE
    PROVE  Spec => TornKeepsWorkWhole
<1>1. SoundLog /\ [Next]_vars =>
        [(log \in Ferments /\ log' \in Ferments)
           => Work(log') \in {Work(log), Work(snap')}]_vars
  BY StepSound
<1> QED
  BY <1>1, LogReadsBack, PTL DEF Spec, TornKeepsWorkWhole

(* Whole writes move the ferment the log folds to as the reducer does.     *)
LEMMA WholeWrite ==
    ASSUME MenuActivation = FALSE, SoundLog, Next, log \in Ferments, ~torn'
    PROVE  Store!Next
<1>1. ~DeletedElsewhere
  BY DEF DeletedElsewhere
<1>2. PICK c \in Commands : \E kept : WriteOf(c, kept)
  BY <1>1, NextIsWrite
<1>3. Get = log
  BY LogAssumption DEF Get
<1>4. /\ Admits(log, c) /\ SoundRead(log)
      /\ log' = AppendEvents(EventsOf(c))
  BY <1>2, <1>3 DEF WriteOf, Accepted, SoundLog
<1>5. ReadBack(log, c)
  BY <1>4, CommandsReadBack DEF SoundRead
<1>6. log' = ApplyCommand(log, c)
  BY <1>3, <1>4, <1>5 DEF ReadBack, EventsOf, AppendEvents
<1> QED
  BY <1>4, <1>6 DEF Store!Next, Store!Mutate

(* The log alone implements the atomic store, write by whole write, also   *)
(* after writes that lost events.                                          *)
THEOREM LogImplementsStore ==
    ASSUME MenuActivation = FALSE, Legacy = FALSE
    PROVE  Spec => LogIsAtomic
<1>1. Init => Store!Init
  BY DEF Init, Store!Init
<1>2. SoundLog /\ [Next]_vars
        => [(log \in Ferments /\ ~torn') => Store!Next \/ UNCHANGED log]_vars
  BY WholeWrite DEF vars
<1> QED
  BY <1>1, <1>2, LogReadsBack, PTL DEF Spec, LogIsAtomic
=============================================================================
