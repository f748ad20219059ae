-------------------------- MODULE FermentTurnsProofs -------------------------
(***************************************************************************)
(* For any number of ferments, amount of work and choice of boundaries:    *)
(* markers and compactions go together (MarkerInv), and the agent rests    *)
(* for a reason only (SleepInv).                                           *)
(***************************************************************************)
EXTENDS FermentTurns, TLAPS

(* A request is of a ferment that has not ended: its end takes it back.    *)
(* A question is about a running one, asked in the middle of a run: nothing *)
(* else happens until the user has answered, compactions apart.            *)
MarkerInv ==
    /\ TypeOK /\ OneCompaction
    /\ \A f \in pending : status[f] # "ended"
    /\ asking # NoFerment => status[asking] = "running" /\ agent = "busy"

Reasons == {"compacted", "guard", "unanswered", "broken"}

(* SleepIsExplained without looking at what is under way; a compaction     *)
(* under way is one reason more.                                           *)
SleepInv ==
    agent = "idle" /\ asking = NoFerment /\ Automated
        /\ active # NoFerment /\ status[active] = "running"
    => \/ BudgetSpent \/ left[active] = 0 \/ lull \in Reasons
       \/ \E f \in Ferments : compacting[f] > 0

-----------------------------------------------------------------------------
(* The pieces of a turn's end *)

LEMMA WorksTyped ==
    ASSUME TypeOK, NEW d \in Someone, Works(d)
    PROVE  /\ status' \in [Ferments -> {"running", "paused", "ended"}]
           /\ left' \in [Ferments -> 0 .. MaxWork]
           /\ active' \in Someone
BY TurnsAssumption DEF TypeOK, Someone, Works

LEMMA ForgetTyped ==
    ASSUME TypeOK, active' \in Someone
    PROVE  /\ Forget(reactive) \in [Ferments -> 0 .. MAX_CONSECUTIVE_REACTIVE_NUDGES]
           /\ Forget(stops) \in [Ferments -> 0 .. MAX_CONSECUTIVE_STOP_NUDGES]
BY DEF TypeOK, Someone, Forget, MAX_CONSECUTIVE_REACTIVE_NUDGES, MAX_CONSECUTIVE_STOP_NUDGES

LEMMA RequestsTyped ==
    ASSUME TypeOK, NEW d \in Someone
    PROVE  Requested(d) \subseteq Ferments /\ Marked(d) \subseteq Ferments
BY DEF TypeOK, Someone, Requested, Marked

LEMMA DrainTyped ==
    ASSUME TypeOK, NEW d \in Someone, Drain(d)
    PROVE  /\ pending' \subseteq Ferments /\ inFlight' \subseteq Ferments
           /\ compacting' \in [Ferments -> Nat]
<1>1. Ready(d) \subseteq Ferments
  BY RequestsTyped DEF Ready
<1> QED
  BY <1>1, RequestsTyped DEF Drain, TypeOK

LEMMA RunEndsTyped ==
    ASSUME TypeOK, NEW d \in Someone, NEW nudge \in SUBSET Ferments, NEW why, 
           why \in {"none", "unanswered"}, RunEnds(d, nudge, why)
    PROVE  /\ pending' \subseteq Ferments /\ inFlight' \subseteq Ferments
           /\ compacting' \in [Ferments -> Nat]
           /\ agent' \in {"idle", "busy"} /\ queued' \subseteq Ferments
           /\ unasked' \in BOOLEAN /\ guard' \in BOOLEAN
           /\ lull' \in {"none", "compacted", "guard", "unanswered", "broken"}
<1>1. Drain(d)
  BY DEF RunEnds
<1>2. queued \subseteq Ferments /\ unasked \in BOOLEAN /\ guard \in BOOLEAN
  BY DEF TypeOK
<1> QED
  BY <1>1, <1>2, DrainTyped DEF RunEnds

LEMMA RunBreaksTyped ==
    ASSUME TypeOK, NEW d \in Someone, NEW nudge \in SUBSET Ferments, RunBreaks(d, nudge)
    PROVE  /\ pending' \subseteq Ferments /\ inFlight' \subseteq Ferments
           /\ compacting' \in [Ferments -> Nat]
           /\ agent' = "idle" /\ queued' \subseteq Ferments
           /\ unasked' \in BOOLEAN /\ guard' \in BOOLEAN /\ lull' = "broken"
<1>1. queued \subseteq Ferments /\ unasked \in BOOLEAN /\ guard \in BOOLEAN
  BY DEF TypeOK
<1> QED
  BY <1>1, DrainTyped DEF RunBreaks

(* How a turn's tools change status, requests and markers.                 *)
LEMMA WorksEnds ==
    ASSUME MarkerInv, NEW d \in Someone, Works(d)
    PROVE  /\ \A f \in Requested(d) : status'[f] # "ended"
           /\ \A f \in Ferments : status[f] = "ended" => status'[f] = "ended"
           /\ \A f \in Ferments : status'[f] # "ended" => (f \in Marked(d) <=> f \in inFlight)
           /\ Marked(d) \subseteq inFlight
BY DEF MarkerInv, TypeOK, Someone, Works, Requested, Marked

LEMMA DrainKeeps ==
    ASSUME MarkerInv, NEW d \in Someone, Works(d), Drain(d)
    PROVE  OneCompaction' /\ \A f \in pending' : status'[f] # "ended"
<1>1. \A f \in pending' : status'[f] # "ended"
  BY WorksEnds DEF Drain
<1>2. ASSUME NEW f \in Ferments
      PROVE  /\ compacting'[f] <= 1
             /\ f \in inFlight' => compacting'[f] = 1
             /\ status'[f] # "ended" /\ compacting'[f] = 1 => f \in inFlight'
  <2>1. compacting[f] \in {0, 1} /\ (f \in inFlight => compacting[f] = 1)
        /\ (status[f] # "ended" /\ compacting[f] = 1 => f \in inFlight)
    BY DEF MarkerInv, OneCompaction, TypeOK
  <2>2. CASE f \in Ready(d)
    <3>1. f \in Requested(d) /\ f \notin Marked(d) /\ status'[f] # "ended"
      BY <2>2, WorksEnds DEF Ready
    <3>2. f \notin inFlight /\ status[f] # "ended"
      BY <3>1, WorksEnds
    <3>3. compacting'[f] = 1 /\ f \in inFlight'
      BY <2>1, <2>2, <3>2 DEF Drain
    <3> QED
      BY <3>3
  <2>3. CASE f \notin Ready(d)
    <3>1. compacting'[f] = compacting[f] /\ (f \in inFlight' <=> f \in Marked(d))
      BY <2>1, <2>3 DEF Drain
    <3> QED
      BY <2>1, <3>1, WorksEnds
  <2> QED
    BY <2>2, <2>3
<1> QED
  BY <1>1, <1>2 DEF OneCompaction

LEMMA NothingWorked ==
    UNCHANGED <<status, left, active>> => Works(NoFerment) /\ NoFerment \in Someone
BY DEF Works, Someone

-----------------------------------------------------------------------------
(* Types and markers, turn by turn *)

LEMMA InitMarkers == Init => MarkerInv
<1> SUFFICES ASSUME Init PROVE MarkerInv
  OBVIOUS
<1>1. left \in [Ferments -> 0 .. MaxWork] /\ commands \in 0 .. MaxCommands
  BY TurnsAssumption DEF Init
<1>2. /\ reactive \in [Ferments -> 0 .. MAX_CONSECUTIVE_REACTIVE_NUDGES]
      /\ stops \in [Ferments -> 0 .. MAX_CONSECUTIVE_STOP_NUDGES]
  BY DEF Init, MAX_CONSECUTIVE_REACTIVE_NUDGES, MAX_CONSECUTIVE_STOP_NUDGES
<1>3. compacting \in [Ferments -> Nat] /\ \A f \in Ferments : compacting[f] = 0
  BY DEF Init
<1>4. /\ status \in [Ferments -> {"running", "paused", "ended"}]
      /\ active \in Someone /\ asking \in Someone
      /\ policy \in {"manual", "automated", "headless"} /\ agent \in {"idle", "busy"}
      /\ guard \in BOOLEAN /\ unasked \in BOOLEAN /\ onward \in BOOLEAN
      /\ lull \in {"none", "compacted", "guard", "unanswered", "broken"}
      /\ queued = {} /\ pending = {} /\ inFlight = {} /\ asking = NoFerment
  BY DEF Init, Someone
<1> QED
  BY <1>1, <1>2, <1>3, <1>4 DEF MarkerInv, TypeOK, OneCompaction

LEMMA ToolTurnKeeps ==
    ASSUME MarkerInv, NEW d \in Someone, ToolTurn(d) PROVE MarkerInv'
<1> USE DEF MarkerInv
<1>1. Works(d) /\ reactive' = Forget(reactive) /\ stops' = Forget(stops)
  BY DEF ToolTurn
<1>2. /\ status' \in [Ferments -> {"running", "paused", "ended"}]
      /\ left' \in [Ferments -> 0 .. MaxWork] /\ active' \in Someone
      /\ reactive' \in [Ferments -> 0 .. MAX_CONSECUTIVE_REACTIVE_NUDGES]
      /\ stops' \in [Ferments -> 0 .. MAX_CONSECUTIVE_STOP_NUDGES]
  BY <1>1, WorksTyped, ForgetTyped
<1>3. /\ asking' = NoFerment /\ NoFerment \in Someone /\ policy' \in {"manual", "automated", "headless"}
      /\ agent' \in {"idle", "busy"} /\ queued' \subseteq Ferments /\ guard' \in BOOLEAN
      /\ lull' \in {"none", "compacted", "guard", "unanswered", "broken"}
      /\ unasked' \in BOOLEAN /\ onward' \in BOOLEAN /\ commands' \in 0 .. MaxCommands
  BY DEF ToolTurn, AtTurn, TypeOK, Someone
<1>4. CASE active' # NoFerment
  <2>1. Drain(d)
    BY <1>4 DEF ToolTurn
  <2>2. OneCompaction' /\ \A f \in pending' : status'[f] # "ended"
    BY <1>1, <2>1, DrainKeeps
  <2>3. pending' \subseteq Ferments /\ inFlight' \subseteq Ferments /\ compacting' \in [Ferments -> Nat]
    BY <2>1, DrainTyped
  <2> QED
    BY <1>2, <1>3, <2>2, <2>3 DEF TypeOK
<1>5. CASE active' = NoFerment
  <2>1. pending' = Requested(d) /\ inFlight' = Marked(d) /\ UNCHANGED compacting
    BY <1>5 DEF ToolTurn
  <2>2. pending' \subseteq Ferments /\ inFlight' \subseteq Ferments /\ compacting' \in [Ferments -> Nat]
    BY <2>1, RequestsTyped DEF TypeOK
  <2>3. OneCompaction' /\ \A f \in pending' : status'[f] # "ended"
    BY <1>1, <2>1, WorksEnds DEF OneCompaction
  <2> QED
    BY <1>2, <1>3, <2>2, <2>3 DEF TypeOK
<1> QED
  BY <1>4, <1>5

(* What the ways for a run to end have in common.                          *)
LEMMA RunEndsKeeps ==
    ASSUME MarkerInv, NEW d \in Someone, Works(d),
           NEW nudge \in SUBSET Ferments, NEW why \in {"none", "unanswered"},
           RunEnds(d, nudge, why),
           asking = NoFerment, UNCHANGED <<policy, asking, onward, commands>>,
           reactive' \in [Ferments -> 0 .. MAX_CONSECUTIVE_REACTIVE_NUDGES],
           stops' \in [Ferments -> 0 .. MAX_CONSECUTIVE_STOP_NUDGES]
    PROVE  MarkerInv'
<1> USE DEF MarkerInv
<1>1. Drain(d)
  BY DEF RunEnds
<1>2. OneCompaction' /\ \A f \in pending' : status'[f] # "ended"
  BY <1>1, DrainKeeps
<1>3. /\ status' \in [Ferments -> {"running", "paused", "ended"}]
      /\ left' \in [Ferments -> 0 .. MaxWork] /\ active' \in Someone
  BY WorksTyped
<1> QED
  BY <1>2, <1>3, RunEndsTyped DEF TypeOK

LEMMA RunBreaksKeeps ==
    ASSUME MarkerInv, NEW d \in Someone, Works(d),
           NEW nudge \in SUBSET Ferments, RunBreaks(d, nudge),
           asking = NoFerment, UNCHANGED <<policy, asking, onward, commands>>,
           reactive' \in [Ferments -> 0 .. MAX_CONSECUTIVE_REACTIVE_NUDGES],
           stops' \in [Ferments -> 0 .. MAX_CONSECUTIVE_STOP_NUDGES]
    PROVE  MarkerInv'
<1> USE DEF MarkerInv
<1>1. Drain(d)
  BY DEF RunBreaks
<1>2. OneCompaction' /\ \A f \in pending' : status'[f] # "ended"
  BY <1>1, DrainKeeps
<1>3. /\ status' \in [Ferments -> {"running", "paused", "ended"}]
      /\ left' \in [Ferments -> 0 .. MaxWork] /\ active' \in Someone
  BY WorksTyped
<1> QED
  BY <1>2, <1>3, RunBreaksTyped DEF TypeOK

LEMMA BrokenTurnKeeps ==
    ASSUME MarkerInv, NEW d \in Someone, BrokenTurn(d) PROVE MarkerInv'
<1>1. /\ Works(d) /\ reactive' = Forget(reactive) /\ stops' = Forget(stops)
      /\ RunBreaks(d, {}) /\ asking = NoFerment /\ UNCHANGED <<policy, asking, onward, commands>>
  BY DEF BrokenTurn, AtTurn
<1>2. /\ reactive' \in [Ferments -> 0 .. MAX_CONSECUTIVE_REACTIVE_NUDGES]
      /\ stops' \in [Ferments -> 0 .. MAX_CONSECUTIVE_STOP_NUDGES]
  BY <1>1, WorksTyped, ForgetTyped DEF MarkerInv
<1> QED
  BY <1>1, <1>2, RunBreaksKeeps

LEMMA TextTurnKeeps == ASSUME MarkerInv, TextTurn PROVE MarkerInv'
<1> DEFINE n == IF /\ active # NoFerment /\ Automated /\ Continues(active, FALSE, FALSE)
                   /\ reactive[active] < MAX_CONSECUTIVE_REACTIVE_NUDGES
                THEN {active} ELSE {}
<1>1. /\ RunEnds(NoFerment, n, "none") \/ RunBreaks(NoFerment, n)
      /\ asking = NoFerment
      /\ UNCHANGED <<status, left, policy, active, asking, onward, stops, commands>>
  BY DEF TextTurn, AtTurn, plan
<1>2. n \in SUBSET Ferments
  BY DEF MarkerInv, TypeOK, Someone
<1>3. reactive' \in [Ferments -> 0 .. MAX_CONSECUTIVE_REACTIVE_NUDGES]
  <2>1. reactive \in [Ferments -> 0 .. 1]
    BY DEF MarkerInv, TypeOK, MAX_CONSECUTIVE_REACTIVE_NUDGES
  <2>2. CASE active = NoFerment
    BY <2>1, <2>2 DEF TextTurn, MAX_CONSECUTIVE_REACTIVE_NUDGES
  <2>3. CASE active # NoFerment
    <3>1. active \in Ferments /\ reactive[active] \in 0 .. 1
      BY <2>1, <2>3 DEF MarkerInv, TypeOK, Someone
    <3>2. \/ reactive' = [reactive EXCEPT ![active] = @ + 1] /\ reactive[active] < 1
          \/ reactive' = [reactive EXCEPT ![active] = 0] \/ reactive' = reactive
      BY DEF TextTurn, MAX_CONSECUTIVE_REACTIVE_NUDGES
    <3> QED
      BY <2>1, <3>1, <3>2 DEF MAX_CONSECUTIVE_REACTIVE_NUDGES
  <2> QED
    BY <2>2, <2>3
<1>4. stops' \in [Ferments -> 0 .. MAX_CONSECUTIVE_STOP_NUDGES]
  BY <1>1 DEF MarkerInv, TypeOK
<1> HIDE DEF n
<1> QED
  BY <1>1, <1>2, <1>3, <1>4, NothingWorked, RunEndsKeeps, RunBreaksKeeps

LEMMA StopTurnKeeps == ASSUME MarkerInv, NEW d \in Someone, StopTurn(d) PROVE MarkerInv'
<1>1. /\ Works(d) /\ reactive' = Forget(reactive)
      /\ asking = NoFerment /\ UNCHANGED <<policy, asking, onward, commands>>
  BY DEF StopTurn, AtTurn
<1>2. active' \in Someone
  BY <1>1, WorksTyped DEF MarkerInv
<1>3. (RunEnds(d, {active'}, "none") /\ active' # NoFerment) \/ RunEnds(d, {}, "none")
  BY DEF StopTurn
<1>4. PICK nudge \in SUBSET Ferments : RunEnds(d, nudge, "none")
  BY <1>2, <1>3 DEF Someone
<1>5. reactive' \in [Ferments -> 0 .. MAX_CONSECUTIVE_REACTIVE_NUDGES]
  BY <1>1, <1>2, ForgetTyped DEF MarkerInv
<1>6. stops' \in [Ferments -> 0 .. MAX_CONSECUTIVE_STOP_NUDGES]
  BY <1>2 DEF StopTurn, MarkerInv, TypeOK, Someone, MAX_CONSECUTIVE_STOP_NUDGES
<1> QED
  BY <1>1, <1>4, <1>5, <1>6, RunEndsKeeps

LEMMA QuestionKeeps == ASSUME MarkerInv, Question PROVE MarkerInv'
<1>1. asking = NoFerment /\ UNCHANGED <<status, left, policy, active, reactive, stops, commands>>
  BY DEF Question, AtTurn, plan, budgets
<1>2. CASE HasUI
  <2>1. /\ asking' \in Someone /\ status[asking'] = "running" /\ onward' = FALSE /\ agent = "busy"
        /\ UNCHANGED <<agent, queued, unasked, lull, pending, inFlight, compacting, guard>>
    BY <1>2 DEF Question, AtTurn, Rest, requests, MarkerInv, TypeOK
  <2> QED
    BY <1>1, <2>1 DEF MarkerInv, TypeOK, OneCompaction
<1>3. CASE ~HasUI
  <2>1. RunEnds(NoFerment, {}, "unanswered") /\ UNCHANGED <<asking, onward>>
    BY <1>3 DEF Question
  <2> QED
    BY <1>1, <2>1, NothingWorked, RunEndsKeeps DEF MarkerInv, TypeOK
<1> QED
  BY <1>2, <1>3

LEMMA ToolQuestionKeeps ==
    ASSUME MarkerInv, NEW d \in Someone, NEW more \in BOOLEAN, ToolQuestion(d, more)
    PROVE  MarkerInv'
<1>1. /\ Works(d) /\ asking = NoFerment /\ agent = "busy"
      /\ active' # NoFerment /\ status'[active'] = "running"
      /\ UNCHANGED <<policy, commands>>
  BY DEF ToolQuestion, AtTurn
<1>2. /\ status' \in [Ferments -> {"running", "paused", "ended"}]
      /\ left' \in [Ferments -> 0 .. MaxWork] /\ active' \in Someone
  BY <1>1, WorksTyped DEF MarkerInv
<1>3. /\ reactive' \in [Ferments -> 0 .. MAX_CONSECUTIVE_REACTIVE_NUDGES]
      /\ stops' \in [Ferments -> 0 .. MAX_CONSECUTIVE_STOP_NUDGES]
  BY <1>2, ForgetTyped DEF ToolQuestion, MarkerInv, TypeOK
<1>4. CASE HasUI \/ more
  <2>1. /\ pending' = Requested(d) /\ inFlight' = Marked(d)
        /\ unasked' = (unasked /\ ~more) /\ UNCHANGED <<compacting, guard, agent, queued, lull>>
    BY <1>4 DEF ToolQuestion
  <2>2. (asking' = active' /\ onward' = more) \/ UNCHANGED <<asking, onward>>
    BY DEF ToolQuestion
  <2>3. /\ pending' \subseteq Ferments /\ inFlight' \subseteq Ferments
        /\ compacting' \in [Ferments -> Nat] /\ unasked' \in BOOLEAN
    BY <2>1, RequestsTyped DEF MarkerInv, TypeOK
  <2>4. OneCompaction' /\ \A f \in pending' : status'[f] # "ended"
    BY <1>1, <2>1, WorksEnds DEF OneCompaction, MarkerInv
  <2>5. TypeOK'
    BY <1>1, <1>2, <1>3, <2>1, <2>2, <2>3 DEF MarkerInv, TypeOK
  <2> QED
    BY <1>1, <2>1, <2>2, <2>4, <2>5 DEF MarkerInv
<1>5. CASE ~(HasUI \/ more)
  <2>1. RunEnds(d, {}, "unanswered") /\ UNCHANGED <<asking, onward>>
    BY <1>5 DEF ToolQuestion
  <2> QED
    BY <1>1, <1>3, <2>1, RunEndsKeeps
<1> QED
  BY <1>4, <1>5

(* A compaction that ends takes its marker along.                          *)
LEMMA CompactionEndsKeeps ==
    ASSUME MarkerInv, NEW f \in Ferments, compacting[f] > 0,
           compacting' = [compacting EXCEPT ![f] = @ - 1], inFlight' = inFlight \ {f},
           UNCHANGED <<status, left, policy, asking, onward, pending, guard, reactive, stops,
                       commands>>,
           asking # NoFerment => agent' = "busy",
           active' \in Someone, agent' \in {"idle", "busy"}, queued' \subseteq Ferments,
           lull' \in {"none", "compacted", "guard", "unanswered", "broken"}, unasked' \in BOOLEAN
    PROVE  MarkerInv'
<1>1. compacting \in [Ferments -> Nat] /\ inFlight \subseteq Ferments
  BY DEF MarkerInv, TypeOK
<1>2. compacting[f] = 1
  BY <1>1 DEF MarkerInv, OneCompaction
<1>3. compacting' = [compacting EXCEPT ![f] = 0]
  BY <1>1, <1>2
<1>4. TypeOK'
  BY <1>1, <1>3 DEF MarkerInv, TypeOK
<1>5. OneCompaction'
  BY <1>1, <1>3 DEF MarkerInv, OneCompaction
<1> QED
  BY <1>4, <1>5 DEF MarkerInv

LEMMA CompactOkKeeps == ASSUME MarkerInv, NEW f \in Ferments, CompactOk(f) PROVE MarkerInv'
<1>1. /\ compacting[f] > 0 /\ compacting' = [compacting EXCEPT ![f] = @ - 1]
      /\ inFlight' = inFlight \ {f}
      /\ UNCHANGED <<status, left, policy, asking, onward, pending, guard, reactive, stops, commands>>
  BY DEF CompactOk, plan, budgets
<1>2. /\ active' \in Someone /\ agent' \in {"idle", "busy"} /\ queued' \subseteq Ferments
      /\ lull' \in {"none", "compacted", "guard", "unanswered", "broken"} /\ unasked' \in BOOLEAN
      /\ asking # NoFerment => agent' = "busy"
  BY DEF CompactOk, Post, Rest, NobodyWoken, MarkerInv, TypeOK, Someone
<1> QED
  BY <1>1, <1>2, CompactionEndsKeeps

LEMMA CompactFailsKeeps == ASSUME MarkerInv, NEW f \in Ferments, CompactFails(f) PROVE MarkerInv'
<1>1. /\ compacting[f] > 0 /\ compacting' = [compacting EXCEPT ![f] = @ - 1]
      /\ inFlight' = inFlight \ {f}
      /\ UNCHANGED <<status, left, policy, asking, onward, pending, guard, reactive, stops, commands>>
  BY DEF CompactFails, plan, budgets
<1>2. /\ active' \in Someone /\ agent' \in {"idle", "busy"} /\ queued' \subseteq Ferments
      /\ lull' \in {"none", "compacted", "guard", "unanswered", "broken"} /\ unasked' \in BOOLEAN
      /\ asking # NoFerment => agent' = "busy"
  BY DEF CompactFails, NobodyWoken, MarkerInv, TypeOK
<1> QED
  BY <1>1, <1>2, CompactionEndsKeeps

(* The user's commands leave compactions alone; only Abandon takes back    *)
(* the request and the marker of the ferment it ends.                      *)
LEMMA MarkersUntouched ==
    ASSUME MarkerInv, UNCHANGED requests,
           \A f \in Ferments : status'[f] = "ended" => status[f] = "ended",
           \A f \in Ferments : status[f] = "ended" => status'[f] = "ended"
    PROVE  /\ OneCompaction' /\ \A f \in pending' : status'[f] # "ended"
           /\ pending' \subseteq Ferments /\ inFlight' \subseteq Ferments
           /\ compacting' \in [Ferments -> Nat] /\ guard' \in BOOLEAN
BY DEF MarkerInv, TypeOK, OneCompaction, requests

LEMMA CommandsKeep ==
    ASSUME MarkerInv,
           Prompt \/ Pause \/ Resume \/ Exit \/ Abandon \/ \E g \in Ferments : Switch(g)
    PROVE  MarkerInv'
<1>1. commands' \in 0 .. MaxCommands
  BY TurnsAssumption DEF MarkerInv, TypeOK, Prompt, Pause, Resume, Exit, Abandon, Switch, Does
<1>2. /\ status' \in [Ferments -> {"running", "paused", "ended"}]
      /\ left' \in [Ferments -> 0 .. MaxWork] /\ active' \in Someone
      /\ asking' = NoFerment /\ NoFerment \in Someone /\ onward' \in BOOLEAN
      /\ policy' \in {"manual", "automated", "headless"} /\ agent' \in {"idle", "busy"}
      /\ stops' \in [Ferments -> 0 .. MAX_CONSECUTIVE_STOP_NUDGES]
  BY DEF MarkerInv, TypeOK, Prompt, Pause, Resume, Exit, Abandon, Switch, Abort, Rest, Wake,
         Does, plan, budgets, Someone
<1>3. reactive' \in [Ferments -> 0 .. MAX_CONSECUTIVE_REACTIVE_NUDGES]
  BY DEF MarkerInv, TypeOK, Prompt, Pause, Resume, Exit, Abandon, Switch, budgets,
         MAX_CONSECUTIVE_REACTIVE_NUDGES
<1>4. /\ queued' \subseteq Ferments /\ unasked' \in BOOLEAN
      /\ lull' \in {"none", "compacted", "guard", "unanswered", "broken"}
  BY DEF MarkerInv, TypeOK, Prompt, Pause, Resume, Exit, Abandon, Switch, Abort, Rest, Wake, Someone
<1>5. CASE ~Abandon
  <2>1. UNCHANGED requests
    BY <1>5 DEF Prompt, Pause, Resume, Exit, Switch
  <2>2. \A f \in Ferments : /\ status'[f] = "ended" => status[f] = "ended"
                            /\ status[f] = "ended" => status'[f] = "ended"
    BY <1>5 DEF MarkerInv, TypeOK, Prompt, Pause, Resume, Exit, Switch, plan
  <2>3. /\ OneCompaction' /\ \A f \in pending' : status'[f] # "ended"
        /\ pending' \subseteq Ferments /\ inFlight' \subseteq Ferments
        /\ compacting' \in [Ferments -> Nat] /\ guard' \in BOOLEAN
    BY <2>1, <2>2, MarkersUntouched
  <2> QED
    BY <1>1, <1>2, <1>3, <1>4, <2>3 DEF MarkerInv, TypeOK
<1>6. CASE Abandon
  <2>1. /\ status' = [status EXCEPT ![active] = "ended"] /\ active \in Ferments
        /\ pending' = pending \ {active} /\ inFlight' = inFlight \ {active}
        /\ UNCHANGED <<compacting, guard>>
    BY <1>6 DEF Abandon, MarkerInv, TypeOK, Someone
  <2>2. OneCompaction' /\ \A f \in pending' : status'[f] # "ended"
    BY <2>1 DEF OneCompaction, MarkerInv, TypeOK
  <2>3. /\ pending' \subseteq Ferments /\ inFlight' \subseteq Ferments
        /\ compacting' \in [Ferments -> Nat] /\ guard' \in BOOLEAN
    BY <2>1 DEF MarkerInv, TypeOK
  <2> QED
    BY <1>1, <1>2, <1>3, <1>4, <2>2, <2>3 DEF MarkerInv, TypeOK
<1> QED
  BY <1>5, <1>6

LEMMA AnswerKeeps == ASSUME MarkerInv, Answer PROVE MarkerInv'
<1>1. /\ asking \in Ferments /\ asking' = NoFerment /\ NoFerment \in Someone /\ onward' = FALSE
      /\ UNCHANGED <<left, policy, reactive, stops, commands>>
  BY DEF Answer, MarkerInv, TypeOK, Someone, budgets
<1>2. PICK nudge \in SUBSET Ferments, why \in {"none", "unanswered"} : GoesOn(nudge, why)
  BY <1>1 DEF Answer
<1>3. /\ active' \in Someone
      /\ status' \in [Ferments -> {"running", "paused", "ended"}]
  BY <1>1 DEF Answer, MarkerInv, TypeOK, Someone
<1>4. status' = status \/ status' = [status EXCEPT ![asking] = "paused"]
  BY DEF Answer
<1>5. \A f \in Ferments : status[f] = "ended" <=> status'[f] = "ended"
  <2>1. status[asking] = "running"
    BY <1>1, TurnsAssumption DEF MarkerInv
  <2> QED
    BY <1>1, <1>4, <2>1 DEF MarkerInv, TypeOK
<1>6. /\ OneCompaction' /\ \A f \in pending' : status'[f] # "ended"
      /\ pending' \subseteq Ferments /\ inFlight' \subseteq Ferments
      /\ compacting' \in [Ferments -> Nat]
      /\ agent' \in {"idle", "busy"} /\ queued' \subseteq Ferments
      /\ unasked' \in BOOLEAN /\ guard' \in BOOLEAN
      /\ lull' \in {"none", "compacted", "guard", "unanswered", "broken"}
  <2>1. CASE onward
    <3>1. queued' = queued \cup nudge /\ UNCHANGED <<agent, unasked, lull, requests>>
      BY <1>2, <2>1 DEF GoesOn
    <3>2. /\ OneCompaction' /\ \A f \in pending' : status'[f] # "ended"
          /\ pending' \subseteq Ferments /\ inFlight' \subseteq Ferments
          /\ compacting' \in [Ferments -> Nat] /\ guard' \in BOOLEAN
      BY <1>5, <3>1, MarkersUntouched
    <3> QED
      BY <3>1, <3>2 DEF MarkerInv, TypeOK
  <2>2. CASE ~onward
    <3>1. RunEnds(NoFerment, nudge, why)
      BY <1>2, <2>2 DEF GoesOn
    <3>2. Drain(NoFerment)
      BY <3>1 DEF RunEnds
    <3>3. OneCompaction' /\ \A f \in pending' : status'[f] # "ended"
      BY <1>5, <3>2 DEF Drain, Ready, Requested, Marked, MarkerInv, OneCompaction, TypeOK
    <3> QED
      BY <1>1, <3>1, <3>3, RunEndsTyped DEF MarkerInv
  <2> QED
    BY <2>1, <2>2
<1> QED
  BY <1>1, <1>3, <1>6 DEF MarkerInv, TypeOK

LEMMA GuardEndsKeeps == ASSUME MarkerInv, GuardEnds PROVE MarkerInv'
BY DEF GuardEnds, MarkerInv, TypeOK, OneCompaction, plan, budgets

LEMMA StepMarkers == MarkerInv /\ [Next]_vars => MarkerInv'
<1> SUFFICES ASSUME MarkerInv, [Next]_vars PROVE MarkerInv'
  OBVIOUS
<1>1. CASE \E d \in Someone : \/ ToolTurn(d) \/ StopTurn(d) \/ BrokenTurn(d)
                              \/ \E more \in BOOLEAN : ToolQuestion(d, more)
  BY <1>1, ToolTurnKeeps, StopTurnKeeps, BrokenTurnKeeps, ToolQuestionKeeps
<1>2. CASE TextTurn \/ Question \/ Answer
  BY <1>2, TextTurnKeeps, QuestionKeeps, AnswerKeeps
<1>3. CASE \E f \in Ferments : CompactOk(f) \/ CompactFails(f)
  BY <1>3, CompactOkKeeps, CompactFailsKeeps
<1>4. CASE GuardEnds
  BY <1>4, GuardEndsKeeps
<1>5. CASE Prompt \/ Pause \/ Resume \/ Exit \/ Abandon \/ \E g \in Ferments : Switch(g)
  BY <1>5, CommandsKeep
<1>6. CASE UNCHANGED vars
  BY <1>6 DEF vars, MarkerInv, TypeOK, OneCompaction
<1> QED
  BY <1>1, <1>2, <1>3, <1>4, <1>5, <1>6 DEF Next

(* Every state has the types the model gives it.                           *)
THEOREM TurnsTyped == Spec => []TypeOK
<1>1. MarkerInv => TypeOK
  BY DEF MarkerInv
<1> QED
  BY <1>1, InitMarkers, StepMarkers, PTL DEF Spec

(* compactionInFlight (state.ts) stands for one compaction under way, and  *)
(* no ferment with work left has two, whatever the turns, the guard and    *)
(* the user do meanwhile.                                                  *)
THEOREM CompactionsAreSingle == Spec => []OneCompaction
<1>1. MarkerInv => OneCompaction
  BY DEF MarkerInv
<1> QED
  BY <1>1, InitMarkers, StepMarkers, PTL DEF Spec

-----------------------------------------------------------------------------
(* Why the agent rests *)

(* A run that ends leaves the agent busy, or a compaction under way, or no *)
(* follow-up and no nudge.                                                 *)
LEMMA RunEndsHow ==
    ASSUME MarkerInv, NEW d \in Someone, NEW nudge, NEW why, RunEnds(d, nudge, why),
           agent' = "idle"
    PROVE  \/ \E f \in Ferments : compacting'[f] > 0
           \/ nudge = {} /\ lull' = why
<1>1. CASE Ready(d) # {}
  <2>1. PICK f \in Ready(d) : f \in Ferments
    BY <1>1, RequestsTyped DEF MarkerInv, Ready
  <2>2. compacting[f] \in Nat /\ compacting'[f] = compacting[f] + 1
    BY <2>1 DEF RunEnds, Drain, MarkerInv, TypeOK
  <2> QED
    BY <2>1, <2>2
<1>2. CASE Ready(d) = {}
  BY <1>2 DEF RunEnds
<1> QED
  BY <1>1, <1>2

LEMMA TurnsRest ==
    ASSUME MarkerInv, NEW d \in Someone,
           \/ ToolTurn(d) \/ StopTurn(d) \/ BrokenTurn(d)
           \/ \E more \in BOOLEAN : ToolQuestion(d, more)
    PROVE  SleepInv'
<1> SUFFICES ASSUME agent' = "idle", Automated', active' # NoFerment, status'[active'] = "running"
             PROVE  \/ BudgetSpent' \/ lull' \in Reasons
                    \/ \E f \in Ferments : compacting'[f] > 0
  BY DEF SleepInv
<1>1. Automated
  BY DEF ToolTurn, StopTurn, BrokenTurn, ToolQuestion, Automated
<1>2. active' \in Ferments
  BY WorksTyped DEF ToolTurn, StopTurn, BrokenTurn, ToolQuestion, MarkerInv, Someone
<1>3. CASE ToolTurn(d)
  <2>1. CASE guard' # guard
    BY <1>3, <2>1 DEF ToolTurn, Reasons
  <2>2. CASE guard' = guard
    <3>1. Ready(d) # {} /\ Drain(d)
      BY <1>3, <2>2 DEF ToolTurn, AtTurn
    <3>2. PICK f \in Ready(d) : f \in Ferments
      BY <3>1, RequestsTyped DEF MarkerInv, Ready
    <3>3. compacting[f] \in Nat /\ compacting'[f] = compacting[f] + 1
      BY <3>1, <3>2 DEF Drain, MarkerInv, TypeOK
    <3> QED
      BY <3>2, <3>3
  <2> QED
    BY <2>1, <2>2
<1>4. CASE StopTurn(d)
  <2>1. CASE stops[active'] < MAX_CONSECUTIVE_STOP_NUDGES
    <3>1. active' # NoFerment /\ Automated /\ status'[active'] = "running"
      BY <1>1
    <3>2. RunEnds(d, {active'}, "none")
      BY <1>4, <2>1, <3>1, Zenon DEF StopTurn
    <3> QED
      BY <3>2, RunEndsHow
  <2>2. CASE ~(stops[active'] < MAX_CONSECUTIVE_STOP_NUDGES)
    <3>1. stops' = stops
      <4>1. status'[active'] = "running" /\ status'[active'] # "paused"
        OBVIOUS
      <4> QED
        BY <1>4, <2>2, <4>1, Zenon DEF StopTurn
    <3>2. stops[active'] = MAX_CONSECUTIVE_STOP_NUDGES
      BY <1>2, <2>2 DEF MarkerInv, TypeOK, MAX_CONSECUTIVE_STOP_NUDGES
    <3> QED
      BY <3>1, <3>2 DEF BudgetSpent
  <2> QED
    BY <2>1, <2>2
<1>5. CASE BrokenTurn(d)
  BY <1>5 DEF BrokenTurn, RunBreaks, Reasons
<1>6. CASE \E more \in BOOLEAN : ToolQuestion(d, more)
  <2>1. RunEnds(d, {}, "unanswered")
    BY <1>6 DEF ToolQuestion, AtTurn
  <2> QED
    BY <2>1, RunEndsHow DEF Reasons
<1> QED
  BY <1>3, <1>4, <1>5, <1>6

LEMMA TextRests == ASSUME MarkerInv, TextTurn \/ Question \/ Answer PROVE SleepInv'
<1> SUFFICES ASSUME agent' = "idle", asking' = NoFerment,
                    Automated', active' # NoFerment, status'[active'] = "running"
             PROVE  \/ BudgetSpent' \/ left'[active'] = 0 \/ lull' \in Reasons
                    \/ \E f \in Ferments : compacting'[f] > 0
  BY DEF SleepInv
<1>1. Automated /\ NoFerment \in Someone /\ UNCHANGED left
  BY DEF TextTurn, Question, Answer, Automated, Someone, plan
<1>2. CASE TextTurn
  <2>1. active' = active /\ status' = status /\ active \in Ferments
    BY <1>2 DEF TextTurn, plan, MarkerInv, TypeOK, Someone
  <2>2. CASE left[active] = 0
    BY <1>1, <2>1, <2>2
  <2>3. CASE left[active] # 0 /\ reactive[active] < MAX_CONSECUTIVE_REACTIVE_NUDGES
    <3>1. Continues(active, FALSE, FALSE)
      BY <1>1, <2>1, <2>3 DEF Continues
    <3>2. RunEnds(NoFerment, {active}, "none") \/ lull' = "broken"
      BY <1>1, <1>2, <2>1, <2>3, <3>1 DEF TextTurn, RunBreaks
    <3> QED
      BY <1>1, <3>2, RunEndsHow DEF Reasons
  <2>4. CASE left[active] # 0 /\ ~(reactive[active] < MAX_CONSECUTIVE_REACTIVE_NUDGES)
    <3>1. reactive' = reactive
      BY <1>2, <2>1, <2>4 DEF TextTurn
    <3>2. reactive[active] = MAX_CONSECUTIVE_REACTIVE_NUDGES
      BY <2>1, <2>4 DEF MarkerInv, TypeOK, MAX_CONSECUTIVE_REACTIVE_NUDGES
    <3> QED
      BY <2>1, <3>1, <3>2 DEF BudgetSpent
  <2> QED
    BY <2>2, <2>3, <2>4
<1>3. CASE Question
  <2>1. RunEnds(NoFerment, {}, "unanswered")
    BY <1>3 DEF Question
  <2> QED
    BY <1>1, <2>1, RunEndsHow DEF Reasons
<1>4. CASE Answer
  <2>1. ~onward
    BY <1>4 DEF Answer, GoesOn, MarkerInv
  <2>2. RunEnds(NoFerment, {}, "unanswered") \/ RunEnds(NoFerment, {asking}, "none")
    BY <1>1, <1>4, <2>1 DEF Answer, GoesOn
  <2> QED
    BY <1>1, <2>2, RunEndsHow DEF Reasons
<1> QED
  BY <1>2, <1>3, <1>4

LEMMA CompactionsRest ==
    ASSUME MarkerInv, SleepInv, NEW f \in Ferments, CompactOk(f) \/ CompactFails(f)
    PROVE  SleepInv'
<1> SUFFICES ASSUME agent' = "idle", Automated'
             PROVE  (active' # NoFerment /\ left'[active'] = 0) \/ lull' \in Reasons
  BY DEF SleepInv
<1>1. Automated /\ UNCHANGED left
  BY DEF CompactOk, CompactFails, Automated, plan
<1>2. CASE CompactOk(f) /\ status[f] = "running"
  <2>1. ~Continues(f, FALSE, FALSE) /\ active' = f
    BY <1>2 DEF CompactOk, Post
  <2>2. left[f] = 0
    BY <1>1, <1>2, <2>1 DEF Continues
  <2>3. f # NoFerment
    BY TurnsAssumption
  <2>4. left' = left
    BY <1>1
  <2> QED
    BY <2>1, <2>2, <2>3, <2>4
<1>3. CASE CompactFails(f) \/ (CompactOk(f) /\ status[f] # "running")
  BY <1>3 DEF CompactOk, CompactFails, NobodyWoken, Reasons
<1> QED
  BY <1>2, <1>3

LEMMA CommandsRest ==
    ASSUME MarkerInv, SleepInv,
           Prompt \/ Pause \/ Resume \/ Exit \/ Abandon \/ \E g \in Ferments : Switch(g)
    PROVE  SleepInv'
<1>1. CASE Prompt \/ \E g \in Ferments : Switch(g)
  BY <1>1 DEF Prompt, Switch, Wake, SleepInv
<1>2. CASE Exit \/ Abandon
  BY <1>2 DEF Exit, Abandon, SleepInv
<1>3. CASE Pause
  <2>1. active' \in Ferments /\ status'[active'] = "paused"
    BY <1>3 DEF Pause, MarkerInv, TypeOK, Someone
  <2> QED
    BY <2>1 DEF SleepInv
<1>4. CASE Resume
  <2>1. Automated' = Automated /\ UNCHANGED <<active, left>>
    BY <1>4 DEF Resume, Automated
  <2>2. agent' = "busy" \/ left[active] = 0 \/ ~Automated
    BY <1>4 DEF Resume, Wake
  <2> QED
    BY <2>1, <2>2 DEF SleepInv
<1> QED
  BY <1>1, <1>2, <1>3, <1>4

LEMMA StepRests == MarkerInv /\ SleepInv /\ [Next]_vars => SleepInv'
<1> SUFFICES ASSUME MarkerInv, SleepInv, [Next]_vars PROVE SleepInv'
  OBVIOUS
<1>1. CASE \E d \in Someone : \/ ToolTurn(d) \/ StopTurn(d) \/ BrokenTurn(d)
                              \/ \E more \in BOOLEAN : ToolQuestion(d, more)
  BY <1>1, TurnsRest
<1>2. CASE TextTurn \/ Question \/ Answer
  BY <1>2, TextRests
<1>3. CASE \E f \in Ferments : CompactOk(f) \/ CompactFails(f)
  BY <1>3, CompactionsRest
<1>4. CASE GuardEnds
  BY <1>4 DEF GuardEnds, plan, budgets, SleepInv, BudgetSpent, Automated
<1>5. CASE Prompt \/ Pause \/ Resume \/ Exit \/ Abandon \/ \E g \in Ferments : Switch(g)
  BY <1>5, CommandsRest
<1>6. CASE UNCHANGED vars
  BY <1>6 DEF vars, SleepInv, BudgetSpent, Automated
<1> QED
  BY <1>1, <1>2, <1>3, <1>4, <1>5, <1>6 DEF Next

(* Under the automated policy the agent comes to rest for one of the       *)
(* reasons SleepIsExplained names, and for no other.                       *)
THEOREM RestHasReason == Spec => []SleepIsExplained
<1>1. Init => SleepInv
  BY DEF Init, SleepInv
<1>2. MarkerInv /\ SleepInv => SleepIsExplained
  <2> SUFFICES ASSUME MarkerInv, SleepInv, Asleep
               PROVE  BudgetSpent \/ left[active] = 0 \/ lull \in Reasons
    BY DEF SleepIsExplained, Reasons
  <2> QED
    BY DEF SleepInv, Asleep
<1> QED
  BY <1>1, <1>2, InitMarkers, StepMarkers, StepRests, PTL DEF Spec

(* What ends a compaction: CompactOk and CompactFails alone.               *)
LEMMA DrainOnlyStarts ==
    ASSUME MarkerInv, NEW d, Drain(d), NEW f \in Ferments
    PROVE  ~(compacting'[f] < compacting[f])
BY DEF Drain, MarkerInv, TypeOK

(* Pausing or ending a ferment while its conversation is compacted lasts:  *)
(* trigger's onComplete and onError (auto-compaction.ts:256-293) neither   *)
(* make it active again nor wake the agent.                                *)
THEOREM PauseLasts == Spec => PauseOutlastsCompaction
<1> DEFINE Step == \A f \in Ferments : compacting'[f] < compacting[f] /\ status[f] # "running"
                                       => UNCHANGED <<active, agent, queued, status>>
<1>1. ASSUME MarkerInv, [Next]_vars PROVE [Step]_vars
  <2> SUFFICES ASSUME Next, NEW f \in Ferments, compacting'[f] < compacting[f], status[f] # "running"
               PROVE  UNCHANGED <<active, agent, queued, status>>
    BY <1>1
  <2> USE <1>1
  <2>1. compacting[f] \in Nat
    BY DEF MarkerInv, TypeOK
  <2>2. CASE \E g \in Ferments : CompactOk(g) \/ CompactFails(g)
    <3>1. PICK g \in Ferments : CompactOk(g) \/ CompactFails(g)
      BY <2>2
    <3>2. compacting' = [compacting EXCEPT ![g] = @ - 1]
      BY <3>1 DEF CompactOk, CompactFails
    <3>3. f = g
      BY <2>1, <3>2 DEF MarkerInv, TypeOK
    <3> QED
      BY <3>1, <3>3 DEF CompactOk, CompactFails, NobodyWoken, plan
  <2>3. CASE \E d \in Someone : \/ ToolTurn(d) \/ StopTurn(d) \/ BrokenTurn(d)
                                \/ \E more \in BOOLEAN : ToolQuestion(d, more)
    <3>1. PICK d \in Someone : \/ ToolTurn(d) \/ StopTurn(d) \/ BrokenTurn(d)
                               \/ \E more \in BOOLEAN : ToolQuestion(d, more)
      BY <2>3
    <3>2. Drain(d) \/ UNCHANGED compacting
      BY <3>1 DEF ToolTurn, StopTurn, BrokenTurn, ToolQuestion, RunEnds, RunBreaks
    <3> QED
      BY <2>1, <3>2, DrainOnlyStarts
  <2>4. CASE TextTurn \/ Question \/ Answer
    <3>1. Drain(NoFerment) \/ UNCHANGED compacting
      BY <2>4 DEF TextTurn, Question, Answer, GoesOn, RunEnds, RunBreaks, requests
    <3> QED
      BY <2>1, <3>1, DrainOnlyStarts
  <2>5. CASE GuardEnds \/ Prompt \/ Pause \/ Resume \/ Exit \/ Abandon
             \/ \E g \in Ferments : Switch(g)
    <3>1. UNCHANGED compacting
      BY <2>5 DEF GuardEnds, Prompt, Pause, Resume, Exit, Abandon, Switch, requests
    <3> QED
      BY <2>1, <3>1
  <2> QED
    BY <2>2, <2>3, <2>4, <2>5 DEF Next
<1> QED
  BY <1>1, InitMarkers, StepMarkers, PTL DEF Spec, PauseOutlastsCompaction
=============================================================================
