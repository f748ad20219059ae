---------------------------- MODULE FermentTurns ----------------------------
(***************************************************************************)
(* What keeps the agent going between its turns: the nudges at the end of  *)
(* a turn (src/extensions/ferment/nudge.ts), the compaction of the         *)
(* conversation after a step or phase (auto-compaction.ts), the guard that *)
(* compacts a conversation about to overflow (model-guard.ts), and the     *)
(* user's commands in between.  A ferment is reduced to what these look    *)
(* at: its status, how much work is left, and whether the next piece of it *)
(* begins a phase.                                                         *)
(*                                                                         *)
(* ctx.compact belongs to the pi SDK.  model-guard.ts:355 says what it     *)
(* does: it aborts the current run and settles later.  What becomes of the *)
(* follow-ups queued behind an aborted run is not said: kept or dropped.   *)
(* The same goes for a run that ends because a turn broke, with an error   *)
(* or an abort for its stopReason; if the SDK tries again instead, that is *)
(* a turn with more turns to follow.                                       *)
(***************************************************************************)
EXTENDS Integers

CONSTANTS
    Ferments, NoFerment,
    MaxWork,        \* bound on the steps of a ferment
    Boundaries,     \* amounts of work left at which a new phase begins
    MaxCommands     \* bound on what the user says and does

MAX_CONSECUTIVE_REACTIVE_NUDGES == 1
MAX_CONSECUTIVE_STOP_NUDGES == 2

ASSUME TurnsAssumption ==
    /\ NoFerment \notin Ferments
    /\ MaxWork \in Nat /\ MaxCommands \in Nat

VARIABLES
    status, left,   \* of each ferment: its status, and its work left
    active,         \* the active ferment
    policy,         \* the continuation policy, fixed for a session here;
                    \* automated without a user interface is "headless"
    agent,          \* whether a run of the agent is under way
    queued,         \* the ferments of the follow-ups behind the run
    asking,         \* the ferment the question to the user is about
    onward,         \* whether more turns follow the one with the question, if any
    pending,        \* pendingCompactions
    inFlight,       \* compactionInFlight
    compacting,     \* the compactions under way, of each ferment
    guard,          \* whether a compaction of model-guard is under way
    reactive, stops,\* reactiveNudgeCounts, stopNudgeCounts
    lull,           \* why the agent last came to rest, if the code knows
    unasked,        \* whether only a nudge brought the turn about
    commands        \* what the user has done

vars == <<status, left, active, policy, agent, queued, asking, onward, pending,
          inFlight, compacting, guard, reactive, stops, lull, unasked, commands>>
plan == <<status, left, policy>>
requests == <<pending, inFlight, compacting, guard>>
budgets == <<reactive, stops>>

Someone == Ferments \cup {NoFerment}

TypeOK ==
    /\ status \in [Ferments -> {"running", "paused", "ended"}]
    /\ left \in [Ferments -> 0 .. MaxWork]
    /\ active \in Someone /\ asking \in Someone
    /\ policy \in {"manual", "automated", "headless"} /\ agent \in {"idle", "busy"}
    /\ queued \subseteq Ferments /\ pending \subseteq Ferments /\ inFlight \subseteq Ferments
    /\ compacting \in [Ferments -> Nat] /\ guard \in BOOLEAN
    /\ reactive \in [Ferments -> 0 .. MAX_CONSECUTIVE_REACTIVE_NUDGES]
    /\ stops \in [Ferments -> 0 .. MAX_CONSECUTIVE_STOP_NUDGES]
    /\ lull \in {"none", "compacted", "guard", "unanswered", "broken"}
    /\ onward \in BOOLEAN /\ unasked \in BOOLEAN /\ commands \in 0 .. MaxCommands

Init ==
    /\ status = [f \in Ferments |-> "running"]
    /\ left = [f \in Ferments |-> MaxWork]
    /\ active \in Ferments
    /\ policy \in {"manual", "automated", "headless"}
    /\ agent = "busy" /\ queued = {} /\ asking = NoFerment
    /\ pending = {} /\ inFlight = {} /\ guard = FALSE
    /\ compacting = [f \in Ferments |-> 0]
    /\ reactive = [f \in Ferments |-> 0] /\ stops = [f \in Ferments |-> 0]
    /\ lull = "none" /\ onward = FALSE /\ unasked = FALSE /\ commands = 0
-----------------------------------------------------------------------------
Automated == policy # "manual"
HasUI == policy # "headless"

(* decideContinuation of a running ferment.  Once no work is left, all but *)
(* the stop nudge find that there is nothing to continue.                  *)
Continues(f, completeToo, boundaryToo) ==
    /\ status[f] = "running"
    /\ left[f] = 0 => completeToo
    /\ ~Automated /\ left[f] \in Boundaries => boundaryToo

(* A message that brings about a turn: at once, or behind the run.         *)
Post(f) ==
    /\ agent' = "busy"
    /\ queued' = IF agent = "busy" THEN queued \cup {f} ELSE queued
    /\ unasked' = (agent = "busy" => unasked)
    /\ lull' = "none"
Rest == UNCHANGED <<agent, queued, unasked, lull>>

Abort(why) ==
    /\ agent' = "idle" /\ lull' = why
    /\ queued' \in {{}, queued}
    /\ UNCHANGED unasked
-----------------------------------------------------------------------------
(* The end of a turn *)

AtTurn == agent = "busy" /\ asking = NoFerment

(* The tool calls of a turn may have completed a step of d, or d itself.   *)
Works(d) ==
    \/ d = NoFerment /\ UNCHANGED <<status, left, active>>
    \/ /\ d # NoFerment /\ status[d] = "running"
       /\ IF left[d] > 0
          THEN /\ left' = [left EXCEPT ![d] = @ - 1]
               /\ active' = d /\ UNCHANGED status
          ELSE /\ status' = [status EXCEPT ![d] = "ended"]
               /\ active' = NoFerment /\ UNCHANGED left

Requested(d) ==
    IF d = NoFerment THEN pending
    ELSE IF left[d] > 0 THEN pending \cup {d} ELSE pending \ {d}
Marked(d) == IF d # NoFerment /\ left[d] = 0 THEN inFlight \ {d} ELSE inFlight

(* maybeTriggerFermentCompaction: what is in flight stays for the next end *)
(* of a turn.                                                              *)
SlipReadyThoughInFlight(d) == Requested(d)

Ready(d) == Requested(d) \ Marked(d)
Drain(d) ==
    /\ pending' = Requested(d) \cap Marked(d)
    /\ inFlight' = Marked(d) \cup Ready(d)
    /\ compacting' = [f \in Ferments |-> compacting[f] + IF f \in Ready(d) THEN 1 ELSE 0]

Forget(counts) == IF active' = NoFerment THEN counts ELSE [counts EXCEPT ![active'] = 0]

(* Tools were called and more turns are to follow.  Without an active      *)
(* ferment the handler returns early; model-guard may find the context     *)
(* nearly full.                                                            *)
ToolTurn(d) ==
    /\ AtTurn /\ Works(d)
    /\ reactive' = Forget(reactive) /\ stops' = Forget(stops)
    /\ IF active' # NoFerment THEN Drain(d)
       ELSE /\ pending' = Requested(d) /\ inFlight' = Marked(d)
            /\ UNCHANGED compacting
    /\ guard' \in {guard, TRUE}
    /\ IF guard' # guard \/ (active' # NoFerment /\ Ready(d) # {})
       THEN /\ agent' = "idle" /\ queued' \in {{}, queued}
            /\ lull' = IF guard' # guard THEN "guard" ELSE "none"
       ELSE UNCHANGED <<agent, queued, lull>>
    /\ unasked' = FALSE
    /\ UNCHANGED <<policy, asking, onward, commands>>

(* The run is over unless follow-ups are queued behind it or a nudge has   *)
(* just joined them; a compaction that is due aborts whatever is next.     *)
RunEnds(d, nudge, why) ==
    LET next == queued \cup nudge
    IN  /\ Drain(d)
        /\ IF Ready(d) # {} THEN agent' = "idle" /\ queued' \in {{}, next} /\ UNCHANGED unasked
           ELSE IF next # {} THEN agent' = "busy" /\ queued' = {} /\ unasked' = TRUE
           ELSE agent' = "idle" /\ queued' = {} /\ UNCHANGED unasked
        /\ lull' = IF agent' = "busy" THEN "none" ELSE why
        /\ UNCHANGED guard

(* The run is over because the turn broke: agent_end drains the requests,  *)
(* and the follow-ups and the nudge that may just have joined them wait    *)
(* for another run, or are lost.                                           *)
RunBreaks(d, nudge) ==
    /\ Drain(d)
    /\ agent' = "idle" /\ queued' \in {{}, queued \cup nudge} /\ lull' = "broken"
    /\ UNCHANGED <<guard, unasked>>

(* Tools were called and the turn broke: the budgets are reset as after    *)
(* any call, and there is no nudge, for the stopReason is not "stop".      *)
BrokenTurn(d) ==
    /\ AtTurn /\ Works(d)
    /\ reactive' = Forget(reactive) /\ stops' = Forget(stops)
    /\ RunBreaks(d, {})
    /\ UNCHANGED <<policy, asking, onward, commands>>

(* maybeInjectReactiveContinuationNudge, after a turn of text alone, or of *)
(* nothing at all when it broke.                                           *)
TextTurn ==
    LET a == active
        wanted == a # NoFerment /\ Automated /\ Continues(a, FALSE, FALSE)
        nudged == wanted /\ reactive[a] < MAX_CONSECUTIVE_REACTIVE_NUDGES
    IN  /\ AtTurn
        /\ reactive' = IF nudged THEN [reactive EXCEPT ![a] = @ + 1]
                       ELSE IF a # NoFerment /\ Automated /\ status[a] = "paused"
                       THEN [reactive EXCEPT ![a] = 0] ELSE reactive
        /\ LET nudge == IF nudged THEN {a} ELSE {}
           IN  RunEnds(NoFerment, nudge, "none") \/ RunBreaks(NoFerment, nudge)
        /\ UNCHANGED <<plan, active, asking, onward, stops, commands>>

(* Slip: any tool call resets the count of stop nudges. *)
SlipStopsForgotten(d) ==
    LET a == active'
        wanted == a # NoFerment /\ Automated /\ status'[a] = "running"
    IN  /\ AtTurn /\ Works(d)
        /\ reactive' = Forget(reactive) /\ stops' = Forget(stops)
        /\ RunEnds(d, IF wanted THEN {a} ELSE {}, "none")
        /\ UNCHANGED <<policy, asking, onward, commands>>

(* Slip: one stop nudge too many. *)
SlipOneNudgeMore(d) ==
    LET a == active'
        wanted == a # NoFerment /\ Automated /\ status'[a] = "running"
        nudged == wanted /\ stops[a] <= MAX_CONSECUTIVE_STOP_NUDGES
    IN  /\ AtTurn /\ Works(d)
        /\ reactive' = Forget(reactive)
        /\ stops' = IF nudged THEN [stops EXCEPT ![a] = @ + 1] ELSE stops
        /\ RunEnds(d, IF nudged THEN {a} ELSE {}, "none")
        /\ UNCHANGED <<policy, asking, onward, commands>>

(* maybeInjectFermentStopNudge, after a turn that called tools and stopped. *)
StopTurn(d) ==
    LET a == active'
        wanted == /\ a # NoFerment /\ Automated /\ status'[a] = "running"
        nudged == wanted /\ stops[a] < MAX_CONSECUTIVE_STOP_NUDGES
    IN  /\ AtTurn /\ Works(d)
        /\ reactive' = Forget(reactive)
        /\ stops' = IF nudged THEN [stops EXCEPT ![a] = @ + 1]
                    ELSE IF a # NoFerment /\ Automated /\ status'[a] = "paused"
                    THEN [stops EXCEPT ![a] = 0] ELSE stops
        /\ RunEnds(d, IF nudged THEN {a} ELSE {}, "none")
        /\ UNCHANGED <<policy, asking, onward, commands>>

(* A turn of text ends in a question.  With a user interface the handler   *)
(* asks the user and the rest waits; without one the turn is left at that. *)
Question ==
    /\ AtTurn /\ active # NoFerment /\ status[active] = "running"
    /\ IF HasUI THEN asking' = active /\ onward' = FALSE /\ Rest /\ UNCHANGED requests
       ELSE RunEnds(NoFerment, {}, "unanswered") /\ UNCHANGED <<asking, onward>>
    /\ UNCHANGED <<plan, active, budgets, commands>>

(* So does the text after the last tool call of a turn, be it the last one *)
(* of its run or not.  The handler returns before it looks for a stop or a *)
(* compaction; the requests are drained at the end of the run or of a      *)
(* later turn.                                                             *)
ToolQuestion(d, more) ==
    /\ AtTurn /\ Works(d)
    /\ active' # NoFerment /\ status'[active'] = "running"
    /\ reactive' = Forget(reactive) /\ stops' = IF more THEN Forget(stops) ELSE stops
    /\ IF HasUI THEN asking' = active' /\ onward' = more ELSE UNCHANGED <<asking, onward>>
    /\ IF HasUI \/ more
       THEN /\ pending' = Requested(d) /\ inFlight' = Marked(d)
            /\ unasked' = (unasked /\ ~more)
            /\ UNCHANGED <<compacting, guard, agent, queued, lull>>
       ELSE RunEnds(d, {}, "unanswered")
    /\ UNCHANGED <<policy, commands>>
-----------------------------------------------------------------------------
(* Compactions end *)

NobodyWoken ==
    /\ lull' = IF agent = "idle" THEN "compacted" ELSE lull
    /\ UNCHANGED <<agent, queued, unasked>>

(* Slip: the ferment as it was before the compaction decides. *)
SlipOldFermentDecides(f) ==
    /\ compacting[f] > 0
    /\ compacting' = [compacting EXCEPT ![f] = @ - 1]
    /\ inFlight' = inFlight \ {f}
    /\ active' = f /\ Post(f)
    /\ UNCHANGED <<plan, asking, onward, pending, guard, budgets, commands>>

(* Slip: nobody is woken up after a compaction. *)
SlipNoContinuation(f) ==
    /\ compacting[f] > 0
    /\ compacting' = [compacting EXCEPT ![f] = @ - 1]
    /\ inFlight' = inFlight \ {f}
    /\ Rest
    /\ UNCHANGED <<plan, active, asking, onward, pending, guard, budgets, commands>>

(* Only a ferment that still runs is made active and gone on with.         *)
CompactOk(f) ==
    /\ compacting[f] > 0
    /\ compacting' = [compacting EXCEPT ![f] = @ - 1]
    /\ inFlight' = inFlight \ {f}
    /\ IF status[f] = "running"
       THEN /\ active' = f
            /\ IF Continues(f, FALSE, FALSE) THEN Post(f) ELSE Rest
       ELSE UNCHANGED active /\ NobodyWoken
    /\ UNCHANGED <<plan, asking, onward, pending, guard, budgets, commands>>

(* The hand-over is written all the same; nobody is woken up.              *)
CompactFails(f) ==
    /\ compacting[f] > 0
    /\ compacting' = [compacting EXCEPT ![f] = @ - 1]
    /\ inFlight' = inFlight \ {f}
    /\ NobodyWoken
    /\ UNCHANGED <<plan, active, asking, onward, pending, guard, budgets, commands>>

GuardEnds ==
    /\ guard /\ guard' = FALSE
    /\ UNCHANGED <<plan, active, agent, queued, asking, onward, pending, inFlight, compacting,
                   budgets, lull, unasked, commands>>
-----------------------------------------------------------------------------
(* The user *)

Does == HasUI /\ commands < MaxCommands /\ commands' = commands + 1 /\ asking = NoFerment

Wake(f) ==
    /\ agent' = "busy" /\ lull' = "none" /\ unasked' = FALSE
    /\ queued' = IF agent = "busy" THEN queued \cup {f} ELSE queued

Prompt ==
    /\ Does /\ agent = "idle"
    /\ agent' = "busy" /\ lull' = "none" /\ unasked' = FALSE
    /\ UNCHANGED <<plan, active, queued, asking, onward, requests, budgets>>

Pause ==
    /\ Does /\ active # NoFerment /\ status[active] = "running"
    /\ status' = [status EXCEPT ![active] = "paused"]
    /\ Abort("none")
    /\ UNCHANGED <<left, policy, active, asking, onward, requests, budgets>>

(* At a boundary under the manual policy the user may decline.             *)
Resume ==
    /\ Does /\ active # NoFerment /\ status[active] # "ended"
    /\ status' = [status EXCEPT ![active] = "running"]
    /\ IF left[active] = 0 THEN Rest
       ELSE Wake(active) \/ (~Automated /\ left[active] \in Boundaries /\ Rest)
    /\ UNCHANGED <<left, policy, active, asking, onward, requests, budgets>>

(* The ferment left behind is not paused.                                  *)
Switch(g) ==
    /\ Does /\ g # active /\ status[g] # "ended"
    /\ status' = [status EXCEPT ![g] = "running"]
    /\ active' = g /\ Wake(g)
    /\ UNCHANGED <<left, policy, asking, onward, requests, budgets>>

Exit ==
    /\ Does /\ active # NoFerment
    /\ status' = [status EXCEPT ![active] = IF @ = "running" THEN "paused" ELSE @]
    /\ reactive' = [reactive EXCEPT ![active] = 0]
    /\ active' = NoFerment /\ Abort("none")
    /\ UNCHANGED <<left, policy, asking, onward, requests, stops>>

Abandon ==
    /\ Does /\ active # NoFerment
    /\ status' = [status EXCEPT ![active] = "ended"]
    /\ pending' = pending \ {active} /\ inFlight' = inFlight \ {active}
    /\ active' = NoFerment /\ Rest
    /\ UNCHANGED <<left, policy, asking, onward, compacting, guard, budgets>>

(* How the handler ends once the question is answered: with the run, or    *)
(* with more turns of it, behind which the answer is then queued.          *)
GoesOn(nudge, why) ==
    IF onward THEN queued' = queued \cup nudge /\ UNCHANGED <<agent, unasked, lull, requests>>
              ELSE RunEnds(NoFerment, nudge, why)

(* The answer to a question is acted on for the ferment it was about.      *)
Answer ==
    LET f == asking
        boundary == ~Automated /\ left[f] \in Boundaries \ {0}
    IN  /\ f # NoFerment /\ asking' = NoFerment /\ onward' = FALSE
        /\ \/ GoesOn({}, "unanswered") /\ UNCHANGED <<status, active>>
           \/ /\ status[f] = "running" /\ GoesOn({f}, "none")
              /\ active' = IF boundary THEN f ELSE active
              /\ UNCHANGED status
           \/ /\ boundary /\ status' = [status EXCEPT ![f] = "paused"]
              /\ active' = f /\ GoesOn({}, "none")
        /\ UNCHANGED <<left, policy, budgets, commands>>
-----------------------------------------------------------------------------
Next ==
    \/ \E d \in Someone :
          \/ ToolTurn(d) \/ StopTurn(d) \/ BrokenTurn(d)
          \/ \E more \in BOOLEAN : ToolQuestion(d, more)
    \/ TextTurn \/ Question \/ Answer
    \/ \E f \in Ferments : CompactOk(f) \/ CompactFails(f) \/ Switch(f)
    \/ GuardEnds \/ Prompt \/ Pause \/ Resume \/ Exit \/ Abandon

Spec == Init /\ [][Next]_vars

Turn ==
    \/ TextTurn \/ Question
    \/ \E d \in Someone :
          \/ ToolTurn(d) \/ StopTurn(d) \/ BrokenTurn(d)
          \/ \E more \in BOOLEAN : ToolQuestion(d, more)

(* A turn of the agent ends in the end: the model answers and tools return. *)
FairSpec == Spec /\ WF_vars(Turn)
-----------------------------------------------------------------------------
(* A marker stands for one compaction under way, and a ferment that has    *)
(* work left never has two.                                                *)
OneCompaction ==
    \A f \in Ferments :
        /\ compacting[f] <= 1
        /\ f \in inFlight => compacting[f] = 1
        /\ status[f] # "ended" /\ compacting[f] = 1 => f \in inFlight

(* An agent that calls no tools, or stops after them, is left alone in the *)
(* end: the two kinds of nudges and the wake-ups after a compaction do not *)
(* feed each other for ever.                                               *)
NudgesEnd == []<>(agent = "idle" \/ asking # NoFerment \/ ~unasked)

(* The ferment in use could go on by itself, and nothing is under way that *)
(* would bring the agent back to it.                                       *)
Asleep ==
    /\ agent = "idle" /\ asking = NoFerment /\ ~guard
    /\ \A f \in Ferments : compacting[f] = 0
    /\ Automated /\ active # NoFerment /\ status[active] = "running"

BudgetSpent ==
    \/ reactive[active] = MAX_CONSECUTIVE_REACTIVE_NUDGES
    \/ stops[active] = MAX_CONSECUTIVE_STOP_NUDGES

(* Under the automated policy the agent rests only when its nudges are     *)
(* used up, when a question was left unanswered, when all that is left is  *)
(* to complete the ferment, when its last turn broke, when model-guard     *)
(* compacted the conversation, or when the compaction that stopped it      *)
(* failed or was of another ferment, one that is paused by now.            *)
SleepIsExplained ==
    Asleep => BudgetSpent \/ left[active] = 0
              \/ lull \in {"compacted", "guard", "unanswered", "broken"}

(* A compaction never keeps the workflow from going on.                    *)
CompactionNeverBlocks ==
    Asleep => BudgetSpent \/ lull \in {"guard", "unanswered", "broken"}

(* The end of a compaction does not touch a ferment that was paused or     *)
(* ended while it ran: it is not made active and nobody is woken for it.   *)
PauseOutlastsCompaction ==
    [][\A f \in Ferments : compacting'[f] < compacting[f] /\ status[f] # "running"
                            => UNCHANGED <<active, agent, queued, status>>]_vars
=============================================================================
