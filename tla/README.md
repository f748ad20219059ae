# TLA+ models of cheap-code-editor

This directory models the parts of *cheap-code-editor* that decide what happens
next when several things happen at once:

* the **ferment engine**: a plan of phases and steps that an agent works off under
  the supervision of a state machine, its event log on disk, and the nudges and
  compactions that keep the agent going between its turns;
* the **background agents**: slots, queue, and the word the parent gets when one
  is done;
* the **MCP adapter**: the connections to servers that several callers share, and
  the adapter's state over the sessions of a process.

The models are checked with TLC on small instances. The main promises of each
are proved with TLAPS for every plan, every number of phases, steps, agents,
servers and callers.

## 1. Inventory

Paths are relative to `src/src` unless they start with `docs/`.

### Modelled

| part | state it keeps | operations | who it talks to |
|---|---|---|---|
| **Reducer** `ferment/state-machine.ts`, `lifecycle.ts`, `types.ts` | none: `applyCommand(ferment, cmd)` is pure | 17 commands that move a ferment: scope, refine, activate a phase or a parallel group, the life of a step, the ends of a phase, pause, resume, complete, abandon | called by the store under its lock |
| **FSM** `ferment/fsm.ts`, `extensions/ferment/fsm-adapter.ts` | none | `validateFsmTransition`: may this tool be called now? | asked by every tool before it issues a command |
| **Advisor** `ferment/engine.ts`, `extensions/ferment/continuation.ts` | none | `determineNextAction`: the one thing to do next; `decideContinuation`: go on by itself or wait for the user | its answer is in tool results, error texts and nudges |
| **Tools, slash commands, menu** `extensions/ferment/tools/*`, `commands.ts`, `progress-overlay.ts`, `events.ts` | what a call waits for; the entry an open menu has chosen | scope/activate/refine/complete/skip/fail/verify …; `/ferment pause`, `resume`, `switch`, `exit`, `abandon`; recovery at session start, pause at shutdown | read a ferment, ask the FSM, wait, issue a command through `applyAndPersist` |
| **Turns** `extensions/ferment/nudge.ts`, `auto-compaction.ts`, `scheduler.ts`, `state.ts`, `extensions/model-guard.ts` | active ferment, pending and running compactions, budgets of two nudges | end of a turn and of a run, follow-ups, wake-ups, compaction and its settling, questions to the user | the SDK's agent (`sendMessage`, `abort`, `compact`) |
| **Event store** `ferment/event-store.ts`, `event-mapper.ts`, `store.ts` | a snapshot document and an event log per ferment, a cache per process | create, get (fold the log), `mutateWithEvents`, delete | one process writes at a time, under a file lock |
| **Background agents** `extensions/agents/manager/agent-manager.ts`, `group-join.ts`, `extensions/agents/index.ts` | records, queue, count of used slots, open batch, groups, held words | spawn, settle, resume, change of the limit, sweep of records; timers of batch (100 ms), group (30 s) and word (200 ms); `get_subagent_result` | the Agent tool of the parent model |
| **MCP connections** `extensions/mcp-adapter/server-manager.ts`, `lifecycle.ts`, `init.ts`, `commands.ts`, `proxy-modes.ts`, `direct-tools.ts` | map of connections, map of connects under way, use counts, recent failures | connect, close, tool call, sign-in, reconnect, health check, idle close, shutdown | servers, which are processes of their own |
| **MCP sessions** `extensions/mcp-adapter/index.ts` | generation, state, promise of a state | session start and shutdown, calls and commands that wait for the state | the connections of each state |

What is hard about them:

* **Interleaving at awaits.** JavaScript runs a handler to its next `await`. A tool
  that awaits a verification command, a judge or a dropdown has looked at one
  ferment and commits to another. A connect, a sign-in or a close lets in other
  callers, the health check and the end of the session; an initialisation lets
  in the next session.
* **Three opinions on one ferment.** Reducer, FSM and advisor each have their own
  guards; if they disagree the agent is told to do what is then refused.
* **A second semantics of every command.** What a command does is written once in
  the reducer and once in the events derived from it plus the handler that
  folds them; the fold wins as soon as there is one event.
* **Partial failure.** `appendEvent` swallows errors; a process may die
  between the document and the events, another may delete the ferment;
  writing the session file may throw in the middle of `onComplete`; servers die.
* **Many ways to one message.** An agent's end is told with its batch, its group,
  the stragglers of its group, alone, or not at all because the parent fetched
  the result; timers and completions race.
* **Things that must go on.** Whether an idle agent is woken up depends on two
  budgets, on compactions that abort the run they serve, and on the policy.

What makes them correct: status, active-phase pointer and phases tell one story; phases
run together only within a group and steps only within a cohort; a paused
ferment is quiet and frozen; a complete one is finished; no re-plan loses running
work; the workflow has a legal way forward and ends; the log reads back what was
written. A slot is used by one run and no slot idles; every end is told once. No
server process is left behind or connected twice; every caller gets an answer;
the adapter's state is the newest one. An automated agent rests only for a reason.

### Not modelled

| part | state, operations | why not |
|---|---|---|
| Scoping dialogue (`scoping-confirmation.ts`, `ask-user.ts`, `oneshot.ts`, `tool-scope.ts`) | gates and pending scopes before a draft is scoped | dialogue text; what it ends in is the scope command |
| Permissions and tool guards | classification of commands and paths | sequential decisions over text |
| Language servers (`extensions/lsp`) | requests and answers of external servers | plumbing around third-party code |
| ACP server (`modes/acp/server.ts`) | editor protocol | what is concurrent in it is the SDK's session, which is not in this repository |
| Conversation database (`db/sqlite-session-manager.ts`) | sessions behind the SDK's interface | storage of opaque messages |
| Todos, questionnaires | small reducers over interface state | nothing runs concurrently |
| Configuration, providers, resources, update; interface, themes, telemetry, benchmarks | files, downloads, presentation | I/O and presentation |

These are also the bulk of the lines: most of the repository's code is terminal
interface, rendering, bundled or vendored scripts, providers and benchmarks. The models
follow the control logic of the parts above and leave that bulk alone.

## 2. Modules

```
FermentState            the ferment, every command's guard and effect, the bridge
 ├─ FermentFsm          the validator             ┐
 ├─ FermentEngine       the advisor               ├─ FermentSession   handlers with awaits, user, restart
 │                                                └─ FermentDriver    the closed loop, with liveness
 └─ FermentEvents       commands as events, and their fold
      └─ FermentLog     document + log, torn writes, deletion, legacy ferments
FermentStore            abstract: one atomic object.  Implemented by FermentSession, FermentDriver
                        and FermentLog
FermentTurns            nudges, compactions and commands over two ferments, each reduced to
                        its status and the work it has left
Subagents               background agents and their words
McpConnections          the servers of one session          McpSession   one state after the other
FermentStateProofs, FermentSessionProofs, FermentDriverProofs, FermentLogProofs,
FermentTurnsProofs, SubagentsProofs, McpProofs, McpSessionProofs      theorems
MCSession, MCDriver, MCLog, MCTurns, MCSubagents, MCMcp, MCMcpSession small instances for TLC
```

**FermentState.** A ferment is a record: `status`, `activePhaseId`, and per slot
the phase's or step's status and cohort (`phase`, `phaseGroup`, `step`,
`stepGroup`). A slot that the plan does not use is `"absent"`; ids are slot
numbers, because phases and steps keep the order of the plan. `Accepts(f, c)` is
"the handler returns ok", `ApplyCommand(f, c)` is what it returns; `BridgeAdmits` is
`createApplyAndPersist`'s rule that a paused ferment takes only resume and
abandon. `verify_step` is two command types, by its outcome. Names, goals, grades,
summaries and time stamps are left out: no guard reads them (the one time stamp
that is read, in `commandToEvents`, is modelled by what it finds, `NewlyStarted`).

**FermentFsm, FermentEngine.** The tables and guards of the source, with their
peculiarities: one running step anywhere makes the FSM state `STEP_RUNNING`;
`HasNonParallelRunningStep` looks in the phase of the pointer only; `COMPLETE`
has no guards; the advisor looks at pending steps before running ones.

**FermentSession.** Variables `f` (the ferment), `calls` (what each in-flight
call waits for, and about which step or phase) and `menu` (the command an
open menu is about to issue). A tool without an await is one action (`Issue`);
one with an await validates and parks, and commits in a second action against
the ferment as it then is (`Outcome`: a refused command changes nothing).
`UserPause` is not blocked by anything, as in the code. `Restart` forgets the calls
and either pauses the ferment (the shutdown hook, or recovery at session start)
or not (a marker for the active ferment is set). WHEN a tool escalates to the
user depends on counters; the model lets it escalate at any call.

**FermentDriver.** Reducer, FSM and advisor composed: `FollowAdvice` makes one of
the calls the advice names, if the FSM and the reducer both accept it;
`WorkerReturns` finishes a running step; `Interrupt` and `UserResume` pause and
resume. Awaits are FermentSession's matter, so a call is one step here.

**FermentEvents, FermentLog.** `CommandToEvents` and `ApplyFermentEvent` translate
`event-mapper.ts` and `event-store.ts` without regard to the reducer. The log
is represented by what it folds to; `log = NoLog` has no event and `BrokenLog`
is one whose fold throws. `Write` and `TornWrite` (some of the events are missing,
whichever) are one `mutateWithEvents` each, under its lock; `DeletedElsewhere` is
`delete()` in another process, which leaves this one its cached document.

**FermentStore.** What the rest of the program may assume of a stored ferment: it
changes by one admitted command at a time and by nothing else.

**FermentTurns.** A ferment is its status, its work left and the amounts of work at
which a phase begins. A turn of the agent ends in one of these ways: tools were
called and more turns follow (`ToolTurn`), or the model stopped (`StopTurn`, with the
stop nudge), or the turn broke with an error or an abort (`BrokenTurn`: the budgets
are reset all the same, nobody is nudged, and the run is over); text alone
(`TextTurn`, with the reactive nudge, broken or not); or text with a question, alone
(`Question`) or after the last tool call (`ToolQuestion`, in the last turn of
a run or not, which `onward` remembers until the `Answer`). `queued` are the
follow-ups behind the run, which a run that broke leaves behind or loses. A compaction is requested by the work of a turn
(`Requested`), started at its end (`Drain`, which aborts the run) and settled by
`CompactOk` or `CompactFails`. `lull` records why the agent last came to rest
where the code knows a reason. `ctx.compact` and `ctx.abort` belong to the SDK
and are modelled from what `model-guard.ts` says of them; what becomes of
follow-ups behind an aborted run is left open (kept or dropped).

**Subagents.** `status`, `listed`, `live`, `resuming`, `queue`, `running`, `limit` are
AgentManager's; `batch`, `groups` and `nudges` (words held for 200 ms) are
index.ts and GroupJoinManager; `consumed`, `waiting`, `told`, `heard` say what
the parent has fetched, awaits, was told and has got. `Settle` is the promise's
`then` or `catch` with `onComplete` and `drainQueue`. `SettleTwice` and
`SettleMuted` are the runs in which `pi.appendEntry` throws inside `onComplete`.

**McpConnections.** `entry` is the map of connections, `pending` that of connects
under way, `alive` the processes that exist, `call` what each caller waits for
(sign-in, close, connect, the request itself). A connection that nothing refers to any
more stands for a new one, so `Conns` bounds how many exist at a time, not how
many there ever are. Servers may die under their connection (`Crash`).

**McpSession.** `gen` is `lifecycleGeneration`; each generation goes through
closing, sign-in service, initialisation and its end. `Stale` is the test of the
then-callback. `Ask` is a command or call that comes before the state is there.
Starts and shutdowns wait for nothing: they overlap each other, the
initialisations and the waits of the askers in every way.

Operators named `Slip…` are not part of the models. Each is a way the
operator that follows could plausibly have been programmed wrongly (a dropped
guard, a pointer that is not reset, an order that is swapped); with it in that
place, a property of section 3 fails. They document what the properties are for.

## 3. Runs

| run | states | instance | what it shows |
|---|---|---|---|
| `session` | 264 k | a tool call and the user on five plans: a phase with a cohort of two steps around a sequential one; a group around a sequential phase, with a step or without; two phases, grouped or not. The menu on the last three. A phase may be re-planned to have no steps | `OneRunningCohort`: comparing a new step with the FIRST running one is enough. `PausedIsQuiet`, `PausedIsFrozen`: no call that waited when the ferment was paused changes it. `RunningStepKept`: no re-plan takes a running step away. `StatusMatchesPhases`; `OneActiveGroup` with a menu that was computed on an older ferment; `OnlyMenuSplitsGroups`: whatever else happens, a group is activated as a whole. `CompleteIsFinished` although the judge is asked before the phases are looked at and `COMPLETE` is unguarded. `SessionIsAtomic`: the session implements `FermentStore` |
| `driver` | 42 k | three sequential phases, one without steps and one with a cohort; one phase with mixed steps | `WayForward`: an advised call or the return of a worker is always accepted. `RecoveryWorks`: a failed phase can be retried or skipped. `CompletedPhasesAreDone`. `Completes`: the workflow ends |
| `log` | 59 k | a group around a sequential phase, or a cohort; lost events, a deletion | `FoldMatchesSnapshot`: a whole write is read back as written, whatever was lost before. `TornKeepsWorkWhole`: a torn one keeps or loses a command's work as a whole. `LogIsSound`. `LogIsAtomic`: every whole write is a step of `FermentStore` |
| `subagents` | 20 k | two agents, limits of one and two, one failed write | `SlotsCounted`, `NoIdleSlot`, `StartsWithinLimit`, `QueueIsSound` under a limit that changes; `ToldOnce`, `OnlyDoneAnnounced`; `EveryEndIsHeard` and `QueuedStarts` as liveness |
| `mcp` | 96 k | one server that may ask for a sign-in, two callers | `NoOrphan`, `OneConnection`, `WaitersAreServed`, `CountIsBacked`; `Answered`: every call and command ends |
| `mcp_session` | 20 k | four starts or shutdowns that overlap in every way, two askers | `LiveStateIsNewest`: a state in use whose servers run is the newest start's. `OnlyLateAnswersLeak`: no start, shutdown or late initialisation leaves a running state behind; only somebody who asked an older session may (next table). `StartSettles`: the newest start ends with its state in use or an error, unless an older one was still waiting for the sign-in service |
| `turns` | 765 k | two ferments of two pieces of work, two actions of the user, all three policies | `OneCompaction`; `SleepIsExplained`: an automated agent rests only for one of the named reasons; `PauseOutlastsCompaction`; `NudgesEnd`: nudges and wake-ups do not feed each other for ever |

Five runs show where the code disagrees with what is said of it:

| run | what happens |
|---|---|
| `abandoned_reopened` | A completion waits for the user; `/ferment abandon` lands; the answer then ends the phase, and `settleAfterPhaseTerminalPatch` makes the ferment *planned* again. `docs/ferment.md:50` calls abandoned "Permanently stopped — cannot resume" |
| `deleted_comes_back` | Another process deletes a ferment this one holds in `fermentCache`; its next command writes the document again, with a log that starts without `ferment_created` and cannot be folded. `docs/ferment.md:363`: "Delete a ferment permanently" |
| `turns_asleep` | A compaction aborts the run; when it fails or is skipped nobody wakes the agent up, and after the last phase not even a good one does, because `decideContinuation` takes `complete_ferment` for nothing to do. `auto-compaction.ts:18` says that failures "never block the pipeline" |
| `mcp_stale` | `/mcp` waits for the first state; a new session starts and its state is made; the first initialisation ends, is found stale and shut down, and `/mcp` puts it in the place of the newer state, which runs on and is never shut down. The adapter's `CHANGELOG.md:71` says that stale results are prevented "from replacing newer state" |
| `mcp_keepalive` | A keep-alive server that dies keeps its entry with status connected, and the health checks pass it by |

**Bounds.** Plans have at most three phases and three steps and one parallel
group: a group of two and an outsider that demotes it, a cohort of two and an
outsider that must be refused. One call slot suffices for the session: a waiting
call meets every change the tools can make through the user's menu, pauses,
abandonment and restarts, and the invariants do not depend on which handler issues
a command (section 5 proves them for any number of slots). The menu is explored where
phases and steps are three at most (`MaxMenuItems`, a constraint of the instance):
two or three phases it may activate or skip singly, and a step. In `driver`,
`MaxFaults = 2` allows a failed step and a failed phase, or the same twice, and
`MaxInterrupts = 1` a pause anywhere. Plans are not empty (see below).
Two agents under limits of one and two give a full and a free slot, a queue,
a batch that becomes a group, and a straggler. One server and two callers
give every pair of overlapping operations on a server; the maps are keyed by
server, so servers do not meet except in the shutdown (the proofs cover any
number). Three connections are one in the map, one under way, one closing. Four
generations are enough for a start to be overtaken by two others and a shutdown
between them. Two pieces of work with a phase boundary between them show a
continuation inside a phase, at a boundary and after the end; two ferments show a
compaction that outlives a switch. The proofs of section 5 have no such bounds.

**Deadlock** is not checked in runs of systems that may really stop: an abandoned
or complete ferment, a log that cannot be folded, a session that is over, the
last generation (`MaxGen`), an agent whose user says no more (`MaxCommands`).
`subagents` checks it.

**Conditions.** Three constants keep behaviours of the code out of a run; section 6
says what happens with them. `Overlap = FALSE` in `subagents`: no agent is
resumed while it runs. `MenuActivation = FALSE`
in `log` (for `FoldMatchesSnapshot` and `LogIsAtomic`): nobody activates a single
phase of a group, so the known mismatch of reducer and fold does not occur.
`Legacy = FALSE` in `log` (for `LogIsAtomic`): the ferment was created with a log. `driver` has
sequential phases only, which is a matter of its plans. `subagents` states the slot
properties for `faults = 0` and the liveness up to a failed write. `mcp_session` has
no such condition; `StartSettles` names its own. `session` has none either: the menu is
in it, and `OnlyMenuSplitsGroups` names it as what may split a group. (`Menus = FALSE` in
`abandoned_reopened` only makes the counterexample one of the tools.)

## 4. Fairness

* `FermentDriver`. `WF(FollowAdvice)`: every tool result names the next action and
  the scheduler nudges an idle agent with it. `WF(WorkerReturns)`: workers run
  under turn and time limits (`suggestWorkerLimits`, `tools/steps.ts`).
  `WF(UserResume)`: a user who wants the work done resumes it; the claim
  `Completes` is about that user only. Interruptions are not fair. The claim is made for
  sequential plans with parallel steps.
* `Subagents`. Timers fire (`FinalizeBatch`, `JoinTimeout`, `Tell`), a wait that is over
  answers (`Answer`), runs and resumes settle (turn limits of agents). Nobody has to
  spawn or fetch anything.
* `McpConnections`. Requests and connects time out after 60 s, a sign-in is given
  up, a close kills the process in the end, and the health checks run until the
  session ends. Strong fairness is used once: `Closed`, the connect after a close,
  because all of `Conns` may be in use for a while, which is the instance's
  limit and not the code's.
* `McpSession`. Closing, the sign-in service and initialisation end; nobody has to start.
* `FermentTurns`. A turn ends (`WF(Turn)`). Neither compactions nor the user are fair.

## 5. Proofs

Assumed are the named assumptions on the constants, which TLC evaluates in
every run, and the conditions named below. Nothing else: numbers of calls,
groups, agents, limits, servers, callers, plans and ferments are arbitrary.

**Session.** Every step of the session, whatever handler takes it, is one
admitted command or leaves the ferment alone (`NextCommits`, from one lemma per way a
handler ends). That is the refinement `SessionImplementsStore`, and it reduces
every other claim to the reducer: `AdmittedReduces` describes what an admitted
command may do, by kind (`Reduces`), and one lemma per promise shows that such a
step keeps it. The promises are inductive only together: a ferment that is planned
or a draft has no active phase because pausing hides and resuming
recomputes it; a complete ferment stays finished because a late command that
activates or ends a phase also takes the ferment out of `complete`; and a draft must
be known to be empty (`EmptyDraft`) for scoping to start from nothing. The conjunction is
`SoundSession`; the theorems `StatusAlwaysMatches`, `OneGroupAtATime`,
`OneCohortAtATime`, `PauseIsQuiet`, `CompleteMeansFinished`, `PauseFreezes` and
`RunningStepsKept` follow. The checks of FSM and menus are not used: these promises
rest on bridge and reducer alone. `GroupsStayWhole` is the one that needs more: what
activates a single phase of a group is an entry of the menu, and nothing else
(`NextSparesGroups`). The tool activates a grouped phase through its group, and does
not wait between looking and doing (`SingleActivationSteps`).

**Loop.** `NextSteps` describes what advisor, FSM and reducer let happen together:
ten steps by which the work goes on (`Succeeds`), two by which it fails (`Fails`), pause
and resume. It rests on `AdviceFits`, which says for each kind of advice what is true
of the ferment it is given for, and `FsmKnows`, what the FSM's permission adds. Three
things follow for plans of any size and any grouping.

* `DriverIsSound`: the promises of the reducer and `WorkInOrder`: steps run only in
  active phases, and a completed phase holds finished steps. The second is
  `CompletedMeansDone`, and needs the first: a worker that reports must not
  reach a phase that is over. The reducer alone keeps neither, it completes a
  phase over pending steps if it is asked to.
* The way forward. `ForwardUnlessFailureBesideWork` says exactly when the loop is
  stuck, for every plan: when a phase has failed beside an active one and no step
  runs (`Stuck`). Only in a parallel group can that happen, and then the tools
  advised are refused (section 6). Where all phases are sequential
  (`PlansSequential`; their steps may be parallel) it cannot: the only active phase
  is the one that fails, and afterwards the advice activates nothing but the failed
  phase. So `AlwaysForward` and `RecoveryAlwaysWorks` have no condition on the state.
  `PlansGiven` assumes that there is a plan to scope with and none is empty
  (section 6 again).
* `AdviceProgresses`: each step spends a failure or a pause, which are counted,
  or makes the ferment smaller in a strict order (`AdvancingIsAnOrder`): fewer phases
  to activate, then fewer active ones, then fewer of them without steps, fewer steps to
  start, fewer to report, and at last a change of the status. `StepsGiven`
  assumes that a phase is refined with at least one step; an empty list is accepted
  by the code, and the advice then asks for the same phase again.

The last two are the argument for `Completes`: the loop is never stuck and never
runs in a circle. The step from there to "it ends" is one of fairness, and
TLC's. `DriverImplementsStore` is the refinement of this module.

**Log.** `CommandsReadBack`: the events of an admitted command, folded onto the
ferment it was applied to, give what the reducer returned, and any part of
them the phases and steps of before or of after. The one hard case is group
activation, whose fold demotes every active phase that is not listed; it agrees with
the reducer only if no phase of the group was active already. So `GroupsWhole`
of the ferment that is read back is part of the inductive invariant `SoundLog`, and it
must survive torn writes too. It holds unless the menu activates one phase of a group:
`FoldAlwaysMatches`, `LogStaysSound` and `TornWritesKeepWork` assume
`MenuActivation = FALSE`. `LogImplementsStore` also assumes `Legacy = FALSE`, that
the ferment has a log from the start.

**Agents.** `SlotInv` joins the count, the queue and the idle slot with the fact
that an agent that has not started has neither a run nor a resume: draining
starts the first agents of the queue (`Drained`, whose cardinalities are the work), and the count
follows from how many. `WordInv` says that an agent's word is in one place at a
time: nothing before it settles, then the batch, one group, one held word,
or the parent's ears; `ToldAtMostOnce` and `OnlyEndsAreAnnounced` follow. These need no
condition on resuming. `EndsAreNotLost` is the converse, the part of `EveryEndIsHeard` that
needs no timer: whoever has settled was told of, has reached the parent, or its word is with
the batch, a group or a held word. It assumes `Overlap = FALSE` and holds up to the first
failed write. Its invariant `EndInv` adds that an agent runs once at a time, and is
"running" exactly then (else a batch that closes would pass over an agent that has ended),
and that a result counts as fetched only where it gets to the parent (else `Tell` would
drop the last word of an agent nobody has heard).

**Connections.** `MapInv`: every process is in one place of the maps, and the
maps do not share. `NobodyWaitsInVain` comes from the fact that each action that
ends a connect also answers who waits for it. `CountsAreBacked` needs that a
caller that uses a connection has a server (`CallsPlaced`), since the count is
given back by name, and bounds the count by the calls that are on that very
connection.

**Sessions of the adapter.** `SessionInv` has no condition on how starts, shutdowns
and askers meet. What carries it is `RunningIsMade`: a state that runs was made in
time, so its promise was still kept and is dropped in the same step; nobody who
asks afterwards can get hold of it, and a promise that outlived its start is of a
state that does not run. So whatever a late caller puts back has been shut down
(`LiveStateIsTheNewest`), and a state that comes in time finds no other running
one in use (`InTimeReplacesNone`), which leaves the late answer as the one
step that loses a running state (`StartsLeaveNothingUp`).

**Turns.** `MarkerInv`: a marker in `inFlight` stands for one compaction, nothing is pending
for an ended ferment, and a question is about a running one and asked in the middle
of a run. `SleepInv` is `SleepIsExplained` without a look at what is under way, with
a running compaction as one more reason: that is what each step preserves. A turn
that broke is one of the reasons the invariant has to name (section 6).

**Only model-checked.** Liveness: `Completes`, `EveryEndIsHeard`, `QueuedStarts`,
`Answered`, `StartSettles`, `NudgesEnd`. The prover does not do fairness.

## 6. What the models also show, without a run of its own

Each of these is a behaviour of the code found while modelling it; the constant
that lets it into the model is named where there is one.

* In `PLANNED` the FSM lets any phase be skipped (`fsm.ts:278`) and the reducer does
  not look: a completed phase becomes skipped.
* One phase of a group fails while its sibling is active. The advice is
  `recover_phase`; both tools it names are refused until the sibling has ended
  (`fsm.ts:290`, against `docs/ferment.md:400`), and the advice does not name the
  sibling's work. Section 5 proves that with plans that are not empty there is no
  other way to get stuck.
* While a sequential step runs the advice is to start the next one, which is refused
  (`engine.ts:112`); the return of the worker resolves it (`driver`).
* `MenuActivation = TRUE`: the menu activates one phase of a group, the tool then the
  group. The reducer leaves the first phase active, the event lists only the
  phases started now (`event-mapper.ts:169`), and the fold demotes the others.
* `Legacy = TRUE`: a ferment without events is mutated; its log starts without
  `ferment_created` and cannot be folded (`event-store.ts:614`). `migrateLegacy` is
  called only in tests.
* `scope_ferment` accepts an empty phase list; the ferment is then planned without
  phases, and the advice is to scope it, which the reducer refuses.
* `refine_ferment_phase` accepts an empty step list (`tool-schemas.ts:222` has no
  minimum); the advice is then to refine the same phase again.
* `/ferment switch` leaves the old ferment running, and the end of a compaction of it
  makes it the active one again (`auto-compaction.ts:267`).
* When `storage.get` throws inside the trigger of a compaction, its marker stays and
  the ferment is never compacted again.
* Subagents, `Overlap = TRUE`: an agent resumed while it runs settles twice; the
  first result may count as fetched and never be told.
* Subagents: a throw in `onComplete` frees a slot twice, or leaves the queue
  standing (`SettleTwice`, `SettleMuted`). At the end of a session neither the
  batch's nor the groups' timers are cleared (`groupJoin.dispose` has no caller).
* MCP: use counts are given back by server name. After a reconnect the count may
  be too low, and the idle check can close a connection under a call.
* MCP: `closeAll` at shutdown closes what is in the map; a connect under way
  enters it afterwards and stays.
* MCP sessions: the generation is not looked at after the wait for the sign-in service
  (`index.ts:249`), and an older start may set its promise over the newer one's. The
  newer initialisation then ends as stale and is shut down, the older one fails
  the same test, and the newest session is left without a state until somebody
  asks and gets one that was shut down. `StartSettles` excludes that case.
* Turns: a turn with tool calls that ends with an error or an abort takes the
  branch of a turn after which more follow (`events.ts:460`): its budgets are
  reset and nobody is nudged, although no turn follows. Unless the SDK tries
  again, an automated agent rests there with work left (`BrokenTurn`).

## 7. Left out of the modelled parts

* Ferments: names, goals, criteria, grades, decisions, memories, summaries (the fold
  loses some of them, which the models cannot see); gate verdicts (a call that a
  gate refuses does nothing); the counters behind an escalation and their files (an
  escalation may come at any call); the text of a nudge.
* Store: lock time-outs (30 s stale, 5 s waiting), the replay order of events by a
  time stamp stored in whole seconds, what the cache shows in lists.
* Turns: sessions and their restart, `storage.get` failing, the size of the context; a
  question in a turn that breaks, or in one whose conversation model-guard compacts.
* Agents: foreground agents, abort, the end of the session, the budget retry guard
  and the runner's turn limits; a synchronous throw of `startAgent`. In `spawn`
  (`agent-manager.ts:112`) the slot would stay counted, in `drainQueue`
  (`agent-manager.ts:243`) it is given back, the agent ends in error and
  `onComplete` is called. The runner is asynchronous and fails by its promise.
* MCP: metadata cache, tool search, sampling, UI sessions, the length of the idle
  time-out.

The next candidates are an ordered log of time-stamped events with two
writers, which would refine `FermentLog`, and foreground agents with abort in
`Subagents`.
