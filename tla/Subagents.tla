------------------------------- MODULE Subagents ------------------------------
(***************************************************************************)
(* Background agents (src/extensions/agents): AgentManager starts them     *)
(* under a limit and queues the others, and the extension tells the parent *)
(* model when one is done.  An agent's word goes one of four ways: with    *)
(* the batch it was spawned in, with the group that batch became, alone,   *)
(* or not at all because the parent has fetched the result itself.         *)
(*                                                                         *)
(* A handler runs to completion; what interleaves are the timers (100 ms   *)
(* for a batch, 30 or 15 s for a group, 200 ms for a word), the runs of    *)
(* the agents and the parent's tool calls.                                 *)
(***************************************************************************)
EXTENDS Integers, Sequences, FiniteSets

CONSTANTS
    Agents,      \* the background agents of a session
    Limits,      \* the values maxConcurrent may be given
    Overlap,     \* whether an agent may be resumed while it is running
    MaxFaults    \* bound: how often writing to the session file fails

ASSUME SubagentsAssumption ==
    /\ IsFiniteSet(Agents)
    /\ Limits \subseteq Nat \ {0} /\ Limits # {}
    /\ Overlap \in BOOLEAN
    /\ MaxFaults \in Nat

VARIABLES
    status,     \* AgentRecord.status; "none" before the agent is spawned
    listed,     \* the agents AgentManager has a record of
    live,       \* the agents whose run has not settled
    resuming,   \* the agents a resume is under way for
    queue,      \* the agents that wait for a slot
    running,    \* runningBackground, the counter of used slots
    limit,      \* maxConcurrent
    batch,      \* currentBatchAgents
    groups,     \* the groups of GroupJoinManager
    nudges,     \* the words that are held for 200 ms
    consumed,   \* the agents whose resultConsumed is set
    waiting,    \* the agents get_subagent_result waits for
    told,       \* how often the parent was told of an agent
    heard,      \* the agents whose final result a call of the parent returned
    faults      \* failed writes to the session file so far

slotVars == <<queue, running, limit>>
wordVars == <<batch, groups, nudges>>
callVars == <<consumed, waiting, told, heard>>
vars == <<status, listed, live, resuming, queue, running, limit, batch,
          groups, nudges, consumed, waiting, told, heard, faults>>

(* completed, steered, aborted and error are all "done": what differs is   *)
(* the wording.  completedAt is set exactly then.  No caller stops a       *)
(* background agent before the session ends.                               *)
Statuses == {"none", "queued", "running", "done"}

(* A group's timer runs from its first completion to its last. *)
Group == {g \in [of : SUBSET Agents, done : SUBSET Agents] : g.done \subseteq g.of}
Nudge == [alone : BOOLEAN, of : SUBSET Agents]
Alone(a) == [alone |-> TRUE, of |-> {a}]
Bundle(S) == [alone |-> FALSE, of |-> S]

TypeOK ==
    /\ status \in [Agents -> Statuses]
    /\ listed \subseteq Agents /\ live \subseteq Agents /\ resuming \subseteq Agents
    /\ batch \subseteq Agents /\ consumed \subseteq Agents
    /\ waiting \subseteq Agents /\ heard \subseteq Agents
    /\ queue \in Seq(Agents) /\ running \in Int /\ limit \in Limits
    /\ groups \subseteq Group /\ nudges \subseteq Nudge
    /\ told \in [Agents -> Nat] /\ faults \in 0 .. MaxFaults

Init ==
    /\ status = [a \in Agents |-> "none"]
    /\ listed = {} /\ live = {} /\ resuming = {}
    /\ queue = <<>> /\ running = 0 /\ limit \in Limits
    /\ batch = {} /\ groups = {} /\ nudges = {}
    /\ consumed = {} /\ waiting = {} /\ heard = {}
    /\ told = [a \in Agents |-> 0]
    /\ faults = 0
-----------------------------------------------------------------------------
(* drainQueue: the head of the queue starts while there is a free slot.    *)
(* The loop's test of the status is left out: whoever is in the queue is   *)
(* queued (QueueIsSound).  So is its catch, which gives the slot back and  *)
(* calls onComplete: startAgent is taken not to throw, for its onStart     *)
(* only emits an event and its runAgent fails by a promise.                *)
Starts(used, max) ==
    LET free == IF used < max THEN max - used ELSE 0
    IN  IF Len(queue) < free THEN Len(queue) ELSE free

(* Slip: the head of the queue is looked at and not removed. *)
SlipPeek(newStatus, stillLive, used, max) ==
    LET n == Starts(used, max)
        started == {queue[i] : i \in 1 .. n}
    IN  /\ queue' = queue
        /\ running' = used + n
        /\ live' = stillLive \cup started
        /\ status' = [b \in Agents |-> IF b \in started THEN "running" ELSE newStatus[b]]

DrainQueue(newStatus, stillLive, used, max) ==
    LET n == Starts(used, max)
        started == {queue[i] : i \in 1 .. n}
    IN  /\ queue' = SubSeq(queue, n + 1, Len(queue))
        /\ running' = used + n
        /\ live' = stillLive \cup started
        /\ status' = [b \in Agents |-> IF b \in started THEN "running" ELSE newStatus[b]]

(* GroupJoinManager.onAgentComplete for the members who of a group.        *)
Join(g, who) ==
    LET done == g.done \cup who
    IN  IF done = g.of
        THEN /\ groups' = groups \ {g}
             /\ nudges' = nudges \cup {Bundle(done)}
        ELSE /\ groups' = (groups \ {g}) \cup {[g EXCEPT !.done = done]}
             /\ UNCHANGED nudges

Grouped(a) == \E g \in groups : a \in g.of

(* Slip: an agent of the open batch gets a word of its own as well. *)
SlipBatchIgnored(a) ==
    \/ /\ a \in consumed
       /\ UNCHANGED <<groups, nudges>>
    \/ /\ a \notin consumed
       /\ \E g \in groups : a \in g.of /\ Join(g, {a})
    \/ /\ a \notin consumed /\ ~Grouped(a)
       /\ nudges' = nudges \cup {Alone(a)}
       /\ UNCHANGED groups

(* The manager's onComplete: nothing for a fetched result, nothing yet for *)
(* an agent of the open batch, else the group, else a word of its own.     *)
OnComplete(a) ==
    \/ /\ a \in consumed \cup batch
       /\ UNCHANGED <<groups, nudges>>
    \/ /\ a \notin consumed \cup batch
       /\ \E g \in groups : a \in g.of /\ Join(g, {a})
    \/ /\ a \notin consumed \cup batch /\ ~Grouped(a)
       /\ nudges' = nudges \cup {Alone(a)}
       /\ UNCHANGED groups
-----------------------------------------------------------------------------
(* Slip: one agent too many is started. *)
SlipOneMore(a, joinMode) ==
    /\ status[a] = "none"
    /\ listed' = listed \cup {a}
    /\ IF running > limit
       THEN /\ status' = [status EXCEPT ![a] = "queued"]
            /\ queue' = Append(queue, a)
            /\ UNCHANGED <<live, running>>
       ELSE /\ status' = [status EXCEPT ![a] = "running"]
            /\ live' = live \cup {a}
            /\ running' = running + 1
            /\ UNCHANGED queue
    /\ batch' = IF joinMode = "async" THEN batch ELSE batch \cup {a}
    /\ UNCHANGED <<resuming, limit, groups, nudges, faults>> /\ UNCHANGED callVars

(* The Agent tool with run_in_background: spawn, and a place in the open   *)
(* batch unless the join mode is "async".  A synchronous throw of          *)
(* startAgent, after which the slot stays counted, is left out here too.   *)
Spawn(a, joinMode) ==
    /\ status[a] = "none"
    /\ listed' = listed \cup {a}
    /\ IF running >= limit
       THEN /\ status' = [status EXCEPT ![a] = "queued"]
            /\ queue' = Append(queue, a)
            /\ UNCHANGED <<live, running>>
       ELSE /\ status' = [status EXCEPT ![a] = "running"]
            /\ live' = live \cup {a}
            /\ running' = running + 1
            /\ UNCHANGED queue
    /\ batch' = IF joinMode = "async" THEN batch ELSE batch \cup {a}
    /\ UNCHANGED <<resuming, limit, groups, nudges, faults>> /\ UNCHANGED callVars

(* Slip: a settled run frees its slot without starting the next. *)
SlipNoDrainAfterRun(a) ==
    /\ a \in live
    /\ OnComplete(a)
    /\ status' = [status EXCEPT ![a] = "done"]
    /\ live' = live \ {a}
    /\ running' = running - 1
    /\ UNCHANGED <<listed, resuming, queue, limit, batch, faults>> /\ UNCHANGED callVars

(* The run's promise settles, well or with an error. *)
Settle(a) ==
    /\ a \in live
    /\ OnComplete(a)
    /\ DrainQueue([status EXCEPT ![a] = "done"], live \ {a}, running - 1, limit)
    /\ UNCHANGED <<listed, resuming, limit, batch, faults>> /\ UNCHANGED callVars

(* pi.appendEntry throws inside onComplete, before a word is scheduled.    *)
(* After a good run that lands in the promise's own catch, which frees the *)
(* slot a second time and calls onComplete again.                          *)
SettleTwice(a) ==
    /\ a \in live
    /\ faults < MaxFaults /\ faults' = faults + 1
    /\ OnComplete(a)
    /\ DrainQueue([status EXCEPT ![a] = "done"], live \ {a}, running - 2, limit)
    /\ UNCHANGED <<listed, resuming, limit, batch>> /\ UNCHANGED callVars

(* The last onComplete throws: no word, and the queue is not drained.      *)
SettleMuted(a, freed) ==
    /\ a \in live
    /\ faults + freed <= MaxFaults /\ faults' = faults + freed
    /\ live' = live \ {a}
    /\ running' = running - freed
    /\ status' = [status EXCEPT ![a] = "done"]
    /\ UNCHANGED <<listed, resuming, queue, limit, batch, groups, nudges>> /\ UNCHANGED callVars

(* Slip: a resume takes a slot of the background agents. *)
SlipResumeTakesSlot(a) ==
    /\ a \in listed \ (resuming \cup batch)
    /\ status[a] \notin {"none", "queued"}
    /\ a \in live => Overlap
    /\ status' = [status EXCEPT ![a] = "running"]
    /\ resuming' = resuming \cup {a}
    /\ running' = running + 1
    /\ UNCHANGED <<listed, live, queue, limit, faults>>
    /\ UNCHANGED wordVars /\ UNCHANGED callVars

(* The Agent tool with resume: it asks for a session, not for a status.    *)
(* The id reaches the model with the answer of the spawn, after the 100 ms *)
(* in which the batch is open.                                             *)
Resume(a) ==
    /\ a \in listed \ (resuming \cup batch)
    /\ status[a] \notin {"none", "queued"}
    /\ a \in live => Overlap
    /\ status' = [status EXCEPT ![a] = "running"]
    /\ resuming' = resuming \cup {a}
    /\ UNCHANGED <<listed, live, faults>>
    /\ UNCHANGED slotVars /\ UNCHANGED wordVars /\ UNCHANGED callVars

(* Its answer goes to the caller; it never had a slot and tells nobody.    *)
(* Beside a run that is still live it says nothing of that run's result.   *)
ResumeEnds(a) ==
    /\ a \in resuming
    /\ status' = [status EXCEPT ![a] = "done"]
    /\ resuming' = resuming \ {a}
    /\ heard' = IF a \in live THEN heard ELSE heard \cup {a}
    /\ UNCHANGED <<listed, live, consumed, waiting, told, faults>>
    /\ UNCHANGED slotVars /\ UNCHANGED wordVars

(* Slip: the queue is not drained under a raised limit. *)
SlipNoDrainAfterRaise(n) ==
    /\ n # limit
    /\ limit' = n
    /\ UNCHANGED <<status, listed, live, resuming, queue, running, faults>>
    /\ UNCHANGED wordVars /\ UNCHANGED callVars

(* setMaxConcurrent, from the /agents menu: no run is ever cut short. *)
SetMaxConcurrent(n) ==
    /\ n # limit
    /\ limit' = n
    /\ DrainQueue(status, live, running, n)
    /\ UNCHANGED <<listed, resuming, faults>> /\ UNCHANGED wordVars /\ UNCHANGED callVars

(* session_before_switch when the switch is then cancelled, and the sweep  *)
(* of records that ended ten minutes ago.                                  *)
ClearCompleted ==
    /\ listed' = {a \in listed : status[a] \in {"running", "queued"}}
    /\ UNCHANGED <<status, live, resuming, faults>>
    /\ UNCHANGED slotVars /\ UNCHANGED wordVars /\ UNCHANGED callVars
-----------------------------------------------------------------------------
(* Slip: the members of the batch are taken for done. *)
SlipBatchIsDone ==
    /\ batch # {}
    /\ batch' = {}
    /\ nudges' = nudges \cup {Bundle(batch \ consumed)}
    /\ UNCHANGED <<status, listed, live, resuming, groups, faults>>
    /\ UNCHANGED slotVars /\ UNCHANGED callVars

(* Slip: the group is not given the results that came before it. *)
SlipEarlyResultsLost ==
    /\ batch # {}
    /\ batch' = {}
    /\ groups' = groups \cup {[of |-> batch, done |-> {}]}
    /\ UNCHANGED <<status, listed, live, resuming, nudges, faults>>
    /\ UNCHANGED slotVars /\ UNCHANGED callVars

(* finalizeBatch, 100 ms after the last spawn: two agents or more become a *)
(* group, which is given the results that came in the meantime.            *)
FinalizeBatch ==
    LET done == {a \in batch \cap listed : status[a] = "done"} \ consumed
    IN  /\ batch # {}
        /\ batch' = {}
        /\ \/ /\ Cardinality(batch) = 1
              /\ nudges' = nudges \cup {Alone(a) : a \in done}
              /\ UNCHANGED groups
           \/ /\ Cardinality(batch) > 1 /\ done = batch
              /\ nudges' = nudges \cup {Bundle(done)}
              /\ UNCHANGED groups
           \/ /\ Cardinality(batch) > 1 /\ done # batch
              /\ groups' = groups \cup {[of |-> batch, done |-> done]}
              /\ UNCHANGED nudges
        /\ UNCHANGED <<status, listed, live, resuming, faults>>
        /\ UNCHANGED slotVars /\ UNCHANGED callVars

(* Slip: the stragglers inherit the results that went out. *)
SlipStragglersInherit(g) ==
    /\ g.done # {}
    /\ nudges' = nudges \cup {Bundle(g.done)}
    /\ groups' = (groups \ {g}) \cup {[g EXCEPT !.of = g.of \ g.done]}
    /\ UNCHANGED <<status, listed, live, resuming, batch, faults>>
    /\ UNCHANGED slotVars /\ UNCHANGED callVars

(* onTimeout: what there is goes out, the rest becomes a straggler group. *)
JoinTimeout(g) ==
    /\ g.done # {}
    /\ nudges' = nudges \cup {Bundle(g.done)}
    /\ groups' = (groups \ {g}) \cup {[of |-> g.of \ g.done, done |-> {}]}
    /\ UNCHANGED <<status, listed, live, resuming, batch, faults>>
    /\ UNCHANGED slotVars /\ UNCHANGED callVars

(* A held word goes out, without the results fetched in the meantime. *)
Tell(n) ==
    /\ nudges' = nudges \ {n}
    /\ told' = [a \in Agents |-> IF a \in n.of \ consumed THEN told[a] + 1 ELSE told[a]]
    /\ UNCHANGED <<status, listed, live, resuming, batch, groups, faults>>
    /\ UNCHANGED <<consumed, waiting, heard>> /\ UNCHANGED slotVars

(* get_subagent_result with wait: the result counts as fetched, and the    *)
(* agent's own word is cancelled, before the run has settled.  After a     *)
(* resume the awaited promise is the settled one of the first run.         *)
AwaitResult(a) ==
    /\ a \in listed /\ status[a] = "running"
    /\ consumed' = consumed \cup {a}
    /\ nudges' = nudges \ {Alone(a)}
    /\ waiting' = IF a \in live THEN waiting \cup {a} ELSE waiting
    /\ UNCHANGED <<status, listed, live, resuming, batch, groups, told, heard, faults>>
    /\ UNCHANGED slotVars

(* The wait is over (with an error after a muted run). *)
Answer(a) ==
    /\ a \in waiting \ live
    /\ waiting' = waiting \ {a}
    /\ heard' = heard \cup {a}
    /\ UNCHANGED <<status, listed, live, resuming, consumed, told, faults>>
    /\ UNCHANGED slotVars /\ UNCHANGED wordVars

(* get_subagent_result of an agent that counts as done. *)
FetchResult(a) ==
    /\ a \in listed /\ status[a] = "done"
    /\ consumed' = consumed \cup {a}
    /\ nudges' = nudges \ {Alone(a)}
    /\ heard' = IF a \in live THEN heard ELSE heard \cup {a}
    /\ UNCHANGED <<status, listed, live, resuming, batch, groups, waiting, told, faults>>
    /\ UNCHANGED slotVars
-----------------------------------------------------------------------------
Next ==
    \/ \E a \in Agents :
          \/ \E joinMode \in {"smart", "async"} : Spawn(a, joinMode)
          \/ Settle(a) \/ SettleTwice(a)
          \/ \E freed \in 1 .. 2 : SettleMuted(a, freed)
          \/ Resume(a) \/ ResumeEnds(a)
          \/ AwaitResult(a) \/ Answer(a) \/ FetchResult(a)
    \/ \E n \in Limits : SetMaxConcurrent(n)
    \/ ClearCompleted
    \/ FinalizeBatch
    \/ \E g \in groups : JoinTimeout(g)
    \/ \E n \in nudges : Tell(n)

Spec == Init /\ [][Next]_vars

(* Timers fire and agents end: runAgent and resumeAgent abort a session    *)
(* after their inactivity timeout.  Nothing forces a spawn, a resume or a  *)
(* fetch.                                                                  *)
Fairness ==
    /\ WF_vars(FinalizeBatch)
    /\ WF_vars(\E g \in groups : JoinTimeout(g))
    /\ WF_vars(\E n \in nudges : Tell(n))
    /\ \A a \in Agents :
          /\ WF_vars(Answer(a))
          /\ WF_vars(Settle(a))
          /\ WF_vars(ResumeEnds(a))

FairSpec == Spec /\ Fairness
-----------------------------------------------------------------------------
Settled(a) == status[a] \notin {"none", "queued"} /\ a \notin live

(* The counter is the number of unsettled runs as long as no write to the  *)
(* session file failed in onComplete.                                      *)
SlotsCounted == faults = 0 => running = Cardinality(live)

(* Exactly the queued agents are in the queue, each of them once: an agent *)
(* that is settled, resumed or swept away is not started from it.          *)
QueueIsSound ==
    /\ \A a \in Agents : status[a] = "queued" <=> \E i \in DOMAIN queue : queue[i] = a
    /\ \A i, j \in DOMAIN queue : queue[i] = queue[j] => i = j

(* Nobody waits while a slot is free: each of the places that free one     *)
(* drains the queue.                                                       *)
NoIdleSlot == faults = 0 /\ queue # <<>> => running >= limit

(* A step that starts an agent leaves no more runs than the limit.  Runs   *)
(* may exceed a limit that was lowered; then none is started.              *)
StartsWithinLimit ==
    [][faults' = 0 /\ ~(live' \subseteq live) => Cardinality(live') <= limit']_vars

(* The parent is told of an agent once at most, whichever of batch, group, *)
(* straggler group and individual word it goes through.                    *)
ToldOnce == \A a \in Agents : told[a] <= 1

(* Only a settled run is announced. *)
OnlyDoneAnnounced ==
    /\ \A n \in nudges : n.of \cap live = {}
    /\ \A a \in live : told[a] = 0

(* "You will be notified when this agent completes": whoever settles is    *)
(* told of or has its final result fetched, unless its record was swept    *)
(* away in the first 100 ms or a write failed.                             *)
EveryEndIsHeard ==
    \A a \in Agents :
       Settled(a) ~> told[a] > 0 \/ a \in heard \/ a \notin listed \/ faults > 0

(* A queued agent starts, whatever happens to those before it. *)
QueuedStarts == \A a \in Agents : status[a] = "queued" ~> a \in live \/ faults > 0
=============================================================================
