--------------------------- MODULE SubagentsProofs --------------------------
(***************************************************************************)
(* Three facts hold for any number of agents and any limits.  The counter  *)
(* of slots is exact and whoever waits has a reason to: SlotInv.  An       *)
(* agent's word is in one place at a time, the batch, one group, one held  *)
(* word or the parent's ears, so that it is never told twice: WordInv.     *)
(* And it is in one of them at least, unless the parent has fetched the    *)
(* result itself, so that no end is lost: EndInv.                          *)
(***************************************************************************)
EXTENDS Subagents, FiniteSetTheorems, TLAPS

InQueue(a) == \E i \in DOMAIN queue : queue[i] = a
Waiting(a) == status[a] \in {"none", "queued"}

(* An agent that has not started has neither a run nor a resume. *)
NotStarted == \A a \in Agents : Waiting(a) => a \notin live \cup resuming

SlotInv == TypeOK /\ NotStarted /\ SlotsCounted /\ QueueIsSound /\ NoIdleSlot

(* Draining starts the first agents of the queue, as many as there are     *)
(* slots, and leaves the others in it in their order.                      *)
Drained(newStatus, stillLive, used, max) ==
    /\ queue' \in Seq(Agents)
    /\ running' \in Int
    /\ live' \in SUBSET Agents
    /\ status' \in [Agents -> Statuses]
    /\ QueueIsSound'
    /\ queue' # <<>> => running' >= max
    /\ running' - used = Cardinality(live') - Cardinality(stillLive)
    /\ ~(live' \subseteq stillLive) => running' <= max
    /\ stillLive \subseteq live'
    /\ \A a \in live' \ stillLive : newStatus[a] = "queued" /\ status'[a] = "running"
    /\ \A a \in Agents \ (live' \ stillLive) : status'[a] = newStatus[a]

LEMMA DisjointUnion ==
    ASSUME NEW S, NEW T, IsFiniteSet(S), IsFiniteSet(T), S \cap T = {}
    PROVE  Cardinality(S \cup T) = Cardinality(S) + Cardinality(T)
<1>1. Cardinality(S \cup T) = Cardinality(S) + Cardinality(T) - Cardinality(S \cap T)
  BY FS_Union
<1>2. Cardinality(S \cap T) = 0 /\ Cardinality(S) \in Nat /\ Cardinality(T) \in Nat
  BY FS_EmptySet, FS_CardinalityType
<1> QED
  BY <1>1, <1>2

LEMMA QueuePrefix ==
    ASSUME NEW q \in Seq(Agents), NEW n \in 0 .. Len(q),
           \A i, j \in DOMAIN q : q[i] = q[j] => i = j
    PROVE  LET S == {q[i] : i \in 1 .. n}
           IN  IsFiniteSet(S) /\ Cardinality(S) = n /\ S \subseteq Agents
<1> DEFINE S == {q[i] : i \in 1 .. n}
           f == [i \in 1 .. n |-> q[i]]
<1>1. Len(q) \in Nat /\ DOMAIN q = 1 .. Len(q) /\ \A i \in 1 .. Len(q) : q[i] \in Agents
  OBVIOUS
<1>2. f \in Bijection(1 .. n, S)
  <2>1. f \in [1 .. n -> S] /\ \A b \in S : \E i \in 1 .. n : f[i] = b
    OBVIOUS
  <2>2. \A i, j \in 1 .. n : f[i] = f[j] => i = j
    BY <1>1
  <2> HIDE DEF f, S
  <2> QED
    BY <2>1, <2>2 DEF Bijection, Injection, Surjection, IsInjective
<1>3. ExistsBijection(1 .. n, S)
  BY <1>2 DEF ExistsBijection
<1>4. IsFiniteSet(1 .. n) /\ Cardinality(1 .. n) = n
  BY FS_Interval
<1>5. IsFiniteSet(S) /\ Cardinality(S) = n
  BY <1>3, <1>4, FS_Bijection
<1> QED
  BY <1>1, <1>5

LEMMA StartsBounds ==
    ASSUME NEW used \in Int, NEW max \in Nat, queue \in Seq(Agents)
    PROVE  /\ Starts(used, max) \in 0 .. Len(queue)
           /\ Starts(used, max) > 0 => used + Starts(used, max) <= max
           /\ Starts(used, max) < Len(queue) => used + Starts(used, max) >= max
<1>1. Len(queue) \in Nat
  OBVIOUS
<1> QED
  BY <1>1 DEF Starts

LEMMA QueueDrains ==
    ASSUME NEW newStatus \in [Agents -> Statuses], NEW stillLive \in SUBSET Agents,
           NEW used \in Int, NEW max \in Nat, queue \in Seq(Agents),
           \A a \in Agents : newStatus[a] = "queued" <=> InQueue(a),
           \A i, j \in DOMAIN queue : queue[i] = queue[j] => i = j,
           \A a \in stillLive : newStatus[a] # "queued",
           DrainQueue(newStatus, stillLive, used, max)
    PROVE  Drained(newStatus, stillLive, used, max)
<1> DEFINE n == Starts(used, max)
           started == {queue[i] : i \in 1 .. n}
<1>1. /\ n \in 0 .. Len(queue)
      /\ n > 0 => used + n <= max
      /\ n < Len(queue) => used + n >= max
  BY StartsBounds
<1>2. /\ queue' = SubSeq(queue, n + 1, Len(queue))
      /\ running' = used + n
      /\ live' = stillLive \cup started
      /\ status' = [b \in Agents |-> IF b \in started THEN "running" ELSE newStatus[b]]
  BY DEF DrainQueue
<1>3. IsFiniteSet(started) /\ Cardinality(started) = n /\ started \subseteq Agents
  BY <1>1, QueuePrefix
<1>4. Len(queue) \in Nat /\ DOMAIN queue = 1 .. Len(queue)
  OBVIOUS
<1>5. /\ queue' \in Seq(Agents)
      /\ Len(queue') = Len(queue) - n
      /\ DOMAIN queue' = 1 .. Len(queue) - n
      /\ \A i \in 1 .. Len(queue) - n : queue'[i] = queue[n + i]
  BY <1>1, <1>2, <1>4
<1>6. \A a \in started : newStatus[a] = "queued" /\ a \notin stillLive
  BY <1>1, <1>3, <1>4 DEF InQueue
<1>7. Cardinality(live') = Cardinality(stillLive) + n
  <2>1. IsFiniteSet(stillLive)
    BY SubagentsAssumption, FS_Subset
  <2>2. stillLive \cap started = {}
    BY <1>6
  <2>3. Cardinality(stillLive \cup started) = Cardinality(stillLive) + Cardinality(started)
    BY <1>3, <2>1, <2>2, DisjointUnion
  <2> QED
    BY <1>2, <1>3, <2>3
<1>8. live' \ stillLive = started
  BY <1>2, <1>6
<1>9. QueueIsSound'
  <2>1. \A a \in Agents : status'[a] = "queued" <=> newStatus[a] = "queued" /\ a \notin started
    BY <1>2
  <2>2. ASSUME NEW a \in Agents, newStatus[a] = "queued", a \notin started
        PROVE  \E i \in DOMAIN queue' : queue'[i] = a
    <3>1. PICK j \in 1 .. Len(queue) : queue[j] = a
      BY <1>4, <2>2 DEF InQueue
    <3>2. ~(j <= n)
      BY <2>2, <3>1
    <3>3. j - n \in 1 .. Len(queue) - n /\ n + (j - n) = j
      BY <1>1, <1>4, <3>2
    <3> QED
      BY <1>5, <3>1, <3>3
  <2>3. ASSUME NEW i \in DOMAIN queue'
        PROVE  newStatus[queue'[i]] = "queued" /\ queue'[i] \notin started
    <3>1. n + i \in DOMAIN queue /\ n + i > n
      BY <1>1, <1>4, <1>5
    <3>2. queue'[i] = queue[n + i] /\ queue'[i] \in Agents
      BY <1>5
    <3>3. \A j \in 1 .. n : queue[j] # queue[n + i]
      BY <1>1, <1>4, <3>1
    <3> QED
      BY <3>1, <3>2, <3>3 DEF InQueue
  <2>4. \A a \in Agents : status'[a] = "queued" <=> \E i \in DOMAIN queue' : queue'[i] = a
    BY <2>1, <2>2, <2>3
  <2>5. \A i, j \in DOMAIN queue' : queue'[i] = queue'[j] => i = j
    BY <1>1, <1>4, <1>5
  <2> QED
    BY <2>4, <2>5 DEF QueueIsSound
<1>10. queue' # <<>> => running' >= max
  <2>1. queue' # <<>> => n < Len(queue)
    BY <1>1, <1>4, <1>5
  <2> QED
    BY <1>1, <1>2, <2>1
<1>11. ~(live' \subseteq stillLive) => running' <= max
  <2>1. n \in Int /\ (n = 0 => started = {})
    BY <1>1
  <2> QED
    BY <1>1, <1>2, <2>1
<1>12. running' - used = Cardinality(live') - Cardinality(stillLive)
  <2>1. Cardinality(stillLive) \in Nat
    BY SubagentsAssumption, FS_Subset, FS_CardinalityType
  <2> QED
    BY <1>1, <1>2, <1>7, <2>1
<1>13. status' \in [Agents -> Statuses]
  BY <1>2 DEF Statuses
<1> HIDE DEF n, started
<1>14. /\ running' \in Int
       /\ live' \in SUBSET Agents
       /\ stillLive \subseteq live'
  BY <1>1, <1>2, <1>3
<1>15. \A a \in live' \ stillLive : newStatus[a] = "queued" /\ status'[a] = "running"
  BY <1>2, <1>3, <1>6, <1>8
<1>16. \A a \in Agents \ (live' \ stillLive) : status'[a] = newStatus[a]
  BY <1>2, <1>8
<1> QED
  BY <1>5, <1>9, <1>10, <1>11, <1>12, <1>13, <1>14, <1>15, <1>16 DEF Drained
-----------------------------------------------------------------------------
(* Groups and words stay what they are, whichever action holds or gives    *)
(* out a result.                                                           *)
WordTypes == groups \subseteq Group /\ nudges \subseteq Nudge

LEMMA WordsAreTyped ==
    /\ \A a \in Agents : Alone(a) \in Nudge
    /\ \A S \in SUBSET Agents : Bundle(S) \in Nudge
<1>1. ASSUME NEW a \in Agents PROVE Alone(a) \in Nudge
  <2>1. {a} \in SUBSET Agents
    OBVIOUS
  <2> QED
    BY <2>1 DEF Alone, Nudge
<1>2. \A S \in SUBSET Agents : Bundle(S) \in Nudge
  BY DEF Bundle, Nudge
<1> QED
  BY <1>1, <1>2

LEMMA CompletionTypes ==
    ASSUME NEW a \in Agents, WordTypes, OnComplete(a)
    PROVE  WordTypes'
<1>1. CASE \E g \in groups : a \in g.of /\ Join(g, {a})
  <2>1. PICK g \in groups : a \in g.of /\ Join(g, {a})
    BY <1>1
  <2>2. g \in [of : SUBSET Agents, done : SUBSET Agents] /\ g.done \subseteq g.of
    BY DEF WordTypes, Group
  <2>3. [g EXCEPT !.done = g.done \cup {a}] \in Group
    BY <2>1, <2>2 DEF Group
  <2>4. Bundle(g.done \cup {a}) \in Nudge
    BY <2>2 DEF Bundle, Nudge
  <2> QED
    BY <2>1, <2>3, <2>4 DEF WordTypes, Join
<1>2. CASE nudges' = nudges \cup {Alone(a)} /\ UNCHANGED groups
  BY <1>2, WordsAreTyped DEF WordTypes
<1>3. CASE groups' = groups /\ nudges' = nudges
  BY <1>3 DEF WordTypes
<1>4. \/ \E g \in groups : a \in g.of /\ Join(g, {a})
      \/ nudges' = nudges \cup {Alone(a)} /\ UNCHANGED groups
      \/ groups' = groups /\ nudges' = nudges
  BY DEF OnComplete
<1> QED
  BY <1>1, <1>2, <1>3, <1>4

LEMMA BatchTypes ==
    ASSUME TypeOK, FinalizeBatch
    PROVE  WordTypes'
<1> DEFINE done == {a \in batch \cap listed : status[a] = "done"} \ consumed
<1>1. done \subseteq batch /\ batch \subseteq Agents
  BY DEF TypeOK
<1>2. [of |-> batch, done |-> done] \in Group
  BY <1>1 DEF Group
<1>3. done \in SUBSET Agents
  BY <1>1
<1>4. {Alone(a) : a \in done} \subseteq Nudge
  BY <1>3, WordsAreTyped
<1>5. Bundle(done) \in Nudge
  BY <1>3, WordsAreTyped
<1> HIDE DEF done
<1> QED
  BY <1>2, <1>4, <1>5 DEF FinalizeBatch, WordTypes, TypeOK, done

LEMMA TimeoutTypes ==
    ASSUME WordTypes, NEW g \in groups, JoinTimeout(g)
    PROVE  WordTypes'
<1>1. g \in [of : SUBSET Agents, done : SUBSET Agents]
  BY DEF WordTypes, Group
<1>2. [of |-> g.of \ g.done, done |-> {}] \in Group /\ Bundle(g.done) \in Nudge
  BY <1>1 DEF Group, Bundle, Nudge
<1> QED
  BY <1>2 DEF JoinTimeout, WordTypes

(* What is left of the type invariant when a step does not touch slots. *)
LEMMA SlotsUntouched ==
    ASSUME SlotInv, UNCHANGED <<live, queue, running, limit>>,
           faults' \in 0 .. MaxFaults /\ faults <= faults',
           status' \in [Agents -> Statuses], resuming' \subseteq Agents,
           \A a \in Agents : status'[a] = "queued" <=> status[a] = "queued",
           \A a \in Agents : status'[a] = "none" <=> status[a] = "none",
           \A a \in resuming' \ resuming : ~Waiting(a)
    PROVE  NotStarted' /\ SlotsCounted' /\ QueueIsSound' /\ NoIdleSlot'
<1>1. NotStarted'
  BY DEF SlotInv, NotStarted, Waiting, TypeOK
<1>2. faults' = 0 => faults = 0
  BY DEF SlotInv, TypeOK
<1>3. SlotsCounted' /\ NoIdleSlot'
  BY <1>2 DEF SlotInv, SlotsCounted, NoIdleSlot
<1>4. QueueIsSound'
  BY DEF SlotInv, QueueIsSound
<1> QED
  BY <1>1, <1>3, <1>4

(* Draining the queue after n slots were given back: the counter is exact  *)
(* as long as no write failed.                                             *)
LEMMA SlotsRefilled ==
    ASSUME SlotInv, NEW newStatus \in [Agents -> Statuses],
           NEW stillLive \in SUBSET live, NEW used \in Int, NEW max \in Limits,
           \A a \in Agents : newStatus[a] = status[a] \/ (a \in live /\ newStatus[a] = "done"),
           DrainQueue(newStatus, stillLive, used, max),
           limit' = max, UNCHANGED resuming,
           faults' \in 0 .. MaxFaults,
           faults' = 0 => used = Cardinality(stillLive)
    PROVE  NotStarted' /\ SlotsCounted' /\ QueueIsSound' /\ NoIdleSlot'
<1>1. \A a \in Agents : newStatus[a] = "queued" <=> InQueue(a)
  BY DEF SlotInv, NotStarted, Waiting, QueueIsSound, InQueue, TypeOK
<1>2. \A a \in stillLive : newStatus[a] # "queued"
  BY DEF SlotInv, NotStarted, Waiting, TypeOK
<1>3. max \in Nat /\ stillLive \in SUBSET Agents
  BY SubagentsAssumption DEF SlotInv, TypeOK
<1>4. Drained(newStatus, stillLive, used, max)
  BY <1>1, <1>2, <1>3, QueueDrains DEF SlotInv, TypeOK, QueueIsSound
<1>5. NotStarted'
  <2> SUFFICES ASSUME NEW a \in Agents, status'[a] \in {"none", "queued"}
               PROVE  a \notin live' \cup resuming'
    BY DEF NotStarted, Waiting
  <2>1. a \notin live' \ stillLive /\ status'[a] = newStatus[a]
    BY <1>4 DEF Drained
  <2> QED
    BY <2>1 DEF SlotInv, NotStarted, Waiting, TypeOK
<1>6. SlotsCounted'
  <2>1. IsFiniteSet(stillLive) /\ IsFiniteSet(live')
    BY <1>3, <1>4, SubagentsAssumption, FS_Subset DEF Drained
  <2>2. Cardinality(stillLive) \in Nat /\ Cardinality(live') \in Nat
    BY <2>1, FS_CardinalityType
  <2>3. running' - used = Cardinality(live') - Cardinality(stillLive) /\ running' \in Int
    BY <1>4 DEF Drained
  <2> QED
    BY <2>2, <2>3 DEF SlotsCounted
<1>7. NoIdleSlot' /\ QueueIsSound'
  BY <1>4 DEF Drained, NoIdleSlot
<1> QED
  BY <1>5, <1>6, <1>7

(* The types after a step that drains the queue. *)
LEMMA DrainedTypes ==
    ASSUME SlotInv, NEW newStatus \in [Agents -> Statuses],
           NEW stillLive \in SUBSET live, NEW used \in Int, NEW max \in Limits,
           \A a \in Agents : newStatus[a] = status[a] \/ (a \in live /\ newStatus[a] = "done"),
           DrainQueue(newStatus, stillLive, used, max)
    PROVE  Drained(newStatus, stillLive, used, max)
<1>1. \A a \in Agents : newStatus[a] = "queued" <=> InQueue(a)
  BY DEF SlotInv, NotStarted, Waiting, QueueIsSound, InQueue, TypeOK
<1>2. \A a \in stillLive : newStatus[a] # "queued"
  BY DEF SlotInv, NotStarted, Waiting, TypeOK
<1>3. max \in Nat /\ stillLive \in SUBSET Agents
  BY SubagentsAssumption DEF SlotInv, TypeOK
<1> QED
  BY <1>1, <1>2, <1>3, QueueDrains DEF SlotInv, TypeOK, QueueIsSound

-----------------------------------------------------------------------------
LEMMA SlotInit == Init => SlotInv
<1> SUFFICES ASSUME Init PROVE SlotInv
  OBVIOUS
<1>1. TypeOK
  BY SubagentsAssumption DEF Init, TypeOK, Statuses
<1>2. NotStarted
  BY DEF Init, NotStarted
<1>3. SlotsCounted
  BY FS_EmptySet DEF Init, SlotsCounted
<1>4. QueueIsSound /\ NoIdleSlot
  BY DEF Init, QueueIsSound, NoIdleSlot
<1> QED
  BY <1>1, <1>2, <1>3, <1>4 DEF SlotInv

LEMMA SpawnKeepsSlots ==
    ASSUME SlotInv, NEW a \in Agents, NEW joinMode, Spawn(a, joinMode)
    PROVE  SlotInv' /\ (~(live' \subseteq live) => running' <= limit')
<1> USE DEF SlotInv
<1>1. status \in [Agents -> Statuses] /\ running \in Int /\ limit \in Nat /\ queue \in Seq(Agents)
  BY SubagentsAssumption DEF TypeOK
<1>2. TypeOK'
  <2>1. queue' \in Seq(Agents)
    <3>1. Append(queue, a) \in Seq(Agents)
      BY <1>1
    <3> QED
      BY <1>1, <3>1 DEF Spawn
  <2>2. status' \in [Agents -> Statuses] /\ batch' \subseteq Agents /\ listed' \subseteq Agents
    BY DEF Spawn, TypeOK, Statuses
  <2>3. running' \in Int /\ live' \subseteq Agents
    BY <1>1 DEF Spawn, TypeOK
  <2> QED
    BY <2>1, <2>2, <2>3 DEF Spawn, TypeOK, callVars
<1>3. CASE running >= limit
  <2>1. status' = [status EXCEPT ![a] = "queued"] /\ queue' = Append(queue, a)
        /\ UNCHANGED <<live, running, resuming, limit, faults>>
    BY <1>3 DEF Spawn
  <2>2. NotStarted' /\ SlotsCounted' /\ NoIdleSlot'
    BY <1>1, <1>3, <2>1 DEF NotStarted, Waiting, SlotsCounted, NoIdleSlot, Spawn
  <2>3. /\ DOMAIN queue' = 1 .. Len(queue) + 1 /\ Len(queue) \in Nat
        /\ queue'[Len(queue) + 1] = a
        /\ \A i \in DOMAIN queue : queue'[i] = queue[i]
        /\ DOMAIN queue = 1 .. Len(queue)
    BY <1>1, <2>1
  <2>4. \A i \in DOMAIN queue : queue[i] # a
    BY DEF QueueIsSound, Spawn
  <2>5. QueueIsSound'
    <3>1. \A i, j \in DOMAIN queue' : queue'[i] = queue'[j] => i = j
      <4> SUFFICES ASSUME NEW i \in DOMAIN queue', NEW j \in DOMAIN queue', queue'[i] = queue'[j]
                   PROVE  i = j
        OBVIOUS
      <4>1. (i \in DOMAIN queue \/ i = Len(queue) + 1) /\ (j \in DOMAIN queue \/ j = Len(queue) + 1)
        BY <2>3
      <4> QED
        BY <2>3, <2>4, <4>1 DEF QueueIsSound
    <3>2. ASSUME NEW b \in Agents
          PROVE  status'[b] = "queued" <=> \E i \in DOMAIN queue' : queue'[i] = b
      <4>1. CASE b = a
        <5>1. Len(queue) + 1 \in DOMAIN queue'
          BY <2>3
        <5> QED
          BY <1>1, <2>1, <2>3, <4>1, <5>1
      <4>2. CASE b # a
        <5>1. status'[b] = status[b]
          BY <1>1, <2>1, <4>2
        <5>2. (\E i \in DOMAIN queue' : queue'[i] = b) <=> \E i \in DOMAIN queue : queue[i] = b
          BY <2>3, <4>2
        <5> QED
          BY <5>1, <5>2 DEF QueueIsSound
      <4> QED
        BY <4>1, <4>2
    <3> QED
      BY <3>1, <3>2 DEF QueueIsSound
  <2> QED
    BY <1>2, <2>1, <2>2, <2>5
<1>4. CASE ~(running >= limit)
  <2>1. status' = [status EXCEPT ![a] = "running"] /\ live' = live \cup {a} /\ running' = running + 1
        /\ UNCHANGED <<queue, resuming, limit, faults>> /\ status[a] = "none"
    BY <1>4 DEF Spawn
  <2>2. a \notin live
    BY <2>1 DEF NotStarted, Waiting
  <2>3. Cardinality(live') = Cardinality(live) + 1
    BY <2>1, <2>2, SubagentsAssumption, FS_Subset, FS_AddElement DEF TypeOK
  <2>4. NotStarted' /\ QueueIsSound'
    BY <1>1, <2>1 DEF NotStarted, Waiting, QueueIsSound
  <2>5. SlotsCounted' /\ NoIdleSlot' /\ running' <= limit'
    BY <1>1, <1>4, <2>1, <2>3 DEF SlotsCounted, NoIdleSlot
  <2> QED
    BY <1>2, <2>4, <2>5
<1> QED
  BY <1>3, <1>4

LEMMA SettleKeepsSlots ==
    ASSUME SlotInv, NEW a \in Agents, Settle(a) \/ SettleTwice(a)
    PROVE  SlotInv' /\ (faults' = 0 /\ ~(live' \subseteq live) => running' <= limit')
<1> USE DEF SlotInv
<1> DEFINE newStatus == [status EXCEPT ![a] = "done"]
           stillLive == live \ {a}
<1>1. PICK used \in Int :
        /\ DrainQueue(newStatus, stillLive, used, limit)
        /\ faults' = 0 => used = running - 1 /\ faults = 0
  BY DEF Settle, SettleTwice, TypeOK
<1>2. /\ newStatus \in [Agents -> Statuses]
      /\ \A b \in Agents : newStatus[b] = status[b] \/ (b \in live /\ newStatus[b] = "done")
  BY DEF Settle, SettleTwice, TypeOK, Statuses
<1>3. Cardinality(stillLive) = Cardinality(live) - 1
  BY SubagentsAssumption, FS_Subset, FS_RemoveElement DEF Settle, SettleTwice, TypeOK
<1>4. faults' = 0 => used = Cardinality(stillLive)
  BY <1>1, <1>3 DEF SlotsCounted
<1>5. /\ limit' = limit /\ limit \in Limits
      /\ UNCHANGED <<resuming, listed, batch, limit>> /\ UNCHANGED callVars
      /\ faults' \in 0 .. MaxFaults /\ OnComplete(a)
  BY SubagentsAssumption DEF Settle, SettleTwice, TypeOK
<1>6. stillLive \in SUBSET live
  OBVIOUS
<1> HIDE DEF newStatus, stillLive
<1>7. NotStarted' /\ SlotsCounted' /\ QueueIsSound' /\ NoIdleSlot'
  BY <1>1, <1>2, <1>4, <1>5, <1>6, SlotsRefilled
<1>8. Drained(newStatus, stillLive, used, limit)
  BY <1>1, <1>2, <1>5, <1>6, DrainedTypes
<1>9. WordTypes'
  BY <1>5, CompletionTypes DEF WordTypes, TypeOK
<1>10. TypeOK'
  BY <1>5, <1>8, <1>9 DEF TypeOK, Drained, WordTypes, callVars
<1>11. ~(live' \subseteq live) => running' <= limit'
  BY <1>5, <1>6, <1>8 DEF Drained
<1> QED
  BY <1>7, <1>10, <1>11

LEMMA LimitKeepsSlots ==
    ASSUME SlotInv, NEW n \in Limits, SetMaxConcurrent(n)
    PROVE  SlotInv' /\ (~(live' \subseteq live) => running' <= limit')
<1> USE DEF SlotInv
<1>1. DrainQueue(status, live, running, n) /\ limit' = n
      /\ UNCHANGED <<listed, resuming, faults, batch, groups, nudges>> /\ UNCHANGED callVars
  BY DEF SetMaxConcurrent, wordVars
<1>2. /\ status \in [Agents -> Statuses] /\ running \in Int /\ faults' \in 0 .. MaxFaults
      /\ faults' = 0 => running = Cardinality(live)
  BY <1>1 DEF TypeOK, SlotsCounted
<1>3. NotStarted' /\ SlotsCounted' /\ QueueIsSound' /\ NoIdleSlot'
  BY <1>1, <1>2, SlotsRefilled
<1>4. Drained(status, live, running, n)
  BY <1>1, <1>2, DrainedTypes
<1>5. TypeOK'
  BY <1>1, <1>4 DEF TypeOK, Drained, callVars
<1> QED
  BY <1>1, <1>3, <1>4, <1>5 DEF Drained

LEMMA SlotStep ==
    ASSUME SlotInv, [Next]_vars
    PROVE  SlotInv' /\ (faults' = 0 /\ ~(live' \subseteq live) => running' <= limit')
<1> USE DEF SlotInv, slotVars, wordVars, callVars
<1>1. CASE UNCHANGED vars
  BY <1>1 DEF vars, TypeOK, NotStarted, Waiting, SlotsCounted, QueueIsSound, NoIdleSlot
<1>2. ASSUME NEW a \in Agents, NEW joinMode, Spawn(a, joinMode)
      PROVE  SlotInv' /\ (~(live' \subseteq live) => running' <= limit')
  BY <1>2, SpawnKeepsSlots
<1>3. ASSUME NEW a \in Agents, Settle(a) \/ SettleTwice(a)
      PROVE  SlotInv' /\ (faults' = 0 /\ ~(live' \subseteq live) => running' <= limit')
  BY <1>3, SettleKeepsSlots
<1>4. ASSUME NEW a \in Agents, NEW freed \in 1 .. 2, SettleMuted(a, freed)
      PROVE  SlotInv' /\ live' \subseteq live
  <2>1. TypeOK' /\ live' \subseteq live
    BY <1>4 DEF TypeOK, SettleMuted, Statuses
  <2>2. faults' > 0 /\ a \in live /\ status[a] \notin {"none", "queued"}
    BY <1>4 DEF SettleMuted, TypeOK, NotStarted, Waiting
  <2>3. NotStarted' /\ SlotsCounted' /\ NoIdleSlot'
    BY <1>4, <2>2 DEF SettleMuted, TypeOK, NotStarted, Waiting, SlotsCounted, NoIdleSlot
  <2>4. QueueIsSound'
    BY <1>4, <2>2 DEF SettleMuted, TypeOK, QueueIsSound
  <2> QED
    BY <2>1, <2>3, <2>4
<1>5. ASSUME NEW a \in Agents, Resume(a) \/ ResumeEnds(a)
      PROVE  SlotInv' /\ live' \subseteq live
  <2>1. status[a] \notin {"none", "queued"}
    BY <1>5 DEF Resume, ResumeEnds, NotStarted, Waiting, TypeOK
  <2>2. TypeOK' /\ UNCHANGED <<live, queue, running, limit, faults>>
    BY <1>5 DEF Resume, ResumeEnds, TypeOK, Statuses
  <2>3. \A b \in Agents : status'[b] = status[b]
                          \/ (b = a /\ status'[b] \notin {"none", "queued"})
    BY <1>5 DEF Resume, ResumeEnds, TypeOK
  <2>4. \A b \in resuming' \ resuming : ~Waiting(b)
    BY <1>5, <2>1 DEF Resume, ResumeEnds, Waiting
  <2>5. NotStarted' /\ SlotsCounted' /\ QueueIsSound' /\ NoIdleSlot'
    BY <2>1, <2>2, <2>3, <2>4, SlotsUntouched DEF TypeOK
  <2> QED
    BY <2>2, <2>5
<1>6. ASSUME NEW a \in Agents, AwaitResult(a) \/ Answer(a) \/ FetchResult(a)
      PROVE  SlotInv' /\ live' \subseteq live
  <2>1. TypeOK' /\ UNCHANGED <<status, resuming, live, queue, running, limit, faults>>
    BY <1>6 DEF AwaitResult, Answer, FetchResult, TypeOK
  <2> QED
    BY <2>1 DEF NotStarted, Waiting, SlotsCounted, QueueIsSound, NoIdleSlot
<1>7. ASSUME NEW n \in Limits, SetMaxConcurrent(n)
      PROVE  SlotInv' /\ (~(live' \subseteq live) => running' <= limit')
  BY <1>7, LimitKeepsSlots
<1>8. CASE ClearCompleted
  BY <1>8 DEF ClearCompleted, TypeOK, NotStarted, Waiting, SlotsCounted, QueueIsSound, NoIdleSlot
<1>9. CASE FinalizeBatch
  <2>1. WordTypes'
    BY <1>9, BatchTypes
  <2>2. UNCHANGED <<status, listed, resuming, live, queue, running, limit, consumed, waiting, told, heard, faults>>
        /\ batch' = {}
    BY <1>9 DEF FinalizeBatch
  <2> QED
    BY <2>1, <2>2 DEF WordTypes, TypeOK, NotStarted, Waiting, SlotsCounted, QueueIsSound, NoIdleSlot
<1>10. ASSUME NEW g \in groups, JoinTimeout(g)
       PROVE  SlotInv' /\ live' \subseteq live
  <2>1. WordTypes'
    BY <1>10, TimeoutTypes DEF TypeOK, WordTypes
  <2>2. UNCHANGED <<status, listed, resuming, live, queue, running, limit, batch, consumed, waiting, told, heard, faults>>
    BY <1>10 DEF JoinTimeout
  <2> QED
    BY <2>1, <2>2 DEF WordTypes, TypeOK, NotStarted, Waiting, SlotsCounted, QueueIsSound, NoIdleSlot
<1>11. ASSUME NEW n \in nudges, Tell(n)
       PROVE  SlotInv' /\ live' \subseteq live
  <2>1. told' \in [Agents -> Nat]
    BY <1>11 DEF Tell, TypeOK
  <2>2. UNCHANGED <<status, listed, resuming, live, queue, running, limit, batch, groups, consumed, waiting, heard, faults>>
        /\ nudges' = nudges \ {n}
    BY <1>11 DEF Tell
  <2> QED
    BY <2>1, <2>2 DEF TypeOK, NotStarted, Waiting, SlotsCounted, QueueIsSound, NoIdleSlot
<1> QED
  BY <1>1, <1>2, <1>3, <1>4, <1>5, <1>6, <1>7, <1>8, <1>9, <1>10, <1>11 DEF Next

(* Every reachable state is well-typed. *)
THEOREM SubagentsTyped == Spec => []TypeOK
<1>1. SlotInv /\ [Next]_vars => SlotInv'
  BY SlotStep
<1>2. SlotInv => TypeOK
  BY DEF SlotInv
<1> QED
  BY SlotInit, <1>1, <1>2, PTL DEF Spec

(* The slots are counted right, the queue holds exactly the queued agents  *)
(* and no slot is idle while one waits.                                    *)
THEOREM SlotsAreSound == Spec => [](SlotsCounted /\ QueueIsSound /\ NoIdleSlot)
<1>1. SlotInv /\ [Next]_vars => SlotInv'
  BY SlotStep
<1>2. SlotInv => SlotsCounted /\ QueueIsSound /\ NoIdleSlot
  BY DEF SlotInv
<1> QED
  BY SlotInit, <1>1, <1>2, PTL DEF Spec

(* runningBackground is the number of unsettled runs.                      *)
THEOREM SlotsStayCounted == Spec => []SlotsCounted
BY SlotsAreSound, PTL

(* The queue of the manager holds the queued agents, each of them once.    *)
THEOREM QueueStaysSound == Spec => []QueueIsSound
BY SlotsAreSound, PTL

(* Nobody is queued while a slot is free (drainQueue).                     *)
THEOREM SlotsAreUsed == Spec => []NoIdleSlot
BY SlotsAreSound, PTL

(* No step starts a run beyond the limit. *)
THEOREM StartsAreBounded == Spec => StartsWithinLimit
<1>1. SlotInv /\ [Next]_vars => SlotInv'
  BY SlotStep
<1>2. SlotInv /\ SlotInv' /\ [Next]_vars
        => [faults' = 0 /\ ~(live' \subseteq live) => Cardinality(live') <= limit']_vars
  BY SlotStep DEF SlotInv, SlotsCounted
<1> QED
  BY SlotInit, <1>1, <1>2, PTL DEF Spec, StartsWithinLimit
-----------------------------------------------------------------------------
NoWord(a) == \A n \in nudges : a \notin n.of

(* Nothing was said of an agent that has not settled. *)
Unsettled == \A a \in Agents :
    Waiting(a) \/ a \in live =>
       told[a] = 0 /\ NoWord(a) /\ \A g \in groups : a \notin g.done

(* An agent of the open batch is in no group and in no word. *)
InBatch == \A a \in batch :
    /\ status[a] # "none" /\ a \notin resuming
    /\ a \in live => status[a] = "running"
    /\ told[a] = 0 /\ NoWord(a) /\ ~Grouped(a)

(* An agent of a group is in no other group and in no word. *)
InGroup ==
    /\ \A g \in groups : \A a \in g.of :
          status[a] # "none" /\ told[a] = 0 /\ NoWord(a)
    /\ \A g, h \in groups : g # h => g.of \cap h.of = {}

(* An agent of a held word is in no other word. *)
InWord ==
    /\ \A n \in nudges : \A a \in n.of : told[a] = 0
    /\ \A m, n \in nudges : m # n => m.of \cap n.of = {}

WordInv == Unsettled /\ InBatch /\ InGroup /\ InWord /\ ToldOnce

LEMMA WordInit == Init => WordInv
  BY DEF Init, WordInv, Unsettled, InBatch, InGroup, InWord, ToldOnce, NoWord

(* Steps that give out no word and end no run that is waited for. *)
LEMMA WordsUntouched ==
    ASSUME SlotInv, WordInv,
           UNCHANGED <<batch, groups, told>>, nudges' \subseteq nudges,
           \A b \in Agents : (status'[b] \in {"none", "queued"} \/ b \in live')
                                => Waiting(b) \/ b \in live,
           \A b \in batch : b \notin resuming' /\ (b \in live' => status'[b] = "running"),
           \A b \in Agents : status'[b] = "none" => status[b] = "none"
    PROVE  WordInv'
<1>1. batch \subseteq Agents /\ \A g \in groups : g.of \subseteq Agents
  BY DEF SlotInv, TypeOK, Group
<1>2. Unsettled'
  BY DEF WordInv, Unsettled, NoWord, Waiting
<1>3. InBatch'
  BY <1>1 DEF WordInv, InBatch, NoWord, Grouped
<1>4. InGroup'
  BY <1>1 DEF WordInv, InGroup, NoWord
<1>5. InWord' /\ ToldOnce'
  BY DEF WordInv, InWord, ToldOnce
<1> QED
  BY <1>2, <1>3, <1>4, <1>5 DEF WordInv

(* The run of an agent ends and its word goes where it belongs. *)
LEMMA CompletionKeepsWords ==
    ASSUME SlotInv, WordInv, NEW a \in live, OnComplete(a),
           UNCHANGED <<batch, told, resuming>>,
           \A b \in Agents : (status'[b] \in {"none", "queued"} \/ b \in live')
                                => b # a /\ (Waiting(b) \/ b \in live),
           \A b \in batch : b \in live' => status'[b] = "running",
           \A b \in Agents : status'[b] = "none" => status[b] = "none"
    PROVE  WordInv'
<1>1. batch \subseteq Agents /\ a \in Agents
      /\ \A g \in groups : g.of \subseteq Agents /\ g.done \subseteq g.of
  BY DEF SlotInv, TypeOK, Group
<1>2. told[a] = 0 /\ NoWord(a) /\ \A g \in groups : a \notin g.done
  BY <1>1 DEF WordInv, Unsettled
<1>3. CASE groups' = groups /\ nudges' = nudges
  <2>1. \A b \in batch : b \notin resuming'
    BY DEF WordInv, InBatch
  <2> QED
    BY <1>3, <2>1, WordsUntouched
<1>4. CASE /\ a \notin batch /\ ~Grouped(a)
           /\ nudges' = nudges \cup {Alone(a)} /\ UNCHANGED groups
  <2>1. \A b : b \in Alone(a).of <=> b = a
    BY DEF Alone
  <2>2. \A b : b # a => (NoWord(b)' <=> NoWord(b))
    BY <1>4, <2>1 DEF NoWord
  <2>3. Unsettled'
    BY <1>4, <2>2 DEF WordInv, Unsettled, Waiting
  <2>4. InBatch'
    BY <1>1, <1>4, <2>2 DEF WordInv, InBatch, Grouped
  <2>5. InGroup'
    BY <1>1, <1>4, <2>2 DEF WordInv, InGroup, Grouped
  <2>6. InWord' /\ ToldOnce'
    BY <1>2, <1>4, <2>1 DEF WordInv, InWord, ToldOnce, NoWord
  <2> QED
    BY <2>3, <2>4, <2>5, <2>6 DEF WordInv
<1>5. ASSUME NEW g \in groups, a \notin batch, a \in g.of, Join(g, {a})
      PROVE  WordInv'
  <2> DEFINE done == g.done \cup {a}
  <2>1. g \in [of : SUBSET Agents, done : SUBSET Agents]
    BY DEF SlotInv, TypeOK, Group
  <2>2. \A b \in g.of : told[b] = 0 /\ NoWord(b) /\ b \notin batch
                        /\ \A h \in groups : b \in h.of => h = g
    BY <1>1 DEF WordInv, InGroup, InBatch, Grouped
  <2>3. CASE done = g.of
    <3>1. groups' = groups \ {g} /\ nudges' = nudges \cup {Bundle(g.of)}
      BY <1>5, <2>3 DEF Join
    <3>2. Bundle(g.of).of = g.of
      BY DEF Bundle
    <3>3. \A b : b \notin g.of => (NoWord(b)' <=> NoWord(b))
      BY <3>1, <3>2 DEF NoWord
    <3>4. \A b \in g.of : b \in g.done \/ b = a
      BY <2>3
    <3>5. Unsettled'
      BY <3>1, <3>3, <3>4 DEF WordInv, Unsettled, Waiting
    <3>6. InBatch'
      BY <1>1, <2>2, <3>1, <3>3 DEF WordInv, InBatch, Grouped
    <3>7. InGroup'
      BY <1>1, <2>2, <3>1, <3>3 DEF WordInv, InGroup
    <3>8. InWord' /\ ToldOnce'
      BY <2>2, <3>1, <3>2 DEF WordInv, InWord, ToldOnce, NoWord
    <3> QED
      BY <3>5, <3>6, <3>7, <3>8 DEF WordInv
  <2>4. CASE done # g.of
    <3> DEFINE h == [g EXCEPT !.done = done]
    <3>1. groups' = (groups \ {g}) \cup {h} /\ UNCHANGED nudges
      BY <1>5, <2>4 DEF Join
    <3>2. h.of = g.of /\ h.done = done
      BY <2>1
    <3> HIDE DEF h
    <3>3. Unsettled'
      BY <3>1, <3>2 DEF WordInv, Unsettled, Waiting, NoWord
    <3>4. InBatch'
      BY <1>1, <2>2, <3>1, <3>2 DEF WordInv, InBatch, Grouped, NoWord
    <3>5. InGroup'
      BY <1>1, <2>2, <3>1, <3>2 DEF WordInv, InGroup, NoWord
    <3>6. InWord' /\ ToldOnce'
      BY <3>1 DEF WordInv, InWord, ToldOnce
    <3> QED
      BY <3>3, <3>4, <3>5, <3>6 DEF WordInv
  <2> QED
    BY <2>3, <2>4
<1>6. \/ groups' = groups /\ nudges' = nudges
      \/ a \notin batch /\ \E g \in groups : a \in g.of /\ Join(g, {a})
      \/ /\ a \notin batch /\ ~Grouped(a)
         /\ nudges' = nudges \cup {Alone(a)} /\ UNCHANGED groups
  BY DEF OnComplete
<1> QED
  BY <1>3, <1>4, <1>5, <1>6

LEMMA BatchKeepsWords ==
    ASSUME SlotInv, WordInv, FinalizeBatch
    PROVE  WordInv'
<1> DEFINE done == {a \in batch \cap listed : status[a] = "done"} \ consumed
           group == [of |-> batch, done |-> done]
<1>1. /\ batch' = {}
      /\ UNCHANGED <<status, live, resuming, told>>
      /\ \/ nudges' = nudges \cup {Alone(a) : a \in done} /\ UNCHANGED groups
         \/ nudges' = nudges \cup {Bundle(done)} /\ UNCHANGED groups
         \/ groups' = groups \cup {group} /\ UNCHANGED nudges
  <2>1. batch' = {} /\ UNCHANGED <<status, live, resuming, told>>
    BY DEF FinalizeBatch, callVars
  <2>2. \/ nudges' = nudges \cup {Alone(a) : a \in done} /\ UNCHANGED groups
        \/ nudges' = nudges \cup {Bundle(done)} /\ UNCHANGED groups
        \/ groups' = groups \cup {group} /\ UNCHANGED nudges
    BY DEF FinalizeBatch
  <2> QED
    BY <2>1, <2>2
<1>2. /\ batch \subseteq Agents /\ done \subseteq batch
      /\ \A g \in groups : g.of \subseteq Agents
      /\ group.of = batch /\ group.done = done
  BY DEF SlotInv, TypeOK, Group
<1>3. \A a \in done : ~Waiting(a) /\ a \notin live
  BY DEF WordInv, InBatch, Waiting
<1>4. \A a \in batch : status[a] # "none" /\ told[a] = 0 /\ NoWord(a) /\ ~Grouped(a)
  BY DEF WordInv, InBatch
<1> HIDE DEF done, group
<1>5. InBatch' /\ ToldOnce'
  BY <1>1 DEF WordInv, InBatch, ToldOnce
<1>6. CASE groups' = groups \cup {group} /\ UNCHANGED nudges
  <2>1. Unsettled'
    BY <1>1, <1>2, <1>3, <1>6 DEF WordInv, Unsettled, Waiting, NoWord
  <2>2. InGroup'
    BY <1>1, <1>2, <1>4, <1>6 DEF WordInv, InGroup, Grouped, NoWord
  <2>3. InWord'
    BY <1>1, <1>6 DEF WordInv, InWord
  <2> QED
    BY <1>5, <2>1, <2>2, <2>3 DEF WordInv
<1>7. ASSUME NEW W, nudges' = nudges \cup W, UNCHANGED groups,
             \A n \in W : n.of \subseteq done,
             \A m, n \in W : m # n => m.of \cap n.of = {}
      PROVE  WordInv'
  <2>1. \A b : b \notin done => (NoWord(b)' <=> NoWord(b))
    BY <1>7 DEF NoWord
  <2>2. Unsettled'
    BY <1>1, <1>2, <1>3, <1>7, <2>1 DEF WordInv, Unsettled, Waiting
  <2>3. InGroup'
    BY <1>1, <1>2, <1>4, <1>7, <2>1 DEF WordInv, InGroup, Grouped
  <2>4. InWord'
    <3>1. \A n \in nudges' : \A a \in n.of : told'[a] = 0
      BY <1>1, <1>2, <1>4, <1>7 DEF WordInv, InWord
    <3>2. \A m \in nudges, n \in W : m.of \cap n.of = {}
      BY <1>2, <1>4, <1>7 DEF NoWord
    <3>3. \A m, n \in nudges' : m # n => m.of \cap n.of = {}
      BY <1>7, <3>2 DEF WordInv, InWord
    <3> QED
      BY <3>1, <3>3 DEF InWord
  <2> QED
    BY <1>5, <2>2, <2>3, <2>4 DEF WordInv
<1>8. CASE nudges' = nudges \cup {Bundle(done)} /\ UNCHANGED groups
  <2> DEFINE W == {Bundle(done)}
  <2>1. (\A n \in W : n.of \subseteq done) /\ \A m, n \in W : m # n => m.of \cap n.of = {}
    BY DEF Bundle
  <2>2. nudges' = nudges \cup W
    BY <1>8
  <2> HIDE DEF W
  <2> QED
    BY <1>7, <1>8, <2>1, <2>2
<1>9. CASE nudges' = nudges \cup {Alone(a) : a \in done} /\ UNCHANGED groups
  <2>1. \A a \in done : Alone(a).of = {a}
    BY DEF Alone
  <2> DEFINE W == {Alone(b) : b \in done}
  <2>2. (\A n \in W : n.of \subseteq done) /\ \A m, n \in W : m # n => m.of \cap n.of = {}
    BY <2>1
  <2> HIDE DEF W
  <2>3. nudges' = nudges \cup W
    BY <1>9 DEF W
  <2> QED
    BY <1>7, <1>9, <2>2, <2>3
<1> QED
  BY <1>1, <1>6, <1>8, <1>9

LEMMA TimeoutKeepsWords ==
    ASSUME SlotInv, WordInv, NEW g \in groups, JoinTimeout(g)
    PROVE  WordInv'
<1> DEFINE rest == [of |-> g.of \ g.done, done |-> {}]
<1>1. /\ nudges' = nudges \cup {Bundle(g.done)}
      /\ groups' = (groups \ {g}) \cup {rest}
      /\ UNCHANGED <<status, live, resuming, batch, told>>
  BY DEF JoinTimeout, callVars
<1>2. /\ batch \subseteq Agents /\ g.done \subseteq g.of
      /\ \A h \in groups : h.of \subseteq Agents
      /\ rest.of = g.of \ g.done /\ rest.done = {}
      /\ Bundle(g.done).of = g.done
  BY DEF SlotInv, TypeOK, Group, Bundle
<1> HIDE DEF rest
<1>3. \A b \in g.of : /\ told[b] = 0 /\ NoWord(b) /\ b \notin batch /\ status[b] # "none"
                      /\ \A h \in groups : b \in h.of => h = g
  BY DEF WordInv, InGroup, InBatch, Grouped
<1>4. \A b : b \notin g.done => (NoWord(b)' <=> NoWord(b))
  BY <1>1, <1>2 DEF NoWord
<1>5. Unsettled'
  BY <1>1, <1>2, <1>4 DEF WordInv, Unsettled, Waiting
<1>6. InBatch'
  BY <1>1, <1>2, <1>3, <1>4 DEF WordInv, InBatch, Grouped
<1>7. InGroup'
  BY <1>1, <1>2, <1>3, <1>4 DEF WordInv, InGroup
<1>8. InWord' /\ ToldOnce'
  BY <1>1, <1>2, <1>3 DEF WordInv, InWord, ToldOnce, NoWord
<1> QED
  BY <1>5, <1>6, <1>7, <1>8 DEF WordInv

LEMMA TellKeepsWords ==
    ASSUME SlotInv, WordInv, NEW n \in nudges, Tell(n)
    PROVE  WordInv'
<1>1. /\ nudges' = nudges \ {n}
      /\ \A a \in Agents : told'[a] = IF a \in n.of \ consumed THEN told[a] + 1 ELSE told[a]
      /\ UNCHANGED <<status, live, resuming, batch, groups>>
  BY DEF Tell
<1>2. /\ batch \subseteq Agents /\ told \in [Agents -> Nat]
      /\ \A g \in groups : g.of \subseteq Agents
      /\ \A m \in nudges : m.of \subseteq Agents
  BY DEF SlotInv, TypeOK, Group, Nudge
<1>3. \A a \in Agents : NoWord(a) => NoWord(a)' /\ told'[a] = told[a]
  BY <1>1 DEF NoWord
<1>4. Unsettled' /\ InBatch' /\ InGroup'
  BY <1>1, <1>2, <1>3 DEF WordInv, Unsettled, InBatch, InGroup, Waiting, Grouped
<1>5. InWord'
  BY <1>1, <1>2 DEF WordInv, InWord
<1>6. ToldOnce'
  BY <1>1, <1>2 DEF WordInv, InWord, ToldOnce
<1> QED
  BY <1>4, <1>5, <1>6 DEF WordInv

LEMMA SpawnKeepsWords ==
    ASSUME SlotInv, WordInv, NEW a \in Agents, NEW joinMode, Spawn(a, joinMode)
    PROVE  WordInv'
<1>1. /\ status[a] = "none" /\ batch' \subseteq batch \cup {a}
      /\ \/ status' = [status EXCEPT ![a] = "queued"] /\ live' = live
         \/ status' = [status EXCEPT ![a] = "running"] /\ live' = live \cup {a}
      /\ UNCHANGED <<resuming, groups, nudges, told>>
  BY DEF Spawn, callVars, SlotInv, TypeOK
<1>2. /\ batch \subseteq Agents /\ status \in [Agents -> Statuses]
      /\ \A g \in groups : g.of \subseteq Agents
  BY DEF SlotInv, TypeOK, Group
<1>3. Waiting(a) /\ a \notin live \cup resuming
  BY <1>1 DEF SlotInv, NotStarted, Waiting
<1>4. told[a] = 0 /\ NoWord(a) /\ ~Grouped(a)
  BY <1>1, <1>3 DEF WordInv, Unsettled, InGroup, Grouped
<1>5. Unsettled'
  BY <1>1, <1>2, <1>3 DEF WordInv, Unsettled, Waiting, NoWord
<1>6. InBatch'
  BY <1>1, <1>2, <1>3, <1>4 DEF WordInv, InBatch, Grouped, NoWord
<1>7. InGroup'
  BY <1>1, <1>2 DEF WordInv, InGroup, NoWord
<1>8. InWord' /\ ToldOnce'
  BY <1>1 DEF WordInv, InWord, ToldOnce
<1> QED
  BY <1>5, <1>6, <1>7, <1>8 DEF WordInv

LEMMA WordStep ==
    ASSUME SlotInv, WordInv, [Next]_vars
    PROVE  WordInv'
<1> USE DEF slotVars, wordVars, callVars
<1>0. /\ status \in [Agents -> Statuses] /\ live \subseteq Agents /\ batch \subseteq Agents
      /\ \A b \in batch : b \notin resuming /\ (b \in live => status[b] = "running")
      /\ \A b \in Agents : Waiting(b) => b \notin live \cup resuming
  BY DEF SlotInv, TypeOK, WordInv, InBatch, NotStarted
<1>1. CASE UNCHANGED vars
  BY <1>0, <1>1, WordsUntouched DEF vars, Waiting
<1>2. ASSUME NEW a \in Agents, NEW joinMode, Spawn(a, joinMode) PROVE WordInv'
  BY <1>2, SpawnKeepsWords
<1>3. ASSUME NEW a \in Agents, Settle(a) \/ SettleTwice(a) PROVE WordInv'
  <2> DEFINE newStatus == [status EXCEPT ![a] = "done"]
             stillLive == live \ {a}
  <2>1. PICK used \in Int : DrainQueue(newStatus, stillLive, used, limit)
    BY <1>3 DEF Settle, SettleTwice, SlotInv, TypeOK
  <2>2. /\ newStatus \in [Agents -> Statuses] /\ stillLive \in SUBSET live
        /\ \A b \in Agents : newStatus[b] = status[b] \/ (b \in live /\ newStatus[b] = "done")
        /\ limit \in Limits
    BY <1>0, <1>3 DEF Settle, SettleTwice, SlotInv, TypeOK, Statuses
  <2>3. /\ newStatus[a] = "done" /\ a \notin stillLive /\ a \in live
        /\ \A b \in Agents : b # a => newStatus[b] = status[b]
        /\ OnComplete(a) /\ UNCHANGED <<batch, told, resuming>>
    BY <1>0, <1>3 DEF Settle, SettleTwice
  <2> HIDE DEF newStatus
  <2>4. Drained(newStatus, stillLive, used, limit)
    BY <2>1, <2>2, DrainedTypes
  <2>5. \A b \in Agents : status'[b] \in {"none", "queued"} \/ b \in live'
                             => b # a /\ (Waiting(b) \/ b \in live)
    BY <2>3, <2>4 DEF Drained, Waiting
  <2>6. \A b \in batch : b \in live' => status'[b] = "running"
    BY <1>0, <2>3, <2>4 DEF Drained
  <2>7. \A b \in Agents : status'[b] = "none" => status[b] = "none"
    BY <2>3, <2>4 DEF Drained
  <2> QED
    BY <2>3, <2>5, <2>6, <2>7, CompletionKeepsWords
<1>4. ASSUME NEW a \in Agents, NEW freed \in 1 .. 2, SettleMuted(a, freed) PROVE WordInv'
  <2>1. \A b \in Agents : status'[b] = IF b = a THEN "done" ELSE status[b]
    BY <1>0, <1>4 DEF SettleMuted
  <2>2. a \in live /\ live' = live \ {a} /\ UNCHANGED <<batch, groups, nudges, told, resuming>>
    BY <1>4 DEF SettleMuted
  <2> QED
    BY <1>0, <2>1, <2>2, WordsUntouched DEF Waiting
<1>5. ASSUME NEW a \in Agents, Resume(a) \/ ResumeEnds(a) PROVE WordInv'
  <2>1. a \notin batch /\ ~Waiting(a) /\ resuming' \subseteq resuming \cup {a}
    BY <1>0, <1>5 DEF Resume, ResumeEnds, Waiting
  <2>2. UNCHANGED <<live, batch, groups, nudges, told>>
    BY <1>5 DEF Resume, ResumeEnds
  <2>3. \A b \in Agents : status'[b] = status[b]
                          \/ (b = a /\ status'[b] \notin {"none", "queued"})
    BY <1>0, <1>5 DEF Resume, ResumeEnds
  <2>4. \A b \in batch : status'[b] = status[b]
    BY <1>0, <2>1, <2>3
  <2> QED
    BY <1>0, <2>1, <2>2, <2>3, <2>4, WordsUntouched DEF Waiting
<1>6. ASSUME NEW a \in Agents, AwaitResult(a) \/ Answer(a) \/ FetchResult(a) PROVE WordInv'
  <2>1. UNCHANGED <<status, live, resuming, batch, groups, told>> /\ nudges' \subseteq nudges
    BY <1>6 DEF AwaitResult, Answer, FetchResult
  <2> QED
    BY <1>0, <2>1, WordsUntouched DEF Waiting
<1>7. ASSUME NEW n \in Limits, SetMaxConcurrent(n) PROVE WordInv'
  <2>1. /\ DrainQueue(status, live, running, n)
        /\ UNCHANGED <<resuming, batch, groups, nudges, told>>
    BY <1>7 DEF SetMaxConcurrent
  <2>2. Drained(status, live, running, n)
    BY <1>0, <2>1, DrainedTypes DEF SlotInv, TypeOK
  <2> QED
    BY <1>0, <2>1, <2>2, WordsUntouched DEF Drained, Waiting
<1>8. CASE ClearCompleted
  BY <1>0, <1>8, WordsUntouched DEF ClearCompleted, Waiting
<1>9. CASE FinalizeBatch
  BY <1>9, BatchKeepsWords
<1>10. ASSUME NEW g \in groups, JoinTimeout(g) PROVE WordInv'
  BY <1>10, TimeoutKeepsWords
<1>11. ASSUME NEW n \in nudges, Tell(n) PROVE WordInv'
  BY <1>11, TellKeepsWords
<1> QED
  BY <1>1, <1>2, <1>3, <1>4, <1>5, <1>6, <1>7, <1>8, <1>9, <1>10, <1>11 DEF Next

(* No agent is announced twice, and none before its run has settled.       *)
THEOREM WordsAreSound == Spec => [](ToldOnce /\ OnlyDoneAnnounced)
<1>1. SlotInv /\ WordInv /\ [Next]_vars => SlotInv' /\ WordInv'
  BY SlotStep, WordStep
<1>2. SlotInv /\ WordInv => ToldOnce /\ OnlyDoneAnnounced
  BY DEF SlotInv, TypeOK, WordInv, Unsettled, NoWord, OnlyDoneAnnounced
<1> QED
  BY SlotInit, WordInit, <1>1, <1>2, PTL DEF Spec

(* No agent is announced a second time (manager and group callbacks of     *)
(* agents/index.ts).                                                       *)
THEOREM ToldAtMostOnce == Spec => []ToldOnce
BY WordsAreSound, PTL

(* No agent is announced before its run has settled.                       *)
THEOREM OnlyEndsAreAnnounced == Spec => []OnlyDoneAnnounced
BY WordsAreSound, PTL
-----------------------------------------------------------------------------
(* The parent has the result of an agent, or a call of its own brings it.  *)
Reached(a) == a \in waiting \cup heard \cup resuming

(* The agent's word is on its way: with the open batch, with its group, or *)
(* in a word that is held.                                                 *)
UnderWay(a) == a \in batch \/ (\E g \in groups : a \in g.done) \/ ~NoWord(a)

(* An agent runs once at a time, and is "running" exactly while it does.   *)
OneRun ==
    /\ live \cap resuming = {}
    /\ \A a \in Agents : status[a] = "running" <=> a \in live \cup resuming

(* A result counts as fetched only where it gets to the parent.            *)
FetchedReaches == \A a \in consumed : Reached(a)

(* Whoever has settled was told of, has reached the parent, or is on the   *)
(* way to it: each of these places has a timer or a call that empties it.  *)
NoEndIsLost == \A a \in listed : Settled(a) => told[a] > 0 \/ Reached(a) \/ UnderWay(a)

EndInv == OneRun /\ FetchedReaches /\ NoEndIsLost

LEMMA EndInit == Init => EndInv
  BY DEF Init, EndInv, OneRun, FetchedReaches, NoEndIsLost

(* What a held word names.                                                 *)
LEMMA WordsName ==
    ASSUME NEW a, NEW S
    PROVE  Alone(a).of = {a} /\ Bundle(S).of = S
  BY DEF Alone, Bundle

(* A completion leaves every word on its way, and puts the agent's there   *)
(* unless its result was fetched.                                          *)
LEMMA CompletionIsUnderWay ==
    ASSUME SlotInv, NEW a \in Agents, OnComplete(a), batch' = batch
    PROVE  /\ \A b \in Agents : UnderWay(b) => UnderWay(b)'
           /\ a \in consumed \/ UnderWay(a)'
<1>1. CASE a \in consumed \cup batch /\ UNCHANGED <<groups, nudges>>
  BY <1>1 DEF UnderWay, NoWord
<1>2. ASSUME NEW g \in groups, Join(g, {a})
      PROVE  (\A b \in Agents : UnderWay(b) => UnderWay(b)') /\ UnderWay(a)'
  <2> DEFINE done == g.done \cup {a}
  <2>1. g \in [of : SUBSET Agents, done : SUBSET Agents]
    BY DEF SlotInv, TypeOK, Group
  <2>2. CASE done = g.of
    <3>1. groups' = groups \ {g} /\ nudges' = nudges \cup {Bundle(done)}
      BY <1>2, <2>2 DEF Join
    <3>2. \A b \in done : ~NoWord(b)'
      <4>1. Bundle(done) \in nudges' /\ Bundle(done).of = done
        BY <3>1, WordsName
      <4> QED
        BY <4>1 DEF NoWord
    <3>3. \A b \in Agents : ~NoWord(b) => ~NoWord(b)'
      BY <3>1 DEF NoWord
    <3>4. \A h \in groups : h = g \/ h \in groups'
      BY <3>1
    <3> QED
      BY <3>2, <3>3, <3>4 DEF UnderWay
  <2>3. CASE done # g.of
    <3> DEFINE h == [g EXCEPT !.done = done]
    <3>1. groups' = (groups \ {g}) \cup {h} /\ UNCHANGED nudges
      BY <1>2, <2>3 DEF Join
    <3>2. h.done = done
      BY <2>1
    <3> HIDE DEF h
    <3> QED
      BY <3>1, <3>2 DEF UnderWay, NoWord
  <2> QED
    BY <2>2, <2>3
<1>3. CASE nudges' = nudges \cup {Alone(a)} /\ UNCHANGED groups
  <2>1. Alone(a) \in nudges' /\ a \in Alone(a).of
    BY <1>3, WordsName
  <2>2. ~NoWord(a)'
    BY <2>1 DEF NoWord
  <2>3. \A b \in Agents : ~NoWord(b) => ~NoWord(b)'
    BY <1>3 DEF NoWord
  <2> QED
    BY <1>3, <2>2, <2>3 DEF UnderWay
<1>4. a \in batch => UnderWay(a)'
  BY DEF UnderWay
<1> QED
  BY <1>1, <1>2, <1>3, <1>4 DEF OnComplete

(* The batch hands on the words of those who have settled in it.           *)
LEMMA BatchHandsOn ==
    ASSUME SlotInv, EndInv, FinalizeBatch
    PROVE  EndInv'
<1> DEFINE done == {a \in batch \cap listed : status[a] = "done"} \ consumed
<1>1. /\ UNCHANGED <<status, listed, live, resuming, consumed, waiting, told, heard>>
      /\ \/ nudges' = nudges \cup {Alone(a) : a \in done} /\ UNCHANGED groups
         \/ nudges' = nudges \cup {Bundle(done)} /\ UNCHANGED groups
         \/ groups' = groups \cup {[of |-> batch, done |-> done]} /\ UNCHANGED nudges
  BY DEF FinalizeBatch, callVars
<1>2. ASSUME NEW a \in done PROVE (\E g \in groups' : a \in g.done) \/ ~NoWord(a)'
  <2>1. CASE nudges' = nudges \cup {Alone(b) : b \in done}
    <3>1. Alone(a) \in nudges' /\ a \in Alone(a).of
      BY <2>1, WordsName
    <3> QED
      BY <3>1 DEF NoWord
  <2>2. CASE nudges' = nudges \cup {Bundle(done)}
    <3>1. Bundle(done) \in nudges' /\ Bundle(done).of = done
      BY <2>2, WordsName
    <3> QED
      BY <3>1 DEF NoWord
  <2>3. CASE groups' = groups \cup {[of |-> batch, done |-> done]}
    <3> DEFINE h == [of |-> batch, done |-> done]
    <3>1. h \in groups' /\ h.done = done
      BY <2>3
    <3> QED
      BY <3>1
  <2> QED
    BY <1>1, <2>1, <2>2, <2>3
<1>3. \A a \in Agents : UnderWay(a) => a \in batch \/ UnderWay(a)'
  BY <1>1 DEF UnderWay, NoWord
<1>4. OneRun' /\ FetchedReaches'
  BY <1>1 DEF EndInv, OneRun, FetchedReaches, Reached
<1>5. ASSUME NEW a \in listed, Settled(a), a \in batch
      PROVE  Reached(a) \/ a \in done
  <2>1. a \in Agents /\ status[a] \in Statuses
    BY DEF SlotInv, TypeOK
  <2>2. status[a] = "running" => a \in resuming
    BY <1>5, <2>1 DEF EndInv, OneRun, Settled
  <2>3. status[a] \in {"running", "done"}
    BY <1>5, <2>1 DEF Settled, Statuses
  <2> QED
    BY <1>5, <2>2, <2>3 DEF EndInv, FetchedReaches, Reached
<1>6. NoEndIsLost'
  <2> SUFFICES ASSUME NEW a \in listed, Settled(a)
               PROVE  told[a] > 0 \/ Reached(a) \/ UnderWay(a)'
    BY <1>1 DEF NoEndIsLost, Settled, Reached
  <2>1. a \in Agents
    BY DEF SlotInv, TypeOK
  <2>2. told[a] > 0 \/ Reached(a) \/ UnderWay(a)
    BY DEF EndInv, NoEndIsLost
  <2>3. a \in batch => Reached(a) \/ UnderWay(a)'
    BY <1>2, <1>5 DEF UnderWay
  <2> QED
    BY <1>3, <2>1, <2>2, <2>3
<1> QED
  BY <1>4, <1>6 DEF EndInv

(* Starting agents from the queue loses nothing.                           *)
LEMMA DrainingLosesNothing ==
    ASSUME SlotInv, EndInv, NEW newStatus, NEW stillLive \in SUBSET live, NEW used, NEW max,
           Drained(newStatus, stillLive, used, max),
           \A b \in Agents : IF b \in live \ stillLive THEN newStatus[b] = "done"
                             ELSE newStatus[b] = status[b],
           UNCHANGED <<listed, resuming, consumed, waiting, told, heard>>,
           \A b \in Agents : UnderWay(b) => UnderWay(b)',
           \A b \in live \ stillLive : b \in consumed \/ UnderWay(b)'
    PROVE  EndInv'
<1> DEFINE started == live' \ stillLive
<1>1. /\ live \subseteq Agents /\ listed \subseteq Agents /\ live' \in SUBSET Agents
      /\ stillLive \subseteq live'
  BY DEF SlotInv, TypeOK, Drained
<1>2. \A b \in started : b \in Agents /\ newStatus[b] = "queued" /\ status'[b] = "running"
  BY <1>1 DEF Drained
<1>3. \A b \in started : status[b] = "queued" /\ b \notin live \cup resuming
  <2>1. \A b \in started : status[b] = "queued"
    BY <1>1, <1>2
  <2> QED
    BY <1>2, <2>1 DEF SlotInv, NotStarted, Waiting
<1>4. \A b \in Agents \ started : status'[b] = newStatus[b]
  BY DEF Drained
<1>5. \A b \in Agents : b \in live' <=> b \in stillLive \cup started
  BY <1>1
<1> HIDE DEF started
<1>6. OneRun'
  BY <1>1, <1>2, <1>3, <1>4, <1>5 DEF EndInv, OneRun
<1>7. FetchedReaches'
  BY DEF EndInv, FetchedReaches, Reached
<1>8. NoEndIsLost'
  <2> SUFFICES ASSUME NEW b \in listed, Settled(b)'
               PROVE  told[b] > 0 \/ Reached(b) \/ UnderWay(b)'
    BY DEF NoEndIsLost, Reached
  <2>1. b \in Agents /\ b \notin started /\ b \notin stillLive
    BY <1>1, <1>5 DEF Settled
  <2>2. CASE b \in live
    BY <2>1, <2>2 DEF EndInv, FetchedReaches
  <2>3. CASE b \notin live
    <3>1. Settled(b)
      BY <1>4, <2>1, <2>3 DEF Settled
    <3> QED
      BY <2>1, <3>1 DEF EndInv, NoEndIsLost
  <2> QED
    BY <2>2, <2>3
<1> QED
  BY <1>6, <1>7, <1>8 DEF EndInv

(* No step of the agents, their timers or the parent loses an end, as long *)
(* as no write fails.                                                      *)
LEMMA EndStep ==
    ASSUME Overlap = FALSE, SlotInv, EndInv, [Next]_vars, faults' = faults
    PROVE  EndInv'
<1> USE DEF slotVars, wordVars, callVars
<1>0. /\ status \in [Agents -> Statuses] /\ live \subseteq Agents /\ batch \subseteq Agents
      /\ listed \subseteq Agents /\ faults \in Nat
      /\ told \in [Agents -> Nat]
      /\ \A b \in Agents : Waiting(b) => b \notin live \cup resuming
  BY SubagentsAssumption DEF SlotInv, TypeOK, NotStarted
<1>1. CASE UNCHANGED vars
  BY <1>1 DEF vars, EndInv, OneRun, FetchedReaches, NoEndIsLost, Reached, UnderWay, NoWord, Settled
<1>2. ASSUME NEW a \in Agents, NEW joinMode, Spawn(a, joinMode) PROVE EndInv'
  <2>1. /\ status[a] = "none" /\ batch \subseteq batch' /\ listed' = listed \cup {a}
        /\ \A b \in Agents : b # a => status'[b] = status[b]
        /\ \/ status'[a] = "queued" /\ live' = live
           \/ status'[a] = "running" /\ live' = live \cup {a}
        /\ UNCHANGED <<resuming, groups, nudges, consumed, waiting, told, heard>>
    BY <1>0, <1>2 DEF Spawn
  <2>2. a \notin live \cup resuming
    BY <1>0, <2>1 DEF Waiting
  <2>3. OneRun' /\ FetchedReaches'
    BY <1>0, <2>1, <2>2 DEF EndInv, OneRun, FetchedReaches, Reached
  <2>4. \A b \in Agents : UnderWay(b) => UnderWay(b)'
    BY <2>1 DEF UnderWay, NoWord
  <2>5. \A b \in listed' : Settled(b)' => b \in listed /\ Settled(b)
    BY <1>0, <2>1 DEF Settled
  <2>6. NoEndIsLost'
    BY <1>0, <2>1, <2>4, <2>5 DEF EndInv, NoEndIsLost, Reached
  <2> QED
    BY <2>3, <2>6 DEF EndInv
<1>3. ASSUME NEW a \in Agents, Settle(a) PROVE EndInv'
  <2> DEFINE newStatus == [status EXCEPT ![a] = "done"]
             stillLive == live \ {a}
  <2>1. /\ DrainQueue(newStatus, stillLive, running - 1, limit)
        /\ a \in live /\ OnComplete(a)
        /\ UNCHANGED <<listed, resuming, batch, consumed, waiting, told, heard>>
    BY <1>3 DEF Settle
  <2>2. /\ newStatus \in [Agents -> Statuses] /\ stillLive \in SUBSET live
        /\ \A b \in Agents : newStatus[b] = status[b] \/ (b \in live /\ newStatus[b] = "done")
        /\ limit \in Limits /\ running - 1 \in Int
    BY <1>0, <2>1 DEF SlotInv, TypeOK, Statuses
  <2>3. \A b \in Agents : IF b \in live \ stillLive THEN newStatus[b] = "done"
                          ELSE newStatus[b] = status[b]
    BY <1>0, <2>1
  <2>4. \A b \in live \ stillLive : b = a
    OBVIOUS
  <2> HIDE DEF newStatus, stillLive
  <2>5. Drained(newStatus, stillLive, running - 1, limit)
    BY <2>1, <2>2, DrainedTypes
  <2> QED
    BY <2>1, <2>2, <2>3, <2>4, <2>5, CompletionIsUnderWay, DrainingLosesNothing
<1>4. ASSUME NEW a \in Agents, Resume(a) \/ ResumeEnds(a) PROVE EndInv'
  <2>1. /\ a \notin live
        /\ \/ status'[a] = "running" /\ resuming' = resuming \cup {a} /\ heard' = heard
           \/ status'[a] = "done" /\ resuming' = resuming \ {a} /\ heard' = heard \cup {a}
    BY <1>0, <1>4 DEF Resume, ResumeEnds, EndInv, OneRun
  <2>2. /\ \A b \in Agents : b # a => status'[b] = status[b]
        /\ status[a] \notin {"none", "queued"}
        /\ UNCHANGED <<listed, live, batch, groups, nudges, consumed, waiting, told>>
    BY <1>0, <1>4 DEF Resume, ResumeEnds, Waiting
  <2>3. OneRun' /\ FetchedReaches'
    BY <1>0, <2>1, <2>2 DEF EndInv, OneRun, FetchedReaches, Reached
  <2>4. \A b \in Agents : (UnderWay(b) => UnderWay(b)') /\ (Reached(b) => Reached(b)')
    BY <2>1, <2>2 DEF UnderWay, NoWord, Reached
  <2>5. \A b \in listed : Settled(b)' => Settled(b)
    BY <1>0, <2>1, <2>2 DEF Settled
  <2>6. NoEndIsLost'
    BY <1>0, <2>2, <2>4, <2>5 DEF EndInv, NoEndIsLost
  <2> QED
    BY <2>3, <2>6 DEF EndInv
<1>5. ASSUME NEW a \in Agents, AwaitResult(a) \/ Answer(a) \/ FetchResult(a) PROVE EndInv'
  <2>1. UNCHANGED <<status, listed, live, resuming, batch, groups, told>>
    BY <1>5 DEF AwaitResult, Answer, FetchResult
  <2>2. /\ consumed' \subseteq consumed \cup {a}
        /\ nudges' = nudges \/ nudges' = nudges \ {Alone(a)}
        /\ \A b \in Agents : Reached(b) => Reached(b)'
        /\ Reached(a)'
    BY <1>0, <1>5 DEF AwaitResult, Answer, FetchResult, Reached, EndInv, OneRun
  <2>3. \A b \in Agents : b # a => (UnderWay(b) => UnderWay(b)')
    BY <2>1, <2>2 DEF UnderWay, NoWord, Alone
  <2>4. OneRun'
    BY <2>1 DEF EndInv, OneRun
  <2>5. FetchedReaches'
    BY <2>2 DEF EndInv, FetchedReaches, SlotInv, TypeOK
  <2>6. NoEndIsLost'
    BY <1>0, <2>1, <2>2, <2>3 DEF EndInv, NoEndIsLost, Settled
  <2> QED
    BY <2>4, <2>5, <2>6 DEF EndInv
<1>6. ASSUME NEW n \in Limits, SetMaxConcurrent(n) PROVE EndInv'
  <2>1. /\ DrainQueue(status, live, running, n)
        /\ UNCHANGED <<listed, resuming, batch, groups, nudges, consumed, waiting, told, heard>>
    BY <1>6 DEF SetMaxConcurrent
  <2>2. Drained(status, live, running, n)
    BY <1>0, <2>1, DrainedTypes DEF SlotInv, TypeOK
  <2>3. \A b \in Agents : UnderWay(b) => UnderWay(b)'
    BY <2>1 DEF UnderWay, NoWord
  <2> QED
    BY <1>0, <2>1, <2>2, <2>3, DrainingLosesNothing
<1>7. CASE ClearCompleted
  <2>1. /\ listed' \subseteq listed
        /\ UNCHANGED <<status, live, resuming, batch, groups, nudges, consumed, waiting, told, heard>>
    BY <1>7 DEF ClearCompleted
  <2> QED
    BY <2>1 DEF EndInv, OneRun, FetchedReaches, NoEndIsLost, Reached, UnderWay, NoWord, Settled
<1>8. ASSUME NEW g \in groups, JoinTimeout(g) PROVE EndInv'
  <2>1. /\ UNCHANGED <<status, listed, live, resuming, batch, consumed, waiting, told, heard>>
        /\ nudges' = nudges \cup {Bundle(g.done)}
        /\ \A h \in groups : h = g \/ h \in groups'
    BY <1>8 DEF JoinTimeout
  <2>2. \A b \in g.done : ~NoWord(b)'
    <3>1. Bundle(g.done) \in nudges' /\ Bundle(g.done).of = g.done
      BY <2>1, WordsName
    <3> QED
      BY <3>1 DEF NoWord
  <2>3. \A b \in Agents : UnderWay(b) => UnderWay(b)'
    BY <2>1, <2>2 DEF UnderWay, NoWord
  <2> QED
    BY <1>0, <2>1, <2>3 DEF EndInv, OneRun, FetchedReaches, NoEndIsLost, Reached, Settled
<1>9. ASSUME NEW n \in nudges, Tell(n) PROVE EndInv'
  <2>1. /\ UNCHANGED <<status, listed, live, resuming, batch, groups, consumed, waiting, heard>>
        /\ nudges' = nudges \ {n}
        /\ \A b \in Agents : told'[b] = IF b \in n.of \ consumed THEN told[b] + 1 ELSE told[b]
    BY <1>9 DEF Tell
  <2>2. OneRun' /\ FetchedReaches'
    BY <2>1 DEF EndInv, OneRun, FetchedReaches, Reached
  <2>3. ASSUME NEW b \in Agents, UnderWay(b)
        PROVE  told'[b] > 0 \/ b \in consumed \/ UnderWay(b)'
    BY <1>0, <2>1, <2>3 DEF UnderWay, NoWord
  <2>4. \A b \in Agents : told[b] > 0 => told'[b] > 0
    BY <1>0, <2>1
  <2>5. NoEndIsLost'
    BY <1>0, <2>1, <2>3, <2>4 DEF EndInv, FetchedReaches, NoEndIsLost, Reached, Settled
  <2> QED
    BY <2>2, <2>5 DEF EndInv
<1>10. ASSUME NEW a \in Agents, \/ SettleTwice(a)
                                \/ \E freed \in 1 .. 2 : SettleMuted(a, freed)
       PROVE  FALSE
  BY <1>0, <1>10 DEF SettleTwice, SettleMuted
<1> QED
  BY <1>1, <1>2, <1>3, <1>4, <1>5, <1>6, <1>7, <1>8, <1>9, <1>10, BatchHandsOn DEF Next

(* As long as an agent is resumed only when it does not run and no write   *)
(* to the session file fails, no end is lost, whatever batches, groups,    *)
(* time-outs, fetches and resumes it meets: EveryEndIsHeard but for the    *)
(* timers that carry it on.                                                *)
THEOREM EndsAreNotLost ==
    ASSUME Overlap = FALSE
    PROVE  Spec => [](faults = 0 => NoEndIsLost)
<1> DEFINE Inv == faults = 0 => EndInv
<1>1. Init => Inv
  BY EndInit
<1>2. SlotInv /\ Inv /\ [Next]_vars => Inv'
  <2> SUFFICES ASSUME SlotInv, Inv, [Next]_vars, faults' = 0 PROVE EndInv'
    OBVIOUS
  <2>1. faults \in Nat /\ MaxFaults \in Nat
    BY SubagentsAssumption DEF SlotInv, TypeOK
  <2>2. ASSUME NEW a \in Agents,
               SettleTwice(a) \/ \E freed \in 1 .. 2 : SettleMuted(a, freed)
        PROVE  FALSE
    BY <2>1, <2>2 DEF SettleTwice, SettleMuted
  <2>3. ASSUME NEW a \in Agents, NEW joinMode, Spawn(a, joinMode) PROVE faults' = faults
    BY <2>3 DEF Spawn
  <2>4. ASSUME NEW a \in Agents, Settle(a) \/ Resume(a) \/ ResumeEnds(a) PROVE faults' = faults
    BY <2>4 DEF Settle, Resume, ResumeEnds
  <2>5. ASSUME NEW a \in Agents, AwaitResult(a) \/ Answer(a) \/ FetchResult(a)
        PROVE  faults' = faults
    BY <2>5 DEF AwaitResult, Answer, FetchResult
  <2>6. ASSUME NEW n, Tell(n) \/ SetMaxConcurrent(n) \/ JoinTimeout(n) PROVE faults' = faults
    BY <2>6 DEF Tell, SetMaxConcurrent, JoinTimeout
  <2>7. ClearCompleted \/ FinalizeBatch => faults' = faults
    BY DEF ClearCompleted, FinalizeBatch
  <2>8. UNCHANGED vars => faults' = faults
    BY DEF vars
  <2>9. Next => faults' = faults
    BY <2>2, <2>3, <2>4, <2>5, <2>6, <2>7 DEF Next
  <2>10. faults' = faults /\ EndInv
    BY <2>8, <2>9
  <2> QED
    BY <2>10, EndStep
<1>3. Inv => (faults = 0 => NoEndIsLost)
  BY DEF EndInv
<1>4. SlotInv /\ [Next]_vars => SlotInv'
  BY SlotStep
<1> QED
  BY SlotInit, <1>1, <1>2, <1>3, <1>4, PTL DEF Spec
=============================================================================
