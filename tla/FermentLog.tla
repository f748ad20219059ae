----------------------------- MODULE FermentLog -----------------------------
(***************************************************************************)
(* A ferment on disk (src/ferment/event-store.ts): the snapshot document   *)
(* and the event log, written one after the other under one lock, and read *)
(* back by folding the log whenever it has an event.                       *)
(*                                                                         *)
(* The log is represented by the ferment its events fold to.  The document *)
(* goes first and each event is a write of its own that may fail without   *)
(* anybody noticing (appendEvent catches the error), and the process may   *)
(* die in between: a torn write keeps some of its events.                  *)
(***************************************************************************)
EXTENDS FermentEvents

CONSTANTS
    NoLog,            \* no event was ever written for the ferment
    BrokenLog,        \* events without the ferment_created they build on
    Legacy,           \* whether the ferment may predate the event log
    MenuActivation,   \* whether the menu activates grouped phases singly
    Losses,           \* whether events can be lost
    Deletes           \* whether another process may delete the ferment

(* scope_ferment may also be called without phases.  Repeated that way     *)
(* after a torn write, it leaves the phases of the first call in the log:  *)
(* commandToEvents sees nothing new to write.  That plan is left out here. *)
ASSUME LogAssumption ==
    /\ <<>> \notin PhasePlans
    /\ NoLog # BrokenLog /\ NoLog \notin Ferments /\ BrokenLog \notin Ferments
    /\ Legacy \in BOOLEAN /\ MenuActivation \in BOOLEAN /\ Losses \in BOOLEAN
    /\ Deletes \in BOOLEAN

VARIABLES
    snap,   \* the snapshot document, as this process has it in its cache
    log,    \* what the event log folds to
    torn    \* the last write lost an event, or a deletion all of them

vars == <<snap, log, torn>>

TypeOK == snap \in Ferments /\ log \in Ferments \cup {NoLog, BrokenLog} /\ torn \in BOOLEAN

(* create() writes both; an older version wrote the document alone. *)
Init ==
    /\ snap = NewFerment
    /\ log \in {NewFerment} \cup (IF Legacy THEN {NoLog} ELSE {})
    /\ torn = FALSE

(* Folding throws on a log without its first event. *)
Readable == log # BrokenLog

(* get(): events win over the document as soon as there is one. *)
Get == IF log = NoLog THEN snap ELSE log

AppendEvents(events) ==
    CASE events = <<>> -> log
      [] events # <<>> /\ log \in Ferments -> ApplyEvents(log, events)
      [] events # <<>> /\ log \notin Ferments -> BrokenLog

(* A proper part of a command's events, in their order. *)
SomeOf(events) ==
    {<<>>} \cup (IF Len(events) = 2 THEN {<<events[1]>>, <<events[2]>>} ELSE {})

(* The tools activate a phase of a group only through its group. *)
Issued(c) ==
    c.type = "activate_phase" => MenuActivation \/ Get.phaseGroup[c.phase] = NoGroup

(* mutateWithEvents: read, derive, write the document, append the events.  *)
Mutate(c, kept, isTorn) ==
    /\ snap' = ApplyCommand(Get, c)
    /\ log' = AppendEvents(kept)
    /\ torn' = isTorn

EventsOf(c) == CommandToEvents(c, Get, ApplyCommand(Get, c))

Accepted(c) == Readable /\ Issued(c) /\ Admits(Get, c)

Write(c) == Accepted(c) /\ Mutate(c, EventsOf(c), FALSE)

TornWrite(c) ==
    /\ Losses
    /\ Accepted(c)
    /\ \E kept \in SomeOf(EventsOf(c)) : Mutate(c, kept, TRUE)

(* delete() in another process removes events and document.  This one, if  *)
(* it has written the ferment before, keeps the document in fermentCache   *)
(* until its next session and reads it there.                              *)
DeletedElsewhere ==
    /\ Deletes /\ log # NoLog
    /\ log' = NoLog /\ torn' = TRUE
    /\ UNCHANGED snap

Next == DeletedElsewhere \/ \E c \in Commands : Write(c) \/ TornWrite(c)

Spec == Init /\ [][Next]_vars
-----------------------------------------------------------------------------
(* What is read back is what was written: after a whole write the log      *)
(* folds to the very ferment the reducer returned and the caller was told  *)
(* about, also when earlier writes were torn.                              *)
FoldMatchesSnapshot == ~torn /\ log \in Ferments => log = snap

(* A torn write loses the work of a command as a whole or keeps it as a    *)
(* whole: the phases and steps read back are those of before or those of   *)
(* after, never a mixture, whichever of its events are lost.               *)
Work(f) == <<f.phase, f.phaseGroup, f.step, f.stepGroup>>
TornKeepsWorkWhole ==
    [][(log \in Ferments /\ log' \in Ferments)
         => Work(log') \in {Work(log), Work(snap')}]_vars

(* Whatever is lost, the ferment that is read back keeps its parallel      *)
(* groups together and has no step running while it is paused.             *)
LogIsSound == log \in Ferments => OneGroupActive(log) /\ QuietWhenPaused(log)

(* A deleted ferment is gone: no command brings it back.                   *)
DeletedIsGone == [][log = NoLog => UNCHANGED vars]_vars

(* The log alone is the atomic ferment: what it folds to starts as a new   *)
(* ferment and moves by one admitted command with every whole write,       *)
(* whatever earlier writes have lost and whatever the document says.       *)
Store == INSTANCE FermentStore WITH ferment <- log, New <- NewFerment
LogIsAtomic ==
    Store!Init /\ [][(log \in Ferments /\ ~torn') => Store!Next \/ UNCHANGED log]_vars
=============================================================================
