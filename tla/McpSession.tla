------------------------------ MODULE McpSession ----------------------------
(***************************************************************************)
(* The life of the MCP adapter's state over the sessions of one process    *)
(* (src/extensions/mcp-adapter/index.ts).  A session start takes the old   *)
(* state down, brings the sign-in service up and begins to initialise a    *)
(* new state, which may take as long as the slowest server; the next start *)
(* or shutdown waits neither for that nor for the start itself.            *)
(* Generations tell the starts apart.  A command or a call of the mcp tool *)
(* that comes before the state is there waits for it, across the end of    *)
(* its session if need be.                                                 *)
(***************************************************************************)
EXTENDS Integers

CONSTANTS
    MaxGen,     \* bound: starts and shutdowns of a process
    Askers      \* commands and calls that may wait for the state at once

ASSUME McpSessionAssumption == MaxGen \in Nat

VARIABLES
    gen,          \* lifecycleGeneration
    phase,        \* how far the start of a generation has come
    state,        \* state: the generation that made it, 0 for null
    initPromise,  \* initPromise: the generation it is of, 0 for null
    up,           \* the states that were made and not shut down
    asking        \* the promise an asker waits for, 0 for none

vars == <<gen, phase, state, initPromise, up, asking>>

Gens == 1 .. MaxGen
Phases == {"none", "closing", "oauth", "init", "made", "failed", "gone"}

TypeOK ==
    /\ gen \in 0 .. MaxGen
    /\ phase \in [Gens -> Phases]
    /\ state \in 0 .. MaxGen /\ initPromise \in 0 .. MaxGen
    /\ up \subseteq Gens
    /\ asking \in [Askers -> 0 .. MaxGen]

Init ==
    /\ gen = 0
    /\ phase = [g \in Gens |-> "none"]
    /\ state = 0 /\ initPromise = 0 /\ up = {}
    /\ asking = [a \in Askers |-> 0]

(* Slip: a promise that was set aside counts as not yet replaced. *)
SlipOnlyPromise(g) == initPromise # 0 /\ initPromise # g

Stale(g) == g # gen \/ initPromise # g
-----------------------------------------------------------------------------
(* What a start and a shutdown have in common.  shutdownState stops the    *)
(* health checks and closes the connections of the state it is given.      *)
TakeDown ==
    /\ gen < MaxGen
    /\ gen' = gen + 1
    /\ up' = up \ {state}
    /\ state' = 0 /\ initPromise' = 0
    /\ UNCHANGED asking

SessionStart ==
    /\ TakeDown
    /\ phase' = [phase EXCEPT ![gen + 1] = "closing"]

SessionShutdown ==
    /\ TakeDown
    /\ phase' = [phase EXCEPT ![gen + 1] = "gone"]

(* The old state is down; only the newest start goes on. *)
PreviousDown(g) ==
    /\ phase[g] = "closing"
    /\ phase' = [phase EXCEPT ![g] = IF g = gen THEN "oauth" ELSE "gone"]
    /\ UNCHANGED <<gen, state, initPromise, up, asking>>

(* Slip: the promise is not kept, so its result is taken for a late one. *)
SlipPromiseDropped(g) ==
    /\ phase[g] = "oauth"
    /\ phase' = [phase EXCEPT ![g] = "init"]
    /\ UNCHANGED <<gen, state, initPromise, up, asking>>

(* After the wait for the sign-in service the generation is not looked at. *)
OAuthUp(g) ==
    /\ phase[g] = "oauth"
    /\ phase' = [phase EXCEPT ![g] = "init"]
    /\ initPromise' = g
    /\ UNCHANGED <<gen, state, up, asking>>

Release(g) == asking' = [a \in Askers |-> IF asking[a] = g THEN 0 ELSE asking[a]]

(* Slip: the state that comes late is dropped and not shut down. *)
SlipLateStateRuns(g) ==
    /\ phase[g] = "init"
    /\ phase' = [phase EXCEPT ![g] = "made"]
    /\ up' = up \cup {g}
    /\ state' = IF Stale(g) THEN state ELSE g
    /\ initPromise' = IF Stale(g) THEN initPromise ELSE 0
    /\ Release(g)
    /\ UNCHANGED gen

(* The state of a start is made.  Its then-callback comes first and shuts  *)
(* a stale state down; those who asked come after it, and each of them     *)
(* assigns what it has waited for.                                         *)
InitOk(g) ==
    LET asked == \E a \in Askers : asking[a] = g
    IN  /\ phase[g] = "init"
        /\ phase' = [phase EXCEPT ![g] = "made"]
        /\ up' = IF Stale(g) THEN up ELSE up \cup {g}
        /\ state' = IF asked \/ ~Stale(g) THEN g ELSE state
        /\ initPromise' = IF Stale(g) THEN initPromise ELSE 0
        /\ Release(g)
        /\ UNCHANGED gen

InitFails(g) ==
    /\ phase[g] = "init"
    /\ phase' = [phase EXCEPT ![g] = "failed"]
    /\ initPromise' = IF g = gen /\ initPromise \in {0, g} THEN 0 ELSE initPromise
    /\ Release(g)
    /\ UNCHANGED <<gen, state, up>>

(* A command or a call finds no state; the promise may have settled.       *)
Ask(a) ==
    /\ asking[a] = 0 /\ state = 0 /\ initPromise # 0
    /\ \/ /\ phase[initPromise] = "init"
          /\ asking' = [asking EXCEPT ![a] = initPromise]
          /\ UNCHANGED state
       \/ /\ phase[initPromise] = "made"
          /\ state' = initPromise
          /\ UNCHANGED asking
    /\ UNCHANGED <<gen, phase, initPromise, up>>

Next ==
    \/ SessionStart \/ SessionShutdown
    \/ \E g \in Gens : PreviousDown(g) \/ OAuthUp(g) \/ InitOk(g) \/ InitFails(g)
    \/ \E a \in Askers : Ask(a)

Spec == Init /\ [][Next]_vars

(* Every wait of a start ends: closing and connecting are bounded in time. *)
FairSpec ==
    /\ Spec
    /\ \A g \in Gens : /\ WF_vars(PreviousDown(g)) /\ WF_vars(OAuthUp(g))
                       /\ WF_vars(InitOk(g) \/ InitFails(g))
-----------------------------------------------------------------------------
(* Of the states in use only the newest start's has its servers running:   *)
(* an older one that somebody puts back has been shut down before.         *)
LiveStateIsNewest == state \in up => state = gen

(* Somebody who asked an older session has just been answered: the answer  *)
(* is assigned to the state in use (/mcp, /mcp-auth and the mcp tool).     *)
LateAnswer ==
    \E a \in Askers : asking[a] \notin {0, gen} /\ asking'[a] = 0 /\ state' = asking[a]

(* A step that leaves a running state behind, in use no longer and not     *)
(* shut down, is a late answer.  No start, however late its state comes    *)
(* and whatever overtook it, and no shutdown leaves one.                   *)
OnlyLateAnswersLeak ==
    [][\A g \in up' \ {state'} : g \in up \ {state} \/ LateAnswer]_vars

(* "Prevents stale async init results from replacing newer state."         *)
NewerStateStays == [][state' # 0 => state' >= state]_vars

(* The newest start ends with its state in use, or with an error, unless   *)
(* an older one was still waiting for the sign-in service when it began.   *)
StartSettles ==
    \A g \in Gens :
       gen = g /\ phase[g] = "closing" /\ (\A h \in Gens : phase[h] # "oauth")
       ~> gen # g \/ state = g \/ phase[g] = "failed"
=============================================================================
