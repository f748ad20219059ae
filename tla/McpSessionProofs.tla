--------------------------- MODULE McpSessionProofs --------------------------
(***************************************************************************)
(* For any number of starts, shutdowns and askers, however they overlap:   *)
(* a running state that is in use is the newest, and only a late answer    *)
(* takes a running state out of use.  What both rest on is that a promise  *)
(* which is kept is never of a state that runs, so that nobody who comes   *)
(* late can get hold of one.                                               *)
(***************************************************************************)
EXTENDS McpSession, TLAPS

(* No start is under way that was not begun. *)
NotBegun == \A g \in Gens : g > gen => phase[g] = "none"

(* What runs was made, once, and its promise has been dropped. *)
RunningIsMade == \A g \in up : phase[g] = "made" /\ g # initPromise

SessionInv == TypeOK /\ NotBegun /\ RunningIsMade /\ LiveStateIsNewest

LEMMA InitHolds == Init => SessionInv
BY McpSessionAssumption
   DEF Init, SessionInv, TypeOK, Gens, Phases, NotBegun, RunningIsMade, LiveStateIsNewest

LEMMA TakeDownKeeps ==
    ASSUME SessionInv, TakeDown, NEW to \in {"closing", "gone"},
           phase' = [phase EXCEPT ![gen + 1] = to]
    PROVE  SessionInv'
<1> USE McpSessionAssumption DEF SessionInv, TypeOK, Gens, Phases
<1>1. /\ gen + 1 \in Gens /\ gen' = gen + 1 /\ state' = 0 /\ initPromise' = 0
      /\ up' \subseteq up /\ asking' = asking
  BY DEF TakeDown
<1>2. gen + 1 \notin up
  BY <1>1 DEF NotBegun, RunningIsMade
<1>3. TypeOK' /\ NotBegun'
  BY <1>1 DEF NotBegun
<1>4. RunningIsMade' /\ LiveStateIsNewest'
  BY <1>1, <1>2 DEF RunningIsMade, LiveStateIsNewest
<1> QED
  BY <1>3, <1>4

LEMMA PreviousDownKeeps ==
    ASSUME SessionInv, NEW g \in Gens, PreviousDown(g)
    PROVE  SessionInv'
BY McpSessionAssumption
   DEF PreviousDown, SessionInv, TypeOK, Gens, Phases, NotBegun, RunningIsMade,
       LiveStateIsNewest

LEMMA OAuthUpKeeps ==
    ASSUME SessionInv, NEW g \in Gens, OAuthUp(g)
    PROVE  SessionInv'
BY McpSessionAssumption
   DEF OAuthUp, SessionInv, TypeOK, Gens, Phases, NotBegun, RunningIsMade, LiveStateIsNewest

(* A state that comes in time is the newest and takes its promise along;   *)
(* one that comes late does not run, whoever is given it.                  *)
LEMMA InitOkKeeps ==
    ASSUME SessionInv, NEW g \in Gens, InitOk(g)
    PROVE  SessionInv'
<1> USE McpSessionAssumption DEF SessionInv, TypeOK, Gens, Phases
<1>1. /\ phase[g] = "init" /\ phase' = [phase EXCEPT ![g] = "made"] /\ gen' = gen
      /\ asking' = [a \in Askers |-> IF asking[a] = g THEN 0 ELSE asking[a]]
  BY DEF InitOk, Release
<1>2. g \notin up /\ g <= gen
  BY <1>1 DEF RunningIsMade, NotBegun
<1>3. CASE Stale(g)
  <2>1. up' = up /\ initPromise' = initPromise /\ state' \in {g, state}
    BY <1>3 DEF InitOk
  <2> QED
    BY <1>1, <1>2, <2>1 DEF NotBegun, RunningIsMade, LiveStateIsNewest
<1>4. CASE ~Stale(g)
  <2>1. g = gen /\ up' = up \cup {g} /\ initPromise' = 0 /\ state' = g
    BY <1>4 DEF InitOk, Stale
  <2> QED
    BY <1>1, <1>2, <2>1 DEF NotBegun, RunningIsMade, LiveStateIsNewest
<1> QED
  BY <1>3, <1>4

LEMMA InitFailsKeeps ==
    ASSUME SessionInv, NEW g \in Gens, InitFails(g)
    PROVE  SessionInv'
<1> USE McpSessionAssumption DEF SessionInv, TypeOK, Gens, Phases
<1>1. /\ UNCHANGED <<gen, state, up>>
      /\ phase[g] = "init" /\ phase' = [phase EXCEPT ![g] = "failed"]
      /\ asking' = [a \in Askers |-> IF asking[a] = g THEN 0 ELSE asking[a]]
      /\ initPromise' \in {0, initPromise}
  BY DEF InitFails, Release
<1> QED
  BY <1>1 DEF NotBegun, RunningIsMade, LiveStateIsNewest

LEMMA AskKeeps ==
    ASSUME SessionInv, NEW a \in Askers, Ask(a)
    PROVE  SessionInv'
BY McpSessionAssumption
   DEF Ask, SessionInv, TypeOK, Gens, Phases, NotBegun, RunningIsMade, LiveStateIsNewest

LEMMA StepHolds == ASSUME SessionInv, [Next]_vars PROVE SessionInv'
<1>1. CASE SessionStart
  BY <1>1, TakeDownKeeps DEF SessionStart
<1>2. CASE SessionShutdown
  BY <1>2, TakeDownKeeps DEF SessionShutdown
<1>3. CASE \E g \in Gens : PreviousDown(g) \/ OAuthUp(g) \/ InitOk(g) \/ InitFails(g)
  BY <1>3, PreviousDownKeeps, OAuthUpKeeps, InitOkKeeps, InitFailsKeeps
<1>4. CASE \E a \in Askers : Ask(a)
  BY <1>4, AskKeeps
<1>5. CASE UNCHANGED vars
  BY <1>5 DEF vars, SessionInv, TypeOK, NotBegun, RunningIsMade, LiveStateIsNewest
<1> QED
  BY <1>1, <1>2, <1>3, <1>4, <1>5 DEF Next

(* The inductive invariant of the sessions, without any condition on how   *)
(* starts, shutdowns and askers meet.                                      *)
THEOREM SessionsAreSound == Spec => []SessionInv
BY InitHolds, StepHolds, PTL DEF Spec

(* A state in use whose servers run is the newest start's: the handlers of *)
(* session_start and session_shutdown against every initialisation that    *)
(* comes late.                                                             *)
THEOREM LiveStateIsTheNewest == Spec => []LiveStateIsNewest
<1>1. SessionInv => LiveStateIsNewest
  BY DEF SessionInv
<1> QED
  BY <1>1, SessionsAreSound, PTL

(* A state that comes in time finds none that runs in use.                 *)
LEMMA InTimeReplacesNone ==
    ASSUME SessionInv, NEW g \in Gens, InitOk(g), gen = g
    PROVE  state \notin up
BY DEF SessionInv, LiveStateIsNewest, RunningIsMade, InitOk

(* No start and no shutdown leaves a running state behind; only the answer *)
(* to somebody who asked an older session does (index.ts:313).             *)
THEOREM StartsLeaveNothingUp == Spec => OnlyLateAnswersLeak
<1> DEFINE Left == \A g \in up' \ {state'} : g \in up \ {state} \/ LateAnswer
<1>1. ASSUME SessionInv, [Next]_vars PROVE [Left]_vars
  <2> SUFFICES ASSUME Next PROVE Left
    BY <1>1
  <2> USE <1>1
  <2>1. 0 \notin up
    BY DEF SessionInv, TypeOK, Gens
  <2>2. CASE SessionStart \/ SessionShutdown
    BY <2>1, <2>2 DEF SessionStart, SessionShutdown, TakeDown
  <2>3. ASSUME NEW g \in Gens, InitOk(g) PROVE Left
    <3>1. CASE gen = g
      <4>1. up' \subseteq up \cup {g} /\ state' \in {g, state}
        BY <2>3 DEF InitOk
      <4>2. g \in up' => state' = g
        BY <2>3 DEF InitOk, SessionInv, RunningIsMade
      <4> QED
        BY <2>3, <3>1, <4>1, <4>2, InTimeReplacesNone
    <3>2. CASE gen # g
      <4>1. up' = up /\ (state' = state \/ (state' = g /\ \E a \in Askers : asking[a] = g))
        BY <2>3, <3>2 DEF InitOk, Stale
      <4>2. CASE state' = state
        BY <4>1, <4>2
      <4>3. CASE state' = g /\ \E a \in Askers : asking[a] = g
        <5>1. PICK a \in Askers : asking[a] = g
          BY <4>3
        <5>2. asking'[a] = 0 /\ g # 0
          BY <2>3, <5>1 DEF InitOk, Release, Gens
        <5>3. LateAnswer
          BY <3>2, <4>3, <5>1, <5>2 DEF LateAnswer
        <5> QED
          BY <5>3
      <4> QED
        BY <4>1, <4>2, <4>3
    <3> QED
      BY <3>1, <3>2
  <2>4. CASE \E g \in Gens : PreviousDown(g) \/ OAuthUp(g) \/ InitFails(g)
    BY <2>4 DEF PreviousDown, OAuthUp, InitFails
  <2>5. CASE \E a \in Askers : Ask(a)
    BY <2>1, <2>5 DEF Ask
  <2> QED
    BY <2>2, <2>3, <2>4, <2>5 DEF Next
<1> QED
  BY <1>1, SessionsAreSound, PTL DEF Spec, OnlyLateAnswersLeak
=============================================================================
