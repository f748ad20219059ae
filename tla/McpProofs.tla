------------------------------ MODULE McpProofs -----------------------------
(***************************************************************************)
(* For any number of servers, callers and connections: the maps of the     *)
(* manager account for every process (MapInv), and the counts of calls are *)
(* backed by calls (CountInv).                                             *)
(***************************************************************************)
EXTENDS McpConnections, FiniteSetTheorems, TLAPS

(* Whoever is busy uses a server that is configured. *)
ServersKnown == \A p \in Callers : call[p].at # "idle" => call[p].server \in Servers

TypeInv == TypeOK /\ ServersKnown

(* Where a request may be next: any of its own places, or nowhere. *)
Request == {r \in Call : r.server \in Servers}

LEMMA RequestMoves ==
    ASSUME NEW r \in Request, NEW c \in Conns \cup {NoConn}
    PROVE  /\ Served(r, c) \in Request \cup {Idle}
           /\ Rejected(r) \in Request \cup {Idle}
           /\ Waiting(r, c) \in Request /\ Closing(r, c) \in Request
           /\ [r EXCEPT !.on = c] \in Request
BY DEF Request, Call, Served, Rejected, Waiting, Closing

LEMMA RequestStarts ==
    ASSUME NEW s \in Servers, NEW what \in {"call", "connect", "reconnect"}
    PROVE  Starting(what, s) \in Request
BY DEF Request, Call, Starting

LEMMA IdleIsTyped == Idle \in Call /\ Idle.at = "idle"
BY DEF Idle, Call

(* The calls stay typed when each either stays or makes such a move. *)
LEMMA CallsStayTyped ==
    ASSUME TypeInv,
           call' = [p \in Callers |-> call'[p]],
           \A p \in Callers : call'[p] \in Request \cup {Idle} \/ call'[p] = call[p]
    PROVE  call' \in [Callers -> Call] /\ ServersKnown'
<1>1. ASSUME NEW p \in Callers
      PROVE  call'[p] \in Call /\ (call'[p].at # "idle" => call'[p].server \in Servers)
  BY IdleIsTyped DEF TypeInv, TypeOK, ServersKnown, Request
<1> QED
  BY <1>1 DEF ServersKnown

LEMMA BusyIsRequest ==
    ASSUME TypeInv, NEW p \in Callers, call[p].at # "idle"
    PROVE  call[p] \in Request
BY DEF TypeInv, TypeOK, ServersKnown, Request

LEMMA UseTyped ==
    ASSUME TypeInv, NEW p \in Callers, NEW r \in Request,
           Connected(r.server), Use(p, r)
    PROVE  /\ inFlight' \in [Conns -> Nat]
           /\ call' = [q \in Callers |-> call'[q]]
           /\ \A q \in Callers : call'[q] \in Request \cup {Idle} \/ call'[q] = call[q]
<1> DEFINE e == entry[r.server]
<1>1. e \in Conns
  BY DEF Request, TypeInv, TypeOK, Connected
<1>2. Served(r, e) \in Request \cup {Idle}
  BY <1>1, RequestMoves
<1>3. inFlight \in [Conns -> Nat] /\ call \in [Callers -> Call]
  BY DEF TypeInv, TypeOK
<1>4. /\ call' = [call EXCEPT ![p] = Served(r, e)]
      /\ inFlight' = [inFlight EXCEPT ![e] = IF r.job = "call" THEN @ + 1 ELSE @]
  BY DEF Use
<1> HIDE DEF e
<1>5. inFlight' \in [Conns -> Nat]
  <2>1. CASE r.job = "call"
    BY <1>1, <1>3, <1>4, <2>1
  <2>2. CASE r.job # "call"
    BY <1>1, <1>3, <1>4, <2>2
  <2> QED
    BY <2>1, <2>2
<1> QED
  BY <1>2, <1>3, <1>4, <1>5

LEMMA ConnectTyped ==
    ASSUME TypeInv, NEW p \in Callers, NEW r \in Request, Connect(p, r)
    PROVE  /\ alive' \subseteq Conns /\ inFlight' \in [Conns -> Nat]
           /\ pending' \in [Servers -> Conns \cup {NoConn}]
           /\ call' = [q \in Callers |-> call'[q]]
           /\ \A q \in Callers : call'[q] \in Request \cup {Idle} \/ call'[q] = call[q]
<1> DEFINE s == r.server
<1>1. s \in Servers
  BY DEF Request
<1>2. CASE pending[s] # NoConn /\ call' = [call EXCEPT ![p] = Waiting(r, pending[s])]
           /\ UNCHANGED <<alive, inFlight, pending>>
  BY <1>1, <1>2, RequestMoves DEF TypeInv, TypeOK
<1>3. CASE Connected(s) /\ Use(p, r) /\ UNCHANGED <<alive, pending>>
  BY <1>3, UseTyped DEF TypeInv, TypeOK
<1>4. ASSUME NEW c \in Conns, Create(s, c), UNCHANGED inFlight,
             call' = [call EXCEPT ![p] = Waiting(r, c)]
      PROVE  /\ alive' \subseteq Conns /\ inFlight' \in [Conns -> Nat]
             /\ pending' \in [Servers -> Conns \cup {NoConn}]
             /\ call' = [q \in Callers |-> call'[q]]
             /\ \A q \in Callers : call'[q] \in Request \cup {Idle} \/ call'[q] = call[q]
  BY <1>1, <1>4, RequestMoves DEF TypeInv, TypeOK, Create
<1> QED
  BY <1>2, <1>3, <1>4 DEF Connect

LEMMA CloseTyped ==
    ASSUME TypeInv, NEW s \in Servers, CloseEntry(s)
    PROVE  /\ entry' \in [Servers -> Conns \cup {NoConn}]
           /\ closing' \subseteq Conns /\ unauth' \subseteq Conns
           /\ inFlight' \in [Conns -> Nat]
BY DEF TypeInv, TypeOK, CloseEntry

LEMMA CloseForTyped ==
    ASSUME TypeInv, NEW p \in Callers, NEW r \in Request, CloseFor(p, r)
    PROVE  TypeInv'
<1>1. r.server \in Servers /\ entry[r.server] \in Conns \cup {NoConn}
  BY DEF Request, TypeInv, TypeOK
<1>2. /\ entry' \in [Servers -> Conns \cup {NoConn}]
      /\ closing' \subseteq Conns /\ unauth' \subseteq Conns
      /\ inFlight' \in [Conns -> Nat]
  BY <1>1, CloseTyped DEF CloseFor
<1>3. call' = [call EXCEPT ![p] = Closing(r, entry[r.server])]
      /\ UNCHANGED <<alive, pending, backoff, down, keepAlive>>
  BY DEF CloseFor
<1>4. call' \in [Callers -> Call] /\ ServersKnown'
  <2>1. Closing(r, entry[r.server]) \in Request
    BY <1>1, RequestMoves
  <2>2. call \in [Callers -> Call]
    BY DEF TypeInv, TypeOK
  <2> QED
    BY <1>3, <2>1, <2>2, CallsStayTyped
<1> QED
  BY <1>2, <1>3, <1>4 DEF TypeInv, TypeOK

LEMMA TypeStep ==
    ASSUME TypeInv, [Next]_vars
    PROVE  TypeInv'
<1> USE DEF TypeInv, TypeOK
<1>1. ASSUME NEW p \in Callers, NEW s \in Servers, ToolCall(p, s)
      PROVE  TypeInv'
  <2> DEFINE r == Starting("call", s)
  <2>1. r \in Request /\ r.server = s
    BY RequestStarts DEF Starting
  <2>2. UNCHANGED <<unauth, entry, closing, backoff, down, keepAlive>>
    BY <1>1 DEF ToolCall
  <2>3. /\ alive' \subseteq Conns /\ inFlight' \in [Conns -> Nat]
        /\ pending' \in [Servers -> Conns \cup {NoConn}]
        /\ call' = [q \in Callers |-> call'[q]]
        /\ \A q \in Callers : call'[q] \in Request \cup {Idle} \/ call'[q] = call[q]
    <3> HIDE DEF r
    <3>1. CASE Connected(s) /\ Use(p, r) /\ UNCHANGED <<alive, pending>>
      BY <2>1, <3>1, UseTyped
    <3>2. CASE call' = [call EXCEPT ![p] = Rejected(r)] /\ UNCHANGED <<alive, inFlight, pending>>
      BY <2>1, <3>2, RequestMoves
    <3>3. CASE Connect(p, r)
      BY <2>1, <3>3, ConnectTyped
    <3> QED
      BY <1>1, <3>1, <3>2, <3>3 DEF ToolCall, r
  <2> QED
    BY <2>2, <2>3, CallsStayTyped
<1>2. ASSUME NEW p \in Callers, NEW s \in Servers, ConnectTool(p, s)
      PROVE  TypeInv'
  <2>1. Starting("connect", s) \in Request
    BY RequestStarts
  <2>2. Connect(p, Starting("connect", s))
        /\ UNCHANGED <<unauth, entry, closing, backoff, down, keepAlive>>
    BY <1>2 DEF ConnectTool
  <2> QED
    BY <2>1, <2>2, ConnectTyped, CallsStayTyped
<1>3. ASSUME NEW p \in Callers, NEW s \in Servers, Reconnect(p, s)
      PROVE  TypeInv'
  <2>1. Starting("reconnect", s) \in Request
    BY RequestStarts
  <2> QED
    BY <1>3, <2>1, CloseForTyped DEF Reconnect
<1>4. ASSUME NEW p \in Callers, SignedIn(p)
      PROVE  TypeInv'
  BY <1>4, BusyIsRequest, CloseForTyped DEF SignedIn
<1>5. ASSUME NEW p \in Callers, NotSignedIn(p)
      PROVE  TypeInv'
  BY <1>5, CallsStayTyped DEF NotSignedIn, connVars, mapVars
<1>6. ASSUME NEW p \in Callers, Closed(p)
      PROVE  TypeInv'
  <2>1. call[p] \in Request
    BY <1>6, BusyIsRequest DEF Closed
  <2>2. backoff' \subseteq backoff /\ UNCHANGED <<unauth, entry, closing, down, keepAlive>>
    BY <1>6 DEF Closed
  <2>3. CASE Connect(p, call[p])
    BY <2>1, <2>2, <2>3, ConnectTyped, CallsStayTyped
  <2>4. CASE call' = [call EXCEPT ![p] = Idle] /\ UNCHANGED <<alive, inFlight, pending>>
    BY <2>2, <2>4, CallsStayTyped
  <2> QED
    BY <1>6, <2>3, <2>4 DEF Closed
<1>7. ASSUME NEW p \in Callers, CallEnds(p)
      PROVE  TypeInv'
  <2>1. inFlight' \in [Conns -> Nat]
    BY <1>7 DEF CallEnds
  <2> QED
    BY <1>7, <2>1, CallsStayTyped DEF CallEnds, mapVars
<1>8. ASSUME NEW s \in Servers, ConnectOk(s)
      PROVE  TypeInv'
  <2> DEFINE c == pending[s]
             calls == {p \in Waiters(c) : call[p].job = "call"}
  <2>1. c \in Conns
    BY <1>8 DEF ConnectOk
  <2>2. Cardinality(calls) \in Nat
    <3>1. calls \subseteq Callers
      BY DEF Waiters
    <3> QED
      BY <3>1, McpAssumption, FS_Subset, FS_CardinalityType
  <2>3. \A p \in Waiters(c) : p \in Callers /\ call[p].at # "idle"
    BY DEF Waiters
  <2>4. \A p \in Waiters(c) : Served(call[p], c) \in Request \cup {Idle}
    BY <2>1, <2>3, BusyIsRequest, RequestMoves
  <2>5. inFlight' \in [Conns -> Nat]
    BY <1>8, <2>2 DEF ConnectOk
  <2>6. call' \in [Callers -> Call] /\ ServersKnown'
    BY <1>8, <2>4, CallsStayTyped DEF ConnectOk
  <2> QED
    BY <1>8, <2>1, <2>5, <2>6 DEF ConnectOk
<1>9. ASSUME NEW s \in Servers, ConnectUnauthorized(s)
      PROVE  TypeInv'
  <2> DEFINE c == pending[s]
  <2>1. c \in Conns
    BY <1>9 DEF ConnectUnauthorized
  <2>2. \A p \in Waiters(c) : p \in Callers /\ call[p].at # "idle"
    BY DEF Waiters
  <2>3. \A p \in Waiters(c) : Rejected(call[p]) \in Request \cup {Idle}
    BY <2>1, <2>2, BusyIsRequest, RequestMoves
  <2>4. call' \in [Callers -> Call] /\ ServersKnown'
    BY <1>9, <2>3, CallsStayTyped DEF ConnectUnauthorized
  <2> QED
    BY <1>9, <2>1, <2>4 DEF ConnectUnauthorized
<1>10. ASSUME NEW s \in Servers, ConnectFails(s)
       PROVE  TypeInv'
  <2>1. call' \in [Callers -> Call] /\ ServersKnown'
    BY <1>10, CallsStayTyped DEF ConnectFails
  <2> QED
    BY <1>10, <2>1 DEF ConnectFails
<1>11. ASSUME NEW s \in Servers, Crash(s) \/ BackoffEnds(s)
       PROVE  TypeInv'
  BY <1>11 DEF Crash, BackoffEnds, connVars, mapVars, ServersKnown
<1>12. ASSUME NEW s \in Servers, HealthCheck(s)
       PROVE  TypeInv'
  BY <1>12 DEF HealthCheck, Create, ServersKnown
<1>13. ASSUME NEW s \in Servers, IdleClose(s)
       PROVE  TypeInv'
  BY <1>13, CloseTyped DEF IdleClose, ServersKnown
<1>14. ASSUME NEW c \in Conns, CloseEnds(c)
       PROVE  TypeInv'
  <2>1. ASSUME NEW p \in Callers, call[p].at = "closing"
        PROVE  [call[p] EXCEPT !.on = NoConn] \in Request
    BY <2>1, BusyIsRequest, RequestMoves
  <2>2. call' \in [Callers -> Call] /\ ServersKnown'
    BY <1>14, <2>1, CallsStayTyped DEF CloseEnds
  <2> QED
    BY <1>14, <2>2 DEF CloseEnds, mapVars
<1>15. CASE Shutdown
  BY <1>15 DEF Shutdown, ServersKnown
<1>16. CASE UNCHANGED vars
  BY <1>16 DEF vars, ServersKnown
<1> QED
  BY <1>1, <1>2, <1>3, <1>4, <1>5, <1>6, <1>7, <1>8, <1>9, <1>10, <1>11,
     <1>12, <1>13, <1>14, <1>15, <1>16 DEF Next

LEMMA TypeStarts ==
    ASSUME Init
    PROVE  TypeInv
BY IdleIsTyped DEF Init, TypeInv, TypeOK, ServersKnown

(* The variables keep their types. *)
THEOREM McpTyped == Spec => []TypeOK
<1>1. TypeInv /\ [Next]_vars => TypeInv'
  BY TypeStep
<1>2. Init => TypeInv
  BY TypeStarts
<1>3. TypeInv => TypeOK
  BY DEF TypeInv
<1> QED
  BY <1>1, <1>2, <1>3, PTL DEF Spec
-----------------------------------------------------------------------------
(* A connection that waits for a sign-in has no process. *)
MapInv == NoOrphan /\ OneConnection /\ unauth \cap alive = {}

mapState == <<alive, unauth, entry, pending, closing>>

LEMMA Created ==
    ASSUME TypeInv, MapInv, NEW s \in Servers, NEW c \in Conns,
           pending[s] = NoConn, ~Connected(s), Create(s, c),
           UNCHANGED <<unauth, entry, closing>>
    PROVE  MapInv'
<1>1. c # NoConn
  BY McpAssumption
<1>2. /\ c \notin unauth /\ c \notin closing
      /\ \A t \in Servers : c # entry[t] /\ c # pending[t]
      /\ pending' = [pending EXCEPT ![s] = c]
      /\ alive' = alive \cup {c}
  BY DEF Create, Unused
<1>3. NoOrphan'
  <2> SUFFICES ASSUME NEW d \in alive', d \notin closing
               PROVE  \E t \in Servers : d = entry[t] \/ d = pending'[t]
    BY DEF NoOrphan
  <2>1. CASE d = c
    BY <1>2, <2>1 DEF TypeInv, TypeOK
  <2>2. CASE d \in alive
    <3>1. PICK t \in Servers : d = entry[t] \/ d = pending[t]
      BY <2>2 DEF MapInv, NoOrphan
    <3>2. d # NoConn
      BY <2>2, McpAssumption DEF TypeInv, TypeOK
    <3> QED
      BY <1>2, <3>1, <3>2 DEF TypeInv, TypeOK
  <2> QED
    BY <1>2, <2>1, <2>2
<1>4. OneConnection'
  BY <1>1, <1>2 DEF MapInv, OneConnection, Connected, TypeInv, TypeOK
<1> QED
  BY <1>2, <1>3, <1>4 DEF MapInv

LEMMA EntryClosed ==
    ASSUME TypeInv, MapInv, NEW s \in Servers, CloseEntry(s),
           UNCHANGED <<alive, pending>>
    PROVE  MapInv'
<1>1. /\ entry' = [entry EXCEPT ![s] = NoConn]
      /\ closing' = IF entry[s] = NoConn THEN closing ELSE closing \cup {entry[s]}
      /\ unauth' = unauth \ {entry[s]}
  BY DEF CloseEntry
<1>2. NoOrphan'
  <2> SUFFICES ASSUME NEW c \in alive, c \notin closing'
               PROVE  \E t \in Servers : c = entry'[t] \/ c = pending[t]
    BY DEF NoOrphan
  <2>1. c \notin closing /\ c \in Conns
    BY <1>1 DEF TypeInv, TypeOK
  <2>2. PICK t \in Servers : c = entry[t] \/ c = pending[t]
    BY <2>1 DEF MapInv, NoOrphan
  <2>3. CASE c = entry[t] /\ t = s
    BY <1>1, <2>1, <2>3, McpAssumption
  <2> QED
    BY <1>1, <2>2, <2>3 DEF TypeInv, TypeOK
<1>3. OneConnection'
  <2>1. \A t \in Servers : pending[t] # NoConn => ~Connected(t)'
    BY <1>1 DEF MapInv, OneConnection, Connected, TypeInv, TypeOK
  <2>2. \A t \in Servers : entry'[t] \notin closing' /\ pending[t] \notin closing'
    BY <1>1, McpAssumption DEF MapInv, OneConnection, TypeInv, TypeOK
  <2> QED
    BY <1>1, <2>1, <2>2 DEF MapInv, OneConnection, TypeInv, TypeOK
<1> QED
  BY <1>1, <1>2, <1>3 DEF MapInv

LEMMA MapConnect ==
    ASSUME TypeInv, MapInv, NEW p \in Callers, NEW r \in Request, Connect(p, r),
           UNCHANGED <<unauth, entry, closing>>
    PROVE  MapInv'
<1>1. r.server \in Servers
  BY DEF Request
<1>2. CASE UNCHANGED <<alive, pending>>
  BY <1>2 DEF MapInv, NoOrphan, OneConnection, Connected
<1>3. ASSUME NEW c \in Conns, Create(r.server, c),
             pending[r.server] = NoConn, ~Connected(r.server)
      PROVE  MapInv'
  BY <1>1, <1>3, Created
<1> QED
  BY <1>2, <1>3 DEF Connect

LEMMA MapUnchanged ==
    ASSUME MapInv, UNCHANGED mapState
    PROVE  MapInv'
BY DEF MapInv, NoOrphan, OneConnection, Connected, mapState

LEMMA MapStep ==
    ASSUME TypeInv, MapInv, [Next]_vars
    PROVE  MapInv'
<1>1. ASSUME NEW p \in Callers, NEW s \in Servers, ToolCall(p, s)
      PROVE  MapInv'
  <2>1. Starting("call", s) \in Request
    BY RequestStarts
  <2>2. CASE Connect(p, Starting("call", s))
    BY <1>1, <2>1, <2>2, MapConnect DEF ToolCall
  <2>3. CASE UNCHANGED <<alive, pending>>
    BY <1>1, <2>3, MapUnchanged DEF ToolCall, mapState
  <2> QED
    BY <1>1, <2>2, <2>3 DEF ToolCall
<1>2. ASSUME NEW p \in Callers, NEW s \in Servers, ConnectTool(p, s)
      PROVE  MapInv'
  BY <1>2, RequestStarts, MapConnect DEF ConnectTool
<1>3. ASSUME NEW p \in Callers, NEW r \in Request, CloseFor(p, r)
      PROVE  MapInv'
  BY <1>3, EntryClosed DEF CloseFor, Request
<1>4. ASSUME NEW p \in Callers, NEW s \in Servers, Reconnect(p, s)
      PROVE  MapInv'
  BY <1>3, <1>4, RequestStarts DEF Reconnect
<1>5. ASSUME NEW p \in Callers, SignedIn(p)
      PROVE  MapInv'
  BY <1>3, <1>5, BusyIsRequest DEF SignedIn
<1>6. ASSUME NEW p \in Callers, NotSignedIn(p) \/ CallEnds(p)
      PROVE  MapInv'
  BY <1>6, MapUnchanged DEF NotSignedIn, CallEnds, connVars, mapVars, mapState
<1>7. ASSUME NEW p \in Callers, Closed(p)
      PROVE  MapInv'
  <2>1. call[p] \in Request
    BY <1>7, BusyIsRequest DEF Closed
  <2>2. CASE Connect(p, call[p])
    BY <1>7, <2>1, <2>2, MapConnect DEF Closed
  <2>3. CASE UNCHANGED <<alive, pending>>
    BY <1>7, <2>3, MapUnchanged DEF Closed, mapState
  <2> QED
    BY <1>7, <2>2, <2>3 DEF Closed
<1>8. ASSUME NEW s \in Servers, ConnectOk(s)
      PROVE  MapInv'
  <2> DEFINE c == pending[s]
  <2>1. /\ c # NoConn /\ ~Connected(s)
        /\ entry' = [entry EXCEPT ![s] = c]
        /\ unauth' = unauth \ {entry[s]}
        /\ pending' = [pending EXCEPT ![s] = NoConn]
        /\ UNCHANGED <<alive, closing>>
    BY <1>8 DEF ConnectOk, MapInv, OneConnection
  <2>2. NoOrphan'
    <3> SUFFICES ASSUME NEW d \in alive, d \notin closing
                 PROVE  \E t \in Servers : d = entry'[t] \/ d = pending'[t]
      BY <2>1 DEF NoOrphan
    <3>1. PICK t \in Servers : d = entry[t] \/ d = pending[t]
      BY DEF MapInv, NoOrphan
    <3>2. d # entry[s]
      BY <2>1, McpAssumption DEF MapInv, Connected, TypeInv, TypeOK
    <3> QED
      BY <2>1, <3>1, <3>2 DEF TypeInv, TypeOK
  <2>3. OneConnection'
    <3>1. \A t \in Servers : pending'[t] # NoConn => ~Connected(t)'
      BY <2>1 DEF MapInv, OneConnection, Connected, TypeInv, TypeOK
    <3>2. \A t, u \in Servers : entry'[t] # NoConn => entry'[t] # pending'[u]
      BY <2>1 DEF MapInv, OneConnection, TypeInv, TypeOK
    <3>3. \A t, u \in Servers : t # u
            => /\ entry'[t] = NoConn \/ entry'[t] # entry'[u]
               /\ pending'[t] = NoConn \/ pending'[t] # pending'[u]
      BY <2>1 DEF MapInv, OneConnection, TypeInv, TypeOK
    <3>4. \A t \in Servers : entry'[t] \notin closing' /\ pending'[t] \notin closing'
      BY <2>1, McpAssumption DEF MapInv, OneConnection, TypeInv, TypeOK
    <3> QED
      BY <3>1, <3>2, <3>3, <3>4 DEF OneConnection
  <2> QED
    BY <2>1, <2>2, <2>3 DEF MapInv
<1>9. ASSUME NEW s \in Servers, ConnectUnauthorized(s)
      PROVE  MapInv'
  <2> DEFINE c == pending[s]
  <2>1. /\ c # NoConn /\ ~Connected(s)
        /\ alive' = alive \ {c}
        /\ entry' = [entry EXCEPT ![s] = c]
        /\ unauth' = (unauth \ {entry[s]}) \cup {c}
        /\ pending' = [pending EXCEPT ![s] = NoConn]
        /\ UNCHANGED closing
    BY <1>9 DEF ConnectUnauthorized, MapInv, OneConnection
  <2>2. NoOrphan'
    <3> SUFFICES ASSUME NEW d \in alive', d \notin closing
                 PROVE  \E t \in Servers : d = entry'[t] \/ d = pending'[t]
      BY <2>1 DEF NoOrphan
    <3>1. d \in alive /\ d # c
      BY <2>1
    <3>2. PICK t \in Servers : d = entry[t] \/ d = pending[t]
      BY <3>1 DEF MapInv, NoOrphan
    <3>3. d # entry[s]
      BY <2>1, <3>1, McpAssumption DEF MapInv, Connected, TypeInv, TypeOK
    <3> QED
      BY <2>1, <3>1, <3>2, <3>3 DEF TypeInv, TypeOK
  <2>3. OneConnection'
    <3>1. \A t \in Servers : pending'[t] # NoConn => ~Connected(t)'
      BY <2>1 DEF MapInv, OneConnection, Connected, TypeInv, TypeOK
    <3>2. \A t, u \in Servers : entry'[t] # NoConn => entry'[t] # pending'[u]
      BY <2>1 DEF MapInv, OneConnection, TypeInv, TypeOK
    <3>3. \A t, u \in Servers : t # u
            => /\ entry'[t] = NoConn \/ entry'[t] # entry'[u]
               /\ pending'[t] = NoConn \/ pending'[t] # pending'[u]
      BY <2>1 DEF MapInv, OneConnection, TypeInv, TypeOK
    <3>4. \A t \in Servers : entry'[t] \notin closing' /\ pending'[t] \notin closing'
      BY <2>1, McpAssumption DEF MapInv, OneConnection, TypeInv, TypeOK
    <3> QED
      BY <3>1, <3>2, <3>3, <3>4 DEF OneConnection
  <2>4. unauth' \cap alive' = {}
    BY <2>1 DEF MapInv
  <2> QED
    BY <2>2, <2>3, <2>4 DEF MapInv
<1>10. ASSUME NEW s \in Servers, ConnectFails(s)
       PROVE  MapInv'
  <2>1. /\ alive' = alive \ {pending[s]}
        /\ pending' = [pending EXCEPT ![s] = NoConn]
        /\ UNCHANGED <<unauth, entry, closing>>
    BY <1>10 DEF ConnectFails
  <2>2. NoOrphan'
    BY <2>1 DEF MapInv, NoOrphan, TypeInv, TypeOK
  <2>3. OneConnection'
    BY <2>1, McpAssumption DEF MapInv, OneConnection, Connected, TypeInv, TypeOK
  <2> QED
    BY <2>1, <2>2, <2>3 DEF MapInv
<1>11. ASSUME NEW s \in Servers, Crash(s)
       PROVE  MapInv'
  BY <1>11 DEF Crash, mapVars, MapInv, NoOrphan, OneConnection, Connected
<1>12. ASSUME NEW s \in Servers, BackoffEnds(s)
       PROVE  MapInv'
  BY <1>12, MapUnchanged DEF BackoffEnds, connVars, mapVars, mapState
<1>13. ASSUME NEW s \in Servers, HealthCheck(s)
       PROVE  MapInv'
  BY <1>13, Created DEF HealthCheck
<1>14. ASSUME NEW s \in Servers, IdleClose(s)
       PROVE  MapInv'
  BY <1>14, EntryClosed DEF IdleClose
<1>15. ASSUME NEW c \in Conns, CloseEnds(c)
       PROVE  MapInv'
  BY <1>15 DEF CloseEnds, mapVars, MapInv, NoOrphan, OneConnection, Connected
<1>16. CASE Shutdown
  <2>1. /\ entry' = [s \in Servers |-> NoConn]
        /\ closing' = closing \cup {entry[s] : s \in {t \in Servers : entry[t] # NoConn}}
        /\ unauth' = {}
        /\ UNCHANGED <<alive, pending>>
    BY <1>16 DEF Shutdown
  <2>2. NoOrphan'
    <3> SUFFICES ASSUME NEW d \in alive, d \notin closing'
                 PROVE  \E t \in Servers : d = pending[t]
      BY <2>1 DEF NoOrphan
    <3>1. d \notin closing /\ d # NoConn
      BY <2>1, McpAssumption DEF TypeInv, TypeOK
    <3>2. PICK t \in Servers : d = entry[t] \/ d = pending[t]
      BY <3>1 DEF MapInv, NoOrphan
    <3> QED
      BY <2>1, <3>1, <3>2
  <2>3. OneConnection'
    <3>1. \A t \in Servers : NoConn \notin closing' /\ pending[t] \notin closing'
      BY <2>1, McpAssumption DEF MapInv, OneConnection, TypeInv, TypeOK
    <3> QED
      BY <2>1, <3>1 DEF MapInv, OneConnection, Connected
  <2> QED
    BY <2>1, <2>2, <2>3 DEF MapInv
<1>17. CASE UNCHANGED vars
  BY <1>17, MapUnchanged DEF vars, mapState
<1> QED
  BY <1>1, <1>2, <1>4, <1>5, <1>6, <1>7, <1>8, <1>9, <1>10, <1>11, <1>12,
     <1>13, <1>14, <1>15, <1>16, <1>17 DEF Next

(* Whatever is reconnected, closed or given up, and in whatever order:     *)
(* each process is accounted for by the maps of the manager, and no server *)
(* is connected twice.                                                     *)
THEOREM ProcessesAreHeld == Spec => [](NoOrphan /\ OneConnection)
<1>1. TypeInv /\ MapInv /\ [Next]_vars => TypeInv' /\ MapInv'
  BY TypeStep, MapStep
<1>2. Init => TypeInv /\ MapInv
  <2>1. Init => MapInv
    BY McpAssumption DEF Init, MapInv, NoOrphan, OneConnection, Connected
  <2> QED
    BY <2>1, TypeStarts
<1>3. MapInv => NoOrphan /\ OneConnection
  BY DEF MapInv
<1> QED
  BY <1>1, <1>2, <1>3, PTL DEF Spec

(* Every process that runs is held by the maps or is being closed.         *)
THEOREM NoProcessIsLost == Spec => []NoOrphan
BY ProcessesAreHeld, PTL

(* No server is connected twice.                                           *)
THEOREM ConnectionsAreSingle == Spec => []OneConnection
BY ProcessesAreHeld, PTL
-----------------------------------------------------------------------------
(* A created connection is nobody's yet. *)
LEMMA WaitConnect ==
    ASSUME TypeInv, WaitersAreServed, NEW p \in Callers, NEW r \in Request, Connect(p, r)
    PROVE  WaitersAreServed'
<1> DEFINE s == r.server
<1>1. s \in Servers /\ call \in [Callers -> Call]
      /\ pending \in [Servers -> Conns \cup {NoConn}]
  BY DEF Request, TypeInv, TypeOK
<1>2. \A c : Waiting(r, c).on = c /\ Waiting(r, c).server = s
  BY DEF Waiting, Request, Call
<1>3. \A c : Served(r, c).at # "connecting"
  BY DEF Served, Idle, Request, Call
<1>4. \A q \in Callers : call[q].at = "connecting" => call[q].server \in Servers
  BY DEF TypeInv, ServersKnown
<1>5. CASE pending[s] # NoConn /\ call' = [call EXCEPT ![p] = Waiting(r, pending[s])]
           /\ UNCHANGED pending
  BY <1>1, <1>2, <1>5 DEF WaitersAreServed
<1>6. CASE call' = [call EXCEPT ![p] = Served(r, entry[s])] /\ UNCHANGED pending
  BY <1>1, <1>3, <1>6 DEF WaitersAreServed
<1>7. ASSUME NEW c \in Conns, pending[s] = NoConn, pending' = [pending EXCEPT ![s] = c],
             call' = [call EXCEPT ![p] = Waiting(r, c)]
      PROVE  WaitersAreServed'
  <2> SUFFICES ASSUME NEW q \in Callers, call'[q].at = "connecting"
               PROVE  call'[q].on # NoConn /\ call'[q].on = pending'[call'[q].server]
    BY DEF WaitersAreServed
  <2>1. CASE q = p
    BY <1>1, <1>2, <1>7, <2>1, McpAssumption
  <2>2. CASE q # p
    <3>1. call'[q] = call[q]
      BY <1>1, <1>7, <2>2
    <3>2. call[q].server \in Servers /\ call[q].on # NoConn
          /\ call[q].on = pending[call[q].server]
      BY <1>4, <3>1 DEF WaitersAreServed
    <3> QED
      BY <1>1, <1>7, <3>1, <3>2
  <2> QED
    BY <2>1, <2>2
<1> QED
  BY <1>5, <1>6, <1>7 DEF Connect, Use, Create

(* One caller goes elsewhere and no connect is touched. *)
LEMMA WaitLeaves ==
    ASSUME TypeInv, WaitersAreServed, NEW p \in Callers, NEW r, r.at # "connecting",
           call' = [call EXCEPT ![p] = r], UNCHANGED pending
    PROVE  WaitersAreServed'
BY DEF WaitersAreServed, TypeInv, TypeOK

LEMMA WaitSettled ==
    ASSUME TypeInv, MapInv, WaitersAreServed, NEW s \in Servers, pending[s] # NoConn,
           pending' = [pending EXCEPT ![s] = NoConn],
           \A p \in Callers \ Waiters(pending[s]) : call'[p] = call[p],
           \A p \in Waiters(pending[s]) : call'[p].at # "connecting"
    PROVE  WaitersAreServed'
<1> SUFFICES ASSUME NEW p \in Callers, call'[p].at = "connecting"
             PROVE  call'[p].on # NoConn /\ call'[p].on = pending'[call'[p].server]
  BY DEF WaitersAreServed
<1>1. p \notin Waiters(pending[s]) /\ call'[p] = call[p]
  OBVIOUS
<1>2. call[p].server \in Servers /\ call[p].on # NoConn
      /\ call[p].on = pending[call[p].server]
  BY <1>1 DEF WaitersAreServed, TypeInv, ServersKnown
<1>3. call[p].server # s
  BY <1>1, <1>2 DEF Waiters
<1> QED
  BY <1>1, <1>2, <1>3 DEF TypeInv, TypeOK

LEMMA WaitStep ==
    ASSUME TypeInv, MapInv, WaitersAreServed, [Next]_vars
    PROVE  WaitersAreServed'
<1>0. \A r \in Request, c \in Conns \cup {NoConn} :
         /\ Served(r, c).at # "connecting" /\ Rejected(r).at # "connecting"
         /\ Closing(r, c).at # "connecting" /\ Idle.at # "connecting"
  BY DEF Served, Rejected, Closing, Idle, Request, Call
<1>1. ASSUME NEW p \in Callers, NEW s \in Servers, ToolCall(p, s)
      PROVE  WaitersAreServed'
  <2> DEFINE r == Starting("call", s)
  <2>1. r \in Request /\ r.server = s
    BY RequestStarts DEF Starting
  <2> HIDE DEF r
  <2>2. CASE Connect(p, r)
    BY <2>1, <2>2, WaitConnect
  <2>3. CASE Use(p, r) /\ UNCHANGED pending
    <3>1. entry[s] \in Conns \cup {NoConn}
      BY DEF TypeInv, TypeOK
    <3> QED
      BY <1>0, <2>1, <2>3, <3>1, WaitLeaves DEF Use
  <2>4. CASE call' = [call EXCEPT ![p] = Rejected(r)] /\ UNCHANGED pending
    <3>1. Rejected(r).at # "connecting"
      BY <1>0, <2>1 DEF TypeInv, TypeOK
    <3> QED
      BY <2>4, <3>1, WaitLeaves
  <2> QED
    BY <1>1, <2>2, <2>3, <2>4 DEF ToolCall, r
<1>2. ASSUME NEW p \in Callers, NEW s \in Servers, ConnectTool(p, s)
      PROVE  WaitersAreServed'
  BY <1>2, RequestStarts, WaitConnect DEF ConnectTool
<1>3. ASSUME NEW p \in Callers, NEW r \in Request, CloseFor(p, r)
      PROVE  WaitersAreServed'
  <2>1. entry[r.server] \in Conns \cup {NoConn}
    BY DEF Request, TypeInv, TypeOK
  <2>2. Closing(r, entry[r.server]).at # "connecting"
    BY <1>0, <2>1
  <2> QED
    BY <1>3, <2>2, WaitLeaves DEF CloseFor
<1>4. ASSUME NEW p \in Callers, NEW s \in Servers, Reconnect(p, s)
      PROVE  WaitersAreServed'
  BY <1>3, <1>4, RequestStarts DEF Reconnect
<1>5. ASSUME NEW p \in Callers, SignedIn(p)
      PROVE  WaitersAreServed'
  BY <1>3, <1>5, BusyIsRequest DEF SignedIn
<1>6. ASSUME NEW p \in Callers, NotSignedIn(p) \/ CallEnds(p)
      PROVE  WaitersAreServed'
  BY <1>6, WaitLeaves DEF NotSignedIn, CallEnds, mapVars, Idle
<1>7. ASSUME NEW p \in Callers, Closed(p)
      PROVE  WaitersAreServed'
  <2>1. call[p] \in Request
    BY <1>7, BusyIsRequest DEF Closed
  <2>2. CASE Connect(p, call[p])
    BY <2>1, <2>2, WaitConnect
  <2>3. CASE call' = [call EXCEPT ![p] = Idle] /\ UNCHANGED pending
    BY <2>3, WaitLeaves DEF Idle
  <2> QED
    BY <1>7, <2>2, <2>3 DEF Closed
<1>8. ASSUME NEW s \in Servers, NEW p \in Waiters(pending[s]), pending[s] # NoConn
      PROVE  call[p] \in Request /\ pending[s] \in Conns
  BY <1>8, BusyIsRequest DEF Waiters, TypeInv, TypeOK
<1>9. ASSUME NEW s \in Servers, ConnectOk(s)
      PROVE  WaitersAreServed'
  <2>1. \A p \in Waiters(pending[s]) :
           p \in Callers /\ Served(call[p], pending[s]).at # "connecting"
    BY <1>0, <1>8, <1>9 DEF ConnectOk, Waiters
  <2> QED
    BY <1>9, <2>1, WaitSettled DEF ConnectOk
<1>10. ASSUME NEW s \in Servers, ConnectUnauthorized(s)
       PROVE  WaitersAreServed'
  <2>1. \A p \in Waiters(pending[s]) :
           p \in Callers /\ Rejected(call[p]).at # "connecting"
    BY <1>0, <1>8, <1>10 DEF ConnectUnauthorized, Waiters
  <2> QED
    BY <1>10, <2>1, WaitSettled DEF ConnectUnauthorized
<1>11. ASSUME NEW s \in Servers, ConnectFails(s)
       PROVE  WaitersAreServed'
  <2>1. \A p \in Waiters(pending[s]) : p \in Callers /\ Idle.at # "connecting"
    BY DEF Waiters, Idle
  <2> QED
    BY <1>11, <2>1, WaitSettled DEF ConnectFails
<1>12. ASSUME NEW s \in Servers, HealthCheck(s)
       PROVE  WaitersAreServed'
  BY <1>12 DEF HealthCheck, Create, WaitersAreServed, TypeInv, TypeOK, ServersKnown
<1>13. ASSUME NEW c \in Conns, CloseEnds(c)
       PROVE  WaitersAreServed'
  <2>1. \A p \in Callers : call[p] \in Call
    BY DEF TypeInv, TypeOK
  <2>2. \A p \in Callers : call'[p].at = call[p].at
    BY <1>13, <2>1 DEF CloseEnds, Call
  <2>3. \A p \in Callers : call[p].at = "connecting" => call'[p] = call[p]
    BY <1>13 DEF CloseEnds
  <2> QED
    BY <1>13, <2>2, <2>3 DEF CloseEnds, mapVars, WaitersAreServed
<1>14. CASE UNCHANGED <<call, pending>>
  BY <1>14 DEF WaitersAreServed
<1> QED
  BY <1>1, <1>2, <1>4, <1>5, <1>6, <1>7, <1>9, <1>10, <1>11, <1>12, <1>13, <1>14
  DEF Next, Crash, IdleClose, BackoffEnds, Shutdown, connVars, mapVars, vars

(* Whoever waits for a connect waits for the one under way for its server. *)
THEOREM NobodyWaitsInVain == Spec => []WaitersAreServed
<1>1. TypeInv /\ MapInv /\ WaitersAreServed /\ [Next]_vars
      => TypeInv' /\ MapInv' /\ WaitersAreServed'
  BY TypeStep, MapStep, WaitStep
<1>2. Init => TypeInv /\ MapInv /\ WaitersAreServed
  <2>1. Init => MapInv
    BY McpAssumption DEF Init, MapInv, NoOrphan, OneConnection, Connected
  <2>2. Init => WaitersAreServed
    BY DEF Init, WaitersAreServed, Idle
  <2> QED
    BY <2>1, <2>2, TypeStarts
<1> QED
  BY <1>1, <1>2, PTL DEF Spec
-----------------------------------------------------------------------------
(* The connections that wait for a sign-in are in the map. *)
UnauthAreEntries == \A c \in unauth : \E s \in Servers : entry[s] = c

LEMMA UnauthStep ==
    ASSUME TypeInv, UnauthAreEntries, [Next]_vars
    PROVE  UnauthAreEntries'
<1>1. ASSUME NEW s \in Servers, CloseEntry(s)
      PROVE  UnauthAreEntries'
  BY <1>1 DEF CloseEntry, UnauthAreEntries, TypeInv, TypeOK
<1>2. ASSUME NEW s \in Servers, ConnectOk(s) \/ ConnectUnauthorized(s)
      PROVE  UnauthAreEntries'
  BY <1>2 DEF ConnectOk, ConnectUnauthorized, UnauthAreEntries, TypeInv, TypeOK
<1>3. CASE UNCHANGED <<unauth, entry>>
  BY <1>3 DEF UnauthAreEntries
<1>4. CASE Shutdown
  BY <1>4 DEF Shutdown, UnauthAreEntries
<1>5. ASSUME NEW p \in Callers, NEW s \in Servers,
             ToolCall(p, s) \/ ConnectTool(p, s) \/ Reconnect(p, s)
      PROVE  UnauthAreEntries'
  <2>1. Starting("reconnect", s).server = s
    BY DEF Starting
  <2> QED
    BY <1>1, <1>3, <1>5, <2>1 DEF ToolCall, ConnectTool, Reconnect, CloseFor
<1>6. ASSUME NEW p \in Callers,
             SignedIn(p) \/ NotSignedIn(p) \/ Closed(p) \/ CallEnds(p)
      PROVE  UnauthAreEntries'
  <2>1. CASE SignedIn(p)
    <3>1. call[p].server \in Servers
      BY <2>1 DEF SignedIn, TypeInv, ServersKnown
    <3> QED
      BY <1>1, <2>1, <3>1 DEF SignedIn, CloseFor
  <2> QED
    BY <1>3, <1>6, <2>1 DEF NotSignedIn, Closed, CallEnds, connVars, mapVars
<1> QED
  BY <1>1, <1>2, <1>3, <1>4, <1>5, <1>6
  DEF Next, ConnectFails, Crash, HealthCheck, IdleClose, BackoffEnds, CloseEnds,
      connVars, mapVars, vars

(* A connection that is being made has no calls; the calls over the        *)
(* connection of a server are calls of that server.                        *)
CallsPlaced ==
    \A p \in Callers : call[p].at = "calling" =>
        /\ call[p].on # NoConn
        /\ \A s \in Servers :
              /\ call[p].on # pending[s]
              /\ call[p].on = entry[s] => s = call[p].server

(* Only the entries have counts, and no more than their calls. *)
CountsBacked ==
    \A c \in Conns :
        /\ inFlight[c] <= Cardinality(CallsOn(c))
        /\ inFlight[c] # 0 => c \notin unauth /\ \E s \in Servers : entry[s] = c

CountInv == CallsPlaced /\ CountsBacked

LEMMA CallsAreFinite ==
    ASSUME NEW c
    PROVE  IsFiniteSet(CallsOn(c)) /\ Cardinality(CallsOn(c)) \in Nat
<1>1. CallsOn(c) \subseteq Callers
  BY DEF CallsOn
<1> QED
  BY <1>1, McpAssumption, FS_Subset, FS_CardinalityType

(* No call begins or ends. *)
SameCalls == \A p \in Callers : \/ call'[p] = call[p]
                                \/ call[p].at # "calling" /\ call'[p].at # "calling"

LEMMA CallsStay ==
    ASSUME SameCalls, NEW c
    PROVE  CallsOn(c)' = CallsOn(c)
BY DEF SameCalls, CallsOn

(* Nothing but a connect is begun. *)
LEMMA CountCreated ==
    ASSUME TypeInv, CountInv, SameCalls, NEW s \in Servers, NEW c \in Conns,
           Create(s, c), UNCHANGED <<unauth, inFlight, entry>>
    PROVE  CountInv'
<1>1. \A p \in Callers : call[p].on # c
  BY DEF Create, Unused
<1>2. CallsPlaced'
  <2> SUFFICES ASSUME NEW p \in Callers, call'[p].at = "calling", NEW t \in Servers
               PROVE  /\ call'[p].on # NoConn
                      /\ call'[p].on # pending'[t]
                      /\ call'[p].on = entry[t] => t = call'[p].server
    BY DEF CallsPlaced, Create
  <2>1. call'[p] = call[p]
    BY DEF SameCalls
  <2>2. /\ call[p].on # NoConn /\ call[p].on # pending[t] /\ call[p].on # c
        /\ call[p].on = entry[t] => t = call[p].server
    BY <1>1, <2>1 DEF CountInv, CallsPlaced
  <2>3. pending'[t] \in {c, pending[t]}
    BY DEF Create, TypeInv, TypeOK
  <2> QED
    BY <2>1, <2>2, <2>3
<1>3. CountsBacked'
  BY CallsStay DEF CountInv, CountsBacked
<1> QED
  BY <1>2, <1>3 DEF CountInv

(* An entry is closed, or all are: with the entry goes its count. *)
LEMMA CountClosed ==
    ASSUME TypeInv, CountInv, SameCalls, UNCHANGED pending, unauth' \subseteq unauth,
           \A s \in Servers : entry'[s] \in {entry[s], NoConn},
           inFlight' \in [Conns -> Nat],
           \A c \in Conns : inFlight'[c] \in {0, inFlight[c]},
           \A s \in Servers : entry'[s] # entry[s] /\ entry[s] \in Conns
                              => inFlight'[entry[s]] = 0
    PROVE  CountInv'
<1>1. CallsPlaced'
  BY DEF CountInv, CallsPlaced, SameCalls
<1>2. ASSUME NEW c \in Conns
      PROVE  /\ inFlight'[c] <= Cardinality(CallsOn(c)')
             /\ inFlight'[c] # 0 => c \notin unauth' /\ \E s \in Servers : entry'[s] = c
  <2>1. CallsOn(c)' = CallsOn(c) /\ Cardinality(CallsOn(c)) \in Nat
    BY CallsStay, CallsAreFinite
  <2>2. inFlight[c] \in Nat /\ inFlight[c] <= Cardinality(CallsOn(c))
    BY DEF CountInv, CountsBacked, TypeInv, TypeOK
  <2>3. inFlight'[c] <= Cardinality(CallsOn(c)')
    BY <2>1, <2>2
  <2>4. ASSUME inFlight'[c] # 0
        PROVE  c \notin unauth' /\ \E s \in Servers : entry'[s] = c
    <3>1. c \notin unauth /\ \E s \in Servers : entry[s] = c
      BY <2>2, <2>4 DEF CountInv, CountsBacked
    <3>2. PICK s \in Servers : entry[s] = c
      BY <3>1
    <3>3. entry'[s] = entry[s]
      BY <2>4, <3>2
    <3> QED
      BY <3>1, <3>2, <3>3
  <2> QED
    BY <2>3, <2>4
<1> QED
  BY <1>1, <1>2 DEF CountInv, CountsBacked

LEMMA CountEntryClosed ==
    ASSUME TypeInv, CountInv, SameCalls, NEW s \in Servers, CloseEntry(s), UNCHANGED pending
    PROVE  CountInv'
<1>1. inFlight' \in [Conns -> Nat]
  BY CloseTyped
<1>2. \A c \in Conns : inFlight'[c] = IF c = entry[s] THEN 0 ELSE inFlight[c]
  BY DEF CloseEntry
<1>3. \A t \in Servers : entry'[t] = IF t = s THEN NoConn ELSE entry[t]
  BY DEF CloseEntry, TypeInv, TypeOK
<1>4. unauth' \subseteq unauth
  BY DEF CloseEntry
<1> QED
  BY <1>1, <1>2, <1>3, <1>4, CountClosed

(* p, who does not call, goes over the entry of its server. *)
LEMMA CountUsed ==
    ASSUME TypeInv, MapInv, CountInv, NEW p \in Callers, NEW r \in Request,
           call[p].at # "calling", Connected(r.server), Use(p, r),
           UNCHANGED <<unauth, entry, pending>>
    PROVE  CountInv'
<1> DEFINE e == entry[r.server]
<1>1. r.server \in Servers /\ e \in Conns
  BY DEF Request, TypeInv, TypeOK, Connected
<1>2. call \in [Callers -> Call] /\ inFlight \in [Conns -> Nat] /\ r \in Call
  BY DEF TypeInv, TypeOK, Request
<1>3. CASE r.job # "call"
  <2>1. call' = [call EXCEPT ![p] = Idle]
    BY <1>3 DEF Use, Served
  <2>2. SameCalls
    BY <1>2, <2>1 DEF SameCalls, Idle
  <2>3. inFlight' = [inFlight EXCEPT ![e] = inFlight[e]]
    BY <1>1, <1>2, <1>3 DEF Use
  <2>4. inFlight' = inFlight
    BY <1>1, <1>2, <2>3
  <2> QED
    BY <1>2, <2>2, <2>4, CountClosed
<1>4. CASE r.job = "call"
  <2>1. call'[p].at = "calling" /\ call'[p].on = e /\ call'[p].server = r.server
        /\ \A q \in Callers \ {p} : call'[q] = call[q]
    BY <1>2, <1>4 DEF Use, Served, Call
  <2>2. inFlight' = [inFlight EXCEPT ![e] = @ + 1]
    BY <1>2, <1>4 DEF Use
  <2>3. CallsPlaced'
    <3>1. \A s \in Servers : e # pending[s] /\ (e = entry[s] => s = r.server)
      BY <1>1, McpAssumption DEF MapInv, OneConnection
    <3> QED
      BY <1>1, <2>1, <3>1, McpAssumption DEF CountInv, CallsPlaced
  <2>4. ASSUME NEW c \in Conns
        PROVE  inFlight'[c] <= Cardinality(CallsOn(c)')
    <3>1. CASE c = e
      <4>1. CallsOn(e)' = CallsOn(e) \cup {p} /\ p \notin CallsOn(e)
        BY <2>1 DEF CallsOn
      <4>2. Cardinality(CallsOn(e)') = Cardinality(CallsOn(e)) + 1
        BY <4>1, CallsAreFinite, FS_AddElement
      <4>3. inFlight[e] <= Cardinality(CallsOn(e))
        BY <1>1 DEF CountInv, CountsBacked
      <4> QED
        BY <1>1, <1>2, <2>2, <3>1, <4>2, <4>3, CallsAreFinite
    <3>2. CASE c # e
      <4>1. CallsOn(c)' = CallsOn(c)
        BY <2>1, <3>2 DEF CallsOn
      <4>2. inFlight'[c] = inFlight[c]
        BY <1>2, <2>2, <3>2
      <4> QED
        BY <4>1, <4>2 DEF CountInv, CountsBacked
    <3> QED
      BY <3>1, <3>2
  <2>5. \A c \in Conns : inFlight'[c] # 0
           => c \notin unauth /\ \E s \in Servers : entry[s] = c
    BY <1>1, <1>2, <2>2 DEF CountInv, CountsBacked, Connected
  <2> QED
    BY <2>3, <2>4, <2>5 DEF CountInv, CountsBacked
<1> QED
  BY <1>3, <1>4

LEMMA CountConnect ==
    ASSUME TypeInv, MapInv, CountInv, NEW p \in Callers, NEW r \in Request,
           call[p].at # "calling", Connect(p, r), UNCHANGED <<unauth, entry>>
    PROVE  CountInv'
<1>1. r.server \in Servers /\ call \in [Callers -> Call] /\ r \in Call
      /\ inFlight \in [Conns -> Nat]
  BY DEF Request, TypeInv, TypeOK
<1>2. \A c : Waiting(r, c).at = "connecting"
  BY <1>1 DEF Waiting, Call
<1>3. ASSUME NEW c, call' = [call EXCEPT ![p] = Waiting(r, c)]
      PROVE  SameCalls
  BY <1>1, <1>2, <1>3 DEF SameCalls
<1>4. CASE call' = [call EXCEPT ![p] = Waiting(r, pending[r.server])]
           /\ UNCHANGED <<alive, inFlight, pending>>
  BY <1>1, <1>3, <1>4, CountClosed
<1>5. CASE Connected(r.server) /\ Use(p, r) /\ UNCHANGED <<alive, pending>>
  BY <1>5, CountUsed
<1>6. ASSUME NEW c \in Conns, Create(r.server, c), UNCHANGED inFlight,
             call' = [call EXCEPT ![p] = Waiting(r, c)]
      PROVE  CountInv'
  BY <1>1, <1>3, <1>6, CountCreated
<1> QED
  BY <1>4, <1>5, <1>6 DEF Connect

LEMMA CountUnchanged ==
    ASSUME TypeInv, CountInv, SameCalls, UNCHANGED <<unauth, inFlight, entry, pending>>
    PROVE  CountInv'
BY CountClosed DEF TypeInv, TypeOK

LEMMA CountStep ==
    ASSUME TypeInv, MapInv, WaitersAreServed, UnauthAreEntries, CountInv, [Next]_vars
    PROVE  CountInv'
<1>0. call \in [Callers -> Call]
  BY DEF TypeInv, TypeOK
<1>1. ASSUME NEW p \in Callers, NEW r, r.at # "calling", call[p].at # "calling",
             call' = [call EXCEPT ![p] = r]
      PROVE  SameCalls
  BY <1>0, <1>1 DEF SameCalls
<1>2. \A r \in Request, c \in Conns \cup {NoConn} :
         /\ Closing(r, c).at # "calling" /\ Rejected(r).at # "calling"
         /\ Idle.at # "calling"
  BY DEF Closing, Rejected, Idle, Request, Call
<1>3. ASSUME NEW p \in Callers, NEW s \in Servers, ToolCall(p, s)
      PROVE  CountInv'
  <2> DEFINE r == Starting("call", s)
  <2>1. r \in Request /\ r.server = s /\ call[p].at # "calling"
        /\ UNCHANGED <<unauth, entry>>
    BY <1>3, RequestStarts DEF Starting, ToolCall
  <2> HIDE DEF r
  <2>2. CASE Connect(p, r)
    BY <2>1, <2>2, CountConnect
  <2>3. CASE Connected(s) /\ Use(p, r) /\ UNCHANGED <<alive, pending>>
    BY <2>1, <2>3, CountUsed
  <2>4. CASE call' = [call EXCEPT ![p] = Rejected(r)] /\ UNCHANGED <<alive, inFlight, pending>>
    <3>1. Rejected(r).at # "calling"
      BY <1>2, <2>1
    <3> QED
      BY <1>1, <2>1, <2>4, <3>1, CountUnchanged
  <2> QED
    BY <1>3, <2>2, <2>3, <2>4 DEF ToolCall, r
<1>4. ASSUME NEW p \in Callers, NEW s \in Servers, ConnectTool(p, s)
      PROVE  CountInv'
  BY <1>4, RequestStarts, CountConnect DEF ConnectTool
<1>5. ASSUME NEW p \in Callers, NEW r \in Request, call[p].at # "calling", CloseFor(p, r)
      PROVE  CountInv'
  <2>1. r.server \in Servers /\ entry[r.server] \in Conns \cup {NoConn}
    BY DEF Request, TypeInv, TypeOK
  <2>2. Closing(r, entry[r.server]).at # "calling"
    BY <1>2, <2>1
  <2>3. SameCalls
    BY <1>1, <1>5, <2>2 DEF CloseFor
  <2> QED
    BY <1>5, <2>1, <2>3, CountEntryClosed DEF CloseFor
<1>6. ASSUME NEW p \in Callers, NEW s \in Servers, Reconnect(p, s)
      PROVE  CountInv'
  BY <1>5, <1>6, RequestStarts DEF Reconnect
<1>7. ASSUME NEW p \in Callers, SignedIn(p)
      PROVE  CountInv'
  BY <1>5, <1>7, BusyIsRequest DEF SignedIn
<1>8. ASSUME NEW p \in Callers, NotSignedIn(p)
      PROVE  CountInv'
  BY <1>1, <1>8, CountUnchanged DEF NotSignedIn, connVars, mapVars, Idle
<1>9. ASSUME NEW p \in Callers, Closed(p)
      PROVE  CountInv'
  <2>1. call[p] \in Request /\ call[p].at # "calling"
        /\ UNCHANGED <<unauth, entry>>
    BY <1>9, BusyIsRequest DEF Closed
  <2>2. CASE Connect(p, call[p])
    BY <2>1, <2>2, CountConnect
  <2>3. CASE call' = [call EXCEPT ![p] = Idle] /\ UNCHANGED <<alive, inFlight, pending>>
    BY <1>1, <2>1, <2>3, CountUnchanged DEF Idle
  <2> QED
    BY <1>9, <2>2, <2>3 DEF Closed
<1>10. ASSUME NEW p \in Callers, CallEnds(p)
       PROVE  CountInv'
  <2> DEFINE e == entry[call[p].server]
  <2>1. /\ call[p].at = "calling" /\ call[p].server \in Servers
        /\ call'[p].at = "idle"
        /\ \A q \in Callers \ {p} : call'[q] = call[q]
        /\ UNCHANGED <<unauth, entry, pending>>
    BY <1>0, <1>10 DEF CallEnds, mapVars, Idle, TypeInv, ServersKnown
  <2>2. \A c \in Conns : inFlight'[c] = IF c = e /\ inFlight[c] > 0
                                        THEN inFlight[c] - 1 ELSE inFlight[c]
    BY <1>10 DEF CallEnds
  <2>3. CallsPlaced'
    BY <2>1 DEF CountInv, CallsPlaced
  <2>4. ASSUME NEW c \in Conns
        PROVE  /\ inFlight'[c] <= Cardinality(CallsOn(c)')
               /\ inFlight'[c] # 0 => c \notin unauth /\ \E s \in Servers : entry[s] = c
    <3>1. inFlight[c] \in Nat /\ inFlight[c] <= Cardinality(CallsOn(c))
          /\ (inFlight[c] # 0 => c \notin unauth /\ \E s \in Servers : entry[s] = c)
      BY DEF CountInv, CountsBacked, TypeInv, TypeOK
    <3>2. CASE call[p].on # c
      <4>1. CallsOn(c)' = CallsOn(c)
        BY <2>1, <3>2 DEF CallsOn
      <4> QED
        BY <2>2, <3>1, <4>1, CallsAreFinite
    <3>3. CASE call[p].on = c
      <4>1. CallsOn(c)' = CallsOn(c) \ {p} /\ p \in CallsOn(c)
        BY <2>1, <3>3 DEF CallsOn
      <4>2. Cardinality(CallsOn(c)') = Cardinality(CallsOn(c)) - 1
            /\ Cardinality(CallsOn(c)') \in Nat
        BY <4>1, CallsAreFinite, FS_RemoveElement, FS_CardinalityType
      <4>3. inFlight[c] # 0 => c = e
        BY <2>1, <3>1, <3>3 DEF CountInv, CallsPlaced
      <4> QED
        BY <2>2, <3>1, <4>2, <4>3, CallsAreFinite
    <3> QED
      BY <3>2, <3>3
  <2> QED
    BY <2>1, <2>3, <2>4 DEF CountInv, CountsBacked
<1>11. ASSUME NEW s \in Servers, ConnectOk(s)
       PROVE  CountInv'
  <2> DEFINE c == pending[s]
             calls == {p \in Waiters(c) : call[p].job = "call"}
  <2>1. /\ c \in Conns /\ c # NoConn
        /\ entry' = [entry EXCEPT ![s] = c]
        /\ pending' = [pending EXCEPT ![s] = NoConn]
        /\ inFlight' = [inFlight EXCEPT ![c] = Cardinality(calls)]
        /\ unauth' = unauth \ {entry[s]}
        /\ ~Connected(s)
        /\ \A p \in Callers : call'[p] = IF p \in Waiters(c) THEN Served(call[p], c) ELSE call[p]
    BY <1>11 DEF ConnectOk, MapInv, OneConnection, TypeInv, TypeOK
  <2>2. \A p \in Waiters(c) : p \in Callers /\ call[p] \in Call /\ call[p].server = s
    <3> SUFFICES ASSUME NEW p \in Waiters(c)
                 PROVE  call[p].server = s
      BY <1>0 DEF Waiters
    <3> QED
      BY <2>1 DEF Waiters, WaitersAreServed, MapInv, OneConnection, TypeInv, ServersKnown
  <2>3. \A p \in calls : /\ call'[p].at = "calling" /\ call'[p].on = c
                         /\ call'[p].server = s
    BY <2>1, <2>2 DEF Served, Call
  <2>4. \A p \in Waiters(c) \ calls : call'[p].at = "idle"
    <3> SUFFICES ASSUME NEW p \in Waiters(c), call[p].job # "call"
                 PROVE  call'[p].at = "idle"
      OBVIOUS
    <3>1. call'[p] = Idle
      BY <2>1, <2>2 DEF Served
    <3> QED
      BY <3>1 DEF Idle
  <2>5. \A p \in Callers \ Waiters(c) : call'[p] = call[p]
    BY <2>1
  <2>6. \A p \in Waiters(c) : call[p].at # "calling"
    BY DEF Waiters
  <2>7. CallsPlaced'
    <3> SUFFICES ASSUME NEW p \in Callers, call'[p].at = "calling"
                 PROVE  /\ call'[p].on # NoConn
                        /\ \A t \in Servers : /\ call'[p].on # pending'[t]
                                              /\ call'[p].on = entry'[t] => t = call'[p].server
      BY DEF CallsPlaced
    <3>1. CASE p \in calls
      <4>1. \A t \in Servers : pending'[t] # c /\ (entry'[t] = c => t = s)
        BY <2>1 DEF MapInv, OneConnection, TypeInv, TypeOK
      <4> QED
        BY <2>1, <2>3, <3>1, <4>1
    <3>2. CASE p \notin Waiters(c)
      <4>1. call'[p] = call[p] /\ call[p].on # NoConn
            /\ \A t \in Servers : /\ call[p].on # pending[t]
                                  /\ call[p].on = entry[t] => t = call[p].server
        BY <2>5, <3>2 DEF CountInv, CallsPlaced
      <4> QED
        BY <2>1, <4>1 DEF TypeInv, TypeOK
    <3> QED
      BY <2>4, <3>1, <3>2
  <2>8. ASSUME NEW d \in Conns
        PROVE  /\ inFlight'[d] <= Cardinality(CallsOn(d)')
               /\ inFlight'[d] # 0 => d \notin unauth' /\ \E t \in Servers : entry'[t] = d
    <3>1. CASE d = c
      <4>1. calls \subseteq CallsOn(d)'
        <5>1. \A p \in calls : p \in Callers
          BY <2>2
        <5> HIDE DEF calls, c
        <5> QED
          BY <2>3, <3>1, <5>1 DEF CallsOn
      <4>2. IsFiniteSet(CallsOn(d)')
        <5>1. CallsOn(d)' \subseteq Callers
          BY DEF CallsOn
        <5> QED
          BY <5>1, McpAssumption, FS_Subset
      <4>3. Cardinality(calls) <= Cardinality(CallsOn(d)')
        BY <4>1, <4>2, FS_Subset
      <4>4. inFlight'[c] = Cardinality(calls) /\ entry'[s] = c
        BY <2>1 DEF TypeInv, TypeOK
      <4>5. c \notin unauth
        BY <2>1 DEF MapInv, UnauthAreEntries, OneConnection
      <4> QED
        BY <2>1, <3>1, <4>3, <4>4, <4>5
    <3>2. CASE d # c
      <4>1. CallsOn(d)' = CallsOn(d)
        BY <2>2, <2>3, <2>4, <2>5, <2>6, <3>2 DEF CallsOn
      <4>2. inFlight'[d] = inFlight[d]
        BY <2>1, <3>2 DEF TypeInv, TypeOK
      <4>3. inFlight[d] <= Cardinality(CallsOn(d))
        BY DEF CountInv, CountsBacked
      <4>4. ASSUME inFlight[d] # 0
            PROVE  d \notin unauth' /\ \E t \in Servers : entry'[t] = d
        <5>1. d \notin unauth /\ \E t \in Servers : entry[t] = d
          BY <4>4 DEF CountInv, CountsBacked
        <5>2. PICK t \in Servers : entry[t] = d
          BY <5>1
        <5>3. t # s
          BY <2>1, <5>1, <5>2, McpAssumption DEF Connected
        <5> QED
          BY <2>1, <5>1, <5>2, <5>3 DEF TypeInv, TypeOK
      <4>5. inFlight'[d] <= Cardinality(CallsOn(d)')
        BY <4>1, <4>2, <4>3
      <4> QED
        BY <4>2, <4>4, <4>5
    <3> QED
      BY <3>1, <3>2
  <2> QED
    BY <2>7, <2>8 DEF CountInv, CountsBacked
<1>12. ASSUME NEW s \in Servers, ConnectUnauthorized(s)
       PROVE  CountInv'
  <2> DEFINE c == pending[s]
  <2>1. /\ c \in Conns /\ c # NoConn
        /\ entry' = [entry EXCEPT ![s] = c]
        /\ unauth' = (unauth \ {entry[s]}) \cup {c}
        /\ pending' = [pending EXCEPT ![s] = NoConn]
        /\ UNCHANGED inFlight
        /\ ~Connected(s)
        /\ \A p \in Callers : call'[p] = IF p \in Waiters(c) THEN Rejected(call[p]) ELSE call[p]
    BY <1>12 DEF ConnectUnauthorized, MapInv, OneConnection, TypeInv, TypeOK
  <2>2. SameCalls
    <3> SUFFICES ASSUME NEW p \in Waiters(c)
                 PROVE  call[p].at # "calling" /\ call'[p].at # "calling"
      BY <2>1 DEF SameCalls
    <3>1. call[p] \in Request /\ p \in Callers /\ call[p].at = "connecting"
      BY BusyIsRequest DEF Waiters
    <3> QED
      BY <1>2, <2>1, <3>1
  <2>3. inFlight[c] = 0
    BY <2>1 DEF CountInv, CountsBacked, MapInv, OneConnection
  <2>4. CallsPlaced'
    <3> SUFFICES ASSUME NEW p \in Callers, call[p].at = "calling", call'[p] = call[p]
                 PROVE  /\ call[p].on # NoConn
                        /\ \A t \in Servers : /\ call[p].on # pending'[t]
                                              /\ call[p].on = entry'[t] => t = call[p].server
      BY <2>2 DEF CallsPlaced, SameCalls
    <3> QED
      BY <2>1 DEF CountInv, CallsPlaced, TypeInv, TypeOK
  <2>5. ASSUME NEW d \in Conns, inFlight[d] # 0
        PROVE  d \notin unauth' /\ \E t \in Servers : entry'[t] = d
    <3>1. d \notin unauth /\ d # c /\ \E t \in Servers : entry[t] = d
      BY <2>3, <2>5 DEF CountInv, CountsBacked
    <3>2. PICK t \in Servers : entry[t] = d
      BY <3>1
    <3>3. t # s
      BY <2>1, <3>1, <3>2, McpAssumption DEF Connected
    <3> QED
      BY <2>1, <3>1, <3>2, <3>3 DEF TypeInv, TypeOK
  <2> QED
    BY <2>1, <2>2, <2>4, <2>5, CallsStay DEF CountInv, CountsBacked
<1>13. ASSUME NEW s \in Servers, ConnectFails(s)
       PROVE  CountInv'
  <2>1. SameCalls
    BY <1>13 DEF ConnectFails, SameCalls, Waiters, Idle
  <2>2. CallsPlaced'
    <3> SUFFICES ASSUME NEW p \in Callers, call[p].at = "calling", call'[p] = call[p]
                 PROVE  /\ call[p].on # NoConn
                        /\ \A t \in Servers : /\ call[p].on # pending'[t]
                                              /\ call[p].on = entry'[t] => t = call[p].server
      BY <2>1 DEF CallsPlaced, SameCalls
    <3> QED
      BY <1>13 DEF ConnectFails, CountInv, CallsPlaced, TypeInv, TypeOK
  <2> QED
    BY <1>13, <2>1, <2>2, CallsStay DEF ConnectFails, CountInv, CountsBacked
<1>14. ASSUME NEW s \in Servers, HealthCheck(s)
       PROVE  CountInv'
  BY <1>14, CountCreated DEF HealthCheck, SameCalls
<1>15. ASSUME NEW s \in Servers, IdleClose(s)
       PROVE  CountInv'
  BY <1>15, CountEntryClosed DEF IdleClose, SameCalls
<1>16. ASSUME NEW c \in Conns, CloseEnds(c)
       PROVE  CountInv'
  <2>1. SameCalls
    BY <1>0, <1>16 DEF CloseEnds, SameCalls, Call
  <2> QED
    BY <1>16, <2>1, CountUnchanged DEF CloseEnds, mapVars
<1>17. CASE Shutdown
  <2>1. SameCalls /\ UNCHANGED pending /\ unauth' \subseteq unauth
    BY <1>17 DEF Shutdown, SameCalls
  <2>2. \A s \in Servers : entry'[s] = NoConn
    BY <1>17 DEF Shutdown
  <2>3. inFlight' \in [Conns -> Nat] /\ \A c \in Conns : inFlight'[c] = 0
    BY <1>17 DEF Shutdown
  <2> QED
    BY <2>1, <2>2, <2>3, CountClosed
<1>18. CASE UNCHANGED <<unauth, inFlight, entry, pending, call>>
  BY <1>18, CountUnchanged DEF SameCalls
<1> QED
  BY <1>3, <1>4, <1>6, <1>7, <1>8, <1>9, <1>10, <1>11, <1>12, <1>13, <1>14, <1>15,
     <1>16, <1>17, <1>18
  DEF Next, Crash, BackoffEnds, connVars, mapVars, vars

(* The count that holds a server back from the idle check is never more    *)
(* than the calls it stands for.                                           *)
THEOREM CountsAreBacked == Spec => []CountIsBacked
<1>1. TypeInv /\ MapInv /\ WaitersAreServed /\ UnauthAreEntries /\ CountInv /\ [Next]_vars
      => TypeInv' /\ MapInv' /\ WaitersAreServed' /\ UnauthAreEntries' /\ CountInv'
  BY TypeStep, MapStep, WaitStep, UnauthStep, CountStep
<1>2. Init => TypeInv /\ MapInv /\ WaitersAreServed /\ UnauthAreEntries /\ CountInv
  <2>1. Init => MapInv
    BY McpAssumption DEF Init, MapInv, NoOrphan, OneConnection, Connected
  <2>2. Init => WaitersAreServed /\ UnauthAreEntries /\ CallsPlaced
    BY DEF Init, WaitersAreServed, UnauthAreEntries, CallsPlaced, Idle
  <2>3. Init => CountsBacked
    BY CallsAreFinite DEF Init, CountsBacked
  <2> QED
    BY <2>1, <2>2, <2>3, TypeStarts DEF CountInv
<1>3. TypeInv /\ CountInv => CountIsBacked
  BY DEF TypeInv, TypeOK, CountInv, CountsBacked, CountIsBacked
<1> QED
  BY <1>1, <1>2, <1>3, PTL DEF Spec
=============================================================================
