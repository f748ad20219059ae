---------------------------- MODULE McpConnections --------------------------
(***************************************************************************)
(* The connections of the MCP adapter (src/extensions/mcp-adapter): the    *)
(* maps of McpServerManager, the checks of McpLifecycleManager, and the    *)
(* tool calls and commands that use them.  A server is a process of its    *)
(* own (or a remote session); a connection that nothing refers to any more *)
(* leaves that process behind.                                             *)
(*                                                                         *)
(* The maps are read and written between awaits.  What an await lets in is *)
(* any other action: a connect takes seconds, a close up to the exit of    *)
(* the process, a sign-in as long as the user takes.                       *)
(***************************************************************************)
EXTENDS Integers, FiniteSets

CONSTANTS
    Servers,     \* the configured servers
    OAuth,       \* those that may ask for a sign-in
    Callers,     \* tool calls and /mcp commands under way at once
    Conns,       \* connections; one that nothing holds stands for a new one
    NoConn,      \* no connection
    NoServer,    \* no server
    AutoAuth,    \* settings.autoAuth
    Crashes,     \* whether a server may die under its connection
    Shutdowns    \* whether the session may end

ASSUME McpAssumption ==
    /\ OAuth \subseteq Servers
    /\ IsFiniteSet(Callers)
    /\ NoConn \notin Conns /\ NoServer \notin Servers
    /\ AutoAuth \in BOOLEAN /\ Crashes \in BOOLEAN /\ Shutdowns \in BOOLEAN

VARIABLES
    alive,      \* the connections whose process or remote session exists
    unauth,     \* the entries whose status is "needs-auth"
    inFlight,   \* ServerConnection.inFlight of the entries
    entry,      \* McpServerManager.connections
    pending,    \* McpServerManager.connectPromises
    closing,    \* the connections whose close has not ended
    call,       \* what each caller is doing
    backoff,    \* failureTracker: the servers that failed in the last 60 s
    down,       \* gracefulShutdown has been called
    keepAlive   \* the configuration: the servers with lifecycle "keep-alive"

connVars == <<alive, unauth, inFlight>>
mapVars == <<entry, pending>>
vars == <<alive, unauth, inFlight, entry, pending, closing, call, backoff, down, keepAlive>>

(* A call is at an await: of a sign-in, a close, a connect or a request.   *)
(* on is the connection it closes, waits for or uses; signed holds when it *)
(* will not sign in (again).                                               *)
Call == [at : {"idle", "auth", "closing", "connecting", "calling"},
         job : {"none", "call", "connect", "reconnect"},
         server : Servers \cup {NoServer},
         on : Conns \cup {NoConn},
         signed : BOOLEAN]
Idle == [at |-> "idle", job |-> "none", server |-> NoServer,
         on |-> NoConn, signed |-> FALSE]

TypeOK ==
    /\ alive \subseteq Conns /\ unauth \subseteq Conns /\ closing \subseteq Conns
    /\ inFlight \in [Conns -> Nat]
    /\ entry \in [Servers -> Conns \cup {NoConn}]
    /\ pending \in [Servers -> Conns \cup {NoConn}]
    /\ call \in [Callers -> Call]
    /\ backoff \subseteq Servers /\ down \in BOOLEAN /\ keepAlive \subseteq Servers

Init ==
    /\ alive = {} /\ unauth = {} /\ closing = {}
    /\ inFlight = [c \in Conns |-> 0]
    /\ entry = [s \in Servers |-> NoConn] /\ pending = [s \in Servers |-> NoConn]
    /\ call = [p \in Callers |-> Idle]
    /\ backoff = {} /\ down = FALSE
    /\ keepAlive \in SUBSET Servers

Connected(s) == entry[s] # NoConn /\ entry[s] \notin unauth
NeedsAuth(s) == entry[s] # NoConn /\ entry[s] \in unauth

Unused(c) ==
    /\ c \notin alive \cup unauth \cup closing
    /\ \A s \in Servers : c # entry[s] /\ c # pending[s]
    /\ \A p \in Callers : call[p].on # c

Waiters(c) == {p \in Callers : call[p].at = "connecting" /\ call[p].on = c}
CallsOn(c) == {p \in Callers : call[p].at = "calling" /\ call[p].on = c}

Starting(what, s) ==
    [at |-> "idle", job |-> what, server |-> s, on |-> NoConn,
     signed |-> what = "reconnect"]
Waiting(r, c) == [r EXCEPT !.at = "connecting", !.on = c]
Closing(r, c) == [r EXCEPT !.at = "closing", !.on = c, !.signed = TRUE]

(* What a request does next when its server is connected, over c, or wants *)
(* a sign-in.                                                              *)
Served(r, c) ==
    IF r.job = "call" THEN [r EXCEPT !.at = "calling", !.on = c] ELSE Idle
Rejected(r) ==
    IF AutoAuth /\ ~r.signed THEN [r EXCEPT !.at = "auth", !.on = NoConn] ELSE Idle
-----------------------------------------------------------------------------
(* createConnection and its promise in connectPromises.                    *)
Create(s, c) ==
    /\ Unused(c)
    /\ pending' = [pending EXCEPT ![s] = c]
    /\ alive' = alive \cup {c}

(* The request r of p goes over the connection there is. *)
Use(p, r) ==
    /\ call' = [call EXCEPT ![p] = Served(r, entry[r.server])]
    /\ inFlight' = [inFlight EXCEPT ![entry[r.server]] =
                       IF r.job = "call" THEN @ + 1 ELSE @]

(* Slip: a connect under way is not joined. *)
SlipConnectAnew(p, r) ==
    LET s == r.server
    IN  \/ /\ Connected(s)
           /\ Use(p, r)
           /\ UNCHANGED <<alive, pending>>
        \/ /\ ~Connected(s)
           /\ \E c \in Conns :
                 /\ Create(s, c)
                 /\ call' = [call EXCEPT ![p] = Waiting(r, c)]
           /\ UNCHANGED inFlight

(* connect, awaited by p for its request r: join the connect under way,    *)
(* use the connection there is, or make one.                               *)
Connect(p, r) ==
    LET s == r.server
    IN  \/ /\ pending[s] # NoConn
           /\ call' = [call EXCEPT ![p] = Waiting(r, pending[s])]
           /\ UNCHANGED <<alive, inFlight, pending>>
        \/ /\ pending[s] = NoConn /\ Connected(s)
           /\ Use(p, r)
           /\ UNCHANGED <<alive, pending>>
        \/ /\ pending[s] = NoConn /\ ~Connected(s)
           /\ \E c \in Conns :
                 /\ Create(s, c)
                 /\ call' = [call EXCEPT ![p] = Waiting(r, c)]
           /\ UNCHANGED inFlight

(* close up to its first await: the entry goes before the process does.    *)
(* Nobody looks at the count of a connection that has left the map.        *)
CloseEntry(s) ==
    /\ entry' = [entry EXCEPT ![s] = NoConn]
    /\ closing' = IF entry[s] = NoConn THEN closing ELSE closing \cup {entry[s]}
    /\ unauth' = unauth \ {entry[s]}
    /\ inFlight' = [c \in Conns |-> IF c = entry[s] THEN 0 ELSE inFlight[c]]

CloseFor(p, r) ==
    /\ CloseEntry(r.server)
    /\ call' = [call EXCEPT ![p] = Closing(r, entry[r.server])]
    /\ UNCHANGED <<alive, pending, backoff, down, keepAlive>>
-----------------------------------------------------------------------------
(* A call of a tool of s, direct or through the mcp tool; one that is      *)
(* refused for a recent failure or for want of a sign-in changes nothing.  *)
ToolCall(p, s) ==
    LET r == Starting("call", s)
    IN  /\ call[p].at = "idle" /\ ~down
        /\ \/ Connected(s) /\ Use(p, r) /\ UNCHANGED <<alive, pending>>
           \/ /\ NeedsAuth(s)
              /\ call' = [call EXCEPT ![p] = Rejected(r)]
              /\ UNCHANGED <<alive, inFlight, pending>>
           \/ /\ entry[s] = NoConn /\ s \notin backoff
              /\ Connect(p, r)
        /\ UNCHANGED <<unauth, entry, closing, backoff, down, keepAlive>>

(* mcp({connect}): whatever failed before, and also when a sign-in is due. *)
ConnectTool(p, s) ==
    /\ call[p].at = "idle" /\ ~down
    /\ Connect(p, Starting("connect", s))
    /\ UNCHANGED <<unauth, entry, closing, backoff, down, keepAlive>>

(* /mcp reconnect, for each server it names. *)
Reconnect(p, s) ==
    /\ call[p].at = "idle" /\ ~down
    /\ CloseFor(p, Starting("reconnect", s))

(* authenticate has come back; with a token the connection is made anew.   *)
SignedIn(p) ==
    /\ call[p].at = "auth"
    /\ CloseFor(p, call[p])

NotSignedIn(p) ==
    /\ call[p].at = "auth"
    /\ call' = [call EXCEPT ![p] = Idle]
    /\ UNCHANGED <<connVars, mapVars, closing, backoff, down, keepAlive>>

(* The close a caller waited for has ended.  A call forgets the failure on *)
(* most paths, and answers if the server asks for a sign-in once more.     *)
Closed(p) ==
    LET r == call[p]
    IN  /\ r.at = "closing" /\ r.on = NoConn
        /\ \/ Connect(p, r)
           \/ /\ r.job = "call" /\ NeedsAuth(r.server)
              /\ call' = [call EXCEPT ![p] = Idle]
              /\ UNCHANGED <<alive, inFlight, pending>>
        /\ \/ backoff' = backoff
           \/ r.job = "call" /\ backoff' = backoff \ {r.server}
        /\ UNCHANGED <<unauth, entry, closing, down, keepAlive>>

(* Slip: a call that ends does not give its count back. *)
SlipCountKept(p) ==
    /\ call[p].at = "calling"
    /\ call' = [call EXCEPT ![p] = Idle]
    /\ UNCHANGED <<connVars, mapVars, closing, backoff, down, keepAlive>>

(* The count is taken from the connection the server has now. *)
CallEnds(p) ==
    LET e == entry[call[p].server]
    IN  /\ call[p].at = "calling"
        /\ call' = [call EXCEPT ![p] = Idle]
        /\ inFlight' = [c \in Conns |-> IF c = e /\ inFlight[c] > 0
                                        THEN inFlight[c] - 1 ELSE inFlight[c]]
        /\ UNCHANGED <<alive, unauth, mapVars, closing, backoff, down, keepAlive>>
-----------------------------------------------------------------------------
(* Slip: the promise stays in connectPromises. *)
SlipPromiseKept(s) ==
    LET c == pending[s]
    IN  /\ c # NoConn
        /\ entry' = [entry EXCEPT ![s] = c]
        /\ unauth' = unauth \ {entry[s]}
        /\ inFlight' = [inFlight EXCEPT ![c] =
                           Cardinality({p \in Waiters(c) : call[p].job = "call"})]
        /\ call' = [p \in Callers |-> IF p \in Waiters(c) THEN Served(call[p], c)
                                      ELSE call[p]]
        /\ backoff' = backoff \ {s}
        /\ UNCHANGED <<alive, pending, closing, down, keepAlive>>

(* Slip: one of those who wait is told. *)
SlipOneIsTold(s) ==
    LET c == pending[s]
    IN  /\ c # NoConn
        /\ entry' = [entry EXCEPT ![s] = c]
        /\ unauth' = unauth \ {entry[s]}
        /\ pending' = [pending EXCEPT ![s] = NoConn]
        /\ inFlight' = [inFlight EXCEPT ![c] =
                           Cardinality({p \in Waiters(c) : call[p].job = "call"})]
        /\ call' = [p \in Callers |-> IF Waiters(c) # {} /\ p = CHOOSE q \in Waiters(c) : TRUE
                                      THEN Served(call[p], c)
                                      ELSE call[p]]
        /\ backoff' = backoff \ {s}
        /\ UNCHANGED <<alive, closing, down, keepAlive>>

(* The promise of createConnection settles: connected, a sign-in is        *)
(* needed, or an error after client and transport have been closed.  All   *)
(* who waited for it go on in the same turn of the event loop.             *)
ConnectOk(s) ==
    LET c == pending[s]
    IN  /\ c # NoConn
        /\ entry' = [entry EXCEPT ![s] = c]
        /\ unauth' = unauth \ {entry[s]}
        /\ pending' = [pending EXCEPT ![s] = NoConn]
        /\ inFlight' = [inFlight EXCEPT ![c] =
                           Cardinality({p \in Waiters(c) : call[p].job = "call"})]
        /\ call' = [p \in Callers |-> IF p \in Waiters(c) THEN Served(call[p], c)
                                      ELSE call[p]]
        /\ backoff' = backoff \ {s}
        /\ UNCHANGED <<alive, closing, down, keepAlive>>

ConnectUnauthorized(s) ==
    LET c == pending[s]
    IN  /\ c # NoConn /\ s \in OAuth
        /\ alive' = alive \ {c}
        /\ entry' = [entry EXCEPT ![s] = c]
        /\ unauth' = (unauth \ {entry[s]}) \cup {c}
        /\ pending' = [pending EXCEPT ![s] = NoConn]
        /\ call' = [p \in Callers |-> IF p \in Waiters(c) THEN Rejected(call[p])
                                      ELSE call[p]]
        /\ UNCHANGED <<inFlight, closing, backoff, down, keepAlive>>

(* Slip: a failed connect does not close its transport. *)
SlipProcessLeft(s) ==
    LET c == pending[s]
    IN  /\ c # NoConn
        /\ pending' = [pending EXCEPT ![s] = NoConn]
        /\ call' = [p \in Callers |-> IF p \in Waiters(c) THEN Idle ELSE call[p]]
        /\ backoff' = IF Waiters(c) = {} THEN backoff ELSE backoff \cup {s}
        /\ UNCHANGED <<alive, unauth, inFlight, entry, closing, down, keepAlive>>

(* A failed health check is only logged. *)
ConnectFails(s) ==
    LET c == pending[s]
    IN  /\ c # NoConn
        /\ alive' = alive \ {c}
        /\ pending' = [pending EXCEPT ![s] = NoConn]
        /\ call' = [p \in Callers |-> IF p \in Waiters(c) THEN Idle ELSE call[p]]
        /\ backoff' = IF Waiters(c) = {} THEN backoff ELSE backoff \cup {s}
        /\ UNCHANGED <<unauth, inFlight, entry, closing, down, keepAlive>>

CloseEnds(c) ==
    /\ c \in closing
    /\ closing' = closing \ {c}
    /\ alive' = alive \ {c}
    /\ call' = [p \in Callers |-> IF call[p].at = "closing" /\ call[p].on = c
                                  THEN [call[p] EXCEPT !.on = NoConn] ELSE call[p]]
    /\ UNCHANGED <<unauth, inFlight, mapVars, backoff, down, keepAlive>>

(* The adapter listens neither to onclose nor to onerror: the entry of a   *)
(* server that has died keeps its status.                                  *)
Crash(s) ==
    /\ Crashes /\ Connected(s) /\ entry[s] \in alive
    /\ alive' = alive \ {entry[s]}
    /\ UNCHANGED <<unauth, inFlight, mapVars, closing, call, backoff, down, keepAlive>>
-----------------------------------------------------------------------------
(* checkConnections, every 30 s, and the connect at startup before it.     *)
HealthCheck(s) ==
    /\ ~down /\ s \in keepAlive
    /\ ~Connected(s) /\ pending[s] = NoConn
    /\ \E c \in Conns : Create(s, c)
    /\ UNCHANGED <<unauth, inFlight, entry, closing, call, backoff, down, keepAlive>>

(* The idle timeout is any number of minutes and is not modelled. *)
IdleClose(s) ==
    /\ ~down /\ s \notin keepAlive
    /\ Connected(s) /\ inFlight[entry[s]] = 0
    /\ CloseEntry(s)
    /\ UNCHANGED <<alive, pending, call, backoff, down, keepAlive>>

BackoffEnds(s) ==
    /\ s \in backoff
    /\ backoff' = backoff \ {s}
    /\ UNCHANGED <<connVars, mapVars, closing, call, down, keepAlive>>

(* closeAll closes what is in the map; a connect under way is not.         *)
Shutdown ==
    /\ Shutdowns /\ ~down
    /\ down' = TRUE
    /\ entry' = [s \in Servers |-> NoConn]
    /\ closing' = closing \cup {entry[s] : s \in {t \in Servers : entry[t] # NoConn}}
    /\ unauth' = {}
    /\ inFlight' = [c \in Conns |-> 0]
    /\ UNCHANGED <<alive, pending, call, backoff, keepAlive>>

Next ==
    \/ \E p \in Callers, s \in Servers :
          ToolCall(p, s) \/ ConnectTool(p, s) \/ Reconnect(p, s)
    \/ \E p \in Callers : SignedIn(p) \/ NotSignedIn(p) \/ Closed(p) \/ CallEnds(p)
    \/ \E s \in Servers :
          \/ ConnectOk(s) \/ ConnectUnauthorized(s) \/ ConnectFails(s)
          \/ Crash(s) \/ HealthCheck(s) \/ IdleClose(s) \/ BackoffEnds(s)
    \/ \E c \in Conns : CloseEnds(c)
    \/ Shutdown

Spec == Init /\ [][Next]_vars

(* Requests and connects time out after 60 s, a sign-in is given up, a     *)
(* close kills the process in the end, and the timer of the checks runs    *)
(* until the session ends.  Nobody has to call anything.  Closed is fair   *)
(* in the strong sense because Conns may be used up for a while, which is  *)
(* the instance's limit and not the code's.                                *)
FairSpec ==
    /\ Spec
    /\ \A s \in Servers :
          /\ WF_vars(ConnectOk(s) \/ ConnectUnauthorized(s) \/ ConnectFails(s))
          /\ WF_vars(HealthCheck(s))
    /\ \A c \in Conns : WF_vars(CloseEnds(c))
    /\ \A p \in Callers :
          /\ WF_vars(SignedIn(p) \/ NotSignedIn(p))
          /\ SF_vars(Closed(p))
          /\ WF_vars(CallEnds(p))
-----------------------------------------------------------------------------
(* No process is left behind: each one that runs is in the map, is being   *)
(* connected or is being closed (server-manager.ts, the order of delete    *)
(* and cleanup in close, the finally of connect).                          *)
NoOrphan ==
    \A c \in alive : \/ c \in closing
                     \/ \E s \in Servers : c \in {entry[s], pending[s]}

(* A server is never connected twice: while a connect is under way there   *)
(* is no connection in the map, and no connection is shared, connected     *)
(* again or used while it is closed.                                       *)
OneConnection ==
    /\ \A s \in Servers : pending[s] # NoConn => ~Connected(s)
    /\ \A s, t \in Servers : entry[s] # NoConn => entry[s] # pending[t]
    /\ \A s, t \in Servers :
          s # t => /\ entry[s] = NoConn \/ entry[s] # entry[t]
                   /\ pending[s] = NoConn \/ pending[s] # pending[t]
    /\ \A s \in Servers : entry[s] \notin closing /\ pending[s] \notin closing

(* The count that keeps a server from being closed as idle is never more   *)
(* than the calls that use its connection, whatever was reconnected while  *)
(* they ran: no server stays up for a call that is over.                   *)
CountIsBacked ==
    \A s \in Servers : entry[s] # NoConn
        => inFlight[entry[s]] <= Cardinality(CallsOn(entry[s]))

(* Whoever waits for a connect waits for the one that is under way for its *)
(* server: no caller is left with a promise the manager has forgotten.     *)
WaitersAreServed ==
    \A p \in Callers : call[p].at = "connecting"
        => /\ call[p].on # NoConn
           /\ call[p].on = pending[call[p].server]

(* Every call and every command comes to its end, through reconnects,      *)
(* sign-ins and failures of others.                                        *)
Answered == \A p \in Callers : call[p].at # "idle" ~> call[p].at = "idle"

(* A keep-alive server that is not up is connected again by the checks.    *)
KeptAlive ==
    \A s \in Servers : (s \in keepAlive /\ entry[s] \notin alive)
                        ~> (pending[s] # NoConn \/ down)
=============================================================================
