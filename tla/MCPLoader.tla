------------------------------ MODULE MCPLoader ------------------------------
(***************************************************************************)
(* The agent's connections to MCP servers (mcp/loader.go, toolwrap.go,     *)
(* einotool.go).  A tool is bound to the session it was listed from.       *)
(* Goroutines reconnect servers: after failed pings, from a tool call, and *)
(* at start; each swaps the session, closes the old one and reloads the    *)
(* tools of all servers without holding the mutex in between.              *)
(***************************************************************************)
EXTENDS Naturals, FiniteSets, FiniteSetsExt

CONSTANTS Server,      \* indices of the configured servers
          Remote,      \* those reached by SSE or Streamable HTTP; the others are stdio
          Worker,      \* goroutines that may reconnect at the same time
          MaxSession, MaxDrops, MaxMishaps   \* bounds
ASSUME LoaderAssumption == Server \subseteq Nat /\ IsFiniteSet(Server) /\ Remote \subseteq Server

NoSession == 0
Session == 0 .. MaxSession

VARIABLES session,   \* clients[i].session
          made,      \* sessions created so far
          open,      \* sessions this side has not closed
          broken,    \* open sessions whose connection is gone
          tools,     \* the installed tools of each server: the session they call
          waiting,   \* servers whose background connect has not begun
          shut,      \* Close has run
          work,      \* the goroutines
          call,      \* the tool call of the agent's turn
          drops, mishaps,
          overlapped,  \* a session was swapped while another goroutine was reloading
          gaveUp       \* a reconnect gave up between the swap and the reload

loaderVars == <<session, made, open, broken, tools, waiting, shut, work, call, drops, mishaps, overlapped, gaveUp>>

Nothing == [s \in Server |-> NoSession]
Idle == [at |-> "idle", kind |-> "backoff", on |-> Min(Server), holds |-> NoSession,
         left |-> {}, listed |-> Nothing, failed |-> FALSE]
NoCall == [at |-> "none", on |-> Min(Server), through |-> NoSession, fresh |-> FALSE]
Usable(x) == x \in open \ broken

\* Servers are connected in the order of the configuration.
Numberings(up) ==
    {f \in [up -> 1 .. Cardinality(up)] :
        /\ \A x \in 1 .. Cardinality(up) : \E s \in up : f[s] = x
        /\ \A s, t \in up : s < t => f[s] < f[t]}
\* NewLoader: each remote server is up or will be retried in the background;
\* the tools of a server that is up may fail to be listed.
LoaderInit ==
    /\ \E up \in SUBSET Remote : \E number \in Numberings(up) :
         /\ session = [s \in Server |-> IF s \in up THEN number[s] ELSE NoSession]
         /\ made = Cardinality(up) /\ open = 1 .. made
         /\ waiting = Server \ up
         /\ \E listed \in SUBSET up : tools = [s \in Server |-> IF s \in listed THEN session[s] ELSE NoSession]
    /\ broken = {} /\ shut = FALSE
    /\ work = [w \in Worker |-> Idle] /\ call = NoCall
    /\ drops = 0 /\ mishaps = 0 /\ overlapped = FALSE /\ gaveUp = FALSE

Starts(w, s, kind) ==
    /\ work[w].at = "idle"
    /\ work' = [work EXCEPT ![w] = [Idle EXCEPT !.at = "dial", !.on = s, !.kind = kind]]

\* connectStdioAsync takes the stdio servers one after the other;
\* a remote server that was down at start has a goroutine of its own.
ConnectInBackground(w, s) ==
    /\ s \in waiting /\ ~shut
    /\ IF s \in Remote THEN Starts(w, s, "backoff")
       ELSE /\ \A v \in Worker : work[v].kind # "stdio" \/ work[v].at = "idle"
            /\ Starts(w, s, "stdio")
    /\ waiting' = waiting \ {s}
    /\ UNCHANGED <<session, made, open, broken, tools, shut, call, drops, mishaps, overlapped, gaveUp>>

\* Mutant: a placeholder or a broken session is left to the next start.
PingNobody(w, s) == FALSE /\ UNCHANGED loaderVars
\* keepaliveLoop: a ping that fails starts a goroutine, whether or not an
\* earlier one is still at work on that server.
PingFails(w, s) ==
    /\ ~shut /\ s \in Remote /\ session[s] # NoSession /\ session[s] \in broken
    /\ Starts(w, s, "backoff")
    /\ UNCHANGED <<session, made, open, broken, tools, waiting, shut, call, drops, mishaps, overlapped, gaveUp>>

\* createClient succeeds, even while Close is running.
Dial(w) ==
    /\ work[w].at = "dial" /\ made < MaxSession
    /\ made' = made + 1 /\ open' = open \cup {made'}
    /\ work' = [work EXCEPT ![w].at = "swap", ![w].holds = made']
    /\ UNCHANGED <<session, broken, tools, waiting, shut, call, drops, mishaps, overlapped, gaveUp>>
\* A stdio server is not tried again; reconnectWithBackoff tries for ever, a
\* tool call for at most ten seconds; Close ends them all.
AfterFailure(w) ==
    IF shut \/ work[w].kind = "stdio" THEN {Idle}
    ELSE {[work[w] EXCEPT !.at = "dial"]} \cup (IF work[w].kind = "ondemand" THEN {Idle} ELSE {})
\* A tool call that leaves after its reload failed leaves the old tools.
NotesGivingUp(w, next) ==
    gaveUp' = (gaveUp \/ (next = Idle /\ work[w].kind = "ondemand" /\ work[w].failed))
DialFails(w) ==
    /\ work[w].at = "dial"
    /\ shut \/ mishaps < MaxMishaps
    /\ mishaps' = IF shut THEN mishaps ELSE mishaps + 1
    /\ \E next \in AfterFailure(w) : work' = [work EXCEPT ![w] = next] /\ NotesGivingUp(w, next)
    /\ UNCHANGED <<session, made, open, broken, tools, waiting, shut, call, drops, overlapped>>

Reloading(v) == work[v].at \in {"close", "list"}
\* Swap under the mutex; after Close the new session is nobody's.
Swap(w) ==
    /\ work[w].at = "swap"
    /\ IF shut
       THEN /\ work' = [work EXCEPT ![w] = Idle]
            /\ UNCHANGED <<session, overlapped>>
       ELSE /\ session' = [session EXCEPT ![work[w].on] = work[w].holds]
            /\ work' = [work EXCEPT ![w].at = "close", ![w].holds = session[work[w].on]]
            /\ overlapped' = (overlapped \/ \E v \in Worker \ {w} : Reloading(v))
    /\ UNCHANGED <<made, open, broken, tools, waiting, shut, call, drops, mishaps, gaveUp>>

\* The servers a reload sees: a stdio server's placeholder is another object
\* than the client that replaces it later.
Snapshot == {s \in Server : ~shut /\ (s \in Remote \/ session[s] # NoSession)}
\* Mutant: the reload begins with what is installed.
CloseOldAndCopy(w) ==
    /\ work[w].at = "close"
    /\ open' = open \ {work[w].holds} /\ broken' = broken \ {work[w].holds}
    /\ work' = [work EXCEPT ![w].at = "list", ![w].holds = NoSession, ![w].failed = FALSE,
                            ![w].left = Snapshot \ {s \in Server : tools[s] # NoSession}, ![w].listed = tools]
    /\ UNCHANGED <<session, made, tools, waiting, shut, call, drops, mishaps, overlapped, gaveUp>>
CloseOld(w) ==
    /\ work[w].at = "close"
    /\ open' = open \ {work[w].holds} /\ broken' = broken \ {work[w].holds}
    /\ work' = [work EXCEPT ![w].at = "list", ![w].holds = NoSession, ![w].left = Snapshot,
                            ![w].listed = Nothing, ![w].failed = FALSE]
    /\ UNCHANGED <<session, made, tools, waiting, shut, call, drops, mishaps, overlapped, gaveUp>>

\* reloadTools asks the servers in turn, each through the session it has now;
\* one that fails is skipped.
ListTools(w) ==
    /\ work[w].at = "list" /\ work[w].left # {}
    /\ LET s == Min(work[w].left)
           skip == [work[w] EXCEPT !.left = @ \ {s}]
       IN  \/ /\ session[s] = NoSession
              /\ work' = [work EXCEPT ![w] = skip] /\ UNCHANGED mishaps
           \/ /\ Usable(session[s]) /\ ~shut
              /\ work' = [work EXCEPT ![w] = [skip EXCEPT !.listed[s] = session[s]]] /\ UNCHANGED mishaps
           \/ /\ session[s] # NoSession
              /\ IF Usable(session[s]) /\ ~shut THEN mishaps < MaxMishaps /\ mishaps' = mishaps + 1
                                                ELSE UNCHANGED mishaps
              /\ work' = [work EXCEPT ![w] = [skip EXCEPT !.failed = TRUE]]
    /\ UNCHANGED <<session, made, open, broken, tools, waiting, shut, call, drops, overlapped, gaveUp>>
\* The new set replaces the old one, unless every server failed: then the old
\* set stays and the reconnect counts as failed.
Install(w) ==
    /\ work[w].at = "list" /\ work[w].left = {}
    /\ IF work[w].failed /\ work[w].listed = Nothing
       THEN /\ \E next \in AfterFailure(w) :
                 /\ work' = [work EXCEPT ![w] = next] /\ NotesGivingUp(w, next)
            /\ UNCHANGED <<tools, call>>
       ELSE /\ tools' = work[w].listed
            /\ work' = [work EXCEPT ![w] = Idle]
            /\ call' = IF work[w].kind = "ondemand" THEN [call EXCEPT !.fresh = TRUE] ELSE call
            /\ UNCHANGED gaveUp
    /\ UNCHANGED <<session, made, open, broken, waiting, shut, drops, mishaps, overlapped>>

\* A turn binds the installed tools and calls one later (resilientMCPTool).
HoldTool(s) ==
    /\ call.at = "none" /\ tools[s] # NoSession /\ ~shut
    /\ call' = [NoCall EXCEPT !.at = "held", !.on = s, !.through = tools[s]]
    /\ UNCHANGED <<session, made, open, broken, tools, waiting, shut, work, drops, mishaps, overlapped, gaveUp>>
CallSucceeds ==
    /\ call.at \in {"held", "retry"} /\ Usable(call.through)
    /\ call' = NoCall
    /\ UNCHANGED <<session, made, open, broken, tools, waiting, shut, work, drops, mishaps, overlapped, gaveUp>>
\* isConnectionError: triggerReconnect, in the caller's goroutine.
CallLosesConnection(w) ==
    /\ call.at = "held" /\ ~shut
    /\ IF Usable(call.through) THEN mishaps < MaxMishaps /\ mishaps' = mishaps + 1 ELSE UNCHANGED mishaps
    /\ Starts(w, call.on, "ondemand")
    /\ call' = [call EXCEPT !.at = "reconnecting"]
    /\ UNCHANGED <<session, made, open, broken, tools, waiting, shut, drops, overlapped, gaveUp>>
\* The retry goes through the tool's own session, not the new one.
Reconnected ==
    /\ call.at = "reconnecting"
    /\ \A w \in Worker : work[w].kind # "ondemand" \/ work[w].at = "idle"
    /\ call' = [call EXCEPT !.at = "retry"]
    /\ UNCHANGED <<session, made, open, broken, tools, waiting, shut, work, drops, mishaps, overlapped, gaveUp>>
CallIsSoftened ==
    /\ call.at \in {"held", "retry"} /\ ~Usable(call.through)
    /\ call.at = "held" => shut
    /\ call' = NoCall
    /\ UNCHANGED <<session, made, open, broken, tools, waiting, shut, work, drops, mishaps, overlapped, gaveUp>>

CloseLoader ==
    /\ ~shut /\ shut' = TRUE
    /\ open' = open \ {session[s] : s \in Server} /\ broken' = broken \ {session[s] : s \in Server}
    /\ session' = Nothing /\ tools' = Nothing
    /\ UNCHANGED <<made, waiting, work, call, drops, mishaps, overlapped, gaveUp>>
\* The server or the network drops a connection.
SessionDrops(x) ==
    /\ Usable(x) /\ drops < MaxDrops
    /\ drops' = drops + 1 /\ broken' = broken \cup {x}
    /\ UNCHANGED <<session, made, open, tools, waiting, shut, work, call, mishaps, overlapped, gaveUp>>

Works(w) == Dial(w) \/ DialFails(w) \/ Swap(w) \/ CloseOld(w) \/ ListTools(w) \/ Install(w)
Pings == \E w \in Worker, s \in Server : PingFails(w, s)
LoaderNext ==
    \/ \E w \in Worker : Works(w) \/ CallLosesConnection(w) \/ \E s \in Server : ConnectInBackground(w, s)
    \/ Pings \/ CallSucceeds \/ Reconnected \/ CallIsSoftened \/ CloseLoader
    \/ \E s \in Server : HoldTool(s)
    \/ \E x \in open : SessionDrops(x)

LoaderTypeOK ==
    /\ session \in [Server -> Session] /\ tools \in [Server -> Session] /\ open \subseteq Session
    /\ broken \subseteq open /\ waiting \subseteq Server /\ call.through \in Session

\* When no goroutine is at work, every installed tool calls the session its
\* server has now, unless two goroutines reloaded at the same time or a tool
\* call gave up between the swap and the reload: then a tool can be left on a
\* session that is closed (reconnectClient, reloadTools).  And no session
\* stays open that no server has, unless Close came before its swap.
ToolsAreLive ==
    (~shut /\ \A w \in Worker : work[w].at = "idle") =>
        /\ overlapped \/ gaveUp \/ \A s \in Server : tools[s] \in {NoSession, session[s]}
        /\ open \subseteq {session[s] : s \in Server}

\* A remote server whose connection is gone gets a new one, as long as the
\* loader is not closed (keepaliveLoop, reconnectWithBackoff).
ServersComeBack ==
    \A s \in Remote : session[s] \in broken ~> (session[s] \notin broken \/ shut \/ made = MaxSession)

\* "Retry once with the (hopefully) fresh session" (toolwrap.go): when the
\* reconnect succeeded, the retry goes through a session that is open.
RetryIsFresh == (call.at = "retry" /\ call.fresh /\ ~shut) => call.through \in open
=============================================================================
