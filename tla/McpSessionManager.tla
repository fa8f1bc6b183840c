------------------------- MODULE McpSessionManager -------------------------
(***************************************************************************)
(* One MCP server name of src/src/server/mcpSessionManager.ts, with the    *)
(* routes of src/src/server/routes/mcpRoutes.ts that act on it.  All state *)
(* is kept per name, so names do not interact.                             *)
(*                                                                         *)
(* Operations are chained by runSerialized: each starts when the one before *)
(* it has settled, in the same run of the microtask queue, so that no      *)
(* request and no timer comes in between.  A step is the code between two  *)
(* awaits of I/O.  Of a session record, the messages, dates and logs are   *)
(* left out.  A connection is named by its configuration: connectToServer  *)
(* is memoized by it and reconnectMcpServerImpl closes the one it replaces. *)
(* describe, which is not chained, writes a record only when that has a    *)
(* client and no description: never (ConnectedIsComplete).                 *)
(***************************************************************************)
EXTENDS Naturals, Sequences

CONSTANTS
    Configs,     \* the valid configurations
    Remote,      \* those of type http, sse or ws
    Requests,    \* the HTTP requests for this name
    Bodies,      \* what requests may carry: configurations, Invalid
    MaxAttempts, \* MAX_AUTO_RECONNECT_ATTEMPTS
    MayDrop,     \* TRUE: an open connection may close by itself
    Invalid, NoConfig, Timer, NoTask

ASSUME McpConstants ==
    /\ Remote \subseteq Configs
    /\ Bodies \subseteq Configs \cup {Invalid}
    /\ MaxAttempts \in Nat
    /\ MayDrop \in BOOLEAN
    /\ NoConfig \notin Configs \cup {Invalid} /\ Invalid \notin Configs
    /\ Timer \notin Requests

VARIABLES
    record,  \* sessions.get(name); a missing one reads as disconnected
    chain,   \* the operations runSerialized holds, the running one first
    pc,      \* where the first of chain stands, at "start" or at an await
    timer,   \* the operation the timer in reconnectTimers will chain
    live,    \* the configurations with an open connection
    request  \* where each request stands

vars == <<record, chain, pc, timer, live, request>>

-----------------------------------------------------------------------------
\* An operation: connectFlow for the routes connect and retry and for the
\* timer, or disconnect or clearAuth ("stop": they differ in the log only).
Tasks == [by : Requests \cup {Timer}, op : {"connect", "retry", "stop"},
          config : Configs \cup {Invalid, NoConfig}, attempt : 0 .. MaxAttempts]

Record == [status : {"connected", "connecting", "disconnected", "error"},
           config : Configs \cup {NoConfig}, client : Configs \cup {NoConfig},
           described : BOOLEAN, attempt : 0 .. MaxAttempts,
           retryAt : BOOLEAN, auto : BOOLEAN]

Task == Head(chain)

\* Timers and requests are macrotasks: no operation is ready to run.
Quiet == chain = <<>> \/ pc # "start"

\* The operation has settled; the next one, if any, is ready.
Settle ==
    /\ chain' = Tail(chain)
    /\ pc' = "start"
    /\ request' = [r \in Requests |->
                     IF r = Task.by THEN "answered" ELSE request[r]]

\* Mutant: the old client is kept in the record.
Connecting_KeepsClient ==
    [status |-> "connecting", config |-> Task.config, client |-> record.client,
     described |-> record.described, attempt |-> Task.attempt,
     retryAt |-> FALSE, auto |-> Task.config \in Remote]

\* connectingRecord: the description is carried over, the client is not.
Connecting ==
    [status |-> "connecting", config |-> Task.config, client |-> NoConfig,
     described |-> record.described, attempt |-> Task.attempt,
     retryAt |-> FALSE, auto |-> Task.config \in Remote]

\* disconnectedRecord, and clearAuth's next.
Stopped ==
    [record EXCEPT !.status = "disconnected", !.client = NoConfig,
                   !.described = FALSE, !.attempt = 0, !.retryAt = FALSE]

\* errorRecord of a configuration that does not validate.
Rejected ==
    [status |-> "error", config |-> record.config, client |-> NoConfig,
     described |-> FALSE, attempt |-> 0, retryAt |-> FALSE, auto |-> FALSE]

\* Mutant: the attempts are not counted.
Eligible_Uncounted(needsAuth) == Task.config \in Remote /\ ~needsAuth

\* eligibleReconnect.
Eligible(needsAuth) ==
    Task.config \in Remote /\ ~needsAuth /\ Task.attempt < MaxAttempts

\* The operation the timer armed by a failed attempt will chain.
NextAttempt == [by |-> Timer, op |-> "retry", config |-> Task.config,
                attempt |-> Task.attempt + 1]

-----------------------------------------------------------------------------
Init ==
    /\ record = [status |-> "disconnected", config |-> NoConfig,
                 client |-> NoConfig, described |-> FALSE, attempt |-> 0,
                 retryAt |-> FALSE, auto |-> FALSE]
    /\ chain = <<>> /\ pc = "start"
    /\ timer = NoTask
    /\ live = {}
    /\ request = [r \in Requests |-> "new"]

\* A route is called.  POST /config and /import disconnect a removed name.
Ask(r, op, config) ==
    /\ request[r] = "new" /\ Quiet
    /\ request' = [request EXCEPT ![r] = "queued"]
    /\ chain' = Append(chain, [by |-> r, op |-> op, config |-> config, attempt |-> 0])
    /\ UNCHANGED <<record, pc, timer, live>>

Arrive(r) ==
    \/ \E body \in Bodies : Ask(r, "connect", body) \/ Ask(r, "retry", body)
    \/ Ask(r, "stop", NoConfig)

\* The timer of scheduleReconnect fires.
TimerFires ==
    /\ timer # NoTask /\ Quiet
    /\ timer' = NoTask
    /\ chain' = Append(chain, timer)
    /\ UNCHANGED <<record, pc, live, request>>

\* connectFlow refuses the configuration: no timer is cleared, no client
\* closed.
Refuse ==
    /\ chain # <<>> /\ pc = "start"
    /\ Task.config = Invalid
    /\ record' = Rejected
    /\ Settle
    /\ UNCHANGED <<timer, live>>

\* Mutant: the timer of the attempt before is left armed.
StartConnect_TimerArmed ==
    /\ chain # <<>> /\ pc = "start"
    /\ Task.config \in Configs
    /\ IF Task.op = "connect" /\ record.client # NoConfig
       THEN pc' = "closing" /\ UNCHANGED record
       ELSE pc' = "dialing" /\ record' = Connecting
    /\ UNCHANGED <<chain, timer, live, request>>

\* connectFlow up to the call of reconnectMcpServerImpl, or up to the clean-up
\* of the client a manual connect replaces.
StartConnect ==
    /\ chain # <<>> /\ pc = "start"
    /\ Task.config \in Configs
    /\ timer' = NoTask
    /\ IF Task.op = "connect" /\ record.client # NoConfig
       THEN pc' = "closing" /\ UNCHANGED record
       ELSE pc' = "dialing" /\ record' = Connecting
    /\ UNCHANGED <<chain, live, request>>

\* Mutant: the timer is left armed.
StartStop_TimerArmed ==
    /\ chain # <<>> /\ pc = "start"
    /\ Task.op = "stop"
    /\ IF record.client # NoConfig
       THEN pc' = "closing" /\ UNCHANGED <<record, chain, request>>
       ELSE record' = Stopped /\ Settle
    /\ UNCHANGED <<timer, live>>

\* disconnect and clearAuth, up to the clean-up of the client if there is one.
StartStop ==
    /\ chain # <<>> /\ pc = "start"
    /\ Task.op = "stop"
    /\ timer' = NoTask
    /\ IF record.client # NoConfig
       THEN pc' = "closing" /\ UNCHANGED <<record, chain, request>>
       ELSE record' = Stopped /\ Settle
    /\ UNCHANGED live

\* safeCleanup returns.
Closed ==
    /\ chain # <<>> /\ pc = "closing"
    /\ live' = live \ {record.client}
    /\ IF Task.op = "stop"
       THEN record' = Stopped /\ Settle
       ELSE /\ record' = Connecting
            /\ pc' = "dialing"
            /\ UNCHANGED <<chain, request>>
    /\ UNCHANGED timer

\* Mutant: a remote server that fails is not tried again, its record waits.
DialFails_NoTimer(needsAuth) ==
    /\ chain # <<>> /\ pc = "dialing"
    /\ live' = live \ {Task.config}
    /\ record' = [record EXCEPT !.described = FALSE]
    /\ Settle
    /\ UNCHANGED timer

\* reconnectMcpServerImpl resolves without a connection (it never rejects):
\* the next attempt is scheduled, or the session is in error.
DialFails(needsAuth) ==
    /\ chain # <<>> /\ pc = "dialing"
    /\ live' = live \ {Task.config}
    /\ IF Eligible(needsAuth)
       THEN /\ timer' = NextAttempt
            /\ record' = [record EXCEPT !.described = FALSE, !.retryAt = TRUE,
                                        !.attempt = Task.attempt + 1]
       ELSE /\ record' = [record EXCEPT !.described = FALSE, !.status = "error"]
            /\ UNCHANGED timer
    /\ Settle

\* reconnectMcpServerImpl resolves with a connection; its capabilities are
\* requested next.
DialConnects ==
    /\ chain # <<>> /\ pc = "dialing"
    /\ live' = live \cup {Task.config}
    /\ pc' = "describing"
    /\ UNCHANGED <<record, chain, timer, request>>

\* connectedRecord.
DescribeOk ==
    /\ chain # <<>> /\ pc = "describing"
    /\ record' = [record EXCEPT !.status = "connected", !.client = Task.config,
                                !.described = TRUE, !.attempt = 0]
    /\ Settle
    /\ UNCHANGED <<timer, live>>

\* describeConnectedClient rejects: the new client is cleaned up ...
DescribeFails ==
    /\ chain # <<>> /\ pc = "describing"
    /\ pc' = "undoing"
    /\ UNCHANGED <<record, chain, timer, live, request>>

\* Mutant: the client is not cleaned up.
Undone_Leaks ==
    /\ chain # <<>> /\ pc = "undoing"
    /\ record' = [record EXCEPT !.status = "error", !.described = FALSE]
    /\ Settle
    /\ UNCHANGED <<timer, live>>

\* ... and the session is in error.
Undone ==
    /\ chain # <<>> /\ pc = "undoing"
    /\ live' = live \ {Task.config}
    /\ record' = [record EXCEPT !.status = "error", !.described = FALSE]
    /\ Settle
    /\ UNCHANGED timer

\* An open connection closes; the manager does not listen to it.
Drop(config) ==
    /\ MayDrop /\ Quiet
    /\ config \in live
    /\ live' = live \ {config}
    /\ UNCHANGED <<record, chain, pc, timer, request>>

Dialed == DialConnects \/ \E needsAuth \in BOOLEAN : DialFails(needsAuth)

Advance ==
    \/ Refuse \/ StartConnect \/ StartStop \/ Closed \/ Dialed
    \/ DescribeOk \/ DescribeFails \/ Undone

Next ==
    \/ \E r \in Requests : Arrive(r)
    \/ TimerFires
    \/ Advance
    \/ \E c \in Configs : Drop(c)

\* Node runs what is ready, I/O settles and timers fire.
Fairness == WF_vars(Advance) /\ WF_vars(TimerFires)

Spec == Init /\ [][Next]_vars
FairSpec == Spec /\ Fairness

-----------------------------------------------------------------------------
\* Type correctness of the manager's maps for the name, and of the requests.
\* It bounds the automatic attempts: none is numbered above MaxAttempts.
TypeOK ==
    /\ record \in Record
    /\ chain \in Seq(Tasks)
    /\ pc \in {"start", "closing", "dialing", "describing", "undoing"}
    /\ timer \in Tasks \cup {NoTask}
    /\ live \subseteq Configs
    /\ request \in [Requests -> {"new", "queued", "answered"}]

\* A record is connected exactly when it has a client, and then it has the
\* client's description, so that describe, which runs between the chained
\* operations, never has anything to write into the record.
ConnectedIsComplete ==
    /\ record.status = "connected" <=> record.client # NoConfig
    /\ record.client # NoConfig => record.described

\* The automatic attempts to come: the timer's, and one already chained.
Automatic ==
    ({timer} \ {NoTask}) \cup
    {chain[i] : i \in {j \in 1 .. Len(chain) : chain[j].by = Timer}}

\* Disconnecting is final: a disconnected server has no timer armed and no
\* automatic attempt chained, whatever was under way when the user asked.
DisconnectIsFinal == record.status = "disconnected" => Automatic = {}

\* An automatic attempt belongs to the session on the screen: it carries the
\* configuration of the record, which is connecting with the attempt's number
\* and announces an armed timer, or which has refused a configuration since.
\* So none displaces what the user has connected or disconnected.
AutoBelongsToSession ==
    \A t \in Automatic :
        /\ record.config = t.config
        /\ \/ /\ record.status = "connecting" /\ record.attempt = t.attempt
              /\ timer # NoTask => record.retryAt
           \/ record.status = "error" /\ ~record.auto

\* The configuration the running operation works on.
Working == IF pc \in {"dialing", "describing", "undoing"} THEN {Task.config} ELSE {}

\* No open connection is left behind: each is the record's or the running
\* operation's.
NothingLeftBehind == live \subseteq {record.client} \cup Working

\* Only a retry and a refused configuration lose hold of an open connection:
\* replacing, failing, being dropped and disconnecting never do.
OnlyRetryOrRefusalOrphans ==
    [][NothingLeftBehind /\ ~NothingLeftBehind' =>
          Task.op = "retry" \/ Task.config = Invalid]_vars

\* A server reported as disconnected has no open connection.
DisconnectedMeansClosed == record.status = "disconnected" => live = {}

\* Operations end: every request is answered, whatever is chained before it, and
\* a session does not stay connecting for ever, since the retries end.
OperationsEnd ==
    /\ \A r \in Requests : request[r] = "queued" ~> request[r] = "answered"
    /\ record.status = "connecting" ~> record.status # "connecting"
=============================================================================
