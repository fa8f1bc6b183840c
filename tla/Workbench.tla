------------------------------- MODULE Workbench -------------------------------
(***************************************************************************)
(* One browser tab of the workbench, composed with the session it shows:   *)
(* src/webui/src/api/StreamManager.ts, store/chatStore.ts,                 *)
(* components/ChatArea.tsx and components/Sidebar.tsx, over the module     *)
(* WebChatSession.                                                         *)
(*                                                                         *)
(* A step is the code of the tab, or of the server, between two awaits; a  *)
(* request, a response and the events of a stream are in flight between    *)
(* steps.  Different connections are not ordered with each other.  The     *)
(* session's Subs are the EventSource objects the tab creates, one after   *)
(* the other; session_status events, which the tab ignores, are not kept.  *)
(***************************************************************************)
EXTENDS Naturals, Sequences

CONSTANTS
    Turns, Calls, MaxParallel, NoCall, NoTurn, \* see WebChatSession
    Subs,          \* the EventSource objects, numbered from 1
    MaxReconnects, \* maxReconnectAttempts
    MaxBreaks,     \* bound: connections and requests that fail
    MaxMoves       \* bound: times the user leaves the chat area, or uses the
                   \* sidebar

ASSUME WorkbenchConstants ==
    /\ Calls \subseteq Turns \X Nat /\ MaxParallel \in Nat \ {0}
    /\ NoCall \notin Calls /\ NoTurn \notin Turns
    /\ Subs \subseteq Nat \ {0}
    /\ MaxReconnects \in Nat
    /\ MaxBreaks \in Nat
    /\ MaxMoves \in Nat

VARIABLES
    status, pendingApproval, messages, draft, turn, hasText, call,
    subscribers, shown, overlap,
              \* the session's, see WebChatSession
    stream,   \* every EventSource with its promise and reconnection
    manager,  \* eventSource, reconnectTimeout and reconnectAttempts
    tab,      \* isStreaming, pendingApproval, activeSessionId, ChatArea mounted
    send,     \* where the handleSend of every turn stands
    answer,   \* where the POST of handleApproval for a call stands
    load,     \* fetched snapshots: by mount (bootstrap), 0 by the sidebar
    faults,   \* connections and requests that failed
    moves,    \* times the user left the chat area, or used the sidebar
    late,     \* history: streams that opened when no turn was live
    erased,   \* history: calls whose card the answer to another call removed
    overtaken, \* history: disconnect() found a reconnection's fetch in flight
    unbacked  \* history: isStreaming says what a snapshot said, with no stream

session == <<status, pendingApproval, messages, draft, turn, hasText, call,
             subscribers, shown, overlap>>
history == <<late, erased, overtaken, unbacked>>
requests == <<send, answer, load>>
vars == <<session, stream, manager, tab, requests, faults, moves, history>>

\* The session, in this build.
Server == INSTANCE WebChatSession WITH StreamingTools <- FALSE

-----------------------------------------------------------------------------
None == 0
Mounts == 1 .. MaxMoves
AtRest == \A t \in Turns : ~Server!Live(t)

Approval(c) == [type |-> "approval_required", call |-> c]
Completed == [type |-> "session_completed", call |-> NoCall]
Error == [type |-> "session_error", call |-> NoCall]

\* A fetch of a session's snapshot, and what it returned.  "here" is whether
\* the session is this one; any other is idle.
NoFetch == [phase |-> "none", here |-> TRUE, status |-> "idle",
            approval |-> NoCall]
Request(h) == [NoFetch EXCEPT !.phase = "request", !.here = h]

\* getSnapshot of the session.
Response(f) ==
    IF f.here THEN [f EXCEPT !.phase = "response", !.status = status,
                             !.approval = pendingApproval]
              ELSE [f EXCEPT !.phase = "response"]

InFlight(f) == f.phase \in {"request", "response"}
BusySnapshot(f) == f.status \in {"running", "suspended_for_approval"}

\* applySessionSnapshot.
Applied(f) ==
    [tab EXCEPT !.here = f.here,
                !.streaming = BusySnapshot(f),
                !.card = IF f.status = "suspended_for_approval"
                         THEN f.approval ELSE NoCall]

Active(s) == stream[s].state \in {"opening", "open"}
Unused(s) ==
    /\ stream[s].state = "unused"
    /\ \A r \in Subs : r < s => stream[r].state # "unused"

\* new EventSource(...), in the streams st, for the caller w of connect().
Opened(st, s, w) == [st EXCEPT ![s].state = "opening", ![s].waiter = w]

\* Mutant: the open EventSource is forgotten, not closed.
Disconnected_LeftOpen ==
    [s \in Subs |->
        IF s = manager.timer /\ stream[s].retry.phase = "waiting"
        THEN [stream[s] EXCEPT !.retry = NoFetch, !.waiter = NoTurn]
        ELSE stream[s]]

\* disconnect(): the current EventSource is closed, the last timer cleared.
\* Whoever awaits connect() waits for ever.
Disconnected ==
    [s \in Subs |->
        IF s = manager.current
        THEN [stream[s] EXCEPT !.state = "closed", !.wire = <<>>,
                               !.waiter = NoTurn]
        ELSE IF s = manager.timer /\ stream[s].retry.phase = "waiting"
        THEN [stream[s] EXCEPT !.retry = NoFetch, !.waiter = NoTurn]
        ELSE stream[s]]

\* What a call of disconnect() adds to the history.
Overtakes ==
    overtaken' = (overtaken \/ \E s \in Subs : InFlight(stream[s].retry))

\* connect(), called with the tab being t; w waits for its promise.
Connect(t, w) ==
    \E s \in Subs :
        /\ Unused(s)
        /\ stream' = Opened(Disconnected, s, w)
        /\ manager' = [current |-> s, timer |-> None, attempts |-> 0]
        /\ tab' = [t EXCEPT !.streaming = TRUE]
        /\ unbacked' = FALSE
        /\ Overtakes

-----------------------------------------------------------------------------
\* The page has loaded, and the bootstrap of ChatArea found no such session.
Init ==
    /\ Server!Init
    /\ stream = [s \in Subs |-> [state |-> "unused", wire |-> <<>>,
                                 waiter |-> NoTurn, retry |-> NoFetch]]
    /\ manager = [current |-> None, timer |-> None, attempts |-> 0]
    /\ tab = [streaming |-> FALSE, card |-> NoCall, here |-> TRUE,
              mounted |-> TRUE]
    /\ send = [t \in Turns |-> "none"]
    /\ answer = [c \in Calls |-> "none"]
    /\ load = [k \in 0 .. MaxMoves |-> NoFetch]
    /\ faults = 0 /\ moves = 0
    /\ late = {} /\ erased = {} /\ overtaken = FALSE /\ unbacked = FALSE

-----------------------------------------------------------------------------
\* emit(e) to every stream that is open.
Emit(e) ==
    stream' = [s \in Subs |->
                 IF s \in subscribers /\ stream[s].state = "open"
                 THEN [stream[s] EXCEPT !.wire = Append(@, e)]
                 ELSE stream[s]]

\* The session works: the steps of the engine, with what they emit.
SessionWorks ==
    /\ \/ /\ \/ \E t \in Turns : Server!AssistantText(t)
             \/ \E c \in Calls : Server!StartTool(c)
          /\ UNCHANGED stream
       \/ \E c \in Calls : Server!CanUseTool(c) /\ Emit(Approval(c))
       \/ \E t \in Turns :
             \/ /\ \E isError \in BOOLEAN : Server!EngineEnds(t, isError)
                /\ IF messages' # messages /\ turn'[t] = "ended"
                   THEN Emit(Completed) ELSE UNCHANGED stream
             \/ Server!WriteBackDone(t) /\ Emit(Completed)
             \/ /\ Server!EngineThrows(t)
                /\ IF messages' # messages THEN Emit(Error) ELSE UNCHANGED stream
    /\ UNCHANGED <<manager, tab, requests, faults, moves, history>>

\* Mutant: a new subscriber is told the status only.
GreetingEvents_StatusOnly == <<>>

\* What subscribe() sends first, besides the status.
GreetingEvents ==
    IF status = "suspended_for_approval" THEN <<Approval(pendingApproval)>>
                                         ELSE <<>>

\* The server gets the request of stream s.
StreamOpens(s) ==
    /\ stream[s].state = "opening"
    /\ Server!Subscribe(s)
    /\ stream' = [stream EXCEPT ![s].state = "open", ![s].wire = GreetingEvents]
    /\ late' = IF AtRest THEN late \cup {s} ELSE late
    /\ UNCHANGED <<manager, tab, requests, faults, moves, erased, overtaken,
                   unbacked>>

\* The server sees that the tab has closed stream s.
StreamCloses(s) ==
    /\ stream[s].state = "closed"
    /\ Server!Unsubscribe(s)
    /\ UNCHANGED <<stream, manager, tab, requests, faults, moves, history>>

-----------------------------------------------------------------------------
\* handleSend on this session, up to its POST; the transcript and the text are
\* not modelled.
Send(t) ==
    /\ tab.mounted /\ tab.here /\ ~tab.streaming
    /\ send[t] = "none"
    /\ send' = [send EXCEPT ![t] = "request"]
    /\ tab' = [tab EXCEPT !.card = NoCall, !.streaming = TRUE]
    /\ unbacked' = FALSE
    /\ UNCHANGED <<session, stream, manager, answer, load, faults, moves,
                   late, erased, overtaken>>

\* The route answers ok whether the session takes the turn or refuses it.
PostArrives(t) ==
    /\ send[t] = "request"
    /\ Server!SubmitMessage(t) \/ Server!RejectMessage(t)
    /\ send' = [send EXCEPT ![t] = "response"]
    /\ UNCHANGED <<stream, manager, tab, answer, load, faults, moves, history>>

\* handleSend goes on: setActiveSessionId and connect().
SendReturns(t) ==
    /\ send[t] = "response"
    /\ Connect([tab EXCEPT !.here = TRUE], t)
    /\ send' = [send EXCEPT ![t] = "connected"]
    /\ UNCHANGED <<session, answer, load, faults, moves, late, erased>>

\* The POST of handleSend fails, arrived or not: the finally clause.
SendFails(t) ==
    /\ send[t] \in {"request", "response"}
    /\ faults < MaxBreaks /\ faults' = faults + 1
    /\ send' = [send EXCEPT ![t] = "done"]
    /\ tab' = [tab EXCEPT !.streaming = FALSE]
    /\ UNCHANGED <<session, stream, manager, answer, load, moves, history>>

\* The finally clause of handleSend, after refreshSessions: a later handleSend
\* may have begun.
SendFinally(t) ==
    /\ send[t] = "refresh"
    /\ send' = [send EXCEPT ![t] = "done"]
    /\ tab' = [tab EXCEPT !.streaming = FALSE]
    /\ UNCHANGED <<session, stream, manager, answer, load, faults, moves,
                   history>>

\* The promise of connect() of stream s settles: handleSend goes on to
\* refreshSessions, or to its finally clause at once.
Settled(s, st) ==
    [t \in Turns |-> IF t = stream[s].waiter THEN st ELSE send[t]]

\* handleApproval up to its POST.  From the screen of another session the
\* server would refuse it.
Click(c) ==
    /\ tab.mounted /\ tab.here /\ tab.card = c
    /\ answer[c] \notin {"request", "ok"}
    /\ answer' = [answer EXCEPT ![c] = "request"]
    /\ UNCHANGED <<session, stream, manager, tab, send, load, faults, moves,
                   history>>

\* The server gets it; an approval it does not know is answered 404.
AnswerArrives(c) ==
    /\ answer[c] = "request"
    /\ \/ /\ Server!Answer(c)
          /\ answer' = [answer EXCEPT ![c] = "ok"]
       \/ /\ ~Server!FoundByApprovalId(c)
          /\ answer' = [answer EXCEPT ![c] = "failed"]
          /\ UNCHANGED session
    /\ UNCHANGED <<stream, manager, tab, send, load, faults, moves, history>>

\* handleApproval goes on: the card is taken down, whatever it shows by now.
AnswerReturns(c) ==
    /\ answer[c] = "ok"
    /\ answer' = [answer EXCEPT ![c] = "done"]
    /\ tab' = [tab EXCEPT !.card = NoCall]
    /\ erased' = IF tab.card \in {c, NoCall} THEN erased
                                             ELSE erased \cup {tab.card}
    /\ UNCHANGED <<session, stream, manager, send, load, faults, moves, late,
                   overtaken, unbacked>>

\* The POST of handleApproval fails, arrived or not; the card is left as it is.
AnswerFails(c) ==
    /\ answer[c] \in {"request", "ok"}
    /\ faults < MaxBreaks /\ faults' = faults + 1
    /\ answer' = [answer EXCEPT ![c] = "failed"]
    /\ UNCHANGED <<session, stream, manager, tab, send, load, moves, history>>

-----------------------------------------------------------------------------
\* handleStreamEvent for the next event of stream s, and the promise of
\* connect().  The end of a session closes the current stream, s or another.
Deliver(s) ==
    LET e == Head(stream[s].wire)
        rest == [stream EXCEPT ![s].wire = Tail(@)]
    IN  /\ stream[s].state = "open" /\ stream[s].wire # <<>>
        /\ \/ /\ e.type = "approval_required"
              /\ tab' = [tab EXCEPT !.card = e.call]
              /\ stream' = rest
              /\ UNCHANGED <<manager, send, overtaken>>
           \/ /\ e.type # "approval_required"
              /\ tab' = [tab EXCEPT !.streaming = FALSE]
              /\ stream' = [r \in Subs |->
                              [Disconnected[r] EXCEPT
                                 !.wire = IF r = s /\ r # manager.current
                                          THEN Tail(@) ELSE @,
                                 !.waiter = IF r = s THEN NoTurn ELSE @]]
              /\ manager' = [manager EXCEPT !.current = None, !.timer = None]
              /\ send' = Settled(s, IF e = Completed THEN "refresh" ELSE "done")
              /\ Overtakes
        /\ UNCHANGED <<session, answer, load, faults, moves, late, erased,
                       unbacked>>

\* Mutant: one attempt too many.
GivesUp_OffByOne == manager.attempts > MaxReconnects

\* The reconnection attempts of this connect() are used up.
GivesUp == manager.attempts >= MaxReconnects

\* Mutant: the tab is left as it was when the attempts are used up.
Abandoned_StillStreaming(s) ==
    /\ tab' = tab
    /\ send' = send

\* The stream of s has failed for good: the promise is rejected.
Abandoned(s) ==
    /\ tab' = [tab EXCEPT !.streaming = FALSE]
    /\ send' = Settled(s, "done")

\* onerror: the connection of s breaks, and what was on its way is lost.
Break(s) ==
    /\ Active(s)
    /\ faults < MaxBreaks /\ faults' = faults + 1
    /\ \/ /\ GivesUp
          /\ stream' = [stream EXCEPT ![s].state = "closed", ![s].wire = <<>>]
          /\ manager' = [manager EXCEPT !.current = None]
          /\ Abandoned(s)
       \/ /\ ~GivesUp
          /\ stream' = [stream EXCEPT
                          ![s].state = "closed", ![s].wire = <<>>,
                          ![s].retry = [NoFetch EXCEPT !.phase = "waiting"]]
          /\ manager' = [current |-> None, timer |-> s,
                         attempts |-> manager.attempts + 1]
          /\ UNCHANGED <<tab, send>>
    /\ UNCHANGED <<session, answer, load, moves, history>>

\* The reconnect timer fires, and the server answers the fetch.
RetryAsks(s) ==
    /\ stream[s].retry.phase \in {"waiting", "request"}
    /\ stream' = [stream EXCEPT ![s].retry =
                    IF @.phase = "waiting" THEN Request(TRUE) ELSE Response(@)]
    /\ UNCHANGED <<session, manager, tab, requests, faults, moves, history>>

\* handleReconnect goes on, and initConnection again if the session is busy;
\* nothing asks whether the tab has disconnected meanwhile.
RetryReturns(s) ==
    LET f == stream[s].retry
        over == [stream EXCEPT ![s].retry = NoFetch, ![s].waiter = NoTurn]
    IN  /\ f.phase = "response"
        /\ \/ /\ BusySnapshot(f)
              /\ \E r \in Subs :
                    /\ Unused(r)
                    /\ stream' = Opened(over, r, stream[s].waiter)
                    /\ manager' = [manager EXCEPT !.current = r]
              /\ tab' = Applied(f)
              /\ UNCHANGED send
           \/ /\ ~BusySnapshot(f)
              /\ stream' = over
              /\ tab' = Applied(f)
              /\ send' = Settled(s, IF f.status = "error" THEN "done"
                                                          ELSE "refresh")
              /\ UNCHANGED manager
        /\ unbacked' = FALSE
        /\ UNCHANGED <<session, answer, load, faults, moves, late, erased,
                       overtaken>>

\* The fetch of handleReconnect fails.
RetryFails(s) ==
    /\ InFlight(stream[s].retry)
    /\ faults < MaxBreaks /\ faults' = faults + 1
    /\ stream' = [stream EXCEPT ![s].retry = NoFetch]
    /\ Abandoned(s)
    /\ UNCHANGED <<session, manager, answer, load, moves, history>>

-----------------------------------------------------------------------------
\* Another tab of the page is chosen: ChatArea is unmounted and disconnects.
Unmount ==
    /\ tab.mounted
    /\ moves < MaxMoves /\ moves' = moves + 1
    /\ tab' = [tab EXCEPT !.mounted = FALSE]
    /\ stream' = Disconnected
    /\ manager' = [manager EXCEPT !.current = None, !.timer = None]
    /\ Overtakes
    /\ UNCHANGED <<session, requests, faults, late, erased, unbacked>>

\* ChatArea is mounted again, and its bootstrap fetches the session shown.
Mount ==
    /\ ~tab.mounted
    /\ tab' = [tab EXCEPT !.mounted = TRUE]
    /\ load' = [load EXCEPT ![moves] = Request(tab.here)]
    /\ UNCHANGED <<session, stream, manager, send, answer, faults, moves,
                   history>>

\* This session is selected in the sidebar: the server answers the fetch.
Select ==
    /\ moves < MaxMoves /\ moves' = moves + 1
    /\ load[0].phase = "none"
    /\ load' = [load EXCEPT ![0] = Response(Request(TRUE))]
    /\ UNCHANGED <<session, stream, manager, tab, send, answer, faults, history>>

\* Another session, which is idle, is selected, or a new one is begun.
SelectOther ==
    /\ moves < MaxMoves /\ moves' = moves + 1
    /\ tab' = Applied(Request(FALSE))
    /\ UNCHANGED <<session, stream, manager, requests, faults, history>>

\* The server answers a fetch.
LoadArrives(k) ==
    /\ load[k].phase = "request"
    /\ load' = [load EXCEPT ![k] = Response(@)]
    /\ UNCHANGED <<session, stream, manager, tab, send, answer, faults, moves,
                   history>>

\* A fetch fails; the tab is left as it is.
LoadFails(k) ==
    /\ InFlight(load[k])
    /\ faults < MaxBreaks /\ faults' = faults + 1
    /\ load' = [load EXCEPT ![k] = NoFetch]
    /\ unbacked' = (unbacked \/ k # 0)
    /\ UNCHANGED <<session, stream, manager, tab, send, answer, moves, late,
                   erased, overtaken>>

\* The sidebar applies the snapshot, and leaves the streams alone; bootstrap
\* connects to a session that is busy.
LoadReturns(k) ==
    LET f == load[k] IN
    /\ f.phase = "response"
    /\ load' = [load EXCEPT ![k] = NoFetch]
    /\ \/ /\ k # 0 /\ BusySnapshot(f)
          /\ Connect(Applied(f), NoTurn)
       \/ /\ k = 0 \/ ~BusySnapshot(f)
          /\ tab' = Applied(f)
          /\ unbacked' = (k = 0)
          /\ UNCHANGED <<stream, manager, overtaken>>
    /\ UNCHANGED <<session, send, answer, faults, moves, late, erased>>

-----------------------------------------------------------------------------
Next ==
    \/ SessionWorks
    \/ \E s \in Subs : StreamOpens(s) \/ StreamCloses(s) \/ Deliver(s)
                       \/ Break(s) \/ RetryAsks(s) \/ RetryReturns(s)
                       \/ RetryFails(s)
    \/ \E t \in Turns : Send(t) \/ PostArrives(t) \/ SendReturns(t)
                        \/ SendFails(t) \/ SendFinally(t)
    \/ \E c \in Calls : Click(c) \/ AnswerArrives(c) \/ AnswerReturns(c)
                        \/ AnswerFails(c)
    \/ Unmount \/ Mount \/ Select \/ SelectOther
    \/ \E k \in 0 .. MaxMoves : LoadArrives(k) \/ LoadFails(k)
                                  \/ LoadReturns(k)

Spec == Init /\ [][Next]_vars

-----------------------------------------------------------------------------
Fetches ==
    [phase : {"none", "waiting", "request", "response"}, here : BOOLEAN,
     status : Server!Status, approval : Calls \cup {NoCall}]
Events ==
    [type : {"approval_required", "session_completed", "session_error"},
     call : Calls \cup {NoCall}]

\* Type correctness of the tab's state; the attempts stay within their bound.
TypeOK ==
    /\ stream \in [Subs -> [state : {"unused", "opening", "open", "closed"},
                            wire : Seq(Events),
                            waiter : Turns \cup {NoTurn},
                            retry : Fetches]]
    /\ manager \in [current : Subs \cup {None}, timer : Subs \cup {None},
                    attempts : 0 .. MaxReconnects]
    /\ tab \in [streaming : BOOLEAN, card : Calls \cup {NoCall},
                here : BOOLEAN, mounted : BOOLEAN]
    /\ send \in [Turns -> {"none", "request", "response", "connected",
                           "refresh", "done"}]
    /\ answer \in [Calls -> {"none", "request", "ok", "failed", "done"}]
    /\ load \in [0 .. MaxMoves -> Fetches]
    /\ faults \in 0 .. MaxBreaks /\ moves \in 0 .. MaxMoves
    /\ late \subseteq Subs /\ erased \subseteq Calls
    /\ overtaken \in BOOLEAN /\ unbacked \in BOOLEAN

\* The stream manager keeps hold of the one stream that is open, through
\* reconnections, sends, remounts and ends of sessions: no second one applies
\* every event again, and disconnect() closes it.  The one exception is a
\* connect() or disconnect() during the fetch of a reconnection, which then
\* opens its stream beside the new one.
StreamIsHeld ==
    ~overtaken => \A s \in Subs : Active(s) => s = manager.current

\* Something is under way that opens a stream, or settles the tab.
Coming ==
    \/ \E t \in Turns : send[t] \in {"request", "response"}
    \/ \E s \in Subs : \/ stream[s].state = "opening"
                       \/ stream[s].retry.phase # "none"
    \/ \E k \in Mounts : load[k].phase # "none"

OnTheWire(es) ==
    \E s \in Subs : Active(s) /\ \E i \in 1 .. Len(stream[s].wire) :
                                    stream[s].wire[i] \in es

\* A tab that waits in streaming for a session at rest hears of it.  It does
\* not when the last turn ended before its stream was open, since subscribe()
\* greets it with a session_status event, which it ignores; or when the
\* sidebar's snapshot, or a bootstrap that failed, left it without a stream.
EndIsHeard ==
    tab.streaming /\ tab.mounted /\ AtRest /\ ~unbacked =>
        \/ Coming
        \/ OnTheWire({Completed, Error})
        \/ \E s \in late : Active(s)

\* The end of a turn reaches the tab that sent it: "return immediately so the
\* client can hook up to SSE" and "on first subscribe, send a snapshot of the
\* current status" leave no turn whose end the client misses.
EveryEndIsHeard ==
    tab.streaming /\ AtRest => Coming \/ OnTheWire({Completed, Error})

\* A tab in streaming shows the approval the session waits for, or is going
\* to: after a reload, a reconnection, a remount or a missed event.  It does
\* not when the response to the answer before came after the event, and
\* handleApproval took the new card down.
ApprovalIsShown ==
    tab.streaming /\ tab.mounted /\ status = "suspended_for_approval"
    /\ ~unbacked =>
        \/ tab.card = pendingApproval
        \/ pendingApproval \in erased
        \/ Coming
        \/ OnTheWire({Approval(pendingApproval)})
=============================================================================
