---------------------------- MODULE Workbench_proof ----------------------------
(***************************************************************************)
(* Proofs about a tab of the workbench and the session it shows, for any   *)
(* number of turns, streams, failures and moves of the user.               *)
(***************************************************************************)
EXTENDS Workbench, TLAPS

\* What the tab needs to know of the session's state.
SessionTypes ==
    /\ status \in Server!Status
    /\ pendingApproval \in Calls \cup {NoCall}
    /\ turn \in [Turns -> {"unsent", "rejected", "engine", "writeback", "ended"}]
    /\ call \in [Calls -> {"idle", "started", "asking", "allowed", "denied"}]
    /\ subscribers \subseteq Subs

Transcript == messages \in Seq(Server!Entry)

\* An approval is of a call that still asks, and such a call keeps its turn
\* alive.
SessionInv ==
    /\ SessionTypes /\ Transcript
    /\ Server!SuspendedOnLiveCall
    /\ \A c \in Calls : call[c] \in {"started", "asking"} => turn[c[1]] = "engine"

TypeInv == TypeOK /\ SessionInv

Opens(s) == stream[s].state = "open"

\* Who has opened a stream is subscribed; an answer that the server has taken
\* has settled its call; the chat area was mounted at first.
LinkInv ==
    /\ \A s \in Subs : Opens(s) => s \in subscribers
    /\ \A c \in Calls : answer[c] = "ok" => call[c] \in {"allowed", "denied"}
    /\ ~tab.mounted => moves \in Mounts

\* Only the current stream is active, and only the last timer's stream is
\* reconnecting, with no current one beside it.
HoldInv ==
    ~overtaken =>
        \A s \in Subs :
            /\ Active(s) => s = manager.current
            /\ stream[s].retry.phase # "none" =>
                  s = manager.timer /\ manager.current = None

\* The tab relies on a stream.
Waits == tab.streaming /\ tab.mounted /\ ~unbacked

Ends(es) == \E i \in 1 .. Len(es) : es[i] \in {Completed, Error}

\* Stream s tells of the end of what the session does, or is one that opened
\* too late for it.
Hears(s) == Opens(s) /\ (s \in late \/ ~AtRest \/ Ends(stream[s].wire))
Hearing == \E s \in Subs : Hears(s)

\* The approval is on the screen, or was, or is still to be delivered.
Showing ==
    status = "suspended_for_approval" =>
        \/ tab.card = pendingApproval
        \/ pendingApproval \in erased
        \/ \E s \in Subs : Opens(s) /\ stream[s].wire # <<>>
BackInv == Waits => Coming \/ (Hearing /\ Showing)

\* What is last on its way to a tab is the approval the session waits for.
WireInv ==
    status = "suspended_for_approval" =>
        \A s \in Subs : Opens(s) /\ stream[s].wire # <<>> =>
            stream[s].wire[Len(stream[s].wire)] = Approval(pendingApproval)

Inv == TypeInv /\ LinkInv /\ HoldInv /\ BackInv /\ WireInv

-----------------------------------------------------------------------------
\* The session does in the composition what it does by itself.
LEMMA SessionSteps == Next => Server!Next \/ UNCHANGED session
<1> SUFFICES ASSUME Next PROVE Server!Next \/ UNCHANGED session
  OBVIOUS
<1>1. CASE SessionWorks
  <2>1. \/ \E t \in Turns : Server!AssistantText(t) \/ Server!TurnStep(t)
        \/ \E c \in Calls : Server!StartTool(c) \/ Server!CanUseTool(c)
    BY <1>1 DEF SessionWorks, Server!TurnStep
  <2> QED
    BY <2>1 DEF Server!Next
<1>2. CASE \E s \in Subs : StreamOpens(s) \/ StreamCloses(s)
  BY <1>2 DEF StreamOpens, StreamCloses, Server!Next
<1>3. CASE \E s \in Subs : Deliver(s) \/ Break(s) \/ RetryAsks(s)
                           \/ RetryReturns(s) \/ RetryFails(s)
  BY <1>3 DEF Deliver, Break, RetryAsks, RetryReturns, RetryFails
<1>4. CASE \E t \in Turns : PostArrives(t)
  BY <1>4 DEF PostArrives, Server!Next
<1>5. CASE \E t \in Turns : Send(t) \/ SendReturns(t) \/ SendFails(t) \/ SendFinally(t)
  BY <1>5 DEF Send, SendReturns, SendFails, SendFinally
<1>6. CASE \E c \in Calls : AnswerArrives(c)
  BY <1>6 DEF AnswerArrives, Server!Next
<1>7. CASE \E c \in Calls : Click(c) \/ AnswerReturns(c) \/ AnswerFails(c)
  BY <1>7 DEF Click, AnswerReturns, AnswerFails
<1>8. CASE Unmount \/ Mount \/ Select \/ SelectOther
  BY <1>8 DEF Unmount, Mount, Select, SelectOther
<1>9. CASE \E k \in 0 .. MaxMoves : LoadArrives(k) \/ LoadFails(k) \/ LoadReturns(k)
  BY <1>9 DEF LoadArrives, LoadFails, LoadReturns
<1> QED
  BY <1>1, <1>2, <1>3, <1>4, <1>5, <1>6, <1>7, <1>8, <1>9 DEF Next

\* The composition of the tab and the session implements the specification of
\* the session (src/src/server/session/WebChatSession.ts): whatever the tab
\* does, its requests reach the session as one of the session's own steps.
THEOREM SessionIsImplemented == Spec => Server!Spec
<1>1. Init => Server!Init
  BY DEF Init
<1>2. [Next]_vars => [Server!Next]_Server!vars
  BY SessionSteps DEF vars, session, Server!vars
<1> QED
  BY <1>1, <1>2, PTL DEF Spec, Server!Spec

LEMMA SessionInit == Init => SessionInv
<1>1. Init => Transcript
  BY DEF Init, Server!Init, Transcript
<1> QED
  BY <1>1, WorkbenchConstants
     DEF WorkbenchConstants, Init, Server!Init, SessionInv, SessionTypes,
         Server!SuspendedOnLiveCall, Server!Status

\* The transcript stays one, and one that got an entry has changed.
LEMMA AppendEntry ==
    ASSUME NEW ms \in Seq(Server!Entry), NEW t \in Turns,
           NEW kind \in {"prompt", "reply", "system_error"}
    PROVE  /\ Append(ms, <<kind, t>>) \in Seq(Server!Entry)
           /\ Append(ms, <<kind, t>>) # ms
<1> DEFINE e == <<kind, t>>
<1>1. e \in Server!Entry
  BY DEF Server!Entry
<1> HIDE DEF e
<1>2. /\ Append(ms, e) \in Seq(Server!Entry) /\ Len(ms) \in Nat
      /\ Len(Append(ms, e)) = Len(ms) + 1
  BY <1>1
<1> QED
  BY <1>2 DEF e

LEMMA TranscriptStep ==
    ASSUME Transcript, Server!Next \/ UNCHANGED session
    PROVE  Transcript'
<1>1. ASSUME NEW t \in Turns, Server!SubmitMessage(t) PROVE Transcript'
  <2>1. PICK n \in 0 .. Len(messages) :
            messages' = Append(SubSeq(messages, 1, n), <<"prompt", t>>)
    BY <1>1 DEF Server!SubmitMessage
  <2>2. SubSeq(messages, 1, n) \in Seq(Server!Entry)
    BY DEF Transcript
  <2> QED
    BY <2>1, <2>2, AppendEntry DEF Transcript
<1>2. ASSUME NEW t \in Turns, Server!TurnStep(t) PROVE Transcript'
  <2>1. \/ UNCHANGED messages
        \/ \E kind \in {"reply", "system_error"} : messages' = Append(messages, <<kind, t>>)
    BY <1>2 DEF Server!TurnStep, Server!EngineEnds, Server!EngineThrows,
                Server!WriteBackDone
  <2> QED
    BY <2>1, AppendEntry DEF Transcript
<1>3. CASE UNCHANGED messages
  BY <1>3 DEF Transcript
<1> QED
  BY <1>1, <1>2, <1>3
     DEF Server!Next, session, Server!RejectMessage, Server!AssistantText,
         Server!StartTool, Server!CanUseTool, Server!Answer, Server!Approve,
         Server!Subscribe, Server!Unsubscribe

LEMMA SessionStep ==
    ASSUME SessionInv, Server!Next \/ UNCHANGED session
    PROVE  SessionInv'
<1> USE WorkbenchConstants
    DEF WorkbenchConstants, SessionInv, SessionTypes, Server!SuspendedOnLiveCall,
        Server!Status
<1>0. /\ NoCall \notin Calls
      /\ \A c \in Calls : c[1] \in Turns
  OBVIOUS
<1>t. Transcript'
  BY TranscriptStep DEF SessionInv
<1>1. ASSUME NEW t \in Turns, \/ Server!SubmitMessage(t) \/ Server!RejectMessage(t)
                              \/ Server!AssistantText(t)
      PROVE  SessionInv'
  BY <1>0, <1>t, <1>1 DEF Server!SubmitMessage, Server!RejectMessage, Server!AssistantText
<1>2. ASSUME NEW t \in Turns, Server!TurnStep(t) PROVE SessionInv'
  <2>1. /\ UNCHANGED <<pendingApproval, call, subscribers>>
        /\ status' \in {status, "error", "idle"}
        /\ turn' \in {[turn EXCEPT ![t] = "ended"], [turn EXCEPT ![t] = "writeback"]}
        /\ turn[t] = "writeback" \/ Server!Outstanding(t) = {}
    BY <1>2 DEF Server!TurnStep, Server!EngineEnds, Server!EngineThrows,
                Server!WriteBackDone, Server!Finalize, Server!EngineMayEnd
  <2>2. \A c \in Calls : call[c] \in {"started", "asking"} => c[1] # t
    BY <1>0, <1>t, <2>1 DEF Server!Outstanding, Server!TurnOf
  <2> QED
    BY <1>0, <1>t, <2>1, <2>2
<1>3. ASSUME NEW c \in Calls, Server!StartTool(c) PROVE SessionInv'
  BY <1>0, <1>t, <1>3 DEF Server!StartTool, Server!TurnOf
<1>4. ASSUME NEW c \in Calls, Server!CanUseTool(c) PROVE SessionInv'
  BY <1>0, <1>t, <1>4 DEF Server!CanUseTool
<1>5. ASSUME NEW c \in Calls, Server!Answer(c) PROVE SessionInv'
  BY <1>0, <1>t, <1>5 DEF Server!Answer, Server!Approve, Server!Resume
<1>6. ASSUME NEW s \in Subs, Server!Subscribe(s) \/ Server!Unsubscribe(s)
      PROVE  SessionInv'
  BY <1>0, <1>t, <1>6 DEF Server!Subscribe, Server!Unsubscribe
<1>7. CASE UNCHANGED session
  BY <1>t, <1>7 DEF session
<1> QED
  BY <1>0, <1>t, <1>1, <1>2, <1>3, <1>4, <1>5, <1>6, <1>7 DEF Server!Next

-----------------------------------------------------------------------------
\* Types.
Streams == [state : {"unused", "opening", "open", "closed"}, wire : Seq(Events),
            waiter : Turns \cup {NoTurn}, retry : Fetches]
Managers == [current : Subs \cup {None}, timer : Subs \cup {None},
             attempts : 0 .. MaxReconnects]
Tabs == [streaming : BOOLEAN, card : Calls \cup {NoCall},
         here : BOOLEAN, mounted : BOOLEAN]
Sends == {"none", "request", "response", "connected", "refresh", "done"}

LEMMA FetchTypes ==
    /\ NoFetch \in Fetches /\ [NoFetch EXCEPT !.phase = "waiting"] \in Fetches
    /\ \A h \in BOOLEAN : Request(h) \in Fetches
    /\ SessionTypes => \A f \in Fetches : Response(f) \in Fetches
BY DEF NoFetch, Request, Response, Fetches, SessionTypes, Server!Status

LEMMA EventTypes ==
    /\ \A c \in Calls \cup {NoCall} : Approval(c) \in Events
    /\ Completed \in Events /\ Error \in Events
BY DEF Approval, Completed, Error, Events

LEMMA AppliedType ==
    ASSUME TypeOK, NEW f \in Fetches
    PROVE  /\ Applied(f) \in Tabs /\ Applied(f).mounted = tab.mounted
           /\ Applied(f).streaming = BusySnapshot(f)
<1> DEFINE b == BusySnapshot(f)
           card == IF f.status = "suspended_for_approval" THEN f.approval ELSE NoCall
<1>1. b \in BOOLEAN
  BY DEF BusySnapshot
<1>2. card \in Calls \cup {NoCall} /\ f.here \in BOOLEAN
  BY DEF Fetches
<1>3. Applied(f) = [tab EXCEPT !.here = f.here, !.streaming = b, !.card = card]
  BY DEF Applied
<1>4. tab \in Tabs
  BY DEF TypeOK, Tabs
<1> HIDE DEF b, card
<1>5. /\ Applied(f) \in Tabs /\ Applied(f).mounted = tab.mounted
      /\ Applied(f).streaming = b
  BY <1>1, <1>2, <1>3, <1>4 DEF Tabs
<1> QED
  BY <1>5 DEF b

LEMMA StreamTypes ==
    ASSUME TypeOK
    PROVE  /\ stream \in [Subs -> Streams]
           /\ \A s \in Subs :
                 /\ stream[s].wire \in Seq(Events) /\ stream[s].retry \in Fetches
                 /\ stream[s].waiter \in Turns \cup {NoTurn}
BY DEF TypeOK, Streams

\* disconnect() closes the current stream, and ends the last timer's
\* reconnection while it waits; it leaves everything else alone.
LEMMA DisconnectedIs ==
    ASSUME TypeOK
    PROVE  /\ Disconnected \in [Subs -> Streams]
           /\ \A s \in Subs : s = manager.current =>
                 /\ Disconnected[s].state = "closed" /\ Disconnected[s].wire = <<>>
                 /\ Disconnected[s].retry = stream[s].retry
           /\ \A s \in Subs : s # manager.current =>
                 /\ Disconnected[s].state = stream[s].state
                 /\ Disconnected[s].wire = stream[s].wire
                 /\ Disconnected[s].retry = stream[s].retry
                    \/ Disconnected[s].retry = NoFetch
                 /\ s = manager.timer /\ stream[s].retry.phase = "waiting"
                       => Disconnected[s].retry = NoFetch
<1>1. <<>> \in Seq(Events) /\ NoFetch \in Fetches /\ NoTurn \in Turns \cup {NoTurn}
  BY FetchTypes
<1>2. ASSUME NEW s \in Subs
      PROVE  /\ [stream[s] EXCEPT !.state = "closed", !.wire = <<>>,
                                  !.waiter = NoTurn] \in Streams
             /\ [stream[s] EXCEPT !.retry = NoFetch, !.waiter = NoTurn] \in Streams
             /\ stream[s] \in Streams
  BY <1>1, StreamTypes DEF Streams
<1> QED
  BY <1>2 DEF Disconnected, Streams

\* Opening a stream.
LEMMA OpenedIs ==
    ASSUME NEW st \in [Subs -> Streams], NEW s \in Subs,
           NEW w \in Turns \cup {NoTurn}
    PROVE  /\ Opened(st, s, w) \in [Subs -> Streams]
           /\ Opened(st, s, w)[s].state = "opening"
           /\ Opened(st, s, w)[s].retry = st[s].retry
           /\ \A r \in Subs \ {s} : Opened(st, s, w)[r] = st[r]
BY DEF Opened, Streams

LEMMA ConnectIs ==
    ASSUME TypeOK, NEW t \in Tabs, NEW w \in Turns \cup {NoTurn}, Connect(t, w)
    PROVE  /\ stream' \in [Subs -> Streams] /\ manager' \in Managers /\ tab' \in Tabs
           /\ unbacked' \in BOOLEAN /\ overtaken' \in BOOLEAN
           /\ \E s \in Subs : stream'[s].state = "opening"
           /\ tab'.mounted = t.mounted
           /\ overtaken' = (overtaken \/ \E s \in Subs : InFlight(stream[s].retry))
           /\ \E s \in Subs :
                 /\ Unused(s) /\ manager'.current = s /\ manager'.timer = None
                 /\ stream'[s].state = "opening"
                 /\ stream'[s].retry = Disconnected[s].retry
                 /\ \A r \in Subs \ {s} : stream'[r] = Disconnected[r]
<1>1. PICK s \in Subs :
        /\ Unused(s)
        /\ stream' = Opened(Disconnected, s, w)
        /\ manager' = [current |-> s, timer |-> None, attempts |-> 0]
        /\ tab' = [t EXCEPT !.streaming = TRUE]
        /\ unbacked' = FALSE
        /\ overtaken' = (overtaken \/ \E r \in Subs : InFlight(stream[r].retry))
  BY DEF Connect, Overtakes
<1>2. Disconnected \in [Subs -> Streams]
  BY DisconnectedIs
<1>3. /\ [current |-> s, timer |-> None, attempts |-> 0] \in Managers
      /\ [t EXCEPT !.streaming = TRUE] \in Tabs
      /\ [t EXCEPT !.streaming = TRUE].mounted = t.mounted
  <2>1. 0 \in 0 .. MaxReconnects
    BY WorkbenchConstants DEF WorkbenchConstants
  <2>2. [current |-> s, timer |-> None, attempts |-> 0] \in Managers
    BY <2>1 DEF Managers
  <2>3. /\ [t EXCEPT !.streaming = TRUE] \in Tabs
        /\ [t EXCEPT !.streaming = TRUE].mounted = t.mounted
    BY DEF Tabs
  <2> QED
    BY <2>2, <2>3
<1>4. overtaken' \in BOOLEAN
  BY <1>1 DEF TypeOK
<1>5. /\ stream' \in [Subs -> Streams] /\ stream'[s].state = "opening"
      /\ stream'[s].retry = Disconnected[s].retry
      /\ \A r \in Subs \ {s} : stream'[r] = Disconnected[r]
  BY <1>1, <1>2, OpenedIs
<1>6. manager'.current = s /\ manager'.timer = None
  BY <1>1
<1>7. overtaken' = (overtaken \/ \E r \in Subs : InFlight(stream[r].retry))
  BY <1>1
<1> QED
  BY <1>1, <1>3, <1>4, <1>5, <1>6, <1>7, Zenon

\* What a step leaves to be shown of the types.
RestTypes ==
    /\ send \in [Turns -> Sends]
    /\ answer \in [Calls -> {"none", "request", "ok", "failed", "done"}]
    /\ load \in [0 .. MaxMoves -> Fetches]
    /\ faults \in 0 .. MaxBreaks /\ moves \in 0 .. MaxMoves
    /\ late \subseteq Subs /\ erased \subseteq Calls
    /\ overtaken \in BOOLEAN /\ unbacked \in BOOLEAN

LEMMA TypesAre ==
    /\ TypeOK <=> /\ stream \in [Subs -> Streams] /\ manager \in Managers
                  /\ tab \in Tabs /\ RestTypes
    /\ TypeOK' <=> /\ stream' \in [Subs -> Streams] /\ manager' \in Managers
                   /\ tab' \in Tabs /\ RestTypes'
BY DEF TypeOK, Streams, Managers, Tabs, Sends, RestTypes

LEMMA EmitType ==
    ASSUME TypeOK, NEW e \in Events, Emit(e)
    PROVE  /\ stream' \in [Subs -> Streams]
           /\ \A s \in Subs :
                 /\ stream'[s].state = stream[s].state
                 /\ stream'[s].retry = stream[s].retry
                 /\ stream'[s].wire = IF s \in subscribers /\ Opens(s)
                                      THEN Append(stream[s].wire, e)
                                      ELSE stream[s].wire
<1>1. ASSUME NEW s \in Subs
      PROVE  LET x == [stream[s] EXCEPT !.wire = Append(stream[s].wire, e)] IN
             /\ x \in Streams /\ x.wire = Append(stream[s].wire, e)
             /\ x.state = stream[s].state /\ x.retry = stream[s].retry
  <2>1. Append(stream[s].wire, e) \in Seq(Events) /\ stream[s] \in Streams
    BY StreamTypes
  <2> QED
    BY <2>1 DEF Streams
<1>2. \A s \in Subs : /\ stream[s] \in Streams
                       /\ stream'[s] = IF s \in subscribers /\ Opens(s)
                                       THEN [stream[s] EXCEPT !.wire = Append(stream[s].wire, e)]
                                       ELSE stream[s]
  BY StreamTypes DEF Emit, Opens
<1>3. ASSUME NEW s \in Subs
      PROVE  /\ stream'[s] \in Streams
             /\ stream'[s].state = stream[s].state
             /\ stream'[s].retry = stream[s].retry
             /\ stream'[s].wire = IF s \in subscribers /\ Opens(s)
                                  THEN Append(stream[s].wire, e)
                                  ELSE stream[s].wire
  BY <1>1, <1>2
<1>4. stream' = [s \in Subs |-> stream'[s]]
  BY DEF Emit
<1> QED
  BY <1>3, <1>4

LEMMA SettledType ==
    ASSUME RestTypes, NEW s \in Subs, NEW st \in Sends
    PROVE  Settled(s, st) \in [Turns -> Sends]
BY DEF Settled, RestTypes

LEMMA OvertakesType ==
    ASSUME RestTypes, Overtakes
    PROVE  overtaken' \in BOOLEAN
BY Zenon DEF RestTypes, Overtakes

\* The rest of the types, when nothing of it changes.
LEMMA RestSame ==
    ASSUME RestTypes, UNCHANGED <<requests, faults, moves, late, erased, overtaken,
                                  unbacked>>
    PROVE  RestTypes'
BY DEF RestTypes, requests

\* The session's own steps, with what they emit.
LEMMA WorksType ==
    ASSUME TypeInv, SessionWorks
    PROVE  TypeOK'
<1>1. stream' \in [Subs -> Streams]
  <2>1. CASE UNCHANGED stream
    BY <2>1, TypesAre DEF TypeInv
  <2>2. CASE \E e \in Events : Emit(e)
    BY <2>2, EmitType DEF TypeInv
  <2> QED
    BY <2>1, <2>2, EventTypes DEF SessionWorks
<1>2. UNCHANGED <<manager, tab, requests, faults, moves, late, erased, overtaken,
                  unbacked>>
  BY DEF SessionWorks, history
<1> QED
  BY <1>1, <1>2, RestSame, TypesAre DEF TypeInv

\* The steps of a stream.
LEMMA StreamOpensType ==
    ASSUME TypeInv, NEW s \in Subs, StreamOpens(s) \/ StreamCloses(s)
    PROVE  TypeOK'
<1>1. CASE StreamCloses(s)
  <2>1. UNCHANGED <<stream, manager, tab, requests, faults, moves, late, erased,
                    overtaken, unbacked>>
    BY <1>1 DEF StreamCloses, history
  <2> QED
    BY <2>1, RestSame, TypesAre DEF TypeInv
<1>2. CASE StreamOpens(s)
  <2>1. GreetingEvents \in Seq(Events)
    BY EventTypes DEF GreetingEvents, TypeInv, SessionInv, SessionTypes
  <2>2. [stream[s] EXCEPT !.state = "open", !.wire = GreetingEvents] \in Streams
    BY <2>1, StreamTypes DEF Streams, TypeInv
  <2>3. stream' = [stream EXCEPT ![s] = [stream[s] EXCEPT !.state = "open",
                                           !.wire = GreetingEvents]]
    BY <1>2, StreamTypes DEF StreamOpens, TypeInv, Streams
  <2>4. stream' \in [Subs -> Streams]
    BY <2>2, <2>3, StreamTypes DEF TypeInv
  <2>5. late' \subseteq Subs
    BY <1>2 DEF StreamOpens, TypeInv, TypeOK
  <2> QED
    BY <1>2, <2>4, <2>5, TypesAre DEF TypeInv, StreamOpens, requests, RestTypes
<1> QED
  BY <1>1, <1>2

\* What the delivery of an event does to the streams.
LEMMA DeliverIs ==
    ASSUME TypeOK, NEW s \in Subs, Deliver(s)
    PROVE  /\ stream[s].state = "open" /\ stream[s].wire # <<>>
           /\ stream' \in [Subs -> Streams]
           /\ \/ /\ Head(stream[s].wire).type = "approval_required"
                 /\ tab' = [tab EXCEPT !.card = Head(stream[s].wire).call]
                 /\ UNCHANGED <<manager, send, overtaken>>
                 /\ \A r \in Subs :
                       /\ stream'[r].state = stream[r].state
                       /\ stream'[r].retry = stream[r].retry
                       /\ stream'[r].wire = IF r = s THEN Tail(stream[s].wire)
                                                     ELSE stream[r].wire
              \/ /\ Head(stream[s].wire).type # "approval_required"
                 /\ tab' = [tab EXCEPT !.streaming = FALSE]
                 /\ manager' = [manager EXCEPT !.current = None, !.timer = None]
                 /\ \E st \in Sends : send' = Settled(s, st)
                 /\ Overtakes
                 /\ \A r \in Subs :
                       /\ stream'[r].state = Disconnected[r].state
                       /\ stream'[r].retry = Disconnected[r].retry
                       /\ stream'[r].wire \in {stream[r].wire, Tail(stream[r].wire), <<>>}
                       /\ r # s /\ r # manager.current => stream'[r].wire = stream[r].wire
                       /\ r = s /\ r # manager.current => stream'[r].wire = Tail(stream[r].wire)
<1> DEFINE e == Head(stream[s].wire)
<1>0. /\ stream[s].state = "open" /\ stream[s].wire # <<>>
      /\ Disconnected \in [Subs -> Streams]
  BY DisconnectedIs DEF Deliver
<1>1. \A r \in Subs : stream[r] \in Streams
  BY StreamTypes
<1>2. Tail(stream[s].wire) \in Seq(Events)
  BY <1>0, StreamTypes
<1>3. CASE e.type = "approval_required"
  <2>1. /\ tab' = [tab EXCEPT !.card = e.call]
        /\ UNCHANGED <<manager, send, overtaken>>
        /\ stream' = [stream EXCEPT ![s].wire = Tail(@)]
    BY <1>3 DEF Deliver
  <2>2. stream' = [stream EXCEPT ![s] = [stream[s] EXCEPT !.wire = Tail(stream[s].wire)]]
    BY <2>1, StreamTypes
  <2>3. [stream[s] EXCEPT !.wire = Tail(stream[s].wire)] \in Streams
    BY <1>1, <1>2 DEF Streams
  <2>4. /\ [stream[s] EXCEPT !.wire = Tail(stream[s].wire)].state = stream[s].state
        /\ [stream[s] EXCEPT !.wire = Tail(stream[s].wire)].retry = stream[s].retry
        /\ [stream[s] EXCEPT !.wire = Tail(stream[s].wire)].wire = Tail(stream[s].wire)
    BY <1>1 DEF Streams
  <2> QED
    BY <1>0, <1>3, <2>1, <2>2, <2>3, <2>4, StreamTypes
<1>4. CASE e.type # "approval_required"
  <2> DEFINE d(r) == [Disconnected[r] EXCEPT
                        !.wire = IF r = s /\ r # manager.current
                                 THEN Tail(@) ELSE @,
                        !.waiter = IF r = s THEN NoTurn ELSE @]
  <2>1. /\ tab' = [tab EXCEPT !.streaming = FALSE]
        /\ stream' = [r \in Subs |-> d(r)]
        /\ manager' = [manager EXCEPT !.current = None, !.timer = None]
        /\ send' = Settled(s, IF e = Completed THEN "refresh" ELSE "done")
        /\ Overtakes
    BY <1>4 DEF Deliver
  <2>2. ASSUME NEW r \in Subs
        PROVE  /\ d(r) \in Streams /\ d(r).state = Disconnected[r].state
               /\ d(r).retry = Disconnected[r].retry
               /\ d(r).wire = IF r = s /\ r # manager.current
                              THEN Tail(Disconnected[r].wire) ELSE Disconnected[r].wire
    <3>1. Disconnected[r] \in Streams
      BY <1>0
    <3>2. r = s /\ r # manager.current => Tail(Disconnected[r].wire) \in Seq(Events)
      BY <1>2, DisconnectedIs
    <3> QED
      BY <3>1, <3>2 DEF Streams
  <2> HIDE DEF d
  <2>3. ASSUME NEW r \in Subs
        PROVE  /\ stream'[r].state = Disconnected[r].state
               /\ stream'[r].retry = Disconnected[r].retry
               /\ stream'[r].wire \in {stream[r].wire, Tail(stream[r].wire), <<>>}
               /\ r # s /\ r # manager.current => stream'[r].wire = stream[r].wire
               /\ r = s /\ r # manager.current => stream'[r].wire = Tail(stream[r].wire)
    BY <2>1, <2>2, DisconnectedIs
  <2>4. stream' \in [Subs -> Streams]
    BY <2>1, <2>2
  <2>5. \E st \in Sends : send' = Settled(s, st)
    BY <2>1 DEF Sends
  <2> QED
    BY <1>0, <1>4, <2>1, <2>3, <2>4, <2>5
<1> QED
  BY <1>3, <1>4

LEMMA StreamSet ==
    ASSUME NEW st \in [Subs -> Streams], NEW s \in Subs, NEW v \in Streams
    PROVE  /\ [st EXCEPT ![s] = v] \in [Subs -> Streams]
           /\ [st EXCEPT ![s] = v][s] = v
           /\ \A r \in Subs \ {s} : [st EXCEPT ![s] = v][r] = st[r]
OBVIOUS

\* Changes of a tab, a manager and a stream that keep their types.
LEMMA UpdateTypes ==
    /\ \A t \in Tabs : \A b \in BOOLEAN :
          /\ [t EXCEPT !.streaming = b] \in Tabs
          /\ [t EXCEPT !.mounted = b] \in Tabs
    /\ \A t \in Tabs : \A c \in Calls \cup {NoCall} : [t EXCEPT !.card = c] \in Tabs
    /\ \A mg \in Managers :
          /\ [mg EXCEPT !.current = None] \in Managers
          /\ [mg EXCEPT !.current = None, !.timer = None] \in Managers
          /\ \A s \in Subs : [mg EXCEPT !.current = s] \in Managers
    /\ \A x \in Streams : \A f \in Fetches : [x EXCEPT !.retry = f] \in Streams
BY DEF Tabs, Managers, Streams

LEMMA DeliverType ==
    ASSUME TypeInv, NEW s \in Subs, Deliver(s)
    PROVE  TypeOK'
<1>1. TypeOK /\ RestTypes /\ manager \in Managers /\ tab \in Tabs
  BY TypesAre DEF TypeInv
<1>2. UNCHANGED <<answer, load, faults, moves, late, erased, unbacked>>
  BY DEF Deliver
<1>3. stream' \in [Subs -> Streams] /\ stream[s].wire # <<>>
  BY <1>1, DeliverIs
<1>4. CASE Head(stream[s].wire).type = "approval_required"
  <2>1. /\ tab' = [tab EXCEPT !.card = Head(stream[s].wire).call]
        /\ UNCHANGED <<manager, send, overtaken>>
    BY <1>1, <1>4, DeliverIs
  <2>2. Head(stream[s].wire) \in Events
    BY <1>1, <1>3, StreamTypes
  <2>3. Head(stream[s].wire).call \in Calls \cup {NoCall}
    BY <2>2 DEF Events
  <2>4. tab' \in Tabs
    BY <1>1, <2>1, <2>3, UpdateTypes
  <2> QED
    BY <1>1, <1>2, <1>3, <2>1, <2>4, RestSame, TypesAre DEF requests
<1>5. CASE Head(stream[s].wire).type # "approval_required"
  <2>1. /\ tab' = [tab EXCEPT !.streaming = FALSE]
        /\ manager' = [manager EXCEPT !.current = None, !.timer = None]
        /\ \E st \in Sends : send' = Settled(s, st)
        /\ Overtakes
    BY <1>1, <1>5, DeliverIs
  <2>2. tab' \in Tabs /\ manager' \in Managers
    BY <1>1, <2>1, UpdateTypes
  <2>3. send' \in [Turns -> Sends] /\ overtaken' \in BOOLEAN
    BY <1>1, <2>1, SettledType, OvertakesType
  <2> QED
    BY <1>1, <1>2, <1>3, <2>2, <2>3, TypesAre DEF RestTypes
<1> QED
  BY <1>4, <1>5

\* The break of a connection.
LEMMA BreakIs ==
    ASSUME TypeInv, NEW s \in Subs, Break(s)
    PROVE  /\ TypeOK'
           /\ Active(s) /\ stream'[s].state = "closed" /\ stream'[s].wire = <<>>
           /\ \A r \in Subs \ {s} : stream'[r] = stream[r]
           /\ \/ /\ tab' = [tab EXCEPT !.streaming = FALSE]
                 /\ stream'[s].retry = stream[s].retry
                 /\ manager' = [manager EXCEPT !.current = None]
              \/ /\ stream'[s].retry.phase = "waiting"
                 /\ manager'.current = None /\ manager'.timer = s
<1>1. TypeOK /\ RestTypes /\ manager \in Managers /\ tab \in Tabs
  BY TypesAre DEF TypeInv
<1>2. /\ UNCHANGED <<answer, load, moves, late, erased, overtaken, unbacked>>
      /\ faults < MaxBreaks /\ faults' = faults + 1 /\ Active(s)
  BY DEF Break, history
<1>3. faults' \in 0 .. MaxBreaks
  BY <1>1, <1>2, WorkbenchConstants DEF RestTypes, WorkbenchConstants
<1>4. stream[s] \in Streams /\ stream \in [Subs -> Streams] /\ <<>> \in Seq(Events)
  BY <1>1, StreamTypes
<1>5. CASE /\ stream' = [stream EXCEPT ![s].state = "closed", ![s].wire = <<>>]
           /\ manager' = [manager EXCEPT !.current = None]
           /\ Abandoned(s)
  <2> DEFINE v == [stream[s] EXCEPT !.state = "closed", !.wire = <<>>]
  <2>1. v \in Streams /\ v.state = "closed" /\ v.wire = <<>> /\ v.retry = stream[s].retry
    BY <1>4 DEF Streams
  <2>2. stream' = [stream EXCEPT ![s] = v]
    BY <1>4, <1>5 DEF Streams
  <2> HIDE DEF v
  <2>3. /\ stream' \in [Subs -> Streams] /\ stream'[s] = v
        /\ \A r \in Subs \ {s} : stream'[r] = stream[r]
    BY <1>4, <2>1, <2>2, StreamSet
  <2>4. manager' \in Managers /\ tab' \in Tabs /\ send' \in [Turns -> Sends]
    BY <1>1, <1>5, UpdateTypes, SettledType DEF Abandoned, Sends
  <2>5. TypeOK'
    BY <1>1, <1>2, <1>3, <2>3, <2>4, TypesAre DEF RestTypes
  <2> QED
    BY <1>2, <1>5, <2>1, <2>3, <2>5 DEF Abandoned
<1>6. CASE /\ ~GivesUp
           /\ stream' = [stream EXCEPT
                           ![s].state = "closed", ![s].wire = <<>>,
                           ![s].retry = [NoFetch EXCEPT !.phase = "waiting"]]
           /\ manager' = [current |-> None, timer |-> s,
                          attempts |-> manager.attempts + 1]
           /\ UNCHANGED <<tab, send>>
  <2> DEFINE f == [NoFetch EXCEPT !.phase = "waiting"]
             v == [stream[s] EXCEPT !.state = "closed", !.wire = <<>>, !.retry = f]
  <2>1. f \in Fetches /\ f.phase = "waiting"
    BY FetchTypes DEF NoFetch
  <2>2. stream' = [stream EXCEPT ![s].state = "closed", ![s].wire = <<>>,
                                 ![s].retry = f]
    BY <1>6
  <2> HIDE DEF f
  <2>3. v \in Streams /\ v.state = "closed" /\ v.wire = <<>> /\ v.retry = f
    BY <1>4, <2>1 DEF Streams
  <2>4. stream' = [stream EXCEPT ![s] = v]
    BY <1>4, <2>2 DEF Streams
  <2> HIDE DEF v
  <2>5. /\ stream' \in [Subs -> Streams] /\ stream'[s] = v
        /\ \A r \in Subs \ {s} : stream'[r] = stream[r]
    BY <1>4, <2>3, <2>4, StreamSet
  <2>6. manager.attempts + 1 \in 0 .. MaxReconnects
    BY <1>1, <1>6, WorkbenchConstants DEF GivesUp, Managers, WorkbenchConstants
  <2>7. manager' \in Managers
    BY <1>6, <2>6 DEF Managers
  <2>8. TypeOK'
    BY <1>1, <1>2, <1>3, <1>6, <2>5, <2>7, TypesAre DEF RestTypes
  <2> QED
    BY <1>2, <1>6, <2>1, <2>3, <2>5, <2>8
<1> QED
  BY <1>5, <1>6 DEF Break

\* The fetch of a reconnection, asked and answered.
LEMMA RetryAsksIs ==
    ASSUME TypeInv, NEW s \in Subs, RetryAsks(s)
    PROVE  /\ TypeOK'
           /\ stream[s].retry.phase # "none" /\ stream'[s].retry.phase # "none"
           /\ stream'[s].state = stream[s].state /\ stream'[s].wire = stream[s].wire
           /\ \A r \in Subs \ {s} : stream'[r] = stream[r]
<1>1. TypeOK /\ RestTypes /\ stream \in [Subs -> Streams] /\ stream[s] \in Streams
  BY StreamTypes, TypesAre DEF TypeInv
<1> DEFINE f == IF stream[s].retry.phase = "waiting" THEN Request(TRUE)
                                                     ELSE Response(stream[s].retry)
           v == [stream[s] EXCEPT !.retry = f]
<1>2. f \in Fetches /\ f.phase # "none"
  <2>1. stream[s].retry \in Fetches
    BY <1>1 DEF Streams
  <2>2. Request(TRUE) \in Fetches /\ Response(stream[s].retry) \in Fetches
    BY <2>1, FetchTypes DEF TypeInv, SessionInv
  <2>3. Request(TRUE).phase = "request" /\ Response(stream[s].retry).phase = "response"
    BY <2>1 DEF Request, Response, NoFetch, Fetches
  <2> QED
    BY <2>2, <2>3
<1>3. stream' = [stream EXCEPT ![s] = v]
  BY <1>1 DEF RetryAsks, Streams
<1> HIDE DEF f
<1>4. v \in Streams /\ v.retry = f /\ v.state = stream[s].state /\ v.wire = stream[s].wire
  BY <1>1, <1>2 DEF Streams
<1> HIDE DEF v
<1>5. /\ stream' \in [Subs -> Streams] /\ stream'[s] = v
      /\ \A r \in Subs \ {s} : stream'[r] = stream[r]
  BY <1>1, <1>3, <1>4, StreamSet
<1>6. /\ UNCHANGED <<manager, tab, requests, faults, moves, late, erased, overtaken,
                     unbacked>>
      /\ stream[s].retry.phase # "none"
  BY DEF RetryAsks, history
<1>7. TypeOK'
  BY <1>1, <1>5, <1>6, RestSame, TypesAre
<1> QED
  BY <1>2, <1>4, <1>5, <1>6, <1>7

\* What the end of a reconnection leaves of stream s.
LEMMA OverIs ==
    ASSUME TypeOK, NEW s \in Subs
    PROVE  LET over == [stream EXCEPT ![s].retry = NoFetch, ![s].waiter = NoTurn] IN
           /\ over \in [Subs -> Streams] /\ over[s].retry = NoFetch
           /\ over[s].state = stream[s].state /\ over[s].wire = stream[s].wire
           /\ \A r \in Subs \ {s} : over[r] = stream[r]
<1> DEFINE v == [stream[s] EXCEPT !.retry = NoFetch, !.waiter = NoTurn]
           over == [stream EXCEPT ![s].retry = NoFetch, ![s].waiter = NoTurn]
<1>1. stream \in [Subs -> Streams] /\ stream[s] \in Streams
  BY StreamTypes
<1>2. /\ v \in Streams /\ v.retry = NoFetch /\ v.state = stream[s].state
      /\ v.wire = stream[s].wire
  <2>1. NoFetch \in Fetches
    BY FetchTypes
  <2> QED
    BY <1>1, <2>1 DEF Streams
<1>3. over = [stream EXCEPT ![s] = v]
  BY <1>1 DEF Streams
<1> HIDE DEF v, over
<1>4. over \in [Subs -> Streams] /\ over[s] = v /\ \A r \in Subs \ {s} : over[r] = stream[r]
  BY <1>1, <1>2, <1>3, StreamSet
<1>5. /\ over \in [Subs -> Streams] /\ over[s].retry = NoFetch
      /\ over[s].state = stream[s].state /\ over[s].wire = stream[s].wire
      /\ \A r \in Subs \ {s} : over[r] = stream[r]
  BY <1>2, <1>4
<1> QED
  BY <1>5 DEF over

\* A reconnection that finds the session busy opens a new stream, any other
\* settles the tab.
LEMMA RetryReturnsIs ==
    ASSUME TypeInv, NEW s \in Subs, RetryReturns(s)
    PROVE  /\ TypeOK'
           /\ InFlight(stream[s].retry)
           /\ tab'.mounted = tab.mounted
           /\ stream'[s].retry = NoFetch
           /\ \/ /\ ~tab'.streaming /\ UNCHANGED manager
                 /\ \A r \in Subs : /\ stream'[r].state = stream[r].state
                                    /\ stream'[r].wire = stream[r].wire
                                    /\ r # s => stream'[r] = stream[r]
              \/ \E q \in Subs :
                    /\ stream[q].state = "unused" /\ stream'[q].state = "opening"
                    /\ stream'[q].retry \in {NoFetch, stream[q].retry}
                    /\ manager' = [manager EXCEPT !.current = q]
                    /\ \A r \in Subs \ {q} : /\ stream'[r].state = stream[r].state
                                             /\ stream'[r].wire = stream[r].wire
                                             /\ r # s => stream'[r] = stream[r]
<1> DEFINE f == stream[s].retry
           over == [stream EXCEPT ![s].retry = NoFetch, ![s].waiter = NoTurn]
<1>1. TypeOK /\ RestTypes /\ manager \in Managers /\ f \in Fetches
  BY StreamTypes, TypesAre DEF TypeInv
<1>2. /\ over \in [Subs -> Streams] /\ over[s].retry = NoFetch
      /\ over[s].state = stream[s].state /\ over[s].wire = stream[s].wire
      /\ \A r \in Subs \ {s} : over[r] = stream[r]
  BY <1>1, OverIs
<1>3. /\ UNCHANGED <<answer, load, faults, moves, late, erased, overtaken>>
      /\ unbacked' = FALSE /\ tab' = Applied(f) /\ f.phase = "response"
      /\ \/ /\ BusySnapshot(f)
            /\ \E q \in Subs : /\ Unused(q)
                               /\ stream' = Opened(over, q, stream[s].waiter)
                               /\ manager' = [manager EXCEPT !.current = q]
            /\ UNCHANGED send
         \/ /\ ~BusySnapshot(f)
            /\ stream' = over
            /\ send' = Settled(s, IF f.status = "error" THEN "done" ELSE "refresh")
            /\ UNCHANGED manager
  BY DEF RetryReturns
<1>4. /\ tab' \in Tabs /\ tab'.mounted = tab.mounted /\ tab'.streaming = BusySnapshot(f)
  BY <1>1, <1>3, AppliedType
<1> HIDE DEF over
<1>5. CASE BusySnapshot(f)
  <2>1. PICK q \in Subs : /\ Unused(q)
                          /\ stream' = Opened(over, q, stream[s].waiter)
                          /\ manager' = [manager EXCEPT !.current = q]
    BY <1>3, <1>5
  <2>2. /\ stream' \in [Subs -> Streams] /\ stream'[q].state = "opening"
        /\ stream'[q].retry = over[q].retry
        /\ \A r \in Subs \ {q} : stream'[r] = over[r]
    <3>1. stream[s].waiter \in Turns \cup {NoTurn}
      BY <1>1, StreamTypes
    <3> QED
      BY <1>2, <2>1, <3>1, OpenedIs
  <2>3. manager' \in Managers
    BY <1>1, <2>1, UpdateTypes
  <2>4. TypeOK'
    BY <1>1, <1>3, <1>4, <1>5, <2>2, <2>3, TypesAre DEF RestTypes
  <2>5. stream[q].state = "unused" /\ InFlight(f)
    BY <1>3, <2>1 DEF Unused, InFlight
  <2>6. stream'[s].retry = NoFetch /\ stream'[q].retry \in {NoFetch, stream[q].retry}
    BY <1>2, <2>2
  <2>7. \A r \in Subs \ {q} : /\ stream'[r].state = stream[r].state
                              /\ stream'[r].wire = stream[r].wire
                              /\ r # s => stream'[r] = stream[r]
    BY <1>2, <2>2
  <2> QED
    BY <1>4, <2>1, <2>2, <2>4, <2>5, <2>6, <2>7
<1>6. CASE ~BusySnapshot(f)
  <2>1. send' \in [Turns -> Sends]
    BY <1>1, <1>3, <1>6, SettledType DEF Sends
  <2>2. TypeOK'
    BY <1>1, <1>2, <1>3, <1>4, <1>6, <2>1, TypesAre DEF RestTypes
  <2>3. InFlight(f) /\ ~tab'.streaming
    BY <1>3, <1>4, <1>6 DEF InFlight
  <2> QED
    BY <1>2, <1>3, <1>4, <1>6, <2>2, <2>3
<1> QED
  BY <1>5, <1>6

LEMMA RetryFailsIs ==
    ASSUME TypeInv, NEW s \in Subs, RetryFails(s)
    PROVE  /\ TypeOK'
           /\ tab' = [tab EXCEPT !.streaming = FALSE] /\ UNCHANGED manager
           /\ stream'[s].retry = NoFetch
           /\ stream'[s].state = stream[s].state /\ stream'[s].wire = stream[s].wire
           /\ \A r \in Subs \ {s} : stream'[r] = stream[r]
<1>1. TypeOK /\ RestTypes /\ tab \in Tabs /\ manager \in Managers
  BY TypesAre DEF TypeInv
<1> DEFINE v == [stream[s] EXCEPT !.retry = NoFetch]
<1>2. stream \in [Subs -> Streams] /\ stream[s] \in Streams /\ NoFetch \in Fetches
  BY <1>1, StreamTypes, FetchTypes
<1>3. v \in Streams /\ v.retry = NoFetch /\ v.state = stream[s].state /\ v.wire = stream[s].wire
  BY <1>2 DEF Streams
<1>4. stream' = [stream EXCEPT ![s] = v]
  BY <1>2 DEF RetryFails
<1> HIDE DEF v
<1>5. /\ stream' \in [Subs -> Streams] /\ stream'[s] = v
      /\ \A r \in Subs \ {s} : stream'[r] = stream[r]
  BY <1>2, <1>3, <1>4, StreamSet
<1>6. /\ UNCHANGED <<manager, answer, load, moves, late, erased, overtaken, unbacked>>
      /\ faults < MaxBreaks /\ faults' = faults + 1
      /\ tab' = [tab EXCEPT !.streaming = FALSE] /\ send' = Settled(s, "done")
  BY DEF RetryFails, Abandoned, history
<1>7. tab' \in Tabs /\ send' \in [Turns -> Sends]
  BY <1>1, <1>6, UpdateTypes, SettledType DEF Sends
<1>8. faults' \in 0 .. MaxBreaks
  BY <1>1, <1>6, WorkbenchConstants DEF RestTypes, WorkbenchConstants
<1>9. TypeOK'
  BY <1>1, <1>5, <1>6, <1>7, <1>8, TypesAre DEF RestTypes
<1> QED
  BY <1>3, <1>5, <1>6, <1>9

-----------------------------------------------------------------------------
\* The types after the steps that leave the streams alone.
LEMMA SendType ==
    ASSUME TypeInv, NEW t \in Turns,
           Send(t) \/ PostArrives(t) \/ SendFails(t) \/ SendFinally(t)
    PROVE  TypeOK'
<1>1. /\ TypeOK /\ RestTypes /\ tab \in Tabs /\ manager \in Managers
      /\ stream \in [Subs -> Streams]
  BY TypesAre DEF TypeInv
<1>2. CASE Send(t)
  <2>1. tab' = [tab EXCEPT !.card = NoCall, !.streaming = TRUE] /\ unbacked' = FALSE
    BY <1>2 DEF Send
  <2>2. tab' \in Tabs
    BY <1>1, <2>1 DEF Tabs
  <2>3. send' \in [Turns -> Sends]
    BY <1>1, <1>2 DEF Send, RestTypes, Sends
  <2> QED
    BY <1>1, <1>2, <2>1, <2>2, <2>3, TypesAre DEF Send, RestTypes
<1>3. CASE PostArrives(t)
  <2>1. send' \in [Turns -> Sends]
    BY <1>1, <1>3 DEF PostArrives, RestTypes, Sends
  <2>2. UNCHANGED <<stream, manager, tab, answer, load, faults, moves, late, erased,
                    overtaken, unbacked>>
    BY <1>3 DEF PostArrives, history
  <2> QED
    BY <1>1, <2>1, <2>2, TypesAre DEF RestTypes
<1>4. CASE SendFails(t)
  <2>1. send' \in [Turns -> Sends]
    BY <1>1, <1>4 DEF SendFails, RestTypes, Sends
  <2>2. /\ UNCHANGED <<stream, manager, answer, load, moves, late, erased, overtaken,
                       unbacked>>
        /\ tab' = [tab EXCEPT !.streaming = FALSE]
        /\ faults < MaxBreaks /\ faults' = faults + 1
    BY <1>4 DEF SendFails, history
  <2>3. tab' \in Tabs
    BY <1>1, <2>2, UpdateTypes
  <2>4. faults' \in 0 .. MaxBreaks
    BY <1>1, <2>2, WorkbenchConstants DEF RestTypes, WorkbenchConstants
  <2> QED
    BY <1>1, <2>1, <2>2, <2>3, <2>4, TypesAre DEF RestTypes
<1>5. CASE SendFinally(t)
  <2>1. send' \in [Turns -> Sends]
    BY <1>1, <1>5 DEF SendFinally, RestTypes, Sends
  <2>2. /\ UNCHANGED <<stream, manager, answer, load, faults, moves, late, erased,
                       overtaken, unbacked>>
        /\ tab' = [tab EXCEPT !.streaming = FALSE]
    BY <1>5 DEF SendFinally, history
  <2>3. tab' \in Tabs
    BY <1>1, <2>2, UpdateTypes
  <2> QED
    BY <1>1, <2>1, <2>2, <2>3, TypesAre DEF RestTypes
<1> QED
  BY <1>2, <1>3, <1>4, <1>5

LEMMA AnswerType ==
    ASSUME TypeInv, NEW c \in Calls,
           Click(c) \/ AnswerArrives(c) \/ AnswerReturns(c) \/ AnswerFails(c)
    PROVE  TypeOK'
<1>1. /\ TypeOK /\ RestTypes /\ tab \in Tabs /\ manager \in Managers
      /\ stream \in [Subs -> Streams]
  BY TypesAre DEF TypeInv
<1>2. CASE Click(c) \/ AnswerArrives(c)
  <2>1. UNCHANGED <<stream, manager, tab, send, load, faults, moves, late, erased,
                    overtaken, unbacked>>
    BY <1>2 DEF Click, AnswerArrives, history
  <2>2. answer' \in [Calls -> {"none", "request", "ok", "failed", "done"}]
    BY <1>1, <1>2 DEF Click, AnswerArrives, RestTypes
  <2> QED
    BY <1>1, <2>1, <2>2, TypesAre DEF RestTypes
<1>3. CASE AnswerReturns(c)
  <2>1. /\ UNCHANGED <<stream, manager, send, load, faults, moves, late, overtaken,
                       unbacked>>
        /\ tab' = [tab EXCEPT !.card = NoCall]
        /\ erased' \subseteq erased \cup ({tab.card} \ {NoCall})
    BY <1>3 DEF AnswerReturns
  <2>2. tab' \in Tabs
    BY <1>1, <2>1, UpdateTypes
  <2>3. tab.card \in Calls \cup {NoCall}
    BY <1>1 DEF Tabs
  <2>4. erased' \subseteq Calls
    BY <1>1, <2>1, <2>3 DEF RestTypes
  <2>5. answer' \in [Calls -> {"none", "request", "ok", "failed", "done"}]
    BY <1>1, <1>3 DEF AnswerReturns, RestTypes
  <2> QED
    BY <1>1, <2>1, <2>2, <2>4, <2>5, TypesAre DEF RestTypes
<1>4. CASE AnswerFails(c)
  <2>1. UNCHANGED <<stream, manager, tab, send, load, moves, late, erased, overtaken,
                    unbacked>>
    BY <1>4 DEF AnswerFails, history
  <2>2. answer' \in [Calls -> {"none", "request", "ok", "failed", "done"}]
    BY <1>1, <1>4 DEF AnswerFails, RestTypes
  <2>3. faults' \in 0 .. MaxBreaks
    BY <1>1, <1>4, WorkbenchConstants DEF AnswerFails, RestTypes, WorkbenchConstants
  <2> QED
    BY <1>1, <2>1, <2>2, <2>3, TypesAre DEF RestTypes
<1> QED
  BY <1>2, <1>3, <1>4

LEMMA SendReturnsType ==
    ASSUME TypeInv, NEW t \in Turns, SendReturns(t)
    PROVE  TypeOK'
<1>1. TypeOK /\ RestTypes /\ tab \in Tabs
  BY TypesAre DEF TypeInv
<1>2. /\ Connect([tab EXCEPT !.here = TRUE], t)
      /\ UNCHANGED <<answer, load, faults, moves, late, erased>>
  BY DEF SendReturns
<1>3. [tab EXCEPT !.here = TRUE] \in Tabs
  BY <1>1 DEF Tabs
<1>4. /\ stream' \in [Subs -> Streams] /\ manager' \in Managers /\ tab' \in Tabs
      /\ unbacked' \in BOOLEAN /\ overtaken' \in BOOLEAN
  BY <1>1, <1>2, <1>3, ConnectIs
<1>5. send' \in [Turns -> Sends]
  BY <1>1 DEF SendReturns, RestTypes, Sends
<1> QED
  BY <1>1, <1>2, <1>4, <1>5, TypesAre DEF RestTypes

LEMMA MoveType ==
    ASSUME TypeInv, Unmount \/ Mount \/ Select \/ SelectOther
    PROVE  TypeOK'
<1>1. /\ TypeOK /\ RestTypes /\ tab \in Tabs /\ manager \in Managers
      /\ stream \in [Subs -> Streams]
  BY TypesAre DEF TypeInv
<1>2. ASSUME moves < MaxMoves, moves' = moves + 1 PROVE moves' \in 0 .. MaxMoves
  BY <1>1, <1>2, WorkbenchConstants DEF RestTypes, WorkbenchConstants
<1>3. CASE Unmount
  <2>1. /\ UNCHANGED <<requests, faults, late, erased, unbacked>>
        /\ tab' = [tab EXCEPT !.mounted = FALSE] /\ stream' = Disconnected
        /\ manager' = [manager EXCEPT !.current = None, !.timer = None]
        /\ Overtakes /\ moves < MaxMoves /\ moves' = moves + 1
    BY <1>3 DEF Unmount
  <2>2. /\ tab' \in Tabs /\ stream' \in [Subs -> Streams] /\ manager' \in Managers
        /\ overtaken' \in BOOLEAN
    BY <1>1, <2>1, UpdateTypes, DisconnectedIs, OvertakesType
  <2> QED
    BY <1>1, <1>2, <2>1, <2>2, TypesAre DEF RestTypes, requests
<1>4. CASE Mount
  <2>1. /\ UNCHANGED <<stream, manager, send, answer, faults, moves, late, erased,
                       overtaken, unbacked>>
        /\ tab' = [tab EXCEPT !.mounted = TRUE]
        /\ load' = [load EXCEPT ![moves] = Request(tab.here)]
    BY <1>4 DEF Mount, history
  <2>2. tab' \in Tabs
    BY <1>1, <2>1, UpdateTypes
  <2>3. Request(tab.here) \in Fetches
    BY <1>1, FetchTypes DEF Tabs
  <2>4. load' \in [0 .. MaxMoves -> Fetches]
    BY <1>1, <2>1, <2>3 DEF RestTypes
  <2> QED
    BY <1>1, <2>1, <2>2, <2>4, TypesAre DEF RestTypes
<1>5. CASE Select
  <2>1. /\ UNCHANGED <<stream, manager, tab, send, answer, faults, late, erased,
                       overtaken, unbacked>>
        /\ load' = [load EXCEPT ![0] = Response(Request(TRUE))]
        /\ moves < MaxMoves /\ moves' = moves + 1
    BY <1>5 DEF Select, history
  <2>2. Response(Request(TRUE)) \in Fetches
    BY FetchTypes DEF TypeInv, SessionInv
  <2>3. load' \in [0 .. MaxMoves -> Fetches]
    BY <1>1, <2>1, <2>2 DEF RestTypes
  <2> QED
    BY <1>1, <1>2, <2>1, <2>3, TypesAre DEF RestTypes
<1>6. CASE SelectOther
  <2>1. /\ UNCHANGED <<stream, manager, requests, faults, late, erased, overtaken,
                       unbacked>>
        /\ tab' = Applied(Request(FALSE))
        /\ moves < MaxMoves /\ moves' = moves + 1
    BY <1>6 DEF SelectOther, history
  <2>2. tab' \in Tabs
    BY <1>1, <2>1, FetchTypes, AppliedType
  <2> QED
    BY <1>1, <1>2, <2>1, <2>2, TypesAre DEF RestTypes, requests
<1> QED
  BY <1>3, <1>4, <1>5, <1>6

LEMMA LoadType ==
    ASSUME TypeInv, NEW k \in 0 .. MaxMoves,
           LoadArrives(k) \/ LoadFails(k) \/ LoadReturns(k)
    PROVE  TypeOK'
<1>1. /\ TypeOK /\ RestTypes /\ tab \in Tabs /\ manager \in Managers
      /\ stream \in [Subs -> Streams] /\ load[k] \in Fetches
  BY TypesAre DEF TypeInv, RestTypes
<1>2. ASSUME NEW f \in Fetches, load' = [load EXCEPT ![k] = f]
      PROVE  load' \in [0 .. MaxMoves -> Fetches]
  BY <1>1, <1>2 DEF RestTypes
<1>3. CASE LoadArrives(k)
  <2>1. /\ UNCHANGED <<stream, manager, tab, send, answer, faults, moves, late, erased,
                       overtaken, unbacked>>
        /\ load' = [load EXCEPT ![k] = Response(load[k])]
    BY <1>1, <1>3 DEF LoadArrives, history, RestTypes
  <2>2. Response(load[k]) \in Fetches
    BY <1>1, FetchTypes DEF TypeInv, SessionInv
  <2> QED
    BY <1>1, <1>2, <2>1, <2>2, TypesAre DEF RestTypes
<1>4. CASE LoadFails(k)
  <2>1. /\ UNCHANGED <<stream, manager, tab, send, answer, moves, late, erased,
                       overtaken>>
        /\ load' = [load EXCEPT ![k] = NoFetch]
        /\ faults < MaxBreaks /\ faults' = faults + 1
    BY <1>4 DEF LoadFails
  <2>2. faults' \in 0 .. MaxBreaks
    BY <1>1, <2>1, WorkbenchConstants DEF RestTypes, WorkbenchConstants
  <2>3. unbacked' \in BOOLEAN
    BY <1>4, Zenon DEF LoadFails
  <2> QED
    BY <1>1, <1>2, <2>1, <2>2, <2>3, FetchTypes, TypesAre DEF RestTypes
<1>5. CASE LoadReturns(k)
  <2>1. /\ UNCHANGED <<send, answer, faults, moves, late, erased>>
        /\ load' = [load EXCEPT ![k] = NoFetch]
        /\ \/ Connect(Applied(load[k]), NoTurn)
           \/ /\ tab' = Applied(load[k]) /\ unbacked' = (k = 0)
              /\ UNCHANGED <<stream, manager, overtaken>>
    BY <1>5 DEF LoadReturns
  <2>2. Applied(load[k]) \in Tabs
    BY <1>1, AppliedType
  <2>3. /\ stream' \in [Subs -> Streams] /\ manager' \in Managers /\ tab' \in Tabs
        /\ unbacked' \in BOOLEAN /\ overtaken' \in BOOLEAN
    <3>1. CASE Connect(Applied(load[k]), NoTurn)
      BY <1>1, <2>2, <3>1, ConnectIs
    <3>2. CASE /\ tab' = Applied(load[k]) /\ unbacked' = (k = 0)
               /\ UNCHANGED <<stream, manager, overtaken>>
      <4>1. unbacked' \in BOOLEAN
        BY <3>2, Zenon
      <4> QED
        BY <1>1, <2>2, <3>2, <4>1 DEF RestTypes
    <3> QED
      BY <2>1, <3>1, <3>2
  <2> QED
    BY <1>1, <1>2, <2>1, <2>3, FetchTypes, TypesAre DEF RestTypes
<1> QED
  BY <1>3, <1>4, <1>5

LEMMA TypeStep ==
    ASSUME TypeInv, [Next]_vars
    PROVE  TypeInv'
<1>1. SessionInv'
  BY SessionSteps, SessionStep DEF TypeInv, vars
<1>2. TypeOK'
  <2>1. CASE UNCHANGED vars
    <3>1. UNCHANGED <<stream, manager, tab, requests, faults, moves, late, erased,
                      overtaken, unbacked>>
      BY <2>1 DEF vars, history
    <3> QED
      BY <3>1, RestSame, TypesAre DEF TypeInv
  <2>2. CASE Next
    BY <2>2, WorksType, StreamOpensType, DeliverType, BreakIs, RetryAsksIs,
       RetryReturnsIs, RetryFailsIs, SendType, SendReturnsType, AnswerType, MoveType,
       LoadType DEF Next
  <2> QED
    BY <2>1, <2>2
<1> QED
  BY <1>1, <1>2 DEF TypeInv

-----------------------------------------------------------------------------
\* Initially there is no stream, and nothing is under way.
LEMMA InitInv == Init => Inv
<1> SUFFICES ASSUME Init PROVE Inv
  OBVIOUS
<1>1. /\ stream = [s \in Subs |-> [state |-> "unused", wire |-> <<>>,
                                   waiter |-> NoTurn, retry |-> NoFetch]]
      /\ manager = [current |-> None, timer |-> None, attempts |-> 0]
      /\ tab = [streaming |-> FALSE, card |-> NoCall, here |-> TRUE, mounted |-> TRUE]
      /\ send = [t \in Turns |-> "none"] /\ answer = [c \in Calls |-> "none"]
      /\ load = [k \in 0 .. MaxMoves |-> NoFetch]
      /\ faults = 0 /\ moves = 0
      /\ late = {} /\ erased = {} /\ overtaken = FALSE /\ unbacked = FALSE
      /\ status = "idle"
  BY DEF Init, Server!Init
<1>2. TypeOK
  <2>1. 0 \in 0 .. MaxReconnects /\ 0 \in 0 .. MaxBreaks /\ 0 \in 0 .. MaxMoves
    BY WorkbenchConstants DEF WorkbenchConstants
  <2>2. /\ stream \in [Subs -> Streams] /\ manager \in Managers /\ tab \in Tabs
    BY <1>1, <2>1, FetchTypes DEF Streams, Managers, Tabs
  <2>3. RestTypes
    BY <1>1, <2>1, FetchTypes DEF RestTypes, Sends
  <2> QED
    BY <2>2, <2>3, TypesAre
<1>3. TypeInv
  BY <1>2, SessionInit DEF TypeInv
<1>4. LinkInv /\ HoldInv /\ BackInv /\ WireInv
  BY <1>1 DEF LinkInv, HoldInv, BackInv, WireInv, Opens, Active, Waits, NoFetch
<1> QED
  BY <1>3, <1>4 DEF Inv

-----------------------------------------------------------------------------
\* The steps of the session that the tab does not ask for.
LEMMA WorksIs ==
    ASSUME TypeInv, SessionWorks
    PROVE  /\ UNCHANGED <<manager, tab, requests, faults, moves, late, erased,
                          overtaken, unbacked>>
           /\ UNCHANGED subscribers
           /\ \A c \in Calls : call[c] \in {"allowed", "denied"} => call'[c] = call[c]
           /\ \A s \in Subs : /\ stream'[s].state = stream[s].state
                              /\ stream'[s].retry = stream[s].retry
<1>1. /\ UNCHANGED <<manager, tab, requests, faults, moves, late, erased,
                     overtaken, unbacked>>
      /\ UNCHANGED subscribers
  BY DEF SessionWorks, history, Server!AssistantText, Server!StartTool,
         Server!CanUseTool, Server!EngineEnds, Server!WriteBackDone,
         Server!EngineThrows
<1>2. \A c \in Calls : call[c] \in {"allowed", "denied"} => call'[c] = call[c]
  <2>1. \/ UNCHANGED call
        \/ \E c \in Calls : Server!StartTool(c) \/ Server!CanUseTool(c)
    BY DEF SessionWorks, Server!AssistantText, Server!EngineEnds,
           Server!WriteBackDone, Server!EngineThrows
  <2> QED
    BY <2>1 DEF Server!StartTool, Server!CanUseTool, TypeInv, SessionInv, SessionTypes
<1>3. \A s \in Subs : /\ stream'[s].state = stream[s].state
                      /\ stream'[s].retry = stream[s].retry
  <2>1. UNCHANGED stream \/ \E e \in Events : Emit(e)
    BY EventTypes DEF SessionWorks
  <2> QED
    BY <2>1, EmitType DEF TypeInv
<1> QED
  BY <1>1, <1>2, <1>3

\* Only the server's getting its request opens a stream, and it subscribes it.
LEMMA StreamOpensIs ==
    ASSUME TypeInv, NEW s \in Subs, StreamOpens(s)
    PROVE  /\ stream[s].state = "opening" /\ stream'[s].state = "open"
           /\ stream'[s].wire = GreetingEvents /\ stream'[s].retry = stream[s].retry
           /\ \A r \in Subs \ {s} : stream'[r] = stream[r]
           /\ subscribers' = subscribers \cup {s}
           /\ late' = IF AtRest THEN late \cup {s} ELSE late
           /\ UNCHANGED <<status, pendingApproval, messages, draft, turn, hasText, call>>
           /\ UNCHANGED <<manager, tab, requests, faults, moves, erased, overtaken,
                          unbacked>>
<1>1. stream \in [Subs -> Streams] /\ stream[s] \in Streams
  BY TypesAre DEF TypeInv
<1> DEFINE v == [stream[s] EXCEPT !.state = "open", !.wire = GreetingEvents]
<1>2. stream' = [stream EXCEPT ![s] = v]
  BY <1>1 DEF StreamOpens, Streams
<1>3. v.state = "open" /\ v.wire = GreetingEvents /\ v.retry = stream[s].retry
  BY <1>1 DEF Streams
<1> HIDE DEF v
<1>4. stream'[s] = v /\ \A r \in Subs \ {s} : stream'[r] = stream[r]
  BY <1>1, <1>2
<1> QED
  BY <1>3, <1>4 DEF StreamOpens, Server!Subscribe

LEMMA LinkStep ==
    ASSUME Inv, [Next]_vars
    PROVE  LinkInv'
<1>1. TypeInv /\ LinkInv /\ TypeInv' /\ TypeOK
  BY TypeStep DEF Inv, TypeInv
<1>2. ASSUME UNCHANGED <<moves, answer, call, subscribers>>,
             \A s \in Subs : Opens(s)' => Opens(s), tab'.mounted = tab.mounted
      PROVE  LinkInv'
  BY <1>1, <1>2 DEF LinkInv
<1>3. CASE UNCHANGED vars
  BY <1>2, <1>3 DEF vars, session, requests, Opens
<1>4. CASE SessionWorks
  BY <1>1, <1>4, WorksIs DEF LinkInv, Opens, requests
<1>5. ASSUME NEW s \in Subs, StreamOpens(s) PROVE LinkInv'
  BY <1>1, <1>5, StreamOpensIs DEF LinkInv, Opens, requests
<1>6. ASSUME NEW s \in Subs, StreamCloses(s) PROVE LinkInv'
  BY <1>1, <1>6 DEF LinkInv, Opens, StreamCloses, Server!Unsubscribe, requests
<1>7. ASSUME NEW s \in Subs, Deliver(s) PROVE LinkInv'
  <2>1. UNCHANGED <<moves, answer, call, subscribers>>
    BY <1>7 DEF Deliver, session
  <2>2. \A r \in Subs : Opens(r)' => Opens(r)
    BY <1>1, <1>7, DeliverIs, DisconnectedIs DEF Opens
  <2>3. tab'.mounted = tab.mounted
    BY <1>1, <1>7, DeliverIs, TypesAre DEF Tabs
  <2> QED
    BY <1>2, <2>1, <2>2, <2>3
<1>8. ASSUME NEW s \in Subs, Break(s) PROVE LinkInv'
  <2>1. UNCHANGED <<moves, answer, call, subscribers>>
    BY <1>8 DEF Break, session
  <2>2. \A r \in Subs : Opens(r)' => Opens(r)
    BY <1>1, <1>8, BreakIs DEF Opens
  <2>3. tab'.mounted = tab.mounted
    BY <1>1, <1>8, TypesAre DEF Break, Abandoned, Tabs
  <2> QED
    BY <1>2, <2>1, <2>2, <2>3
<1>9. ASSUME NEW s \in Subs, RetryAsks(s) PROVE LinkInv'
  <2>1. UNCHANGED <<moves, answer, call, subscribers, tab>>
    BY <1>9 DEF RetryAsks, session, requests
  <2>2. \A r \in Subs : Opens(r)' => Opens(r)
    BY <1>1, <1>9, RetryAsksIs DEF Opens
  <2> QED
    BY <1>2, <2>1, <2>2
<1>10. ASSUME NEW s \in Subs, RetryReturns(s) PROVE LinkInv'
  <2>1. UNCHANGED <<moves, answer, call, subscribers>>
    BY <1>10 DEF RetryReturns, session
  <2>2. \A r \in Subs : Opens(r)' => Opens(r)
    BY <1>1, <1>10, RetryReturnsIs DEF Opens
  <2>3. tab'.mounted = tab.mounted
    BY <1>1, <1>10, RetryReturnsIs
  <2> QED
    BY <1>2, <2>1, <2>2, <2>3
<1>11. ASSUME NEW s \in Subs, RetryFails(s) PROVE LinkInv'
  <2>1. UNCHANGED <<moves, answer, call, subscribers>>
    BY <1>11 DEF RetryFails, session
  <2>2. \A r \in Subs : Opens(r)' => Opens(r)
    BY <1>1, <1>11, RetryFailsIs DEF Opens
  <2>3. tab'.mounted = tab.mounted
    BY <1>1, <1>11, RetryFailsIs, TypesAre DEF Tabs
  <2> QED
    BY <1>2, <2>1, <2>2, <2>3
<1>12. ASSUME NEW t \in Turns, Send(t) \/ SendFails(t) \/ SendFinally(t) PROVE LinkInv'
  <2>1. UNCHANGED <<moves, answer, call, subscribers, stream>>
    BY <1>12 DEF Send, SendFails, SendFinally, session
  <2>2. tab'.mounted = tab.mounted
    BY <1>1, <1>12, TypesAre DEF Send, SendFails, SendFinally, Tabs
  <2> QED
    BY <1>2, <2>1, <2>2 DEF Opens
<1>13. ASSUME NEW t \in Turns, PostArrives(t) PROVE LinkInv'
  BY <1>2, <1>13 DEF PostArrives, Server!SubmitMessage, Server!RejectMessage, Opens
<1>14. ASSUME NEW t \in Turns, SendReturns(t) PROVE LinkInv'
  <2>1. UNCHANGED <<moves, answer, call, subscribers>>
    BY <1>14 DEF SendReturns, session
  <2>2. [tab EXCEPT !.here = TRUE] \in Tabs /\ [tab EXCEPT !.here = TRUE].mounted = tab.mounted
    BY <1>1, TypesAre DEF Tabs
  <2>3. /\ tab'.mounted = tab.mounted
        /\ \A r \in Subs : stream'[r].state \in {"opening", Disconnected[r].state}
    BY <1>1, <1>14, <2>2, ConnectIs DEF SendReturns
  <2>4. \A r \in Subs : Opens(r)' => Opens(r)
    BY <1>1, <2>3, DisconnectedIs DEF Opens
  <2> QED
    BY <1>2, <2>1, <2>3, <2>4
<1>15. ASSUME NEW c \in Calls, Click(c) \/ AnswerReturns(c) \/ AnswerFails(c)
       PROVE  LinkInv'
  <2>1. /\ UNCHANGED <<moves, call, subscribers, stream>>
        /\ \E v \in {"request", "done", "failed"} : answer' = [answer EXCEPT ![c] = v]
    BY <1>15 DEF Click, AnswerReturns, AnswerFails, session
  <2>2. tab'.mounted = tab.mounted
    BY <1>1, <1>15, TypesAre DEF Click, AnswerReturns, AnswerFails, Tabs
  <2>3. \A d \in Calls : answer'[d] = "ok" => answer[d] = "ok"
    BY <1>1, <2>1 DEF TypeOK
  <2> QED
    BY <1>1, <2>1, <2>2, <2>3 DEF LinkInv, Opens
<1>16. ASSUME NEW c \in Calls, AnswerArrives(c) PROVE LinkInv'
  <2>1. UNCHANGED <<moves, tab, stream>>
    BY <1>16 DEF AnswerArrives
  <2>2. CASE Server!Answer(c) /\ answer' = [answer EXCEPT ![c] = "ok"]
    <3>1. /\ UNCHANGED subscribers
          /\ \E a \in {"allowed", "denied"} : call' = [call EXCEPT ![c] = a]
      BY <2>2 DEF Server!Answer, Server!Approve
    <3> QED
      BY <1>1, <2>1, <2>2, <3>1
         DEF LinkInv, Opens, TypeInv, TypeOK, SessionInv, SessionTypes
  <2>3. CASE answer' = [answer EXCEPT ![c] = "failed"] /\ UNCHANGED session
    <3>1. \A d \in Calls : answer'[d] = "ok" => answer[d] = "ok"
      BY <1>1, <2>3 DEF TypeOK
    <3> QED
      BY <1>1, <2>1, <2>3, <3>1 DEF LinkInv, Opens, session
  <2> QED
    BY <1>16, <2>2, <2>3 DEF AnswerArrives
<1>17. CASE Unmount
  <2>1. /\ UNCHANGED <<answer, call, subscribers>> /\ moves' = moves + 1
        /\ moves < MaxMoves /\ stream' = Disconnected
    BY <1>17 DEF Unmount, session, requests
  <2>2. moves' \in Mounts
    BY <1>1, <2>1, WorkbenchConstants DEF TypeOK, Mounts, WorkbenchConstants
  <2>3. \A r \in Subs : Opens(r)' => Opens(r)
    BY <1>1, <2>1, DisconnectedIs DEF Opens
  <2> QED
    BY <1>1, <2>1, <2>2, <2>3 DEF LinkInv
<1>18. CASE Mount
  <2>1. tab'.mounted
    BY <1>1, <1>18, TypesAre DEF Mount, Tabs
  <2> QED
    BY <1>1, <1>18, <2>1 DEF LinkInv, Mount, Opens, session
<1>19. CASE Select \/ SelectOther
  <2>1. UNCHANGED <<answer, call, subscribers, stream>> /\ moves' = moves + 1
        /\ moves < MaxMoves
    BY <1>19 DEF Select, SelectOther, session, requests
  <2>2. moves' \in Mounts
    BY <1>1, <2>1, WorkbenchConstants DEF TypeOK, Mounts, WorkbenchConstants
  <2> QED
    BY <1>1, <2>1, <2>2 DEF LinkInv, Opens
<1>20. ASSUME NEW k \in 0 .. MaxMoves, LoadArrives(k) \/ LoadFails(k) PROVE LinkInv'
  BY <1>2, <1>20 DEF LoadArrives, LoadFails, session, Opens
<1>21. ASSUME NEW k \in 0 .. MaxMoves, LoadReturns(k) PROVE LinkInv'
  <2>1. UNCHANGED <<moves, answer, call, subscribers>>
    BY <1>21 DEF LoadReturns, session
  <2>2. Applied(load[k]) \in Tabs /\ Applied(load[k]).mounted = tab.mounted
    BY <1>1, AppliedType DEF TypeOK
  <2>3. /\ tab'.mounted = tab.mounted
        /\ \/ UNCHANGED stream
           \/ \A r \in Subs : stream'[r].state \in {"opening", Disconnected[r].state}
    BY <1>1, <1>21, <2>2, ConnectIs DEF LoadReturns
  <2>4. \A r \in Subs : Opens(r)' => Opens(r)
    BY <1>1, <2>3, DisconnectedIs DEF Opens
  <2> QED
    BY <1>2, <2>1, <2>3, <2>4
<1> QED
  BY <1>3, <1>4, <1>5, <1>6, <1>7, <1>8, <1>9, <1>10, <1>11, <1>12, <1>13, <1>14,
     <1>15, <1>16, <1>17, <1>18, <1>19, <1>20, <1>21 DEF Next

-----------------------------------------------------------------------------
\* When no reconnection is fetching, disconnect() leaves nothing behind.
LEMMA DisconnectHolds ==
    ASSUME TypeInv, HoldInv, ~overtaken, \A s \in Subs : ~InFlight(stream[s].retry)
    PROVE  \A s \in Subs : /\ Disconnected[s].state \notin {"opening", "open"}
                           /\ Disconnected[s].retry = NoFetch
                              \/ Disconnected[s].retry.phase = "none"
<1>1. TypeOK /\ None \notin Subs
  BY WorkbenchConstants DEF TypeInv, WorkbenchConstants, None
<1>2. SUFFICES ASSUME NEW s \in Subs
               PROVE  /\ Disconnected[s].state \notin {"opening", "open"}
                      /\ Disconnected[s].retry = NoFetch
                         \/ Disconnected[s].retry.phase = "none"
  OBVIOUS
<1>3. /\ Active(s) => s = manager.current
      /\ stream[s].retry.phase # "none" => s = manager.timer /\ manager.current = None
  BY DEF HoldInv
<1>4. stream[s].retry.phase \in {"none", "waiting"}
  BY <1>1, StreamTypes DEF Fetches, InFlight
<1>5. Disconnected[s].state \notin {"opening", "open"}
  BY <1>1, <1>3, DisconnectedIs DEF Active
<1>6. Disconnected[s].retry = NoFetch \/ Disconnected[s].retry.phase = "none"
  BY <1>1, <1>3, <1>4, DisconnectedIs
<1> QED
  BY <1>5, <1>6

LEMMA ConnectHolds ==
    ASSUME TypeInv, HoldInv, NEW t \in Tabs, NEW w \in Turns \cup {NoTurn},
           Connect(t, w)
    PROVE  HoldInv'
<1> SUFFICES ASSUME ~overtaken', NEW s \in Subs
             PROVE  /\ Active(s)' => s = manager'.current
                    /\ stream'[s].retry.phase # "none" =>
                          s = manager'.timer /\ manager'.current = None
  BY DEF HoldInv
<1>1. ~overtaken /\ \A r \in Subs : ~InFlight(stream[r].retry)
  BY ConnectIs DEF TypeInv
<1>2. PICK q \in Subs : /\ manager'.current = q
                        /\ stream'[q].retry = Disconnected[q].retry
                        /\ \A r \in Subs \ {q} : stream'[r] = Disconnected[r]
  BY ConnectIs DEF TypeInv
<1>3. \A r \in Subs : /\ Disconnected[r].state \notin {"opening", "open"}
                      /\ Disconnected[r].retry.phase = "none"
  BY <1>1, DisconnectHolds DEF NoFetch
<1> QED
  BY <1>2, <1>3 DEF Active

LEMMA HoldStep ==
    ASSUME Inv, [Next]_vars
    PROVE  HoldInv'
<1>1. TypeInv /\ HoldInv /\ TypeOK /\ None \notin Subs
  BY WorkbenchConstants DEF Inv, TypeInv, WorkbenchConstants, None
<1>2. ASSUME UNCHANGED <<manager, overtaken>>,
             \A s \in Subs : /\ Active(s)' => Active(s)
                             /\ stream'[s].retry.phase # "none" => stream[s].retry.phase # "none"
      PROVE  HoldInv'
  BY <1>1, <1>2 DEF HoldInv
<1>3. CASE UNCHANGED vars
  BY <1>2, <1>3 DEF vars, history, Active
<1>4. CASE SessionWorks
  BY <1>1, <1>2, <1>4, WorksIs DEF Active
<1>5. ASSUME NEW s \in Subs, StreamOpens(s) PROVE HoldInv'
  BY <1>1, <1>2, <1>5, StreamOpensIs DEF Active
<1>6. ASSUME NEW s \in Subs, StreamCloses(s) PROVE HoldInv'
  BY <1>2, <1>6 DEF StreamCloses, history, Active
<1>7. ASSUME NEW s \in Subs, Deliver(s) PROVE HoldInv'
  <2>1. CASE Head(stream[s].wire).type = "approval_required"
    BY <1>1, <1>2, <1>7, <2>1, DeliverIs DEF Active
  <2>2. CASE Head(stream[s].wire).type # "approval_required"
    <3> SUFFICES ASSUME ~overtaken', NEW r \in Subs
                 PROVE  ~Active(r)' /\ stream'[r].retry.phase = "none"
      BY DEF HoldInv
    <3>1. /\ ~overtaken /\ \A q \in Subs : ~InFlight(stream[q].retry)
          /\ stream'[r].state = Disconnected[r].state
          /\ stream'[r].retry = Disconnected[r].retry
      BY <1>1, <1>7, <2>2, DeliverIs DEF Overtakes
    <3> QED
      BY <1>1, <3>1, DisconnectHolds DEF Active, NoFetch
  <2> QED
    BY <2>1, <2>2
<1>8. ASSUME NEW s \in Subs, Break(s) PROVE HoldInv'
  <2> SUFFICES ASSUME ~overtaken', NEW r \in Subs
               PROVE  /\ Active(r)' => r = manager'.current
                      /\ stream'[r].retry.phase # "none" =>
                            r = manager'.timer /\ manager'.current = None
    BY DEF HoldInv
  <2>1. ~overtaken /\ Active(s)
    BY <1>8 DEF Break, history
  <2>2. \A q \in Subs : /\ Active(q) => q = s
                        /\ stream[q].retry.phase = "none"
    BY <1>1, <2>1 DEF HoldInv
  <2> QED
    BY <1>1, <1>8, <2>2, BreakIs DEF Active
<1>9. ASSUME NEW s \in Subs, RetryAsks(s) PROVE HoldInv'
  <2>1. UNCHANGED <<manager, overtaken>>
    BY <1>9 DEF RetryAsks, history
  <2> QED
    BY <1>1, <1>2, <1>9, <2>1, RetryAsksIs DEF Active
<1>10. ASSUME NEW s \in Subs, RetryReturns(s) PROVE HoldInv'
  <2>1. UNCHANGED overtaken /\ NoFetch.phase = "none"
    BY <1>10 DEF RetryReturns, NoFetch
  <2>2. CASE \A r \in Subs : /\ stream'[r].state = stream[r].state
                             /\ r # s => stream'[r] = stream[r]
             /\ UNCHANGED manager
    BY <1>1, <1>2, <1>10, <2>1, <2>2, RetryReturnsIs DEF Active
  <2>3. ASSUME NEW q \in Subs, stream'[q].retry \in {NoFetch, stream[q].retry},
               manager' = [manager EXCEPT !.current = q],
               \A r \in Subs \ {q} : /\ stream'[r].state = stream[r].state
                                     /\ r # s => stream'[r] = stream[r]
        PROVE  HoldInv'
    <3> SUFFICES ASSUME ~overtaken', NEW r \in Subs
                 PROVE  /\ Active(r)' => r = manager'.current
                        /\ stream'[r].retry.phase = "none"
      BY DEF HoldInv
    <3>1. stream[s].retry.phase # "none" /\ stream'[s].retry.phase = "none"
      BY <1>1, <1>10, <2>1, RetryReturnsIs DEF InFlight
    <3>2. \A p \in Subs : ~Active(p) /\ (p # s => stream[p].retry.phase = "none")
      BY <1>1, <2>1, <3>1 DEF HoldInv
    <3>3. manager'.current = q
      BY <1>1, <2>3 DEF TypeOK
    <3> QED
      BY <2>1, <2>3, <3>1, <3>2, <3>3 DEF Active
  <2> QED
    BY <1>1, <1>10, <2>2, <2>3, RetryReturnsIs
<1>11. ASSUME NEW s \in Subs, RetryFails(s) PROVE HoldInv'
  <2>1. UNCHANGED <<manager, overtaken>> /\ NoFetch.phase = "none"
    BY <1>11 DEF RetryFails, history, NoFetch
  <2> QED
    BY <1>1, <1>2, <1>11, <2>1, RetryFailsIs DEF Active
<1>12. ASSUME UNCHANGED <<stream, manager, overtaken>> PROVE HoldInv'
  BY <1>2, <1>12 DEF Active
<1>13. ASSUME NEW t \in Turns, Send(t) \/ PostArrives(t) \/ SendFails(t) \/ SendFinally(t)
       PROVE  HoldInv'
  BY <1>12, <1>13 DEF Send, PostArrives, SendFails, SendFinally, history
<1>14. ASSUME NEW t \in Turns, SendReturns(t) PROVE HoldInv'
  <2>1. [tab EXCEPT !.here = TRUE] \in Tabs
    BY <1>1, TypesAre DEF Tabs
  <2> QED
    BY <1>1, <1>14, <2>1, ConnectHolds DEF SendReturns
<1>15. ASSUME NEW c \in Calls,
              Click(c) \/ AnswerArrives(c) \/ AnswerReturns(c) \/ AnswerFails(c)
       PROVE  HoldInv'
  BY <1>12, <1>15 DEF Click, AnswerArrives, AnswerReturns, AnswerFails, history
<1>16. CASE Unmount
  <2> SUFFICES ASSUME ~overtaken', NEW r \in Subs
               PROVE  ~Active(r)' /\ stream'[r].retry.phase = "none"
    BY DEF HoldInv
  <2>1. /\ ~overtaken /\ \A q \in Subs : ~InFlight(stream[q].retry)
        /\ stream' = Disconnected
    BY <1>16 DEF Unmount, Overtakes
  <2> QED
    BY <1>1, <2>1, DisconnectHolds DEF Active, NoFetch
<1>17. CASE Mount \/ Select \/ SelectOther
  BY <1>12, <1>17 DEF Mount, Select, SelectOther, history
<1>18. ASSUME NEW k \in 0 .. MaxMoves, LoadArrives(k) \/ LoadFails(k) PROVE HoldInv'
  BY <1>12, <1>18 DEF LoadArrives, LoadFails, history
<1>19. ASSUME NEW k \in 0 .. MaxMoves, LoadReturns(k) PROVE HoldInv'
  <2>1. Applied(load[k]) \in Tabs
    BY <1>1, AppliedType DEF TypeOK
  <2> QED
    BY <1>1, <1>12, <1>19, <2>1, ConnectHolds DEF LoadReturns
<1> QED
  BY <1>3, <1>4, <1>5, <1>6, <1>7, <1>8, <1>9, <1>10, <1>11, <1>13, <1>14, <1>15,
     <1>16, <1>17, <1>18, <1>19 DEF Next

-----------------------------------------------------------------------------
\* Apart from the session's steps and the opening of a stream, no step adds
\* to what is on its way.
LEMMA WiresShrink ==
    ASSUME TypeInv, [Next]_vars
    PROVE  \/ SessionWorks
           \/ \E s \in Subs : StreamOpens(s)
           \/ \A s \in Subs :
                 Opens(s)' => /\ Opens(s)
                              /\ stream'[s].wire \in {stream[s].wire,
                                                      Tail(stream[s].wire), <<>>}
<1> DEFINE Shrinks == \A s \in Subs :
                         Opens(s)' => /\ Opens(s)
                                      /\ stream'[s].wire \in {stream[s].wire,
                                                              Tail(stream[s].wire), <<>>}
<1>1. TypeOK
  BY DEF TypeInv
<1>2. ASSUME UNCHANGED stream PROVE Shrinks
  BY <1>2 DEF Opens
<1>3. \A s \in Subs : Disconnected[s].state = "open" =>
         /\ Opens(s) /\ Disconnected[s].wire \in {stream[s].wire, <<>>}
  BY <1>1, DisconnectedIs DEF Opens
<1>4. ASSUME NEW t \in Tabs, NEW w \in Turns \cup {NoTurn}, Connect(t, w)
      PROVE  Shrinks
  <2>1. PICK q \in Subs : /\ stream'[q].state = "opening"
                          /\ \A r \in Subs \ {q} : stream'[r] = Disconnected[r]
    BY <1>1, <1>4, ConnectIs
  <2> QED
    BY <1>3, <2>1 DEF Opens
<1>5. CASE UNCHANGED vars
  BY <1>2, <1>5 DEF vars
<1>6. ASSUME NEW s \in Subs,
             StreamCloses(s) \/ Deliver(s) \/ Break(s) \/ RetryAsks(s)
             \/ RetryReturns(s) \/ RetryFails(s)
      PROVE  Shrinks
  <2>1. CASE StreamCloses(s)
    BY <1>2, <2>1 DEF StreamCloses
  <2>2. CASE Deliver(s)
    <3>1. CASE Head(stream[s].wire).type = "approval_required"
      BY <1>1, <2>2, <3>1, DeliverIs DEF Opens
    <3>2. CASE Head(stream[s].wire).type # "approval_required"
      <4>1. \A r \in Subs :
               /\ stream'[r].state = Disconnected[r].state
               /\ stream'[r].wire \in {stream[r].wire, Tail(stream[r].wire), <<>>}
        BY <1>1, <2>2, <3>2, DeliverIs
      <4> QED
        BY <1>3, <4>1 DEF Opens
    <3> QED
      BY <3>1, <3>2
  <2>3. CASE Break(s)
    BY <2>3, BreakIs DEF Opens
  <2>4. CASE RetryAsks(s)
    BY <2>4, RetryAsksIs DEF Opens
  <2>5. CASE RetryReturns(s)
    BY <2>5, RetryReturnsIs DEF Opens
  <2>6. CASE RetryFails(s)
    BY <2>6, RetryFailsIs DEF Opens
  <2> QED
    BY <1>6, <2>1, <2>2, <2>3, <2>4, <2>5, <2>6
<1>7. ASSUME NEW t \in Turns, SendReturns(t) PROVE Shrinks
  <2>1. [tab EXCEPT !.here = TRUE] \in Tabs
    BY <1>1, TypesAre DEF Tabs
  <2> QED
    BY <1>4, <1>7, <2>1 DEF SendReturns
<1>8. ASSUME NEW t \in Turns, Send(t) \/ PostArrives(t) \/ SendFails(t) \/ SendFinally(t)
      PROVE  Shrinks
  BY <1>2, <1>8 DEF Send, PostArrives, SendFails, SendFinally
<1>9. ASSUME NEW c \in Calls,
             Click(c) \/ AnswerArrives(c) \/ AnswerReturns(c) \/ AnswerFails(c)
      PROVE  Shrinks
  BY <1>2, <1>9 DEF Click, AnswerArrives, AnswerReturns, AnswerFails
<1>10. CASE Unmount
  BY <1>3, <1>10 DEF Unmount, Opens
<1>11. CASE Mount \/ Select \/ SelectOther
  BY <1>2, <1>11 DEF Mount, Select, SelectOther
<1>12. ASSUME NEW k \in 0 .. MaxMoves,
              LoadArrives(k) \/ LoadFails(k) \/ LoadReturns(k)
       PROVE  Shrinks
  <2>1. Applied(load[k]) \in Tabs
    BY <1>1, AppliedType DEF TypeOK
  <2> QED
    BY <1>2, <1>4, <1>12, <2>1 DEF LoadArrives, LoadFails, LoadReturns
<1> QED
  BY <1>5, <1>6, <1>7, <1>8, <1>9, <1>10, <1>11, <1>12 DEF Next

\* What the tab asks for does not suspend the session.
LEMMA SuspensionIs ==
    ASSUME [Next]_vars, status' = "suspended_for_approval"
    PROVE  SessionWorks \/ UNCHANGED <<status, pendingApproval>>
<1>1. CASE UNCHANGED session
  BY <1>1 DEF session
<1>2. CASE \E s \in Subs : StreamOpens(s) \/ StreamCloses(s)
  BY <1>2 DEF StreamOpens, StreamCloses, Server!Subscribe, Server!Unsubscribe
<1>3. CASE \E s \in Subs : Deliver(s) \/ Break(s) \/ RetryAsks(s)
                           \/ RetryReturns(s) \/ RetryFails(s)
  BY <1>1, <1>3 DEF Deliver, Break, RetryAsks, RetryReturns, RetryFails
<1>4. CASE \E t \in Turns : PostArrives(t)
  BY <1>4 DEF PostArrives, Server!SubmitMessage, Server!RejectMessage
<1>5. CASE \E t \in Turns : Send(t) \/ SendReturns(t) \/ SendFails(t) \/ SendFinally(t)
  BY <1>1, <1>5 DEF Send, SendReturns, SendFails, SendFinally
<1>6. CASE \E c \in Calls : AnswerArrives(c)
  BY <1>1, <1>6 DEF AnswerArrives, Server!Answer, Server!Approve, Server!Resume
<1>7. CASE \E c \in Calls : Click(c) \/ AnswerReturns(c) \/ AnswerFails(c)
  BY <1>1, <1>7 DEF Click, AnswerReturns, AnswerFails
<1>8. CASE Unmount \/ Mount \/ Select \/ SelectOther
  BY <1>1, <1>8 DEF Unmount, Mount, Select, SelectOther
<1>9. CASE \E k \in 0 .. MaxMoves : LoadArrives(k) \/ LoadFails(k) \/ LoadReturns(k)
  BY <1>1, <1>9 DEF LoadArrives, LoadFails, LoadReturns
<1>10. CASE UNCHANGED vars
  BY <1>1, <1>10 DEF vars
<1> QED
  BY <1>2, <1>3, <1>4, <1>5, <1>6, <1>7, <1>8, <1>9, <1>10 DEF Next

LEMMA WorksSuspended ==
    ASSUME TypeInv, SessionWorks, status' = "suspended_for_approval"
    PROVE  \/ UNCHANGED <<status, pendingApproval, stream>>
           \/ \E c \in Calls : /\ Server!CanUseTool(c) /\ pendingApproval' = c
                               /\ Emit(Approval(c))
<1>1. CASE \E t \in Turns :
             \/ /\ \E isError \in BOOLEAN : Server!EngineEnds(t, isError)
                /\ messages' = messages => UNCHANGED stream
             \/ Server!WriteBackDone(t)
             \/ /\ Server!EngineThrows(t)
                /\ messages' = messages => UNCHANGED stream
  <2>1. PICK t \in Turns :
             \/ /\ \E isError \in BOOLEAN : Server!EngineEnds(t, isError)
                /\ messages' = messages => UNCHANGED stream
             \/ Server!WriteBackDone(t)
             \/ /\ Server!EngineThrows(t)
                /\ messages' = messages => UNCHANGED stream
    BY <1>1
  <2>2. ~Server!WriteBackDone(t)
    BY DEF Server!WriteBackDone, Server!Finalize
  <2>3. ASSUME NEW isError \in BOOLEAN, Server!EngineEnds(t, isError)
        PROVE  UNCHANGED <<status, pendingApproval, messages>>
    BY <2>3 DEF Server!EngineEnds, Server!Finalize, Server!ApprovalPending
  <2>4. ASSUME Server!EngineThrows(t)
        PROVE  UNCHANGED <<status, pendingApproval, messages>>
    BY <2>4 DEF Server!EngineThrows
  <2> QED
    BY <2>1, <2>2, <2>3, <2>4
<1>2. CASE \E t \in Turns : Server!AssistantText(t) /\ UNCHANGED stream
  BY <1>2 DEF Server!AssistantText
<1>3. CASE \E c \in Calls : Server!StartTool(c) /\ UNCHANGED stream
  BY <1>3 DEF Server!StartTool
<1>4. CASE \E c \in Calls : Server!CanUseTool(c) /\ Emit(Approval(c))
  BY <1>4 DEF Server!CanUseTool
<1> QED
  BY <1>1, <1>2, <1>3, <1>4 DEF SessionWorks

LEMMA WireStep ==
    ASSUME Inv, [Next]_vars
    PROVE  WireInv'
<1> SUFFICES ASSUME status' = "suspended_for_approval", NEW r \in Subs,
                    Opens(r)', stream'[r].wire # <<>>
             PROVE  stream'[r].wire[Len(stream'[r].wire)] = Approval(pendingApproval')
  BY DEF WireInv, Approval
<1>1. TypeInv /\ TypeOK /\ WireInv /\ LinkInv /\ stream[r].wire \in Seq(Events)
  BY StreamTypes DEF Inv, TypeInv
<1>2. CASE SessionWorks
  <2>1. CASE UNCHANGED <<status, pendingApproval, stream>>
    BY <1>1, <2>1 DEF WireInv, Opens
  <2>2. ASSUME NEW c \in Calls, pendingApproval' = c, Emit(Approval(c))
        PROVE  stream'[r].wire[Len(stream'[r].wire)] = Approval(pendingApproval')
    <3>1. Approval(c) \in Events
      BY EventTypes
    <3>2. Opens(r)
      BY <1>1, <2>2, <3>1, EmitType DEF Opens
    <3>3. stream'[r].wire = Append(stream[r].wire, Approval(c))
      BY <1>1, <2>2, <3>1, <3>2, EmitType DEF LinkInv
    <3> QED
      BY <1>1, <2>2, <3>1, <3>3
  <2> QED
    BY <1>1, <1>2, <2>1, <2>2, WorksSuspended
<1>3. ASSUME NEW s \in Subs, StreamOpens(s)
      PROVE  stream'[r].wire[Len(stream'[r].wire)] = Approval(pendingApproval')
  <2>1. UNCHANGED <<status, pendingApproval>>
    BY <1>1, <1>3, StreamOpensIs
  <2>2. CASE r = s
    <3>1. stream'[r].wire = <<Approval(pendingApproval)>>
      BY <1>1, <1>3, <2>1, <2>2, StreamOpensIs DEF GreetingEvents
    <3> QED
      BY <2>1, <3>1
  <2>3. CASE r # s
    <3>1. stream'[r] = stream[r]
      BY <1>1, <1>3, <2>3, StreamOpensIs
    <3> QED
      BY <1>1, <2>1, <3>1 DEF WireInv, Opens
  <2> QED
    BY <2>2, <2>3
<1>4. CASE Opens(r) /\ stream'[r].wire \in {stream[r].wire, Tail(stream[r].wire), <<>>}
  <2>1. CASE UNCHANGED <<status, pendingApproval>>
    <3>1. CASE stream[r].wire = <<>>
      BY <1>4, <3>1
    <3>2. CASE stream[r].wire # <<>>
      <4>1. stream[r].wire[Len(stream[r].wire)] = Approval(pendingApproval)
        BY <1>1, <1>4, <2>1, <3>2 DEF WireInv
      <4>2. Tail(stream[r].wire) # <<>> =>
               Tail(stream[r].wire)[Len(Tail(stream[r].wire))] = stream[r].wire[Len(stream[r].wire)]
        BY <1>1, <3>2
      <4> QED
        BY <1>4, <2>1, <4>1, <4>2
    <3> QED
      BY <3>1, <3>2
  <2> QED
    BY <1>2, <2>1, SuspensionIs
<1> QED
  BY <1>1, <1>2, <1>3, <1>4, WiresShrink

-----------------------------------------------------------------------------
\* A turn's end that leaves the session at rest is told to who listens.
LEMMA EndIsTold ==
    ASSUME TypeInv, SessionWorks, ~AtRest, AtRest'
    PROVE  Emit(Completed) \/ Emit(Error)
<1>1. /\ turn \in [Turns -> {"unsent", "rejected", "engine", "writeback", "ended"}]
      /\ call \in [Calls -> {"idle", "started", "asking", "allowed", "denied"}]
      /\ pendingApproval \in Calls \cup {NoCall} /\ Server!SuspendedOnLiveCall
      /\ \A c \in Calls : call[c] \in {"started", "asking"} => turn[c[1]] = "engine"
  BY DEF TypeInv, SessionInv, SessionTypes
<1>2. ASSUME NEW t \in Turns, UNCHANGED turn PROVE FALSE
  BY <1>2 DEF AtRest, Server!Live
<1>3. \A c \in Calls : c[1] \in Turns
  BY WorkbenchConstants DEF WorkbenchConstants
\* While an approval is pending, its call keeps another turn alive.
<1>4. ASSUME NEW t \in Turns, NEW st, Server!EngineMayEnd(t), Server!ApprovalPending(st),
             st \in {status, "error"}, turn' = [turn EXCEPT ![t] = "ended"]
      PROVE  FALSE
  <2>1. pendingApproval \in Calls /\ call[pendingApproval] = "asking"
    BY <1>1, <1>4 DEF Server!ApprovalPending, Server!SuspendedOnLiveCall
  <2>2. pendingApproval[1] # t
    BY <1>4, <2>1 DEF Server!EngineMayEnd, Server!Outstanding, Server!TurnOf
  <2>3. turn'[pendingApproval[1]] = "engine"
    BY <1>1, <1>3, <1>4, <2>1, <2>2
  <2> QED
    BY <1>3, <2>1, <2>3 DEF AtRest, Server!Live
<1>m. ASSUME NEW t \in Turns, NEW kind \in {"reply", "system_error"}
      PROVE  Append(messages, <<kind, t>>) # messages
  BY <1>m, AppendEntry DEF TypeInv, SessionInv, Transcript
<1>5. ASSUME NEW t \in Turns, NEW isError \in BOOLEAN, Server!EngineEnds(t, isError),
             IF messages' # messages /\ turn'[t] = "ended"
             THEN Emit(Completed) ELSE UNCHANGED stream
      PROVE  Emit(Completed)
  <2> DEFINE st == IF isError THEN "error" ELSE status
  <2>1. CASE Server!ApprovalPending(st) /\ turn' = [turn EXCEPT ![t] = "ended"]
    <3>1. st \in {status, "error"} /\ Server!EngineMayEnd(t)
      BY <1>5 DEF Server!EngineEnds
    <3> HIDE DEF st
    <3> QED
      BY <1>4, <2>1, <3>1
  <2>2. CASE turn' = [turn EXCEPT ![t] = "writeback"]
    <3>1. turn'[t] = "writeback"
      BY <1>1, <2>2
    <3> QED
      BY <3>1 DEF AtRest, Server!Live
  <2>3. CASE messages' = Append(messages, <<"reply", t>>) /\ Server!Finalize(t)
    <3>1. turn'[t] = "ended" /\ messages' # messages
      BY <1>1, <1>m, <2>3 DEF Server!Finalize
    <3> QED
      BY <1>5, <3>1
  <2> QED
    BY <1>5, <2>1, <2>2, <2>3 DEF Server!EngineEnds
<1>7. ASSUME NEW t \in Turns, Server!EngineThrows(t),
             IF messages' # messages THEN Emit(Error) ELSE UNCHANGED stream
      PROVE  Emit(Error)
  <2>1. CASE Server!ApprovalPending(status)
    BY <1>4, <1>7, <2>1 DEF Server!EngineThrows
  <2>2. CASE messages' = Append(messages, <<"system_error", t>>)
    BY <1>7, <1>m, <2>2
  <2> QED
    BY <1>7, <2>1, <2>2 DEF Server!EngineThrows
<1>8. ASSUME NEW t \in Turns, Server!AssistantText(t) PROVE FALSE
  BY <1>2, <1>8 DEF Server!AssistantText
<1>9. ASSUME NEW c \in Calls, Server!StartTool(c) \/ Server!CanUseTool(c) PROVE FALSE
  BY <1>2, <1>3, <1>9 DEF Server!StartTool, Server!CanUseTool
<1> QED
  BY <1>5, <1>7, <1>8, <1>9 DEF SessionWorks

\* Who hears of the session's end goes on hearing of it.
LEMMA WorksHears ==
    ASSUME Inv, SessionWorks, NEW s \in Subs, Hears(s)
    PROVE  Hears(s)'
<1>1. TypeInv /\ TypeOK /\ LinkInv /\ stream[s].wire \in Seq(Events)
  BY StreamTypes DEF Inv, TypeInv
<1>2. UNCHANGED late /\ Opens(s) /\ Opens(s)'
  BY <1>1, WorksIs DEF Hears, Opens
<1>3. ASSUME NEW e \in Events, Emit(e)
      PROVE  stream'[s].wire = Append(stream[s].wire, e)
  BY <1>1, <1>2, <1>3, EmitType DEF LinkInv
<1>4. ASSUME Ends(stream[s].wire) PROVE Ends(stream'[s].wire)
  <2>1. CASE UNCHANGED stream
    BY <1>4, <2>1
  <2>2. CASE \E e \in Events : Emit(e)
    BY <1>1, <1>3, <1>4, <2>2 DEF Ends
  <2> QED
    BY <2>1, <2>2, EventTypes DEF SessionWorks
<1>5. ASSUME ~AtRest, AtRest' PROVE Ends(stream'[s].wire)
  <2>1. \E e \in {Completed, Error} : stream'[s].wire = Append(stream[s].wire, e)
    BY <1>1, <1>3, <1>5, EndIsTold, EventTypes
  <2> QED
    BY <1>1, <2>1 DEF Ends
<1> QED
  BY <1>2, <1>4, <1>5 DEF Hears

LEMMA WorksBack ==
    ASSUME Inv, SessionWorks
    PROVE  BackInv'
<1>1. TypeInv /\ BackInv /\ LinkInv
  BY DEF Inv
<1>2. (Waits' => Waits) /\ (Coming => Coming')
  BY <1>1, WorksIs DEF Waits, Coming, requests
<1> SUFFICES ASSUME Hearing, Showing PROVE Hearing' /\ Showing'
  BY <1>1, <1>2 DEF BackInv
<1>3. PICK s \in Subs : Hears(s)
  BY DEF Hearing
<1>4. Hearing' /\ Opens(s) /\ Opens(s)'
  BY <1>3, WorksHears DEF Hearing, Hears
<1>5. Showing'
  <2>1. SUFFICES ASSUME status' = "suspended_for_approval" PROVE Showing'
    BY DEF Showing
  <2>2. CASE UNCHANGED <<status, pendingApproval, stream>>
    BY <1>1, <2>1, <2>2, WorksIs DEF Showing, Opens
  <2>3. ASSUME NEW c \in Calls, Emit(Approval(c)) PROVE Showing'
    <3>1. stream'[s].wire = Append(stream[s].wire, Approval(c)) /\ stream[s].wire \in Seq(Events)
      BY <1>1, <1>4, <2>3, EmitType, EventTypes, StreamTypes DEF LinkInv, TypeInv
    <3>2. stream'[s].wire # <<>>
      BY <3>1, EventTypes
    <3> QED
      BY <1>4, <3>2 DEF Showing
  <2> QED
    BY <1>1, <2>1, <2>2, <2>3, WorksSuspended
<1> QED
  BY <1>4, <1>5

LEMMA DeliverBack ==
    ASSUME Inv, NEW s \in Subs, Deliver(s)
    PROVE  BackInv'
<1>1. TypeInv /\ TypeOK /\ BackInv /\ WireInv /\ tab \in Tabs
  BY TypesAre DEF Inv, TypeInv
<1>2. UNCHANGED <<status, pendingApproval, turn, load, late, erased, unbacked>>
  BY DEF Deliver, session
<1>3. /\ Opens(s) /\ stream[s].wire # <<>> /\ stream[s].wire \in Seq(Events)
  BY <1>1, DeliverIs, StreamTypes DEF Opens
<1>4. CASE Head(stream[s].wire).type # "approval_required"
  BY <1>1, <1>4, DeliverIs DEF BackInv, Waits, Tabs
<1>5. CASE Head(stream[s].wire).type = "approval_required"
  <2>1. /\ tab' = [tab EXCEPT !.card = Head(stream[s].wire).call]
        /\ UNCHANGED send
        /\ \A r \in Subs :
              /\ stream'[r].state = stream[r].state /\ stream'[r].retry = stream[r].retry
              /\ stream'[r].wire = IF r = s THEN Tail(stream[s].wire) ELSE stream[r].wire
    BY <1>1, <1>5, DeliverIs
  <2>2. (Waits' => Waits) /\ (Coming => Coming')
    BY <1>1, <1>2, <2>1 DEF Waits, Coming, Tabs
  <2> SUFFICES ASSUME Hearing, Showing PROVE Hearing' /\ Showing'
    BY <1>1, <2>2 DEF BackInv
  <2>3. Ends(stream[s].wire) => Ends(Tail(stream[s].wire))
    <3>1. Head(stream[s].wire) \notin {Completed, Error}
      BY <1>5 DEF Completed, Error
    <3>2. SUFFICES ASSUME NEW i \in 1 .. Len(stream[s].wire),
                          stream[s].wire[i] \in {Completed, Error}
                   PROVE  Ends(Tail(stream[s].wire))
      BY DEF Ends
    <3>3. i # 1
      BY <1>3, <3>1, <3>2
    <3>4. /\ i - 1 \in 1 .. Len(Tail(stream[s].wire))
          /\ Tail(stream[s].wire)[i - 1] = stream[s].wire[i]
      BY <1>3, <3>3
    <3> QED
      BY <3>2, <3>4 DEF Ends
  <2>4. Hearing'
    BY <1>2, <2>1, <2>3 DEF Hearing, Hears, Opens, AtRest, Server!Live
  <2>5. Showing'
    <3>1. SUFFICES ASSUME status = "suspended_for_approval",
                          ~\E r \in Subs : Opens(r)' /\ stream'[r].wire # <<>>
                   PROVE  tab'.card = pendingApproval
      BY <1>2 DEF Showing
    <3>2. Tail(stream[s].wire) = <<>>
      BY <1>3, <2>1, <3>1 DEF Opens
    <3>3. Len(stream[s].wire) = 1
      <4>1. Len(Tail(stream[s].wire)) = Len(stream[s].wire) - 1
        BY <1>3
      <4>2. Len(Tail(stream[s].wire)) = Len(<<>>)
        BY <3>2, Zenon
      <4>3. Len(<<>>) = 0 /\ Len(stream[s].wire) \in Nat
        BY <1>3
      <4> QED
        BY <4>1, <4>2, <4>3
    <3>4. Head(stream[s].wire) = Approval(pendingApproval)
      BY <1>1, <1>3, <3>1, <3>3 DEF WireInv
    <3> QED
      BY <1>1, <2>1, <3>4 DEF Approval, Tabs
  <2> QED
    BY <2>4, <2>5
<1> QED
  BY <1>4, <1>5

LEMMA OpensBack ==
    ASSUME TypeInv, NEW s \in Subs, StreamOpens(s)
    PROVE  BackInv'
<1>1. /\ Opens(s)' /\ stream'[s].wire = GreetingEvents
      /\ late' = IF AtRest THEN late \cup {s} ELSE late
      /\ UNCHANGED <<status, pendingApproval, turn>>
  BY StreamOpensIs DEF Opens
<1>2. Hears(s)'
  BY <1>1 DEF Hears, AtRest, Server!Live
<1>3. Showing'
  BY <1>1 DEF Showing, GreetingEvents
<1> QED
  BY <1>2, <1>3 DEF BackInv, Hearing

LEMMA MountsAre == \A k \in Mounts : k \in 0 .. MaxMoves /\ k # 0
BY WorkbenchConstants DEF Mounts, WorkbenchConstants

LEMMA BackStep ==
    ASSUME Inv, [Next]_vars
    PROVE  BackInv'
<1>1. /\ TypeInv /\ TypeOK /\ LinkInv /\ BackInv /\ tab \in Tabs
      /\ send \in [Turns -> Sends] /\ load \in [0 .. MaxMoves -> Fetches]
  BY TypesAre DEF Inv, TypeInv, RestTypes
<1>2. ASSUME Coming' \/ ~Waits' PROVE BackInv'
  BY <1>2 DEF BackInv
<1>3. ASSUME UNCHANGED <<turn, stream, send, late>>, Waits' => Waits,
             \A k \in Mounts : load'[k] = load[k],
             status' = "running" \/ UNCHANGED <<status, pendingApproval, erased, tab>>
      PROVE  BackInv'
  <2>1. (Coming => Coming') /\ (Hearing => Hearing')
    BY <1>3 DEF Coming, Hearing, Hears, Opens, AtRest, Server!Live
  <2>2. Showing => Showing'
    BY <1>3 DEF Showing, Opens
  <2> QED
    BY <1>1, <1>3, <2>1, <2>2 DEF BackInv
<1>4. ASSUME NEW t \in Tabs, NEW w \in Turns \cup {NoTurn}, Connect(t, w)
      PROVE  BackInv'
  <2>1. \E s \in Subs : stream'[s].state = "opening"
    BY <1>1, <1>4, ConnectIs
  <2> QED
    BY <1>2, <2>1 DEF Coming
<1>5. CASE UNCHANGED vars
  BY <1>3, <1>5 DEF vars, session, requests, history, Waits
<1>6. CASE SessionWorks
  BY <1>6, WorksBack
<1>7. ASSUME NEW s \in Subs, StreamOpens(s) \/ StreamCloses(s) \/ Deliver(s) PROVE BackInv'
  <2>1. CASE StreamCloses(s)
    BY <1>3, <2>1 DEF StreamCloses, Server!Unsubscribe, requests, history, Waits
  <2> QED
    BY <1>1, <1>7, <2>1, OpensBack, DeliverBack
<1>8. ASSUME NEW s \in Subs, Break(s) \/ RetryAsks(s) \/ RetryReturns(s) \/ RetryFails(s)
      PROVE  BackInv'
  <2>1. \/ ~tab'.streaming
        \/ stream'[s].retry.phase # "none"
        \/ \E q \in Subs : stream'[q].state = "opening"
    <3>1. CASE Break(s)
      BY <1>1, <3>1, BreakIs DEF Tabs
    <3>2. CASE RetryAsks(s)
      BY <1>1, <3>2, RetryAsksIs
    <3>3. CASE RetryReturns(s)
      BY <1>1, <3>3, RetryReturnsIs
    <3>4. CASE RetryFails(s)
      BY <1>1, <3>4, RetryFailsIs DEF Tabs
    <3> QED
      BY <1>8, <3>1, <3>2, <3>3, <3>4
  <2> QED
    BY <1>2, <2>1 DEF Coming, Waits
<1>9. ASSUME NEW t \in Turns, Send(t) \/ PostArrives(t) PROVE BackInv'
  <2>1. send'[t] \in {"request", "response"}
    BY <1>1, <1>9 DEF Send, PostArrives
  <2> QED
    BY <1>2, <2>1 DEF Coming
<1>10. ASSUME NEW t \in Turns, SendReturns(t) PROVE BackInv'
  <2>1. [tab EXCEPT !.here = TRUE] \in Tabs
    BY <1>1 DEF Tabs
  <2> QED
    BY <1>4, <1>10, <2>1 DEF SendReturns
<1>11. ASSUME NEW t \in Turns, SendFails(t) \/ SendFinally(t) PROVE BackInv'
  <2>1. ~tab'.streaming
    BY <1>1, <1>11 DEF SendFails, SendFinally, Tabs
  <2> QED
    BY <1>2, <2>1 DEF Waits
<1>12. ASSUME NEW c \in Calls, Click(c) \/ AnswerFails(c) PROVE BackInv'
  BY <1>3, <1>12 DEF Click, AnswerFails, session, history, Waits
<1>13. ASSUME NEW c \in Calls, AnswerArrives(c) PROVE BackInv'
  <2>1. /\ UNCHANGED <<turn, stream, tab, send, load, late, erased, unbacked>>
        /\ status' = "running" \/ UNCHANGED <<status, pendingApproval>>
    BY <1>13 DEF AnswerArrives, session, history, Server!Answer, Server!Approve,
                 Server!Resume
  <2> QED
    BY <1>3, <2>1 DEF Waits
<1>14. ASSUME NEW c \in Calls, AnswerReturns(c) PROVE BackInv'
  <2>1. /\ UNCHANGED <<status, pendingApproval, turn, stream, send, load, late, unbacked>>
        /\ tab' = [tab EXCEPT !.card = NoCall] /\ answer[c] = "ok"
        /\ erased' = IF tab.card \in {c, NoCall} THEN erased ELSE erased \cup {tab.card}
    BY <1>14 DEF AnswerReturns, session
  <2>2. /\ (Waits' => Waits) /\ (Coming => Coming') /\ (Hearing => Hearing')
    BY <1>1, <2>1 DEF Waits, Coming, Hearing, Hears, Opens, AtRest, Server!Live, Tabs
  <2>3. status = "suspended_for_approval" => pendingApproval \notin {c, NoCall}
    BY <1>1, <2>1 DEF LinkInv, TypeInv, SessionInv, Server!SuspendedOnLiveCall
  <2>4. Showing => Showing'
    BY <2>1, <2>3 DEF Showing, Opens
  <2> QED
    BY <1>1, <2>2, <2>4 DEF BackInv
<1>15. CASE Unmount \/ SelectOther
  <2>1. CASE Unmount
    BY <1>1, <1>2, <2>1 DEF Unmount, Waits, Tabs
  <2>2. CASE SelectOther
    <3>1. Request(FALSE) \in Fetches /\ ~BusySnapshot(Request(FALSE))
      BY FetchTypes DEF Request, NoFetch, BusySnapshot
    <3>2. ~tab'.streaming
      BY <1>1, <2>2, <3>1, AppliedType DEF SelectOther
    <3> QED
      BY <1>2, <3>2 DEF Waits
  <2> QED
    BY <1>15, <2>1, <2>2
<1>16. CASE Mount
  <2>1. moves \in Mounts /\ load' = [load EXCEPT ![moves] = Request(tab.here)]
    BY <1>1, <1>16 DEF Mount, LinkInv
  <2>2. load'[moves].phase # "none"
    BY <1>1, <2>1 DEF Mounts, Request, NoFetch
  <2> QED
    BY <1>2, <2>1, <2>2 DEF Coming
<1>17. CASE Select
  <2>1. load' = [load EXCEPT ![0] = Response(Request(TRUE))]
    BY <1>17 DEF Select
  <2>2. \A k \in Mounts : load'[k] = load[k]
    BY <1>1, <2>1, MountsAre
  <2> QED
    BY <1>3, <1>17, <2>2 DEF Select, session, history, Waits
<1>18. ASSUME NEW k \in 0 .. MaxMoves, LoadArrives(k) PROVE BackInv'
  <2>1. CASE k = 0
    <3>1. \A j \in Mounts : load'[j] = load[j]
      BY <1>1, <1>18, <2>1 DEF LoadArrives, Mounts
    <3> QED
      BY <1>3, <1>18, <3>1 DEF LoadArrives, session, history, Waits
  <2>2. CASE k # 0
    <3>1. k \in Mounts /\ load'[k] = Response(load[k]) /\ load[k] \in Fetches
      BY <1>1, <1>18, <2>2, WorkbenchConstants DEF LoadArrives, Mounts, WorkbenchConstants
    <3>2. load'[k].phase = "response"
      BY <3>1 DEF Response, Fetches
    <3> QED
      BY <1>2, <3>1, <3>2 DEF Coming
  <2> QED
    BY <2>1, <2>2
<1>19. ASSUME NEW k \in 0 .. MaxMoves, LoadFails(k) PROVE BackInv'
  <2>1. CASE k = 0
    <3>1. \A j \in Mounts : load'[j] = load[j]
      BY <1>1, <1>19, <2>1, MountsAre DEF LoadFails
    <3>2. unbacked' <=> unbacked
      BY <1>19, <2>1, Zenon DEF LoadFails
    <3> QED
      BY <1>3, <1>19, <3>1, <3>2 DEF LoadFails, session, Waits
  <2>2. CASE k # 0
    BY <1>2, <1>19, <2>2 DEF LoadFails, Waits
  <2> QED
    BY <2>1, <2>2
<1>20. ASSUME NEW k \in 0 .. MaxMoves, LoadReturns(k) PROVE BackInv'
  <2>1. Applied(load[k]) \in Tabs /\ Applied(load[k]).streaming = BusySnapshot(load[k])
    BY <1>1, AppliedType
  <2>2. CASE Connect(Applied(load[k]), NoTurn)
    BY <1>4, <2>1, <2>2
  <2>3. CASE /\ k = 0 \/ ~BusySnapshot(load[k])
             /\ tab' = Applied(load[k]) /\ unbacked' = (k = 0)
    BY <1>2, <2>1, <2>3 DEF Waits
  <2> QED
    BY <1>20, <2>2, <2>3 DEF LoadReturns
<1> QED
  BY <1>5, <1>6, <1>7, <1>8, <1>9, <1>10, <1>11, <1>12, <1>13, <1>14, <1>15,
     <1>16, <1>17, <1>18, <1>19, <1>20 DEF Next

-----------------------------------------------------------------------------
LEMMA InvStep == Inv /\ [Next]_vars => Inv'
BY TypeStep, LinkStep, HoldStep, BackStep, WireStep DEF Inv

LEMMA Invariance == Spec => []Inv
BY InitInv, InvStep, PTL DEF Spec

\* The state of the tab (StreamManager.ts, chatStore.ts and ChatArea.tsx)
\* keeps its type, and the reconnection attempts stay within
\* maxReconnectAttempts.
THEOREM TypeCorrect == Spec => []TypeOK
<1>1. Inv => TypeOK
  BY DEF Inv, TypeInv
<1> QED
  BY <1>1, Invariance, PTL

\* The stream manager (StreamManager.ts: connect, disconnect and
\* handleReconnect) holds the one stream that is open, however many sends,
\* remounts, failures and reconnections there are, unless a connect() or a
\* disconnect() came during the fetch of a reconnection.
THEOREM OneStreamIsHeld == Spec => []StreamIsHeld
<1>1. Inv => StreamIsHeld
  BY DEF Inv, HoldInv, StreamIsHeld
<1> QED
  BY <1>1, Invariance, PTL

\* A tab that waits for a session at rest (chatStore.ts: isStreaming;
\* WebChatSession.ts: emit and subscribe) hears of its end, or has opened its
\* stream after it, or has no stream by a snapshot.
THEOREM EndsAreHeard == Spec => []EndIsHeard
<1>1. Inv => EndIsHeard
  <2> SUFFICES ASSUME Inv, Waits, AtRest, ~Coming
               PROVE  OnTheWire({Completed, Error}) \/ \E s \in late : Active(s)
    BY DEF EndIsHeard, Waits
  <2>1. PICK s \in Subs : Hears(s)
    BY DEF Inv, BackInv, Hearing
  <2> QED
    BY <2>1 DEF Hears, Opens, Active, Ends, OnTheWire
<1> QED
  BY <1>1, Invariance, PTL

\* A tab in streaming shows the approval the session waits for, or is going to
\* (WebChatSession.ts: subscribe; StreamManager.ts: handleReconnect;
\* ChatArea.tsx: bootstrap), unless the late return of handleApproval took its
\* card down.
THEOREM ApprovalsAreShown == Spec => []ApprovalIsShown
<1>1. Inv => ApprovalIsShown
  <2> SUFFICES ASSUME Inv, Waits, status = "suspended_for_approval", ~Coming,
                      tab.card # pendingApproval, pendingApproval \notin erased
               PROVE  OnTheWire({Approval(pendingApproval)})
    BY DEF ApprovalIsShown, Waits
  <2>1. PICK s \in Subs : Opens(s) /\ stream[s].wire # <<>>
    BY DEF Inv, BackInv, Showing
  <2>2. stream[s].wire[Len(stream[s].wire)] = Approval(pendingApproval)
    BY <2>1 DEF Inv, WireInv
  <2>3. stream[s].wire \in Seq(Events)
    BY StreamTypes DEF Inv, TypeInv
  <2>4. Len(stream[s].wire) \in 1 .. Len(stream[s].wire)
    BY <2>1, <2>3
  <2> QED
    BY <2>1, <2>2, <2>4 DEF Opens, Active, OnTheWire
<1> QED
  BY <1>1, Invariance, PTL
================================================================================
