--------------------------- MODULE WebChatSession ---------------------------
(***************************************************************************)
(* One browser chat session of src/src/server/session/WebChatSession.ts    *)
(* with the routes of src/src/server/routes/chatRoutes.ts that drive it.   *)
(*                                                                         *)
(* Node runs the handlers on one thread, so a step of the model is the code *)
(* between two awaits.  The actors that interleave at the awaits are the   *)
(* turns (one call of submitMessage each), the tool calls a turn's engine  *)
(* makes, the browser tabs that subscribe to the event stream, and the     *)
(* user who answers approvals.                                             *)
(*                                                                         *)
(* A turn's text is abstracted to whether it has any; an event stream to   *)
(* what its reader was last told (status and approval request).            *)
(***************************************************************************)
EXTENDS Naturals, Sequences, FiniteSets

CONSTANTS
    Turns,          \* the calls of submitMessage made on the session
    Calls,          \* the tool calls the engine may make, each a pair of its
                    \* turn and a number
    MaxParallel,    \* tool calls of one turn the engine runs at once
    Subs,           \* browser tabs that may hold an event stream open
    StreamingTools, \* TRUE: the engine may end a turn with a tool call alive
    NoCall, NoTurn

ASSUME SessionConstants ==
    /\ Calls \subseteq Turns \X Nat
    /\ MaxParallel \in Nat \ {0}
    /\ StreamingTools \in BOOLEAN
    /\ NoTurn \notin Turns
    /\ NoCall \notin Calls

VARIABLES
    status,          \* this.status
    pendingApproval, \* the call whose id this.pendingApproval carries
    messages,        \* this.messages, as the sequence of its entries
    draft,           \* the turn whose text this.currentAssistantDraft holds
    turn,            \* where each submitMessage call stands
    hasText,         \* whether the turn's currentAssistantText is non-blank
    call,            \* where each tool call stands
    subscribers,     \* this.subscribers
    shown,           \* what each stream's reader was last told
    overlap          \* history: a turn was let in beside another, see Overlaps

vars == <<status, pendingApproval, messages, draft, turn, hasText, call,
          subscribers, shown, overlap>>

-----------------------------------------------------------------------------
TurnOf(c) == c[1]

Status == {"idle", "running", "suspended_for_approval", "error"}
Entry == {"prompt", "reply", "system_error"} \X Turns
Nothing == [status |-> "none", approval |-> NoCall]
Shown == [status : Status \cup {"none"}, approval : Calls \cup {NoCall}]

\* A turn is live from the moment submitMessage takes it to its last line.
Live(t) == turn[t] \in {"engine", "writeback"}

\* The tool calls of t the engine still waits for.
Outstanding(t) ==
    {c \in Calls : TurnOf(c) = t /\ call[c] \in {"started", "asking"}}

\* emit({type: 'session_status', status: st}) to every subscriber.
EmitStatus(st) ==
    shown' = [s \in Subs |-> IF s \in subscribers
                             THEN [shown[s] EXCEPT !.status = st]
                             ELSE shown[s]]

\* emit of session_status, then of approval_required for call c.
EmitApproval(c) ==
    shown' = [s \in Subs |->
                IF s \in subscribers
                THEN [status |-> "suspended_for_approval", approval |-> c]
                ELSE shown[s]]

-----------------------------------------------------------------------------
Init ==
    /\ status = "idle"
    /\ pendingApproval = NoCall
    /\ messages = <<>>
    /\ draft = NoTurn
    /\ turn = [t \in Turns |-> "unsent"]
    /\ hasText = [t \in Turns |-> FALSE]
    /\ call = [c \in Calls |-> "idle"]
    /\ subscribers = {}
    /\ shown = [s \in Subs |-> Nothing]
    /\ overlap = FALSE

\* Mutant: the guard forgets the suspended state.
Busy_RunningOnly == status = "running"

\* submitMessage's guard.
Busy == status \in {"running", "suspended_for_approval"}

\* An error result has set the status, and the memory write-back of its turn is
\* awaited.
ErrorWriteBack == status = "error" /\ \E t \in Turns : turn[t] = "writeback"

\* POST /api/chat: submitMessage up to its first await.  The client posts the
\* transcript its tab shows, up to date or older, and this replaces
\* this.messages.
SubmitMessage(t) ==
    /\ turn[t] = "unsent"
    /\ ~Busy
    /\ \E n \in 0 .. Len(messages) :
          messages' = Append(SubSeq(messages, 1, n), <<"prompt", t>>)
    /\ draft' = NoTurn
    /\ turn' = [turn EXCEPT ![t] = "engine"]
    /\ status' = "running"
    /\ EmitStatus("running")
    /\ overlap' = (overlap \/ ErrorWriteBack)
    /\ UNCHANGED <<pendingApproval, hasText, call, subscribers>>

\* The same call refused: it throws, and the route has answered ok already.
RejectMessage(t) ==
    /\ turn[t] = "unsent"
    /\ Busy
    /\ turn' = [turn EXCEPT ![t] = "rejected"]
    /\ UNCHANGED <<status, pendingApproval, messages, draft, hasText, call,
                   subscribers, shown, overlap>>

\* The engine yields an assistant message with text: the delta becomes the
\* draft.
AssistantText(t) ==
    /\ turn[t] = "engine"
    /\ hasText' = [hasText EXCEPT ![t] = TRUE]
    /\ draft' = t
    /\ UNCHANGED <<status, pendingApproval, messages, turn, call,
                   subscribers, shown, overlap>>

\* The engine starts a tool call, up to MaxParallel of a turn at once
\* (runToolsConcurrently; a call that is not concurrency-safe runs alone).
StartTool(c) ==
    /\ call[c] = "idle"
    /\ turn[TurnOf(c)] = "engine"
    /\ Cardinality(Outstanding(TurnOf(c))) < MaxParallel
    /\ call' = [call EXCEPT ![c] = "started"]
    /\ UNCHANGED <<status, pendingApproval, messages, draft, turn, hasText,
                   subscribers, shown, overlap>>

\* canUseTool: mount the approval, suspend, tell the subscribers.  The promise
\* it returns is settled by Approve only.
CanUseTool(c) ==
    /\ call[c] = "started"
    /\ call' = [call EXCEPT ![c] = "asking"]
    /\ pendingApproval' = c
    /\ status' = "suspended_for_approval"
    /\ EmitApproval(c)
    /\ UNCHANGED <<messages, draft, turn, hasText, subscribers, overlap>>

\* Mutant: the approval is looked up among all that were ever requested.
FoundByApprovalId_Ever(c) == call[c] \in {"asking", "allowed", "denied"}

\* Mutant: every approval that is not answered is kept, not the last one.
FoundByApprovalId_Any(c) == call[c] = "asking"

\* SessionManager.findSessionByApprovalId finds the session by c's id.
FoundByApprovalId(c) == pendingApproval = c

\* Mutant: resolve clears the approval and leaves the status.
Resume_StatusLeft ==
    /\ pendingApproval' = NoCall
    /\ UNCHANGED <<status, shown>>

\* pendingApproval.resolve: the session runs again and says so.
Resume ==
    /\ pendingApproval' = NoCall
    /\ status' = "running"
    /\ EmitStatus("running")

\* POST /api/chat/approve with c's approvalId.  Any other id finds no session
\* and is answered 404 with nothing changed.
Approve(c, approved) ==
    /\ FoundByApprovalId(c)
    /\ call' = [call EXCEPT ![c] = IF approved THEN "allowed" ELSE "denied"]
    /\ Resume
    /\ UNCHANGED <<messages, draft, turn, hasText, subscribers, overlap>>

-----------------------------------------------------------------------------
\* The engine ends a turn when its tool calls are answered; the streaming
\* executor can end it earlier (a failed stream discards the executor).
EngineMayEnd(t) ==
    /\ turn[t] = "engine"
    /\ ~StreamingTools => Outstanding(t) = {}

\* Turns no longer overlap when none is live.
OverlapEnds == overlap' = (overlap /\ \E t \in Turns : Live(t)')

\* Protection rules 1 and 2: an approval is pending, so do not finalize.
ApprovalPending(st) ==
    st = "suspended_for_approval" \/ pendingApproval # NoCall

\* Mutant: the status is not reset.
Finalize_StatusLeft(t) ==
    /\ draft' = NoTurn
    /\ turn' = [turn EXCEPT ![t] = "ended"]
    /\ UNCHANGED <<status, shown>>

\* The lines that end a turn: the draft cleared, the session idle, and the
\* subscribers told.
Finalize(t) ==
    /\ draft' = NoTurn
    /\ status' = "idle"
    /\ turn' = [turn EXCEPT ![t] = "ended"]
    /\ EmitStatus("idle")

\* The last result message and the end of the for-await loop, with no I/O
\* between them, up to the await of writeBackMemory when there is text.
EngineEnds(t, isError) ==
    LET st == IF isError THEN "error" ELSE status IN
    /\ EngineMayEnd(t)
    /\ \/ /\ ApprovalPending(st)
          /\ status' = st
          /\ turn' = [turn EXCEPT ![t] = "ended"]
          /\ UNCHANGED <<messages, draft, shown>>
       \/ /\ ~ApprovalPending(st)
          /\ messages' = Append(messages, <<"reply", t>>)
          /\ IF hasText[t]
             THEN /\ status' = st
                  /\ turn' = [turn EXCEPT ![t] = "writeback"]
                  /\ UNCHANGED <<draft, shown>>
             ELSE Finalize(t)
    /\ OverlapEnds
    /\ UNCHANGED <<pendingApproval, hasText, call, subscribers>>

\* writeBackMemory settles (its failure is swallowed); the turn is finalized
\* whatever the session's status has become meanwhile.
WriteBackDone(t) ==
    /\ turn[t] = "writeback"
    /\ Finalize(t)
    /\ OverlapEnds
    /\ UNCHANGED <<pendingApproval, messages, hasText, call, subscribers>>

\* Mutant: the bare error is pushed, not a message.
EngineThrows_BareEntry(t) ==
    /\ EngineMayEnd(t)
    /\ turn' = [turn EXCEPT ![t] = "ended"]
    /\ status' = "error"
    /\ messages' = Append(messages, "system_error")
    /\ EmitStatus("error")
    /\ OverlapEnds
    /\ UNCHANGED <<pendingApproval, draft, hasText, call, subscribers>>

\* The catch block: the engine threw (no provider, no key, a stream error).
EngineThrows(t) ==
    /\ EngineMayEnd(t)
    /\ turn' = [turn EXCEPT ![t] = "ended"]
    /\ IF ApprovalPending(status)
       THEN UNCHANGED <<status, messages, shown>>
       ELSE /\ status' = "error"
            /\ messages' = Append(messages, <<"system_error", t>>)
            /\ EmitStatus("error")
    /\ OverlapEnds
    /\ UNCHANGED <<pendingApproval, draft, hasText, call, subscribers>>

-----------------------------------------------------------------------------
\* Mutant: a new subscriber is told the status only.
Greeting_StatusOnly == [status |-> status, approval |-> NoCall]

\* What subscribe() sends first: the status, and the approval if suspended.
Greeting ==
    [status   |-> status,
     approval |-> IF status = "suspended_for_approval"
                  THEN pendingApproval ELSE NoCall]

\* GET /api/chat/stream/:id: status, then the approval of a suspended session.
Subscribe(s) ==
    /\ s \notin subscribers
    /\ subscribers' = subscribers \cup {s}
    /\ shown' = [shown EXCEPT ![s] = Greeting]
    /\ UNCHANGED <<status, pendingApproval, messages, draft, turn, hasText,
                   call, overlap>>

\* The tab closes or reloads: req.on('close') unsubscribes it.
Unsubscribe(s) ==
    /\ s \in subscribers
    /\ subscribers' = subscribers \ {s}
    /\ shown' = [shown EXCEPT ![s] = Nothing]
    /\ UNCHANGED <<status, pendingApproval, messages, draft, turn, hasText,
                   call, overlap>>

TurnStep(t) ==
    \/ \E isError \in BOOLEAN : EngineEnds(t, isError)
    \/ EngineThrows(t)
    \/ WriteBackDone(t)

Answer(c) == \E approved \in BOOLEAN : Approve(c, approved)

Next ==
    \/ \E t \in Turns : SubmitMessage(t) \/ RejectMessage(t)
                        \/ AssistantText(t) \/ TurnStep(t)
    \/ \E c \in Calls : StartTool(c) \/ CanUseTool(c) \/ Answer(c)
    \/ \E s \in Subs : Subscribe(s) \/ Unsubscribe(s)

\* The engine keeps working and the user answers the approval on the screen.
Fairness ==
    /\ \A t \in Turns : WF_vars(TurnStep(t))
    /\ \A c \in Calls : WF_vars(CanUseTool(c)) /\ WF_vars(Answer(c))

Spec == Init /\ [][Next]_vars
FairSpec == Spec /\ Fairness

-----------------------------------------------------------------------------
\* Type correctness of the session object, the turns and the streams.
TypeOK ==
    /\ status \in Status
    /\ pendingApproval \in Calls \cup {NoCall}
    /\ messages \in Seq(Entry)
    /\ draft \in Turns \cup {NoTurn}
    /\ turn \in [Turns -> {"unsent", "rejected", "engine", "writeback", "ended"}]
    /\ hasText \in [Turns -> BOOLEAN]
    /\ call \in [Calls -> {"idle", "started", "asking", "allowed", "denied"}]
    /\ subscribers \subseteq Subs
    /\ shown \in [Subs -> Shown]
    /\ overlap \in BOOLEAN

\* A suspended session always has the approval that can resume it, and that
\* approval belongs to a tool call that still waits: whatever the order of
\* canUseTool calls, answers, failing turns and further submissions, a session
\* is never suspended on nothing.
SuspendedOnLiveCall ==
    /\ status = "suspended_for_approval" => pendingApproval # NoCall
    /\ pendingApproval # NoCall => call[pendingApproval] = "asking"

\* Whoever has the stream open, since whenever, was shown exactly the approval
\* the suspended session waits for: a reload or a second tab can answer it.
SubscribersCanAnswer ==
    status = "suspended_for_approval" =>
        \A s \in subscribers : shown[s].approval = pendingApproval

\* submitMessage admits one turn at a time ("Cannot submit message while
\* session is running"), however many tabs post, whatever fails and is awaited.
\* There is one way past it: an error result sets the status before the awaited
\* write-back of its turn.  What it lets in ends with the last turn that
\* overlaps, and the session is back to one at a time.
OneLiveTurn ==
    ~overlap => \A t, u \in Turns : Live(t) /\ Live(u) => t = u

\* Only the user's answer ends a suspension ("do not overwrite the status while
\* the session is suspended", the comments on protection rules 1 and 2).  The
\* status is overwritten only where turns overlap, by one that ends under
\* another's suspension, and then too the approval can still be answered.
SuspensionEndsByAnswer ==
    [][status = "suspended_for_approval" /\ status' # status
         => \/ pendingApproval' = NoCall /\ status' = "running"
            \/ overlap /\ UNCHANGED <<pendingApproval, call>>]_vars

\* An answer is final: once the user has allowed or denied a call, no later
\* step changes the decision or asks for it again.
DecisionsAreFinal ==
    [][\A c \in Calls :
         call[c] \in {"allowed", "denied"} => call'[c] = call[c]]_vars

\* What Conversation speaks of, in terms of the session.
Promise == INSTANCE Conversation WITH
    served  <- {t \in Turns : turn[t] = "engine"},
    closing <- {t \in Turns : turn[t] = "writeback"},
    over    <- {t \in Turns : turn[t] \in {"rejected", "ended"}},
    mode    <- IF overlap THEN "mixed"
               ELSE IF ErrorWriteBack THEN "failed" ELSE "one",
    log     <- messages,
    asked   <- {c \in Calls : call[c] = "asking"},
    waiting <- pendingApproval,
    decided <- {c \in Calls : call[c] \in {"allowed", "denied"}}

\* Whatever turns, calls and tabs do, submitMessage, canUseTool and the routes
\* keep what a conversation promises: each call that asked is decided once, by
\* the approval that is shown, and no turn is answered before its calls are
\* decided; and unless an error result has let turns overlap, each message is
\* answered directly behind it, before the next one is taken.
ImplementsConversation == Promise!Spec

\* A submitted turn ends: a user who answers the approval shown to him never
\* leaves the engine waiting for ever.
TurnsEnd == \A t \in Turns : turn[t] = "engine" ~> turn[t] = "ended"

\* The approval of a call that asked has been replaced by another call's.
Overwritten == \E c \in Calls : call[c] = "asking" /\ pendingApproval # c

\* The session comes to rest: it does not stay running or suspended for ever,
\* unless two calls have asked together and one cannot be answered any more.
SessionRests ==
    (status \in {"running", "suspended_for_approval"})
        ~> (status \in {"idle", "error"} \/ Overwritten)
=============================================================================
