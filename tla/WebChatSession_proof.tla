------------------------ MODULE WebChatSession_proof ------------------------
(***************************************************************************)
(* Theorems about WebChatSession, for every number of turns, tool calls    *)
(* and tabs.                                                               *)
(***************************************************************************)
EXTENDS WebChatSession, TLAPS

\* A transcript with one more entry is a transcript.
LEMMA AppendEntry ==
  ASSUME messages \in Seq(Entry), NEW t \in Turns
  PROVE  /\ \A n \in 0 .. Len(messages) :
               Append(SubSeq(messages, 1, n), <<"prompt", t>>) \in Seq(Entry)
         /\ Append(messages, <<"reply", t>>) \in Seq(Entry)
         /\ Append(messages, <<"system_error", t>>) \in Seq(Entry)
BY DEF Entry

\* Telling the subscribers a status, or an approval, keeps the streams typed.
LEMMA EmitStatusTyped ==
  ASSUME shown \in [Subs -> Shown], NEW st \in Status, EmitStatus(st)
  PROVE  shown' \in [Subs -> Shown]
BY DEF EmitStatus, Shown

\* What an approval request tells the subscribers has its type.
LEMMA EmitApprovalTyped ==
  ASSUME shown \in [Subs -> Shown], NEW c \in Calls, EmitApproval(c)
  PROVE  shown' \in [Subs -> Shown]
BY DEF EmitApproval, Shown, Status

\* Every reachable state of the session is well typed.
THEOREM TypeCorrect == Spec => []TypeOK
<1> USE SessionConstants DEF TypeOK
<1>1. Init => TypeOK
  <2>1. Init => overlap \in BOOLEAN /\ hasText \in [Turns -> BOOLEAN]
    BY DEF Init
  <2>2. Init => shown \in [Subs -> Shown] /\ status \in Status
    BY DEF Init, Status, Shown, Nothing
  <2>3. QED
    BY <2>1, <2>2 DEF Init
<1>2. TypeOK /\ [Next]_vars => TypeOK'
  <2> SUFFICES ASSUME TypeOK, [Next]_vars PROVE TypeOK'
    OBVIOUS
  <2> {"idle", "running", "suspended_for_approval", "error"} \subseteq Status
    BY DEF Status
  <2>0. OverlapEnds => overlap' \in BOOLEAN
    BY DEF OverlapEnds
  <2>1. ASSUME NEW t \in Turns, SubmitMessage(t) PROVE TypeOK'
    <3>1. messages' \in Seq(Entry)
      <4>1. PICK n \in 0 .. Len(messages) :
                messages' = Append(SubSeq(messages, 1, n), <<"prompt", t>>)
        BY <2>1 DEF SubmitMessage
      <4>2. Append(SubSeq(messages, 1, n), <<"prompt", t>>) \in Seq(Entry)
        BY AppendEntry
      <4>3. QED
        BY <4>1, <4>2
    <3>2. shown' \in [Subs -> Shown]
      BY <2>1, EmitStatusTyped DEF SubmitMessage
    <3>3. QED
      BY <2>1, <3>1, <3>2 DEF SubmitMessage
  <2>2. ASSUME NEW t \in Turns, RejectMessage(t) PROVE TypeOK'
    BY <2>2 DEF RejectMessage
  <2>3. ASSUME NEW t \in Turns, AssistantText(t) PROVE TypeOK'
    BY <2>3 DEF AssistantText
  <2>4. ASSUME NEW t \in Turns, NEW e \in BOOLEAN, EngineEnds(t, e) PROVE TypeOK'
    <3> DEFINE st == IF e THEN "error" ELSE status
    <3>1. st \in Status
      OBVIOUS
    <3> HIDE DEF st
    <3>2. CASE ApprovalPending(st)
      BY <2>0, <2>4, <3>1, <3>2 DEF EngineEnds, st
    <3>3. CASE ~ApprovalPending(st) /\ hasText[t]
      BY <2>0, <2>4, <3>1, <3>3, AppendEntry DEF EngineEnds, st
    <3>4. CASE ~ApprovalPending(st) /\ ~hasText[t]
      BY <2>0, <2>4, <3>4, AppendEntry, EmitStatusTyped DEF EngineEnds, Finalize, st
    <3>5. QED
      BY <3>2, <3>3, <3>4
  <2>5. ASSUME NEW t \in Turns, EngineThrows(t) PROVE TypeOK'
    <3>1. CASE ApprovalPending(status)
      BY <2>0, <2>5, <3>1 DEF EngineThrows
    <3>2. CASE ~ApprovalPending(status)
      BY <2>0, <2>5, <3>2, AppendEntry, EmitStatusTyped DEF EngineThrows
    <3>3. QED
      BY <3>1, <3>2
  <2>6. ASSUME NEW t \in Turns, WriteBackDone(t) PROVE TypeOK'
    BY <2>0, <2>6, EmitStatusTyped DEF WriteBackDone, Finalize
  <2>7. ASSUME NEW c \in Calls, StartTool(c) PROVE TypeOK'
    BY <2>7 DEF StartTool
  <2>8. ASSUME NEW c \in Calls, CanUseTool(c) PROVE TypeOK'
    BY <2>8, EmitApprovalTyped DEF CanUseTool
  <2>9. ASSUME NEW c \in Calls, NEW a \in BOOLEAN, Approve(c, a) PROVE TypeOK'
    BY <2>9, EmitStatusTyped DEF Approve, Resume
  <2>10. ASSUME NEW s \in Subs, Subscribe(s) PROVE TypeOK'
    BY <2>10 DEF Subscribe, Greeting, Shown
  <2>11. ASSUME NEW s \in Subs, Unsubscribe(s) PROVE TypeOK'
    BY <2>11 DEF Unsubscribe, Nothing, Shown
  <2>12. CASE UNCHANGED vars
    BY <2>12 DEF vars
  <2>13. QED
    BY <2>1, <2>2, <2>3, <2>4, <2>5, <2>6, <2>7, <2>8, <2>9, <2>10, <2>11,
       <2>12 DEF Next, TurnStep, Answer
<1>3. QED
  BY <1>1, <1>2, PTL DEF Spec

\* No session is ever suspended on nothing, however turns, tool calls, answers
\* and errors interleave.
THEOREM SuspensionIsAnswerable == Spec => []SuspendedOnLiveCall
<1> USE SessionConstants DEF SessionConstants, TypeOK, SuspendedOnLiveCall
<1>1. Init => SuspendedOnLiveCall
  BY DEF Init
<1>2. TypeOK /\ TypeOK' /\ SuspendedOnLiveCall /\ [Next]_vars => SuspendedOnLiveCall'
  <2> SUFFICES ASSUME TypeOK, TypeOK', SuspendedOnLiveCall, [Next]_vars
               PROVE  SuspendedOnLiveCall'
    OBVIOUS
  <2>1. ASSUME NEW t \in Turns, SubmitMessage(t) \/ RejectMessage(t) \/ AssistantText(t)
        PROVE  SuspendedOnLiveCall'
    BY <2>1 DEF SubmitMessage, RejectMessage, AssistantText
  <2>2. ASSUME NEW t \in Turns, TurnStep(t)
        PROVE  SuspendedOnLiveCall'
    <3>1. status' \in {status, "error", "idle"}
      BY <2>2 DEF TurnStep, EngineEnds, EngineThrows, WriteBackDone, Finalize
    <3>2. UNCHANGED <<pendingApproval, call>>
      BY <2>2 DEF TurnStep, EngineEnds, EngineThrows, WriteBackDone
    <3>3. QED
      BY <3>1, <3>2
  <2>3. ASSUME NEW c \in Calls, StartTool(c)
        PROVE  SuspendedOnLiveCall'
    BY <2>3 DEF StartTool
  <2>4. ASSUME NEW c \in Calls, CanUseTool(c)
        PROVE  SuspendedOnLiveCall'
    BY <2>4 DEF CanUseTool
  <2>5. ASSUME NEW c \in Calls, Answer(c)
        PROVE  SuspendedOnLiveCall'
    BY <2>5 DEF Answer, Approve, Resume
  <2>6. ASSUME NEW s \in Subs, Subscribe(s) \/ Unsubscribe(s)
        PROVE  SuspendedOnLiveCall'
    BY <2>6 DEF Subscribe, Unsubscribe
  <2>7. CASE UNCHANGED vars
    BY <2>7 DEF vars
  <2>8. QED
    BY <2>1, <2>2, <2>3, <2>4, <2>5, <2>6, <2>7 DEF Next
<1>3. QED
  BY <1>1, <1>2, TypeCorrect, PTL DEF Spec

\* Whoever has the event stream open was shown the approval that resumes the
\* session, whenever it opened the stream.
THEOREM ApprovalIsOnEveryScreen == Spec => []SubscribersCanAnswer
<1> USE SessionConstants DEF TypeOK, SubscribersCanAnswer
<1>1. Init => SubscribersCanAnswer
  BY DEF Init
<1>2. TypeOK /\ SubscribersCanAnswer /\ [Next]_vars => SubscribersCanAnswer'
  <2> SUFFICES ASSUME TypeOK, SubscribersCanAnswer, [Next]_vars
               PROVE  SubscribersCanAnswer'
    OBVIOUS
  <2>1. ASSUME NEW t \in Turns, SubmitMessage(t)
        PROVE  SubscribersCanAnswer'
    BY <2>1 DEF SubmitMessage
  <2>2. ASSUME NEW t \in Turns, RejectMessage(t) \/ AssistantText(t)
        PROVE  SubscribersCanAnswer'
    BY <2>2 DEF RejectMessage, AssistantText
  <2>3. ASSUME NEW t \in Turns, TurnStep(t)
        PROVE  SubscribersCanAnswer'
    <3>1. \/ status' \in {"error", "idle"}
          \/ UNCHANGED <<status, shown>>
      BY <2>3 DEF TurnStep, EngineEnds, EngineThrows, WriteBackDone, Finalize
    <3>2. UNCHANGED <<pendingApproval, subscribers>>
      BY <2>3 DEF TurnStep, EngineEnds, EngineThrows, WriteBackDone
    <3>3. QED
      BY <3>1, <3>2
  <2>4. ASSUME NEW c \in Calls, StartTool(c)
        PROVE  SubscribersCanAnswer'
    BY <2>4 DEF StartTool
  <2>5. ASSUME NEW c \in Calls, CanUseTool(c)
        PROVE  SubscribersCanAnswer'
    BY <2>5 DEF CanUseTool, EmitApproval
  <2>6. ASSUME NEW c \in Calls, Answer(c)
        PROVE  SubscribersCanAnswer'
    BY <2>6 DEF Answer, Approve, Resume
  <2>7. ASSUME NEW s \in Subs, Subscribe(s)
        PROVE  SubscribersCanAnswer'
    BY <2>7 DEF Subscribe, Greeting
  <2>8. ASSUME NEW s \in Subs, Unsubscribe(s)
        PROVE  SubscribersCanAnswer'
    BY <2>8 DEF Unsubscribe
  <2>9. CASE UNCHANGED vars
    BY <2>9 DEF vars
  <2>10. QED
    BY <2>1, <2>2, <2>3, <2>4, <2>5, <2>6, <2>7, <2>8, <2>9 DEF Next
<1>3. QED
  BY <1>1, <1>2, TypeCorrect, PTL DEF Spec

\* The inductive form of OneLiveTurn: where turns do not overlap, the session is
\* busy while a turn lives, or has an error status while its memory is written
\* back, which is what makes submitMessage's guard protect the whole turn.
OneLiveTurnInv ==
    /\ OneLiveTurn
    /\ ~overlap => \A t \in Turns :
          Live(t) => Busy \/ (status = "error" /\ turn[t] = "writeback")

\* A live turn keeps the session busy, unless it writes back after an error.
LEMMA TurnsAreAlone == Spec => []OneLiveTurnInv
<1> USE SessionConstants DEF TypeOK, Status
<1>1. Init => OneLiveTurnInv
  BY DEF Init, OneLiveTurnInv, OneLiveTurn, Live
<1>2. TypeOK /\ OneLiveTurnInv /\ [Next]_vars => OneLiveTurnInv'
  <2> SUFFICES ASSUME TypeOK, OneLiveTurnInv, [Next]_vars
               PROVE  OneLiveTurnInv'
    OBVIOUS
  <2> USE DEF OneLiveTurnInv, OneLiveTurn, Live, Busy
  <2>1. ASSUME NEW t \in Turns, SubmitMessage(t)
        PROVE  OneLiveTurnInv'
    <3>1. CASE overlap \/ ErrorWriteBack
      BY <2>1, <3>1 DEF SubmitMessage
    <3>2. CASE ~overlap /\ ~ErrorWriteBack
      <4>1. \A u \in Turns : ~Live(u)
        BY <2>1, <3>2 DEF SubmitMessage, ErrorWriteBack
      <4> QED
        BY <2>1, <4>1 DEF SubmitMessage
    <3> QED
      BY <3>1, <3>2
  <2>2. ASSUME NEW t \in Turns, RejectMessage(t) \/ AssistantText(t)
        PROVE  OneLiveTurnInv'
    BY <2>2 DEF RejectMessage, AssistantText
  <2>3. ASSUME NEW t \in Turns, TurnStep(t)
        PROVE  OneLiveTurnInv'
    <3>1. Live(t) /\ OverlapEnds
      BY <2>3 DEF TurnStep, EngineEnds, EngineThrows, EngineMayEnd, WriteBackDone
    <3>2. \/ turn' = [turn EXCEPT ![t] = "ended"]
          \/ /\ turn' = [turn EXCEPT ![t] = "writeback"] /\ turn[t] = "engine"
             /\ status' \in {status, "error"}
      BY <2>3 DEF TurnStep, EngineEnds, EngineThrows, EngineMayEnd, WriteBackDone, Finalize
    <3>3. CASE ~overlap
      BY <3>1, <3>2, <3>3 DEF OverlapEnds
    <3>4. CASE overlap
      BY <3>1, <3>4 DEF OverlapEnds
    <3> QED
      BY <3>3, <3>4
  <2>4. ASSUME NEW c \in Calls, StartTool(c)
        PROVE  OneLiveTurnInv'
    BY <2>4 DEF StartTool
  <2>5. ASSUME NEW c \in Calls, CanUseTool(c)
        PROVE  OneLiveTurnInv'
    BY <2>5 DEF CanUseTool
  <2>6. ASSUME NEW c \in Calls, Answer(c)
        PROVE  OneLiveTurnInv'
    BY <2>6 DEF Answer, Approve, Resume
  <2>7. ASSUME NEW s \in Subs, Subscribe(s) \/ Unsubscribe(s)
        PROVE  OneLiveTurnInv'
    BY <2>7 DEF Subscribe, Unsubscribe
  <2>8. CASE UNCHANGED vars
    BY <2>8 DEF vars
  <2>9. QED
    BY <2>1, <2>2, <2>3, <2>4, <2>5, <2>6, <2>7, <2>8 DEF Next
<1>3. QED
  BY <1>1, <1>2, TypeCorrect, PTL DEF Spec

\* submitMessage admits one turn at a time, for any number of tabs that post
\* and whatever fails, until an error result lets one in beside its turn's
\* write-back, and again once the turns that overlap are over.
THEOREM OneTurnAtATime == Spec => []OneLiveTurn
<1>1. OneLiveTurnInv => OneLiveTurn
  BY DEF OneLiveTurnInv
<1> QED
  BY <1>1, TurnsAreAlone, PTL

-----------------------------------------------------------------------------
\* The transcript ends with the prompt of the turn that the engine works on.
PromptIsLast ==
    ~overlap =>
        \A t \in Turns :
            turn[t] = "engine" =>
                /\ messages # <<>>
                /\ messages[Len(messages)] = <<"prompt", t>>

\* What is appended is the last entry.
LEMMA LastOfAppend ==
  ASSUME NEW S, NEW ms \in Seq(S), NEW e \in S
  PROVE  Append(ms, e) # <<>> /\ Append(ms, e)[Len(Append(ms, e))] = e
<1>1. Append(ms, e) \in Seq(S) /\ Len(Append(ms, e)) = Len(ms) + 1 /\ Len(ms) \in Nat
  OBVIOUS
<1>2. Append(ms, e)[Len(ms) + 1] = e
  OBVIOUS
<1> QED
  BY <1>1, <1>2

\* Where turns do not overlap, nothing is put behind a prompt but its answer.
LEMMA PromptStaysLast == Spec => []PromptIsLast
<1> USE SessionConstants DEF TypeOK
<1>1. Init => PromptIsLast
  BY DEF Init, PromptIsLast
<1>2. TypeOK /\ OneLiveTurnInv /\ OneLiveTurnInv' /\ PromptIsLast /\ [Next]_vars
        => PromptIsLast'
  <2> SUFFICES ASSUME TypeOK, OneLiveTurnInv, OneLiveTurnInv', PromptIsLast,
                      [Next]_vars, ~overlap'
               PROVE  PromptIsLast'
    BY DEF PromptIsLast
  <2>1. ASSUME NEW t \in Turns, SubmitMessage(t) PROVE PromptIsLast'
    <3> DEFINE e == <<"prompt", t>>
    <3>1. e \in Entry
      BY DEF Entry
    <3> HIDE DEF e
    <3>2. PICK n \in 0 .. Len(messages) : messages' = Append(SubSeq(messages, 1, n), e)
      BY <2>1 DEF SubmitMessage, e
    <3>3. messages' # <<>> /\ messages'[Len(messages')] = e
      <4> DEFINE ms == SubSeq(messages, 1, n)
      <4>1. ms \in Seq(Entry)
        OBVIOUS
      <4> HIDE DEF ms
      <4>2. Append(ms, e) # <<>> /\ Append(ms, e)[Len(Append(ms, e))] = e
        BY <3>1, <4>1, LastOfAppend
      <4> QED
        BY <3>2, <4>2 DEF ms
    <3>4. \A u \in Turns : turn'[u] = "engine" => u = t
      BY <2>1 DEF SubmitMessage, OneLiveTurnInv, OneLiveTurn, Live
    <3> QED
      BY <3>3, <3>4 DEF PromptIsLast, e
  <2>2. ASSUME NEW t \in Turns, TurnStep(t) PROVE PromptIsLast'
    <3>1. Live(t) /\ OverlapEnds
      BY <2>2 DEF TurnStep, EngineEnds, EngineThrows, EngineMayEnd, WriteBackDone, Live
    <3>2. turn'[t] # "engine" /\ \A u \in Turns \ {t} : turn'[u] = turn[u]
      BY <2>2 DEF TurnStep, EngineEnds, EngineThrows, WriteBackDone, Finalize
    <3>3. \A u \in Turns : turn'[u] # "engine"
      <4>1. CASE overlap
        BY <3>1, <4>1 DEF OverlapEnds, Live
      <4>2. CASE ~overlap
        BY <3>1, <3>2, <4>2 DEF OneLiveTurnInv, OneLiveTurn, Live
      <4> QED
        BY <4>1, <4>2
    <3> QED
      BY <3>3 DEF PromptIsLast
  <2>3. ASSUME UNCHANGED <<messages, overlap>>,
               \A t \in Turns : turn'[t] = "engine" => turn[t] = "engine"
        PROVE  PromptIsLast'
    BY <2>3 DEF PromptIsLast
  <2>4. ASSUME NEW t \in Turns, RejectMessage(t) \/ AssistantText(t)
        PROVE  PromptIsLast'
    BY <2>3, <2>4 DEF RejectMessage, AssistantText
  <2>5. ASSUME NEW c \in Calls, StartTool(c) \/ CanUseTool(c) \/ Answer(c)
        PROVE  PromptIsLast'
    BY <2>3, <2>5 DEF StartTool, CanUseTool, Answer, Approve
  <2>6. ASSUME NEW s \in Subs, Subscribe(s) \/ Unsubscribe(s)
        PROVE  PromptIsLast'
    BY <2>3, <2>6 DEF Subscribe, Unsubscribe
  <2>7. CASE UNCHANGED vars
    BY <2>3, <2>7 DEF vars
  <2> QED
    BY <2>1, <2>2, <2>4, <2>5, <2>6, <2>7 DEF Next
<1> QED
  BY <1>1, <1>2, TypeCorrect, TurnsAreAlone, PTL DEF Spec

-----------------------------------------------------------------------------
\* The engine waits only for the tool calls of a turn it works on.
CallsAreOfTheEngine ==
    \A c \in Calls : call[c] \in {"started", "asking"} => turn[TurnOf(c)] = "engine"

\* A turn whose tool calls are awaited does not end before them.
LEMMA EngineWaits ==
  ASSUME StreamingTools = FALSE
  PROVE  Spec => []CallsAreOfTheEngine
<1> USE SessionConstants DEF SessionConstants, TypeOK, CallsAreOfTheEngine
<1>1. Init => CallsAreOfTheEngine
  BY DEF Init
<1>2. TypeOK /\ SuspendedOnLiveCall /\ CallsAreOfTheEngine /\ [Next]_vars
        => CallsAreOfTheEngine'
  <2> SUFFICES ASSUME TypeOK, SuspendedOnLiveCall, CallsAreOfTheEngine, [Next]_vars
               PROVE  CallsAreOfTheEngine'
    OBVIOUS
  <2>0. \A c \in Calls : TurnOf(c) \in Turns
    BY DEF TurnOf
  <2>1. ASSUME NEW t \in Turns, SubmitMessage(t) \/ RejectMessage(t) \/ AssistantText(t)
        PROVE  CallsAreOfTheEngine'
    BY <2>0, <2>1 DEF SubmitMessage, RejectMessage, AssistantText
  <2>2. ASSUME NEW t \in Turns, TurnStep(t)
        PROVE  CallsAreOfTheEngine'
    <3>1. UNCHANGED call /\ \A u \in Turns \ {t} : turn'[u] = turn[u]
      BY <2>2 DEF TurnStep, EngineEnds, EngineThrows, WriteBackDone, Finalize
    <3>2. turn[t] # "engine" \/ Outstanding(t) = {}
      BY <2>2 DEF TurnStep, EngineEnds, EngineThrows, WriteBackDone, EngineMayEnd
    <3> QED
      BY <2>0, <3>1, <3>2 DEF Outstanding
  <2>3. ASSUME NEW c \in Calls, StartTool(c) \/ CanUseTool(c)
        PROVE  CallsAreOfTheEngine'
    BY <2>0, <2>3 DEF StartTool, CanUseTool
  <2>4. ASSUME NEW c \in Calls, Answer(c)
        PROVE  CallsAreOfTheEngine'
    BY <2>0, <2>4 DEF Answer, Approve
  <2>5. ASSUME NEW s \in Subs, Subscribe(s) \/ Unsubscribe(s)
        PROVE  CallsAreOfTheEngine'
    BY <2>5 DEF Subscribe, Unsubscribe
  <2>6. CASE UNCHANGED vars
    BY <2>6 DEF vars
  <2> QED
    BY <2>1, <2>2, <2>3, <2>4, <2>5, <2>6 DEF Next
<1> QED
  BY <1>1, <1>2, TypeCorrect, SuspensionIsAnswerable, PTL DEF Spec

\* The state of a session whose engine waits for the calls of a turn.
Sound ==
    /\ TypeOK /\ SuspendedOnLiveCall /\ OneLiveTurnInv /\ CallsAreOfTheEngine
    /\ PromptIsLast

\* The session is sound in a build without the streaming executor.
LEMMA SoundAlways ==
  ASSUME StreamingTools = FALSE
  PROVE  Spec => []Sound
BY TypeCorrect, SuspensionIsAnswerable, TurnsAreAlone, EngineWaits,
   PromptStaysLast, PTL DEF Sound

\* An approval that is pending is of a turn the engine works on.
LEMMA ApprovalHasATurn ==
  ASSUME Sound, pendingApproval # NoCall
  PROVE  /\ pendingApproval \in Calls /\ call[pendingApproval] = "asking"
         /\ TurnOf(pendingApproval) \in Turns
         /\ turn[TurnOf(pendingApproval)] = "engine"
BY SessionConstants DEF Sound, TypeOK, SuspendedOnLiveCall, CallsAreOfTheEngine,
   SessionConstants, TurnOf

\* A turn ends while an approval is pending only where turns overlap.
LEMMA EndsUnderAnApproval ==
  ASSUME StreamingTools = FALSE, Sound, pendingApproval # NoCall,
         NEW t \in Turns, TurnStep(t)
  PROVE  overlap /\ TurnOf(pendingApproval) # t
<1>1. Live(t) /\ (turn[t] = "engine" => Outstanding(t) = {})
  BY DEF TurnStep, EngineEnds, EngineThrows, EngineMayEnd, WriteBackDone, Live
<1>2. TurnOf(pendingApproval) # t
  BY <1>1, ApprovalHasATurn DEF Outstanding
<1> QED
  BY <1>1, <1>2, ApprovalHasATurn DEF Sound, OneLiveTurnInv, OneLiveTurn, Live

\* Protection rules 1 and 2: no end of a turn, no error and no other message
\* takes a suspended session out of its suspension, only the answer does, but
\* where turns overlap; and then the approval can still be answered.
THEOREM OnlyAnswersResume ==
  ASSUME StreamingTools = FALSE
  PROVE  Spec => SuspensionEndsByAnswer
<1>1. Sound /\ [Next]_vars
        => [status = "suspended_for_approval" /\ status' # status
              => \/ pendingApproval' = NoCall /\ status' = "running"
                 \/ overlap /\ UNCHANGED <<pendingApproval, call>>]_vars
  <2> SUFFICES ASSUME Sound, Next,
                      status = "suspended_for_approval", status' # status
               PROVE  \/ pendingApproval' = NoCall /\ status' = "running"
                      \/ overlap /\ UNCHANGED <<pendingApproval, call>>
    BY DEF vars
  <2>1. pendingApproval # NoCall
    BY DEF Sound, SuspendedOnLiveCall
  <2>2. ASSUME NEW t \in Turns, TurnStep(t)
        PROVE  overlap /\ UNCHANGED <<pendingApproval, call>>
    <3>1. UNCHANGED <<pendingApproval, call>>
      BY <2>2 DEF TurnStep, EngineEnds, EngineThrows, WriteBackDone
    <3> QED
      BY <2>1, <2>2, <3>1, EndsUnderAnApproval
  <2>3. \A t \in Turns : ~SubmitMessage(t) /\ ~RejectMessage(t) /\ ~AssistantText(t)
    BY DEF SubmitMessage, RejectMessage, AssistantText, Busy
  <2>4. \A c \in Calls : ~StartTool(c) /\ ~CanUseTool(c)
    BY DEF StartTool, CanUseTool
  <2>5. \A s \in Subs : ~Subscribe(s) /\ ~Unsubscribe(s)
    BY DEF Subscribe, Unsubscribe
  <2>6. ASSUME NEW c \in Calls, Answer(c)
        PROVE  pendingApproval' = NoCall /\ status' = "running"
    BY <2>6 DEF Answer, Approve, Resume
  <2> QED
    BY <2>2, <2>3, <2>4, <2>5, <2>6 DEF Next
<1> QED
  BY <1>1, SoundAlways, PTL DEF Spec, SuspensionEndsByAnswer

\* Once the user has allowed or denied a tool call, no later step revises it.
THEOREM AnswersStand == Spec => DecisionsAreFinal
<1>1. TypeOK /\ SuspendedOnLiveCall /\ [Next]_vars
        => [\A c \in Calls : call[c] \in {"allowed", "denied"}
                               => call'[c] = call[c]]_vars
  <2> SUFFICES ASSUME TypeOK, SuspendedOnLiveCall, Next,
                      NEW d \in Calls, call[d] \in {"allowed", "denied"}
               PROVE  call'[d] = call[d]
    BY DEF vars
  <2> USE SessionConstants DEF SessionConstants, TypeOK
  <2>1. ASSUME NEW c \in Calls, StartTool(c) \/ CanUseTool(c)
        PROVE  call'[d] = call[d]
    BY <2>1 DEF StartTool, CanUseTool
  <2>2. ASSUME NEW c \in Calls, Answer(c)
        PROVE  call'[d] = call[d]
    <3>1. call[c] = "asking"
      BY <2>2 DEF Answer, Approve, FoundByApprovalId, SuspendedOnLiveCall
    <3>2. PICK v : call' = [call EXCEPT ![c] = v]
      BY <2>2 DEF Answer, Approve
    <3>3. QED
      BY <3>1, <3>2
  <2>3. CASE UNCHANGED call
    BY <2>3
  <2>4. QED
    BY <2>1, <2>2, <2>3 DEF Next, TurnStep, SubmitMessage, RejectMessage,
       AssistantText, EngineEnds, EngineThrows, WriteBackDone, Subscribe, Unsubscribe
<1>2. QED
  BY <1>1, TypeCorrect, SuspensionIsAnswerable, PTL DEF Spec, DecisionsAreFinal

-----------------------------------------------------------------------------
\* What the refinement needs besides: a busy session has a live turn, so that
\* a message is refused only because of another.
BusyIsLive == Busy => \E t \in Turns : Live(t)

\* A session is never left busy by the last of its turns.
LEMMA BusyAlways ==
  ASSUME StreamingTools = FALSE
  PROVE  Spec => []BusyIsLive
<1>1. Init => BusyIsLive
  BY DEF Init, BusyIsLive, Busy
<1>2. Sound /\ BusyIsLive /\ [Next]_vars => BusyIsLive'
  <2> SUFFICES ASSUME Sound, BusyIsLive, [Next]_vars PROVE BusyIsLive'
    OBVIOUS
  <2>0. /\ turn \in [Turns -> {"unsent", "rejected", "engine", "writeback", "ended"}]
        /\ \A c \in Calls : TurnOf(c) \in Turns
    BY SessionConstants DEF Sound, TypeOK, SessionConstants, TurnOf
  <2>1. ASSUME NEW t \in Turns, SubmitMessage(t) PROVE BusyIsLive'
    BY <2>0, <2>1 DEF SubmitMessage, BusyIsLive, Live
  <2>2. ASSUME NEW t \in Turns, RejectMessage(t) PROVE BusyIsLive'
    <3>1. \A u \in Turns : Live(u) => Live(u)'
      BY <2>0, <2>2 DEF RejectMessage, Live
    <3> QED
      BY <2>2, <3>1 DEF RejectMessage, BusyIsLive, Busy
  <2>3. ASSUME NEW t \in Turns, TurnStep(t) PROVE BusyIsLive'
    <3>1. CASE pendingApproval # NoCall
      <4>1. TurnOf(pendingApproval) \in Turns \ {t} /\ turn[TurnOf(pendingApproval)] = "engine"
        BY <2>3, <3>1, ApprovalHasATurn, EndsUnderAnApproval
      <4>2. \A u \in Turns \ {t} : turn'[u] = turn[u]
        BY <2>0, <2>3 DEF TurnStep, EngineEnds, EngineThrows, WriteBackDone, Finalize
      <4> QED
        BY <4>1, <4>2 DEF BusyIsLive, Live
    <3>2. CASE pendingApproval = NoCall
      <4>1. status # "suspended_for_approval"
        BY <3>2 DEF Sound, SuspendedOnLiveCall
      <4>2. turn' = [turn EXCEPT ![t] = "writeback"] \/ status' \in {"idle", "error"}
        BY <2>3, <3>2, <4>1
           DEF TurnStep, EngineEnds, EngineThrows, WriteBackDone, Finalize, ApprovalPending
      <4> QED
        BY <2>0, <4>2 DEF BusyIsLive, Busy, Live
    <3> QED
      BY <3>1, <3>2
  <2>4. ASSUME NEW c \in Calls, turn[TurnOf(c)] = "engine", UNCHANGED turn
        PROVE  BusyIsLive'
    BY <2>0, <2>4 DEF BusyIsLive, Live
  <2>5. ASSUME NEW c \in Calls, StartTool(c) \/ CanUseTool(c) PROVE BusyIsLive'
    BY <2>4, <2>5 DEF StartTool, CanUseTool, Sound, CallsAreOfTheEngine
  <2>6. ASSUME NEW c \in Calls, Answer(c) PROVE BusyIsLive'
    <3>1. pendingApproval # NoCall /\ pendingApproval = c /\ UNCHANGED turn
      BY <2>6, SessionConstants DEF Answer, Approve, FoundByApprovalId, SessionConstants
    <3> QED
      BY <2>4, <3>1, ApprovalHasATurn
  <2>7. CASE UNCHANGED <<status, turn>>
    BY <2>7 DEF BusyIsLive, Busy, Live
  <2> QED
    BY <2>1, <2>2, <2>3, <2>5, <2>6, <2>7
       DEF Next, vars, AssistantText, Subscribe, Unsubscribe
<1> QED
  BY <1>1, <1>2, SoundAlways, PTL DEF Spec

\* What the refinement maps the session to.
Served == {t \in Turns : turn[t] = "engine"}
Closing == {t \in Turns : turn[t] = "writeback"}
Over == {t \in Turns : turn[t] \in {"rejected", "ended"}}
Mode == IF overlap THEN "mixed" ELSE IF ErrorWriteBack THEN "failed" ELSE "one"
Asked == {c \in Calls : call[c] = "asking"}
Decided == {c \in Calls : call[c] \in {"allowed", "denied"}}

\* The mapped state is that of the conversation.
LEMMA Mapped ==
  /\ Promise!cvars = <<Served, Closing, Over, Mode, messages, Asked,
                       pendingApproval, Decided>>
  /\ \A t : Promise!New(t) <=> t \notin Served \cup Closing \cup Over
  /\ \A t : Promise!Unanswered(t)
              <=> (Mode # "mixed" => /\ messages # <<>>
                                     /\ messages[Len(messages)] = <<"prompt", t>>)
  /\ \A modes : Promise!Goes(modes)
       <=> IF Served' \cup Closing' = {} THEN Mode' = "one"
           ELSE IF Mode = "mixed" THEN Mode' = Mode ELSE Mode' \in modes
BY DEF Promise!cvars, Promise!New, Promise!Unanswered, Promise!Goes,
   Served, Closing, Over, Mode, Asked, Decided

\* A message that is taken begins a turn of the conversation.
LEMMA BeginPromise ==
  ASSUME Sound, NEW t \in Turns, SubmitMessage(t)
  PROVE  Promise!Begin(t)
<1>0. turn \in [Turns -> {"unsent", "rejected", "engine", "writeback", "ended"}]
  BY DEF Sound, TypeOK
<1>1. turn[t] = "unsent" /\ turn' = [turn EXCEPT ![t] = "engine"]
  BY DEF SubmitMessage
<1>2. /\ t \notin Served \cup Closing \cup Over
      /\ Served' = Served \cup {t} /\ UNCHANGED <<Closing, Over>>
  BY <1>0, <1>1 DEF Served, Closing, Over
<1>3. UNCHANGED <<pendingApproval, Asked, Decided>>
  BY DEF SubmitMessage, Asked, Decided
<1>4. \/ Served \cup Closing = {} /\ Mode = "one" /\ Mode' = Mode
      \/ Mode \in {"failed", "mixed"} /\ Mode' = "mixed"
  <2>1. CASE overlap \/ ErrorWriteBack
    BY <2>1 DEF SubmitMessage, Mode
  <2>2. CASE ~overlap /\ ~ErrorWriteBack
    <3>1. \A u \in Turns : ~Live(u)
      BY <2>2 DEF SubmitMessage, ErrorWriteBack, Sound, OneLiveTurnInv
    <3>2. ~overlap' /\ ~ErrorWriteBack'
      BY <2>2 DEF SubmitMessage, ErrorWriteBack, Sound, TypeOK
    <3> QED
      BY <2>2, <3>1, <3>2 DEF Mode, Served, Closing, Live
  <2> QED
    BY <2>1, <2>2
<1>5. \E n \in 0 .. Len(messages) :
         messages' = Append(SubSeq(messages, 1, n), <<"prompt", t>>)
  BY DEF SubmitMessage
<1> QED
  BY <1>2, <1>3, <1>4, <1>5, Mapped
     DEF Promise!Begin, Served, Closing, Over, Mode, Asked, Decided

\* A message that is refused is refused because of a turn that has not failed.
LEMMA RefusePromise ==
  ASSUME Sound, BusyIsLive, NEW t \in Turns, RejectMessage(t)
  PROVE  Promise!Refuse(t)
<1>0. turn \in [Turns -> {"unsent", "rejected", "engine", "writeback", "ended"}]
  BY DEF Sound, TypeOK
<1>1. turn[t] = "unsent" /\ turn' = [turn EXCEPT ![t] = "rejected"]
  BY DEF RejectMessage
<1>2. /\ t \notin Served \cup Closing \cup Over
      /\ Over' = Over \cup {t} /\ UNCHANGED <<Served, Closing>>
  BY <1>0, <1>1 DEF Served, Closing, Over
<1>3. Served \cup Closing # {}
  BY DEF RejectMessage, BusyIsLive, Live, Served, Closing
<1>4. Mode # "failed" /\ Mode' = Mode
  BY DEF RejectMessage, Busy, ErrorWriteBack, Mode
<1>5. UNCHANGED <<pendingApproval, Asked, Decided, messages>>
  BY DEF RejectMessage, Asked, Decided
<1> QED
  BY <1>2, <1>3, <1>4, <1>5, Mapped
     DEF Promise!Refuse, Served, Closing, Over, Mode, Asked, Decided

\* What the end of a turn, or of its write-back, makes of the mode.
LEMMA ModeGoes ==
  ASSUME Sound, OverlapEnds
  PROVE  Promise!Goes({"one", "failed"})
<1>1. Served' \cup Closing' = {} <=> \A t \in Turns : ~Live(t)'
  BY DEF Served, Closing, Live
<1>2. CASE \A t \in Turns : ~Live(t)'
  <2>1. ~overlap' /\ ~ErrorWriteBack'
    BY <1>2 DEF OverlapEnds, ErrorWriteBack, Live
  <2> QED
    BY <1>1, <1>2, <2>1, Mapped DEF Mode
<1>3. CASE \E t \in Turns : Live(t)'
  <2>1. overlap' = overlap /\ overlap \in BOOLEAN
    BY <1>3 DEF OverlapEnds, Sound, TypeOK
  <2> QED
    BY <1>1, <1>3, <2>1, Mapped DEF Mode
<1> QED
  BY <1>2, <1>3

\* The end of the engine's work answers the turn, or fails it.
LEMMA ReplyPromise ==
  ASSUME StreamingTools = FALSE, Sound, NEW t \in Turns,
         (\E isError \in BOOLEAN : EngineEnds(t, isError)) \/ EngineThrows(t)
  PROVE  Promise!Reply(t)
<1>0. turn \in [Turns -> {"unsent", "rejected", "engine", "writeback", "ended"}]
  BY DEF Sound, TypeOK
<1>1. /\ turn[t] = "engine" /\ Outstanding(t) = {} /\ TurnStep(t) /\ OverlapEnds
      /\ UNCHANGED <<pendingApproval, call>>
  BY DEF EngineEnds, EngineThrows, EngineMayEnd, TurnStep
<1>2. t \in Served /\ \A c \in Asked : c[1] # t
  BY <1>1 DEF Served, Asked, Outstanding, TurnOf
<1>3. Promise!Unanswered(t)
  BY <1>1, Mapped DEF Sound, PromptIsLast, Mode
<1>4. UNCHANGED <<pendingApproval, Asked, Decided>>
  BY <1>1 DEF Asked, Decided
<1>5. ASSUME turn' = [turn EXCEPT ![t] = "ended"]
      PROVE  Served' = Served \ {t} /\ Over' = Over \cup {t} /\ UNCHANGED Closing
  BY <1>0, <1>1, <1>5 DEF Served, Closing, Over
<1>6. ASSUME turn' = [turn EXCEPT ![t] = "writeback"]
      PROVE  Served' = Served \ {t} /\ Closing' = Closing \cup {t} /\ UNCHANGED Over
  BY <1>0, <1>1, <1>6 DEF Served, Closing, Over
<1>7. CASE pendingApproval # NoCall
  <2>1. Mode = "mixed"
    BY <1>1, <1>7, EndsUnderAnApproval DEF Mode
  <2>2. turn' = [turn EXCEPT ![t] = "ended"] /\ UNCHANGED messages
    BY <1>7 DEF EngineEnds, EngineThrows, ApprovalPending
  <2> QED
    BY <1>1, <1>2, <1>3, <1>4, <1>5, <1>7, <2>1, <2>2, ModeGoes
       DEF Promise!Reply, Served, Closing, Over, Mode, Asked, Decided
<1>8. CASE pendingApproval = NoCall
  <2>1. status # "suspended_for_approval"
    BY <1>8 DEF Sound, SuspendedOnLiveCall
  <2>2. /\ \E kind \in {"reply", "system_error"} : messages' = Append(messages, <<kind, t>>)
        /\ \/ turn' = [turn EXCEPT ![t] = "writeback"]
           \/ turn' = [turn EXCEPT ![t] = "ended"]
    BY <1>8, <2>1 DEF EngineEnds, EngineThrows, ApprovalPending, Finalize
  <2> QED
    BY <1>1, <1>2, <1>3, <1>4, <1>5, <1>6, <2>2, ModeGoes
       DEF Promise!Reply, Served, Closing, Over, Mode, Asked, Decided
<1> QED
  BY <1>7, <1>8

\* The end of the memory write-back ends the turn.
LEMMA EndPromise ==
  ASSUME Sound, NEW t \in Turns, WriteBackDone(t)
  PROVE  Promise!End(t)
<1>0. turn \in [Turns -> {"unsent", "rejected", "engine", "writeback", "ended"}]
  BY DEF Sound, TypeOK
<1>1. turn[t] = "writeback" /\ turn' = [turn EXCEPT ![t] = "ended"] /\ OverlapEnds
  BY DEF WriteBackDone, Finalize
<1>2. t \in Closing /\ Closing' = Closing \ {t} /\ Over' = Over \cup {t} /\ UNCHANGED Served
  BY <1>0, <1>1 DEF Served, Closing, Over
<1>3. UNCHANGED <<messages, pendingApproval, Asked, Decided>>
  BY DEF WriteBackDone, Asked, Decided
<1>4. Promise!Goes({"one"})
  <2>1. CASE overlap
    BY <1>1, <2>1, ModeGoes, Mapped DEF Mode
  <2>2. CASE ~overlap
    <3>1. \A u \in Turns : ~Live(u)'
      BY <1>0, <1>1, <2>2 DEF Sound, OneLiveTurnInv, OneLiveTurn, Live
    <3>2. Served' \cup Closing' = {}
      BY <3>1 DEF Served, Closing, Live
    <3> QED
      BY <1>1, <3>2, ModeGoes, Mapped
  <2> QED
    BY <2>1, <2>2
<1> QED
  BY <1>2, <1>3, <1>4 DEF Promise!End, Served, Closing, Over, Mode, Asked, Decided

\* No turn has failed, and is written back, while a call of another is under
\* way, unless turns overlap.
LEMMA ModeStays ==
  ASSUME Sound, NEW t \in Turns, turn[t] = "engine", UNCHANGED <<turn, overlap>>,
         status' # "error"
  PROVE  Mode' = Mode
<1>1. ~overlap => ~ErrorWriteBack
  BY DEF Sound, OneLiveTurnInv, OneLiveTurn, ErrorWriteBack, Live
<1> QED
  BY <1>1 DEF Mode, ErrorWriteBack

\* A step of a call moves no turn.
LEMMA CallsPromise ==
  ASSUME Sound, NEW c \in Calls, CanUseTool(c) \/ Answer(c)
  PROVE  Promise!Next
<1>0. /\ call \in [Calls -> {"idle", "started", "asking", "allowed", "denied"}]
      /\ TurnOf(c) \in Turns /\ c # NoCall
  BY SessionConstants DEF Sound, TypeOK, SessionConstants, TurnOf
<1>1. UNCHANGED <<messages, turn, overlap>> /\ status' # "error"
  BY DEF CanUseTool, Answer, Approve, Resume
<1>2. UNCHANGED <<Served, Closing, Over>>
  BY <1>1 DEF Served, Closing, Over
<1>3. CASE CanUseTool(c)
  <2>1. call[c] = "started" /\ call' = [call EXCEPT ![c] = "asking"] /\ pendingApproval' = c
    BY <1>3 DEF CanUseTool
  <2>2. turn[TurnOf(c)] = "engine"
    BY <2>1 DEF Sound, CallsAreOfTheEngine
  <2>3. c[1] \in Served /\ Mode' = Mode
    BY <1>0, <1>1, <2>2, ModeStays DEF Served, TurnOf
  <2>4. Promise!Unanswered(c[1])
    BY <1>0, <2>2, Mapped DEF Sound, PromptIsLast, Mode, TurnOf
  <2>5. c \notin Asked \cup Decided /\ Asked' = Asked \cup {c} /\ Decided' = Decided
    BY <1>0, <2>1 DEF Asked, Decided
  <2>6. Promise!Ask(c)
    BY <1>1, <1>2, <2>1, <2>3, <2>4, <2>5
       DEF Promise!Ask, Served, Closing, Over, Mode, Asked, Decided
  <2> QED
    BY <2>6 DEF Promise!Next
<1>4. CASE Answer(c)
  <2>1. /\ pendingApproval = c /\ pendingApproval' = NoCall
        /\ \E a \in {"allowed", "denied"} : call' = [call EXCEPT ![c] = a]
    BY <1>4 DEF Answer, Approve, FoundByApprovalId, Resume
  <2>2. call[c] = "asking" /\ turn[TurnOf(c)] = "engine"
    BY <1>0, <2>1, ApprovalHasATurn
  <2>3. Mode' = Mode
    BY <1>0, <1>1, <2>2, ModeStays
  <2>4. c \in Asked /\ Asked' = Asked \ {c} /\ Decided' = Decided \cup {c}
    BY <1>0, <2>1, <2>2 DEF Asked, Decided
  <2>5. Promise!Decide(c)
    BY <1>1, <1>2, <2>1, <2>3, <2>4
       DEF Promise!Decide, Served, Closing, Over, Mode, Asked, Decided
  <2> QED
    BY <2>5 DEF Promise!Next
<1> QED
  BY <1>3, <1>4

\* Every other step is none of the conversation's.
LEMMA SilentPromise ==
  ASSUME UNCHANGED <<turn, messages, pendingApproval, status, overlap>>,
         \A c \in Calls : call'[c] = call[c] \/ {call[c], call'[c]} = {"idle", "started"}
  PROVE  UNCHANGED Promise!cvars
<1>1. UNCHANGED <<Served, Closing, Over, Mode, Asked, Decided>>
  BY DEF Served, Closing, Over, Mode, ErrorWriteBack, Asked, Decided
<1> QED
  BY <1>1 DEF Promise!cvars, Served, Closing, Over, Mode, Asked, Decided

\* The session implements the conversation it promises whoever uses it, for any
\* number of turns, tabs and parallel calls, error results included, in a build
\* without the streaming executor (submitMessage, canUseTool and the routes of
\* chatRoutes.ts).
THEOREM SessionIsAConversation ==
  ASSUME StreamingTools = FALSE
  PROVE  Spec => ImplementsConversation
<1>1. Init => Promise!Init
  BY DEF Init, Promise!Init, ErrorWriteBack
<1>2. Sound /\ BusyIsLive /\ [Next]_vars => [Promise!Next]_Promise!cvars
  <2> SUFFICES ASSUME Sound, BusyIsLive, [Next]_vars
               PROVE  Promise!Next \/ UNCHANGED Promise!cvars
    OBVIOUS
  <2>1. ASSUME NEW t \in Turns, SubmitMessage(t) \/ RejectMessage(t) PROVE Promise!Next
    BY <2>1, BeginPromise, RefusePromise DEF Promise!Next
  <2>2. ASSUME NEW t \in Turns, TurnStep(t) PROVE Promise!Next
    BY <2>2, ReplyPromise, EndPromise DEF TurnStep, Promise!Next
  <2>3. ASSUME NEW t \in Turns, AssistantText(t) PROVE UNCHANGED Promise!cvars
    BY <2>3, SilentPromise DEF AssistantText
  <2>4. ASSUME NEW c \in Calls, StartTool(c) PROVE UNCHANGED Promise!cvars
    <3>1. \A d \in Calls : call'[d] = call[d] \/ {call[d], call'[d]} = {"idle", "started"}
      BY <2>4 DEF StartTool, Sound, TypeOK
    <3> QED
      BY <2>4, <3>1, SilentPromise DEF StartTool
  <2>5. ASSUME NEW s \in Subs, Subscribe(s) \/ Unsubscribe(s) PROVE UNCHANGED Promise!cvars
    BY <2>5, SilentPromise DEF Subscribe, Unsubscribe
  <2>6. CASE UNCHANGED vars
    BY <2>6, SilentPromise DEF vars
  <2> QED
    BY <2>1, <2>2, <2>3, <2>4, <2>5, <2>6, CallsPromise DEF Next
<1> QED
  BY <1>1, <1>2, SoundAlways, BusyAlways, PTL DEF Spec, ImplementsConversation, Promise!Spec
================================================================================
