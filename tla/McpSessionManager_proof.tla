---------------------- MODULE McpSessionManager_proof ----------------------
(***************************************************************************)
(* Proofs about McpSessionManager, for any set of requests, configurations *)
(* and any bound on the attempts.                                          *)
(***************************************************************************)
EXTENDS McpSessionManager, TLAPS

\* An operation as the routes and the timer build it.
WellFormed(t) ==
    /\ t \in Tasks
    /\ t.op = "stop" <=> t.config = NoConfig
    /\ t.by = Timer => t.op = "retry" /\ t.config \in Configs

\* Only the running operation can be the timer's, and then no timer is armed
\* and the session has not been disconnected since.
ChainInv ==
    \A i \in 1 .. Len(chain) :
        /\ WellFormed(chain[i])
        /\ chain[i].by = Timer =>
              i = 1 /\ timer = NoTask /\ record.status # "disconnected"

\* While an operation waits for I/O no timer is armed.
TimerInv ==
    timer # NoTask =>
        /\ WellFormed(timer) /\ timer.by = Timer
        /\ record.status # "disconnected"
        /\ pc = "start"

\* What an operation at an await knows.
PcInv ==
    /\ pc # "start" => chain # <<>> /\ Task.config # Invalid
    /\ pc = "closing" => record.client # NoConfig /\ Task.op # "retry"
    /\ pc \in {"dialing", "describing", "undoing"} =>
          /\ Task.config \in Configs
          /\ record.status = "connecting" /\ record.config = Task.config

Inv ==
    /\ TypeOK /\ ConnectedIsComplete /\ ChainInv /\ TimerInv /\ PcInv
    /\ AutoBelongsToSession

-----------------------------------------------------------------------------
\* The first operation stays first when another is chained behind it.
LEMMA HeadAppend ==
    ASSUME NEW S, NEW s \in Seq(S), NEW e \in S
    PROVE  /\ Append(s, e) \in Seq(S)
           /\ Append(s, e) # <<>>
           /\ Len(Append(s, e)) = Len(s) + 1
           /\ \A i \in 1 .. Len(s) : Append(s, e)[i] = s[i]
           /\ Append(s, e)[Len(s) + 1] = e
           /\ s # <<>> => Head(Append(s, e)) = Head(s)
           /\ s = <<>> => Head(Append(s, e)) = e
  OBVIOUS

\* Settling takes the first operation off and keeps the others in order.
LEMMA TailFacts ==
    ASSUME NEW S, NEW s \in Seq(S), s # <<>>
    PROVE  /\ Head(s) \in S /\ Head(s) = s[1] /\ 1 \in 1 .. Len(s)
           /\ Tail(s) \in Seq(S)
           /\ Len(Tail(s)) = Len(s) - 1
           /\ \A i \in 1 .. Len(Tail(s)) : Tail(s)[i] = s[i + 1] /\ i + 1 \in 1 .. Len(s)
  OBVIOUS

\* The running operation is well formed.
LEMMA TaskFacts ==
    ASSUME Inv, chain # <<>>
    PROVE  /\ WellFormed(Task) /\ Task \in Tasks
           /\ Task.by = Timer => timer = NoTask /\ record.status # "disconnected"
  <1>1. chain \in Seq(Tasks)
    BY DEF Inv, TypeOK
  <1>2. Task = chain[1] /\ 1 \in 1 .. Len(chain)
    BY <1>1, TailFacts DEF Task
  <1> QED
    BY <1>2 DEF Inv, ChainInv, WellFormed

\* What is left of the chain and of the requests when an operation settles.
LEMMA SettleKeeps ==
    ASSUME Inv, chain # <<>>, Settle
    PROVE  /\ chain' \in Seq(Tasks) /\ pc' = "start"
           /\ request' \in [Requests -> {"new", "queued", "answered"}]
           /\ \A i \in 1 .. Len(chain') :
                 WellFormed(chain'[i]) /\ chain'[i].by # Timer
  <1>1. chain \in Seq(Tasks) /\ request \in [Requests -> {"new", "queued", "answered"}]
    BY DEF Inv, TypeOK
  <1>2. \A i \in 1 .. Len(Tail(chain)) :
            Tail(chain)[i] = chain[i + 1] /\ i + 1 \in 1 .. Len(chain) /\ i + 1 # 1
    BY <1>1, TailFacts
  <1>3. \A i \in 1 .. Len(Tail(chain)) :
            WellFormed(Tail(chain)[i]) /\ Tail(chain)[i].by # Timer
    BY <1>2 DEF Inv, ChainInv
  <1>4. Tail(chain) \in Seq(Tasks)
    BY <1>1, TailFacts
  <1> QED
    BY <1>1, <1>3, <1>4 DEF Settle, WellFormed

\* The records the operations write are records.
LEMMA Records ==
    ASSUME Inv, chain # <<>>
    PROVE  /\ Stopped \in Record /\ Rejected \in Record
           /\ Task.config \in Configs => Connecting \in Record
  <1>1. record \in Record /\ 0 \in 0 .. MaxAttempts
    BY McpConstants DEF Inv, TypeOK
  <1>2. Task.attempt \in 0 .. MaxAttempts
    BY TaskFacts DEF Tasks
  <1>3. Stopped \in Record
    BY <1>1 DEF Stopped, Record
  <1>4. Rejected \in Record
    BY <1>1 DEF Rejected, Record
  <1>5. Task.config \in Configs => Connecting \in Record
    BY <1>1, <1>2 DEF Connecting, Record
  <1> QED
    BY <1>3, <1>4, <1>5

-----------------------------------------------------------------------------
\* The invariant holds before any request.
LEMMA InitInv == Init => Inv
  BY McpConstants DEF Init, Inv, TypeOK, Record, ConnectedIsComplete, ChainInv,
     TimerInv, PcInv, AutoBelongsToSession, Automatic

\* A request is chained behind whatever runs, and carries no automatic attempt.
LEMMA AskKeepsInv ==
    ASSUME Inv, NEW r \in Requests, Arrive(r)
    PROVE  Inv'
  <1> PICK op \in {"connect", "retry", "stop"}, config \in Bodies \cup {NoConfig} :
         Ask(r, op, config) /\ (op = "stop" <=> config = NoConfig)
    BY McpConstants DEF Arrive
  <1> DEFINE t == [by |-> r, op |-> op, config |-> config, attempt |-> 0]
  <1>1. WellFormed(t) /\ t \in Tasks /\ t.by # Timer
    BY McpConstants DEF WellFormed, Tasks
  <1>2. chain \in Seq(Tasks) /\ chain' = Append(chain, t)
    BY DEF Ask, Inv, TypeOK
  <1> HIDE DEF t
  <1>3. /\ chain' \in Seq(Tasks) /\ chain' # <<>> /\ Len(chain') = Len(chain) + 1
        /\ \A i \in 1 .. Len(chain) : chain'[i] = chain[i]
        /\ chain'[Len(chain) + 1] = t
        /\ chain # <<>> => Head(chain') = Head(chain)
    BY <1>1, <1>2, HeadAppend
  <1>4. UNCHANGED <<record, pc, timer, live>>
    BY DEF Ask
  <1>5. TypeOK' /\ ConnectedIsComplete' /\ TimerInv'
    BY <1>3, <1>4 DEF Inv, TypeOK, ConnectedIsComplete, TimerInv, Ask, WellFormed
  <1>6. ChainInv'
    <2> SUFFICES ASSUME NEW i \in 1 .. Len(chain')
                 PROVE  /\ WellFormed(chain'[i])
                        /\ chain'[i].by = Timer =>
                              i = 1 /\ timer = NoTask /\ record.status # "disconnected"
      BY <1>4 DEF ChainInv, WellFormed
    <2>1. CASE i = Len(chain) + 1
      BY <2>1, <1>1, <1>3
    <2>2. CASE i # Len(chain) + 1
      <3>1. i \in 1 .. Len(chain)
        BY <2>2, <1>2, <1>3
      <3> QED
        BY <3>1, <1>3 DEF Inv, ChainInv
    <2> QED
      BY <2>1, <2>2
  <1>7. PcInv'
    BY <1>3, <1>4 DEF Inv, PcInv, Task
  <1>8. AutoBelongsToSession'
    <2>1. \A i \in 1 .. Len(chain') : chain'[i].by = Timer => i \in 1 .. Len(chain)
      BY <1>1, <1>2, <1>3
    <2>2. Automatic' \subseteq Automatic
      BY <1>3, <1>4, <2>1 DEF Automatic
    <2> QED
      BY <1>4, <2>2 DEF Inv, AutoBelongsToSession
  <1> QED
    BY <1>5, <1>6, <1>7, <1>8 DEF Inv

\* A timer that fires finds the chain empty, so that its attempt runs first.
LEMMA TimerKeepsInv ==
    ASSUME Inv, TimerFires
    PROVE  Inv'
  <1>1. chain = <<>> /\ pc = "start" /\ timer # NoTask /\ WellFormed(timer)
        /\ record.status # "disconnected"
    BY DEF TimerFires, Quiet, Inv, TimerInv
  <1>2. chain' = <<timer>> /\ timer' = NoTask /\ UNCHANGED <<record, pc, live, request>>
    BY <1>1 DEF TimerFires
  <1>3. Len(chain') = 1 /\ chain'[1] = timer /\ chain' \in Seq(Tasks)
    BY <1>1, <1>2 DEF WellFormed
  <1>4. TypeOK' /\ ConnectedIsComplete' /\ TimerInv' /\ PcInv'
    BY <1>1, <1>2, <1>3 DEF Inv, TypeOK, ConnectedIsComplete, TimerInv, PcInv, WellFormed
  <1>5. ChainInv'
    BY <1>1, <1>2, <1>3 DEF ChainInv, WellFormed
  <1>6. AutoBelongsToSession'
    <2>1. timer \in Automatic
      BY <1>1 DEF Automatic
    <2>2. Automatic' \subseteq {timer}
      BY <1>2, <1>3 DEF Automatic
    <2> QED
      BY <1>2, <2>1, <2>2 DEF Inv, AutoBelongsToSession
  <1> QED
    BY <1>4, <1>5, <1>6 DEF Inv

\* An operation that settles keeps the invariant when the record and the timer
\* it leaves do.
LEMMA SettledInv ==
    ASSUME Inv, chain # <<>>, Settle, record' \in Record, live' \subseteq Configs,
           ConnectedIsComplete',
           \/ UNCHANGED timer /\ (timer = NoTask \/ record' = Rejected)
           \/ timer' = NoTask
           \/ timer' = NextAttempt /\ NextAttempt \in Tasks /\ Task.config \in Configs
              /\ record'.status = "connecting" /\ record'.retryAt
              /\ record'.config = Task.config /\ record'.attempt = Task.attempt + 1
    PROVE  Inv'
  <1>1. /\ chain' \in Seq(Tasks) /\ pc' = "start"
        /\ request' \in [Requests -> {"new", "queued", "answered"}]
        /\ \A i \in 1 .. Len(chain') :
              WellFormed(chain'[i]) /\ chain'[i].by # Timer
    BY SettleKeeps
  <1>2. NextAttempt \in Tasks /\ Task.config \in Configs
            => WellFormed(NextAttempt) /\ NextAttempt.by = Timer
    BY McpConstants DEF WellFormed, NextAttempt
  <1>3. TypeOK'
    BY <1>1 DEF Inv, TypeOK
  <1>4. ChainInv'
    BY <1>1 DEF ChainInv, WellFormed
  <1>5. TimerInv'
    BY <1>1, <1>2 DEF Inv, TimerInv, WellFormed, Rejected
  <1>6. PcInv'
    BY <1>1 DEF PcInv
  <1>7. Automatic' \subseteq {timer'} \ {NoTask}
    BY <1>1 DEF Automatic
  <1>8. AutoBelongsToSession'
    <2>1. CASE UNCHANGED timer /\ timer # NoTask /\ record' = Rejected
      <3>1. timer \in Automatic
        BY <2>1 DEF Automatic
      <3>2. record'.config = record.config /\ record'.status = "error" /\ record'.auto = FALSE
        BY <2>1 DEF Rejected
      <3> QED
        BY <1>7, <2>1, <3>1, <3>2 DEF Inv, AutoBelongsToSession
    <2>2. CASE timer' = NoTask
      BY <1>7, <2>2 DEF AutoBelongsToSession
    <2>3. CASE /\ timer' = NextAttempt
               /\ record'.status = "connecting" /\ record'.retryAt
               /\ record'.config = Task.config /\ record'.attempt = Task.attempt + 1
      BY <1>7, <2>3 DEF AutoBelongsToSession, NextAttempt
    <2> QED
      BY <2>1, <2>2, <2>3
  <1> QED
    BY <1>3, <1>4, <1>5, <1>6, <1>8 DEF Inv

\* An operation that reaches an await keeps the invariant.
LEMMA AwaitInv ==
    ASSUME Inv, chain # <<>>, UNCHANGED <<chain, request>>, timer' = NoTask,
           record' \in Record, live' \subseteq Configs, ConnectedIsComplete',
           \/ pc' = "closing" /\ UNCHANGED record /\ record.client # NoConfig
              /\ Task.op # "retry" /\ Task.config # Invalid
           \/ pc' \in {"dialing", "describing", "undoing"} /\ Task.config \in Configs
              /\ record'.status = "connecting" /\ record'.config = Task.config
              /\ (Task.by = Timer => record'.attempt = Task.attempt)
    PROVE  Inv'
  <1>1. TypeOK'
    BY DEF Inv, TypeOK
  <1>2. ChainInv'
    BY DEF Inv, ChainInv, WellFormed
  <1>3. TimerInv' /\ PcInv'
    BY McpConstants DEF TimerInv, PcInv, Task
  <1>4. Automatic' \subseteq {Task} /\ (Automatic' # {} => Task.by = Timer)
    <2>1. \A i \in 1 .. Len(chain) : chain[i].by = Timer => chain[i] = Task
      BY DEF Inv, ChainInv, TypeOK, Task
    <2> QED
      BY <2>1 DEF Automatic
  <1>5. AutoBelongsToSession'
    BY <1>4, TaskFacts DEF AutoBelongsToSession, WellFormed
  <1> QED
    BY <1>1, <1>2, <1>3, <1>5 DEF Inv

\* The record of a connecting session has the number of the running attempt.
LEMMA RunningAttempt ==
    ASSUME Inv, chain # <<>>, Task.by = Timer, record.status = "connecting"
    PROVE  record.attempt = Task.attempt
  <1>1. Task = chain[1] /\ 1 \in 1 .. Len(chain)
    BY TailFacts DEF Inv, TypeOK, Task
  <1>2. Task \in Automatic
    BY <1>1 DEF Automatic
  <1> QED
    BY <1>2 DEF Inv, AutoBelongsToSession

\* Each step of the running operation keeps the invariant.
LEMMA AdvanceKeepsInv ==
    ASSUME Inv, Advance
    PROVE  Inv'
  <1>1. CASE Refuse
    <2>1. record' \in Record /\ record' = Rejected /\ ConnectedIsComplete'
      BY <1>1, Records DEF Refuse, Rejected, ConnectedIsComplete
    <2> QED
      BY <1>1, <2>1, SettledInv DEF Refuse, Inv, TypeOK
  <1>2. CASE StartConnect
    <2>1. Task.op # "stop"
      BY <1>2, TaskFacts, McpConstants DEF StartConnect, WellFormed
    <2>2. CASE Task.op = "connect" /\ record.client # NoConfig
      <3>1. UNCHANGED <<record, chain, live, request>> /\ timer' = NoTask /\ pc' = "closing"
        BY <1>2, <2>2 DEF StartConnect
      <3>2. ConnectedIsComplete' /\ record' \in Record /\ live' \subseteq Configs
        BY <3>1 DEF ConnectedIsComplete, Inv, TypeOK
      <3> QED
        BY <1>2, <2>2, <3>1, <3>2, McpConstants, AwaitInv DEF StartConnect
    <2>3. CASE ~(Task.op = "connect" /\ record.client # NoConfig)
      <3>1. /\ UNCHANGED <<chain, live, request>> /\ timer' = NoTask /\ pc' = "dialing"
            /\ record' = Connecting /\ Task.config \in Configs /\ chain # <<>>
        BY <1>2, <2>3 DEF StartConnect
      <3>2. /\ ConnectedIsComplete' /\ record' \in Record /\ live' \subseteq Configs
            /\ record'.status = "connecting" /\ record'.config = Task.config
            /\ record'.attempt = Task.attempt
        BY <3>1, Records DEF ConnectedIsComplete, Connecting, Inv, TypeOK
      <3> QED
        BY <3>1, <3>2, AwaitInv
    <2> QED
      BY <2>2, <2>3
  <1>3. CASE StartStop
    <2>1. Task.config # Invalid
      BY <1>3, TaskFacts, McpConstants DEF StartStop, WellFormed
    <2>2. CASE record.client # NoConfig
      <3>1. /\ UNCHANGED <<record, chain, live, request>> /\ timer' = NoTask
            /\ pc' = "closing" /\ chain # <<>> /\ Task.op = "stop"
        BY <1>3, <2>2 DEF StartStop
      <3>2. ConnectedIsComplete' /\ record' \in Record /\ live' \subseteq Configs
        BY <3>1 DEF ConnectedIsComplete, Inv, TypeOK
      <3> QED
        BY <2>1, <2>2, <3>1, <3>2, AwaitInv
    <2>3. CASE record.client = NoConfig
      <3>1. /\ record' = Stopped /\ Settle /\ timer' = NoTask /\ UNCHANGED live
            /\ chain # <<>>
        BY <1>3, <2>3 DEF StartStop
      <3>2. ConnectedIsComplete' /\ record' \in Record /\ live' \subseteq Configs
        BY <3>1, Records DEF ConnectedIsComplete, Stopped, Record, Inv, TypeOK
      <3> QED
        BY <3>1, <3>2, SettledInv
    <2> QED
      BY <2>2, <2>3
  <1>4. CASE Closed
    <2>1. chain # <<>> /\ pc = "closing" /\ timer = NoTask /\ UNCHANGED timer
          /\ live' \subseteq Configs /\ Task.op # "retry" /\ Task.config # Invalid
      BY <1>4 DEF Closed, Inv, TimerInv, PcInv, TypeOK
    <2>2. CASE Task.op = "stop"
      <3>1. record' = Stopped /\ Settle
        BY <1>4, <2>2 DEF Closed
      <3>2. ConnectedIsComplete' /\ record' \in Record
        BY <2>1, <3>1, Records DEF ConnectedIsComplete, Stopped, Record, Inv, TypeOK
      <3> QED
        BY <2>1, <3>1, <3>2, SettledInv
    <2>3. CASE Task.op # "stop"
      <3>1. record' = Connecting /\ pc' = "dialing" /\ UNCHANGED <<chain, request>>
        BY <1>4, <2>3 DEF Closed
      <3>2. Task.config \in Configs
        BY <2>1, <2>3, TaskFacts DEF WellFormed, Tasks
      <3>3. /\ ConnectedIsComplete' /\ record' \in Record /\ record'.status = "connecting"
            /\ record'.config = Task.config /\ record'.attempt = Task.attempt
        BY <2>1, <3>1, <3>2, Records DEF ConnectedIsComplete, Connecting
      <3> QED
        BY <2>1, <3>1, <3>2, <3>3, AwaitInv
    <2> QED
      BY <2>2, <2>3
  <1>5. ASSUME NEW needsAuth \in BOOLEAN, DialFails(needsAuth)
        PROVE  Inv'
    <2>1. /\ chain # <<>> /\ timer = NoTask /\ Settle /\ live' \subseteq Configs
          /\ record.status = "connecting" /\ Task.config \in Configs /\ record \in Record
          /\ record.client = NoConfig /\ record.config = Task.config
      BY <1>5 DEF DialFails, Inv, TimerInv, PcInv, TypeOK, ConnectedIsComplete
    <2>2. Task.attempt \in 0 .. MaxAttempts
      BY <2>1, TaskFacts DEF Tasks
    <2>3. CASE Eligible(needsAuth)
      <3>1. timer' = NextAttempt
            /\ record' = [record EXCEPT !.described = FALSE, !.retryAt = TRUE,
                                        !.attempt = Task.attempt + 1]
        BY <1>5, <2>3 DEF DialFails
      <3>2. Task.attempt + 1 \in 0 .. MaxAttempts
        BY <2>2, <2>3, McpConstants DEF Eligible
      <3>3. /\ record' \in Record /\ ConnectedIsComplete'
            /\ record'.status = "connecting" /\ record'.retryAt
            /\ record'.config = Task.config /\ record'.attempt = Task.attempt + 1
        BY <2>1, <3>1, <3>2 DEF Record, ConnectedIsComplete
      <3>4. NextAttempt \in Tasks
        BY <2>1, <3>2 DEF NextAttempt, Tasks
      <3> QED
        BY <2>1, <3>1, <3>3, <3>4, SettledInv
    <2>4. CASE ~Eligible(needsAuth)
      <3>1. record' = [record EXCEPT !.described = FALSE, !.status = "error"]
            /\ UNCHANGED timer
        BY <1>5, <2>4 DEF DialFails
      <3>2. record' \in Record /\ ConnectedIsComplete'
        BY <2>1, <3>1 DEF Record, ConnectedIsComplete
      <3> QED
        BY <2>1, <3>1, <3>2, SettledInv
    <2> QED
      BY <2>3, <2>4
  <1>6. CASE DialConnects
    <2>1. /\ chain # <<>> /\ timer' = NoTask /\ UNCHANGED <<record, chain, request>>
          /\ live' \subseteq Configs /\ Task.config \in Configs
          /\ record.status = "connecting" /\ pc' = "describing"
          /\ record.config = Task.config
      BY <1>6 DEF DialConnects, Inv, TimerInv, PcInv, TypeOK
    <2>2. record' \in Record /\ ConnectedIsComplete'
      BY <2>1 DEF Inv, TypeOK, ConnectedIsComplete
    <2>3. Task.by = Timer => record.attempt = Task.attempt
      BY <2>1, RunningAttempt
    <2> QED
      BY <2>1, <2>2, <2>3, AwaitInv
  <1>7. CASE DescribeOk
    <2>1. /\ chain # <<>> /\ timer' = NoTask /\ Settle /\ live' \subseteq Configs
          /\ Task.config \in Configs /\ record \in Record
          /\ record' = [record EXCEPT !.status = "connected", !.client = Task.config,
                                      !.described = TRUE, !.attempt = 0]
      BY <1>7 DEF DescribeOk, Inv, TimerInv, PcInv, TypeOK
    <2>2. Task.config # NoConfig /\ 0 \in 0 .. MaxAttempts
      BY <2>1, McpConstants
    <2>3. record' \in Record
      BY <2>1, <2>2 DEF Record
    <2>4. ConnectedIsComplete'
      BY <2>1, <2>2 DEF Record, ConnectedIsComplete
    <2> QED
      BY <2>1, <2>3, <2>4, SettledInv
  <1>8. CASE DescribeFails
    <2>1. /\ chain # <<>> /\ timer' = NoTask /\ UNCHANGED <<record, chain, live, request>>
          /\ Task.config \in Configs /\ record.status = "connecting" /\ pc' = "undoing"
          /\ record.config = Task.config
      BY <1>8 DEF DescribeFails, Inv, TimerInv, PcInv, TypeOK
    <2>2. record' \in Record /\ ConnectedIsComplete' /\ live' \subseteq Configs
      BY <2>1 DEF Inv, TypeOK, ConnectedIsComplete
    <2>3. Task.by = Timer => record.attempt = Task.attempt
      BY <2>1, RunningAttempt
    <2> QED
      BY <2>1, <2>2, <2>3, AwaitInv
  <1>9. CASE Undone
    <2>1. /\ chain # <<>> /\ timer' = NoTask /\ Settle /\ live' \subseteq Configs
          /\ record.status = "connecting" /\ record.client = NoConfig
          /\ record \in Record
          /\ record' = [record EXCEPT !.status = "error", !.described = FALSE]
      BY <1>9 DEF Undone, Inv, TimerInv, PcInv, TypeOK, ConnectedIsComplete
    <2>2. record' \in Record /\ ConnectedIsComplete'
      BY <2>1 DEF Record, ConnectedIsComplete
    <2> QED
      BY <2>1, <2>2, SettledInv
  <1> QED
    BY <1>1, <1>2, <1>3, <1>4, <1>5, <1>6, <1>7, <1>8, <1>9 DEF Advance, Dialed

\* A connection that closes by itself changes nothing the manager keeps.
LEMMA DropKeepsInv ==
    ASSUME Inv, \/ \E c \in Configs : Drop(c)
                \/ UNCHANGED vars
    PROVE  Inv'
  <1>1. UNCHANGED <<record, chain, pc, timer, request>> /\ live' \subseteq Configs
    BY DEF Drop, vars, Inv, TypeOK
  <1> QED
    BY <1>1 DEF Inv, TypeOK, ConnectedIsComplete, ChainInv, TimerInv, PcInv,
       WellFormed, Task, AutoBelongsToSession, Automatic

\* The invariant holds in every state: an automatic attempt is the armed timer
\* or the running operation, never one that waits in the chain.
THEOREM Invariance == Spec => []Inv
  <1>1. Inv /\ [Next]_vars => Inv'
    BY AskKeepsInv, TimerKeepsInv, AdvanceKeepsInv, DropKeepsInv DEF Next
  <1> QED
    BY InitInv, <1>1, PTL DEF Spec

-----------------------------------------------------------------------------
\* The manager's maps have their types, and no automatic attempt is numbered
\* above MAX_AUTO_RECONNECT_ATTEMPTS.
THEOREM TypeCorrect == Spec => []TypeOK
  BY Invariance, PTL DEF Inv

\* describe, which runs between the chained operations, has nothing to write:
\* a record has a client exactly when it is connected, and is then described.
THEOREM DescribeOnlyReads == Spec => []ConnectedIsComplete
  BY Invariance, PTL DEF Inv

\* Whatever was under way when the user disconnected, a disconnected server has
\* no automatic attempt to come.
THEOREM DisconnectWins == Spec => []DisconnectIsFinal
  <1>1. Inv => DisconnectIsFinal
    BY DEF Inv, ChainInv, TimerInv, DisconnectIsFinal, Automatic
  <1> QED
    BY Invariance, <1>1, PTL

\* An automatic attempt to come carries the configuration of the record, which
\* is connecting with the attempt's number or has refused a configuration since.
THEOREM AutomaticIsOnScreen == Spec => []AutoBelongsToSession
  BY Invariance, PTL DEF Inv

\* A step that loses hold of an open connection is one of a retry or of a
\* refused configuration.
THEOREM OthersKeepHold == Spec => OnlyRetryOrRefusalOrphans
  <1> DEFINE Kept == NothingLeftBehind /\ ~NothingLeftBehind' =>
                        Task.op = "retry" \/ Task.config = Invalid
  <1>1. ASSUME Inv, UNCHANGED <<record, live>>, Working' = Working
        PROVE  Kept
    BY <1>1 DEF NothingLeftBehind
  <1>2. ASSUME Inv, NEW r \in Requests, Arrive(r)
        PROVE  Kept
    <2>1. UNCHANGED <<record, pc, live>> /\ \E t : chain' = Append(chain, t)
      BY <1>2 DEF Arrive, Ask
    <2>2. pc # "start" => chain # <<>> /\ chain \in Seq(Tasks)
      BY <1>2 DEF Inv, PcInv, TypeOK
    <2>3. pc # "start" => Task' = Task
      BY <2>1, <2>2 DEF Task
    <2>4. Working' = Working
      BY <2>1, <2>3 DEF Working
    <2> QED
      BY <1>1, <1>2, <2>1, <2>4
  <1>3. ASSUME Inv, TimerFires
        PROVE  Kept
    <2>1. pc = "start" /\ UNCHANGED <<record, pc, live>>
      BY <1>3 DEF TimerFires, Inv, TimerInv
    <2>2. Working' = Working
      BY <2>1 DEF Working
    <2> QED
      BY <1>1, <1>3, <2>1, <2>2
  <1>4. ASSUME Inv, Advance
        PROVE  Kept
    <2>1. /\ live \subseteq Configs /\ NoConfig \notin Configs /\ record \in Record
          /\ chain # <<>> => Task \in Tasks
      BY <1>4, McpConstants, TaskFacts DEF Inv, TypeOK
    <2>2. CASE Refuse
      BY <2>2 DEF Refuse
    <2>3. CASE StartConnect
      <3>1. CASE Task.op = "retry"
        BY <3>1
      <3>2. CASE Task.op = "connect" /\ record.client # NoConfig
        <4>1. pc = "start" /\ pc' = "closing" /\ UNCHANGED <<record, live>>
          BY <2>3, <3>2 DEF StartConnect
        <4> QED
          BY <1>1, <1>4, <4>1 DEF Working
      <3>3. CASE Task.op = "connect" /\ record.client = NoConfig
        <4>1. pc = "start" /\ UNCHANGED live
          BY <2>3, <3>3 DEF StartConnect
        <4> QED
          BY <2>1, <3>3, <4>1 DEF NothingLeftBehind, Working
      <3>4. Task.op # "stop"
        BY <1>4, <2>3, TaskFacts, McpConstants DEF StartConnect, WellFormed
      <3> QED
        BY <2>1, <2>3, <3>1, <3>2, <3>3, <3>4 DEF StartConnect, Tasks
    <2>4. CASE StartStop
      <3>1. CASE record.client # NoConfig
        <4>1. pc = "start" /\ pc' = "closing" /\ UNCHANGED <<record, live>>
          BY <2>4, <3>1 DEF StartStop
        <4> QED
          BY <1>1, <1>4, <4>1 DEF Working
      <3>2. CASE record.client = NoConfig
        <4>1. pc = "start" /\ UNCHANGED live
          BY <2>4, <3>2 DEF StartStop
        <4> QED
          BY <2>1, <3>2, <4>1 DEF NothingLeftBehind, Working
      <3> QED
        BY <3>1, <3>2
    <2>5. CASE Closed
      <3>1. pc = "closing" /\ live' = live \ {record.client}
        BY <2>5 DEF Closed
      <3> QED
        BY <3>1 DEF NothingLeftBehind, Working
    <2>6. CASE DialConnects
      <3>1. /\ pc = "dialing" /\ pc' = "describing" /\ UNCHANGED <<record, chain>>
            /\ live' = live \cup {Task.config} /\ Task' = Task
        BY <2>6 DEF DialConnects, Task
      <3> QED
        BY <3>1 DEF NothingLeftBehind, Working
    <2>7. ASSUME NEW needsAuth \in BOOLEAN, DialFails(needsAuth)
          PROVE  Kept
      <3>1. pc = "dialing" /\ live' = live \ {Task.config}
        BY <2>7 DEF DialFails
      <3>2. record'.client = record.client
        BY <2>1, <2>7 DEF DialFails, Record
      <3> QED
        BY <3>1, <3>2 DEF NothingLeftBehind, Working
    <2>8. CASE DescribeOk
      <3>1. pc = "describing" /\ UNCHANGED live
        BY <2>8 DEF DescribeOk
      <3>2. record'.client = Task.config
        BY <2>1, <2>8 DEF DescribeOk, Record
      <3>3. record.client = NoConfig
        BY <1>4, <3>1 DEF Inv, PcInv, ConnectedIsComplete
      <3> QED
        BY <2>1, <3>1, <3>2, <3>3 DEF NothingLeftBehind, Working
    <2>9. CASE DescribeFails
      <3>1. /\ pc = "describing" /\ pc' = "undoing" /\ UNCHANGED <<record, live>>
            /\ Task' = Task
        BY <2>9 DEF DescribeFails, Task
      <3> QED
        BY <1>1, <1>4, <3>1 DEF Working
    <2>10. CASE Undone
      <3>1. pc = "undoing" /\ live' = live \ {Task.config}
        BY <2>10 DEF Undone
      <3>2. record'.client = record.client
        BY <2>1, <2>10 DEF Undone, Record
      <3> QED
        BY <3>1, <3>2 DEF NothingLeftBehind, Working
    <2> QED
      BY <1>4, <2>2, <2>3, <2>4, <2>5, <2>6, <2>7, <2>8, <2>9, <2>10 DEF Advance, Dialed
  <1>5. ASSUME Inv, NEW c \in Configs, Drop(c)
        PROVE  Kept
    BY <1>5 DEF Drop, NothingLeftBehind, Working, Task
  <1>6. Inv /\ [Next]_vars => [Kept]_vars
    BY <1>2, <1>3, <1>4, <1>5 DEF Next
  <1> QED
    BY Invariance, <1>6, PTL DEF Spec, OnlyRetryOrRefusalOrphans
=============================================================================
