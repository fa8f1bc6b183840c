--------------------- MODULE StreamingToolExecutor_proof ---------------------
(***************************************************************************)
(* Proofs about the streaming executor: its types, that exclusive calls    *)
(* execute alone and that calls start in order, for any number of calls    *)
(* and of executors.                                                       *)
(***************************************************************************)
EXTENDS StreamingToolExecutor, SequenceTheorems, TLAPS

Statuses == {"unseen", "queued", "executing", "completed", "yielded"}

\* The calls are added in the order of their numbers.
SeenFirst(st) ==
    \A i, j \in Ids : st[i] = "unseen" /\ st[j] # "unseen" => j < i

Began(st, i) == st[i] \notin {"unseen", "queued"}

Alone(st) ==
    \A i, j \in Ids :
        /\ i # j /\ owner[i] = owner[j]
        /\ st[i] = "executing" /\ st[j] = "executing"
        => Safe(i) /\ Safe(j)

InOrder(st) ==
    \A i, j \in Ids :
        /\ i < j /\ owner[i] = owner[j] /\ Known(j) /\ Began(st, j)
        => Began(st, i)

\* Only calls of known tools wait.
QueuedKnown(st) == \A i \in Ids : st[i] = "queued" => Known(i)

\* What is true of the statuses in every state.
Good(st) ==
    /\ st \in [Ids -> Statuses] /\ QueuedKnown(st)
    /\ SeenFirst(st) /\ Alone(st) /\ InOrder(st)

\* No call of executor g that waits is in front of index k.
NoneBefore(st, g, k) ==
    \A i \in Ids : i < k /\ owner[i] = g => st[i] # "queued"

IInv ==
    /\ TypeOK /\ Good(status)
    /\ \A i \in paused : Known(i)

-----------------------------------------------------------------------------
\* What is pushed to a call's messages is a list of results.
LEMMA Pushed ==
    /\ <<>> \in ResultList /\ <<"own">> \in ResultList
    /\ <<"error">> \in ResultList
    /\ \A q \in ResultList : Append(q, "synthetic") \in ResultList
BY DEF ResultList

\* processQueue reaches a call only if the calls in front of it have begun.
LEMMA StartsBehindBegun ==
    ASSUME NEW st, NEW g, NEW k \in Nat, NEW i \in Ids,
           kind \in Responses, Good(st), NoneBefore(st, g, k),
           Starts(st, g, k, i)
    PROVE  \A j \in Ids : j < i /\ owner[j] = owner[i] => Began(st, j)
<1> SUFFICES ASSUME NEW j \in Ids, j < i, owner[j] = owner[i], ~Began(st, j)
             PROVE  FALSE
  OBVIOUS
<1>1. owner[i] = g /\ st[i] = "queued"
  BY DEF Starts, Stops
<1>2. st[j] = "queued"
  BY <1>1 DEF Good, SeenFirst, Began, Ids
<1>3. j >= k
  BY <1>1, <1>2 DEF NoneBefore, Ids
<1>4. j \notin Stops(st, g, k)
  BY DEF Starts, Ids
<1>5. ~CanExecuteTool(st, j) /\ Safe(j)
  BY <1>1, <1>2, <1>3, <1>4 DEF Stops
<1>6. PICK e \in Ids : owner[e] = owner[j] /\ st[e] = "executing" /\ ~Safe(e)
  BY <1>5 DEF CanExecuteTool
<1>7. Safe(e)
  BY <1>6 DEF Starts, CanExecuteTool
<1> QED
  BY <1>6, <1>7

\* Starting that call, or completing it at once, keeps the statuses good.
LEMMA StartKeeps ==
    ASSUME NEW st, NEW g, NEW k \in Nat, NEW i \in Ids,
           NEW s \in {"executing", "completed"},
           kind \in Responses, Good(st), NoneBefore(st, g, k),
           Starts(st, g, k, i)
    PROVE  Good([st EXCEPT ![i] = s])
<1> DEFINE st2 == [st EXCEPT ![i] = s]
<1>1. st \in [Ids -> Statuses] /\ st[i] = "queued"
  BY DEF Good, Starts, Stops
<1>2. st2 \in [Ids -> Statuses] /\ st2[i] = s
      /\ \A j \in Ids \ {i} : st2[j] = st[j]
  BY <1>1 DEF Statuses
<1>3. SeenFirst(st2)
  BY <1>1, <1>2 DEF Good, SeenFirst
<1>4. Alone(st2)
  <2>1. \A j \in Ids : owner[j] = owner[i] /\ st[j] = "executing"
                          => Safe(i) /\ Safe(j)
    BY DEF Starts, CanExecuteTool
  <2> QED
    BY <1>2, <2>1 DEF Good, Alone
<1>5. InOrder(st2)
  <2>1. \A j \in Ids : j < i /\ owner[j] = owner[i] => Began(st, j)
    BY StartsBehindBegun
  <2> QED
    BY <1>1, <1>2, <2>1 DEF Good, InOrder, Began, Ids
<1>6. QueuedKnown(st2)
  BY <1>1, <1>2 DEF Good, QueuedKnown
<1> QED
  BY <1>2, <1>3, <1>4, <1>5, <1>6 DEF Good

\* A pass of processQueue keeps the statuses good and the bookkeeping typed.
LEMMA PassKeeps ==
    ASSUME NEW st, NEW g, NEW k \in Nat, NEW ps, NEW du,
           kind \in Responses,
           results \in [Ids -> ResultList],
           Good(st), NoneBefore(st, g, k),
           ps \in SUBSET Ids, \A i \in ps : Began(st, i) /\ Known(i),
           du \in SUBSET Ids, \A i \in du : st[i] \in {"completed", "yielded"},
           ProcessQueue(st, g, k, ps, du)
    PROVE  /\ Good(status')
           /\ results' \in [Ids -> ResultList]
           /\ paused' \in SUBSET Ids /\ \A i \in paused' : Began(status', i) /\ Known(i)
           /\ due' \in SUBSET Ids
           /\ \A i \in due' : status'[i] \in {"completed", "yielded"}
<1>1. CASE status' = st /\ paused' = ps /\ due' = du /\ results' = results
  BY <1>1
<1>2. CASE \E i \in Ids :
             /\ Starts(st, g, k, i)
             /\ paused' = ps \cup {i}
             /\ \/ /\ status' = [st EXCEPT ![i] = "completed"]
                   /\ due' = du \cup {i} /\ results' = Synthetic(i)
                \/ /\ status' = [st EXCEPT ![i] = "executing"]
                   /\ due' = du /\ results' = results
  <2>1. PICK i \in Ids :
             /\ Starts(st, g, k, i)
             /\ paused' = ps \cup {i}
             /\ \/ /\ status' = [st EXCEPT ![i] = "completed"]
                   /\ due' = du \cup {i} /\ results' = Synthetic(i)
                \/ /\ status' = [st EXCEPT ![i] = "executing"]
                   /\ due' = du /\ results' = results
    BY <1>2
  <2>2. Good(status')
    <3>1. Good([st EXCEPT ![i] = "completed"])
      BY <2>1, StartKeeps
    <3>2. Good([st EXCEPT ![i] = "executing"])
      BY <2>1, StartKeeps
    <3> QED
      BY <2>1, <3>1, <3>2
  <2>3. st \in [Ids -> Statuses] /\ st[i] = "queued"
    BY <2>1 DEF Good, Starts, Stops
  <2>4. results' \in [Ids -> ResultList]
    <3>1. \A q \in ResultList : Append(q, "synthetic") \in ResultList
      BY Pushed
    <3>2. Synthetic(i) \in [Ids -> ResultList]
      BY <3>1 DEF Synthetic
    <3> QED
      BY <2>1, <3>2
  <2>5. \A j \in paused' : Began(status', j) /\ Known(j)
    BY <2>1, <2>3 DEF Began, Statuses, Good, QueuedKnown
  <2>6. \A j \in due' : status'[j] \in {"completed", "yielded"}
    BY <2>1, <2>3
  <2> QED
    BY <2>1, <2>2, <2>4, <2>5, <2>6
<1> QED
  BY <1>1, <1>2 DEF ProcessQueue

-----------------------------------------------------------------------------
\* Initially every call is unseen.
LEMMA InitIInv == ASSUME Init PROVE IInv
<1> USE ExecutorConstants DEF Init
<1>1. TypeOK
  <2>1. results \in [Ids -> ResultList]
    BY Pushed
  <2>2. owner \in [Ids -> 1 .. attempt] /\ 1 \in 1 .. MaxAttempts
        /\ 1 \in 1 .. MaxTools + 1
    OBVIOUS
  <2>3. progress \in [Ids -> BOOLEAN]
    OBVIOUS
  <2> QED
    BY <2>1, <2>2, <2>3 DEF TypeOK
<1>2. Good(status)
  BY DEF Good, QueuedKnown, SeenFirst, Alone, InOrder, Began, Statuses
<1> QED
  BY <1>1, <1>2 DEF IInv

\* Good is about the statuses, the owners and the kinds only.
LEMMA GoodUnchanged ==
    ASSUME Good(status), UNCHANGED <<status, owner, kind>>
    PROVE  Good(status)'
BY DEF Good, QueuedKnown, SeenFirst, Alone, InOrder, Began, Safe, Known

\* A call that has begun stays good when it ends or is yielded.
LEMMA EndKeeps ==
    ASSUME Good(status), NEW i \in Ids, Began(status, i),
           NEW s \in {"completed", "yielded"},
           status' = [status EXCEPT ![i] = s], UNCHANGED <<owner, kind>>
    PROVE  Good(status)'
BY DEF Good, QueuedKnown, SeenFirst, Alone, InOrder, Began, Safe, Known, Statuses

\* The same of statuses that were changed while owners and kinds were not.
LEMMA GoodPrimed ==
    ASSUME Good(status'), UNCHANGED <<owner, kind>>
    PROVE  Good(status)'
BY DEF Good, QueuedKnown, SeenFirst, Alone, InOrder, Began, Safe, Known

LEMMA AddToolKeeps ==
    ASSUME IInv, NEW i \in Ids, AddTool(i) PROVE IInv'
<1> USE DEF IInv, AddTool
<1>1. CASE Known(i)
  <2> DEFINE st == [status EXCEPT ![i] = "queued"]
  <2>1. ProcessQueue(st, attempt, 1, paused, due)
    BY <1>1
  <2>2. st \in [Ids -> Statuses] /\ st[i] = "queued"
        /\ \A j \in Ids \ {i} : st[j] = status[j]
    BY DEF TypeOK, Statuses
  <2>3. Good(st)
    BY <1>1, <2>2 DEF Good, QueuedKnown, SeenFirst, Alone, InOrder, Began, Ids
  <2>4. NoneBefore(st, attempt, 1)
    BY DEF NoneBefore, Ids
  <2>5. \A j \in paused : Began(st, j) /\ Known(j)
    BY <2>2 DEF TypeOK, Began
  <2>6. \A j \in due : st[j] \in {"completed", "yielded"}
    BY <2>2 DEF TypeOK
  <2>7. /\ kind \in Responses /\ paused \in SUBSET Ids
        /\ results \in [Ids -> ResultList]
        /\ due \in SUBSET Ids /\ 1 \in Nat
    BY DEF TypeOK
  <2> HIDE DEF st, AddTool
  <2>8. /\ Good(status')
        /\ results' \in [Ids -> ResultList]
        /\ paused' \in SUBSET Ids /\ \A j \in paused' : Began(status', j) /\ Known(j)
        /\ due' \in SUBSET Ids
        /\ \A j \in due' : status'[j] \in {"completed", "yielded"}
    BY <2>1, <2>3, <2>4, <2>5, <2>6, <2>7, PassKeeps
  <2>9. Good(status)'
    BY <2>8, GoodPrimed DEF AddTool
  <2> QED
    <3>1. /\ kind' = kind /\ owner' = owner /\ progress' = progress
          /\ attempt' = attempt /\ failed' = failed /\ aborted' = aborted
          /\ query' = "harvest" /\ cursor' = 1 /\ race' = race
      BY DEF AddTool
    <3>2. 1 \in 1 .. MaxTools + 1
      BY ExecutorConstants
    <3>3. status' \in [Ids -> Statuses]
      BY <2>8 DEF Good
    <3>4. TypeOK'
      BY <2>8, <3>1, <3>2, <3>3 DEF TypeOK, Statuses, Began, Ids
    <3>5. \A j \in paused' : Known(j)'
      BY <2>8, <3>1 DEF Known
    <3> QED
      BY <2>9, <3>4, <3>5
<1>2. CASE ~Known(i)
  <2>1. status' = [status EXCEPT ![i] = "completed"] /\ status[i] = "unseen"
    BY <1>2
  <2>2. Good(status)'
    BY <1>2, <2>1 DEF Good, QueuedKnown, SeenFirst, Alone, InOrder, Began, Safe,
       Known, Statuses, Ids
  <2>3. TypeOK'
    <3>1. results' \in [Ids -> ResultList]
      BY <1>2, Pushed DEF TypeOK
    <3>2. 1 \in 1 .. MaxTools + 1
      BY ExecutorConstants
    <3>3. status' \in [Ids -> Statuses]
          /\ \A j \in Ids \ {i} : status'[j] = status[j]
      BY <2>1 DEF TypeOK, Statuses
    <3> QED
      BY <1>2, <2>1, <3>1, <3>2, <3>3 DEF TypeOK, Statuses
  <2>4. \A j \in paused' : Known(j)'
    BY <1>2 DEF Known
  <2> QED
    BY <2>2, <2>3, <2>4
<1> QED
  BY <1>1, <1>2

\* A pass over the statuses as they are, by a step that touches nothing else
\* but the place of the query.
LEMMA PassStep ==
    ASSUME IInv, NEW g, NEW k \in Nat, NEW ps, NEW du,
           NoneBefore(status, g, k), ps \subseteq paused, du \subseteq due,
           ProcessQueue(status, g, k, ps, du),
           UNCHANGED <<kind, owner, progress, attempt, failed, aborted, race>>,
           query' \in {"stream", "harvest", "loop", "process", "collect",
                       "yield", "sleep", "last", "done"},
           cursor' \in 1 .. MaxTools + 1
    PROVE  IInv'
<1>1. /\ kind \in Responses /\ results \in [Ids -> ResultList]
      /\ Good(status) /\ ps \in SUBSET Ids /\ du \in SUBSET Ids
  BY DEF IInv, TypeOK
<1>2. \A i \in ps : Began(status, i) /\ Known(i)
  BY DEF IInv, TypeOK, Began
<1>3. \A i \in du : status[i] \in {"completed", "yielded"}
  BY DEF IInv, TypeOK
<1>4. /\ Good(status')
      /\ results' \in [Ids -> ResultList]
      /\ paused' \in SUBSET Ids /\ \A i \in paused' : Began(status', i) /\ Known(i)
      /\ due' \in SUBSET Ids
      /\ \A i \in due' : status'[i] \in {"completed", "yielded"}
  BY <1>1, <1>2, <1>3, PassKeeps
<1>5. Good(status)'
  BY <1>4, GoodPrimed
<1>6. TypeOK'
  BY <1>4 DEF IInv, TypeOK, Good, Statuses, Began, Ids
<1>7. \A i \in paused' : Known(i)'
  BY <1>4 DEF Known
<1> QED
  BY <1>5, <1>6, <1>7 DEF IInv

\* Where an awaited pass leaves the query.
LEMMA AwaitPlaces ==
    ASSUME NEW g, NEW k, AwaitPass(g, k)
    PROVE  query' \in {"collect", "process"} /\ cursor' \in 1 .. MaxTools + 1
BY ExecutorConstants DEF AwaitPass, Ids

\* A waiting pass goes on behind a call that was started: what is in front of
\* it has begun.
LEMMA ResumeKeeps ==
    ASSUME IInv, NEW i \in Ids, Resume(i) PROVE IInv'
<1>1. Known(i) /\ Began(status, i)
  BY DEF IInv, Resume, TypeOK, Began
<1>2. NoneBefore(status, owner[i], i + 1)
  <2>1. \A j \in Ids : j < i /\ owner[j] = owner[i] => Began(status, j)
    BY <1>1 DEF IInv, Good, InOrder
  <2> QED
    BY <1>1, <2>1 DEF NoneBefore, Began, Ids
<1>3. /\ i + 1 \in Nat /\ paused \ {i} \subseteq paused /\ due \subseteq due
      /\ ProcessQueue(status, owner[i], i + 1, paused \ {i}, due)
      /\ UNCHANGED <<kind, owner, progress, attempt, failed, aborted, race>>
  BY DEF Resume, Ids
<1>4. /\ query' \in {"stream", "harvest", "loop", "process", "collect",
                      "yield", "sleep", "last", "done"}
      /\ cursor' \in 1 .. MaxTools + 1
  BY AwaitPlaces DEF Resume, IInv, TypeOK
<1> QED
  BY <1>2, <1>3, <1>4, PassStep

\* A pass from the first call.
LEMMA NoneBeforeFirst == \A g : NoneBefore(status, g, 1)
BY DEF NoneBefore, Ids

LEMMA FinallyKeeps ==
    ASSUME IInv, NEW i \in Ids, Finally(i) PROVE IInv'
<1>1. /\ 1 \in Nat /\ paused \subseteq paused /\ due \ {i} \subseteq due
      /\ ProcessQueue(status, owner[i], 1, paused, due \ {i})
      /\ UNCHANGED <<kind, owner, progress, attempt, failed, aborted, race>>
  BY DEF Finally
<1>2. /\ query' \in {"stream", "harvest", "loop", "process", "collect",
                      "yield", "sleep", "last", "done"}
      /\ cursor' \in 1 .. MaxTools + 1
  BY DEF Finally, IInv, TypeOK
<1>3. NoneBefore(status, owner[i], 1)
  BY NoneBeforeFirst
<1> QED
  BY <1>1, <1>2, <1>3, PassStep

LEMMA LoopTopKeeps == ASSUME IInv, LoopTop PROVE IInv'
<1>1. CASE ProcessQueue(status, attempt, 1, paused, due) /\ AwaitPass(attempt, 1)
  <2>1. /\ 1 \in Nat /\ paused \subseteq paused /\ due \subseteq due
        /\ UNCHANGED <<kind, owner, progress, attempt, failed, aborted, race>>
    BY DEF LoopTop
  <2>2. /\ query' \in {"stream", "harvest", "loop", "process", "collect",
                        "yield", "sleep", "last", "done"}
        /\ cursor' \in 1 .. MaxTools + 1
    BY <1>1, AwaitPlaces
  <2>3. NoneBefore(status, attempt, 1)
    BY NoneBeforeFirst
  <2> QED
    BY <1>1, <2>1, <2>2, <2>3, PassStep
<1>2. CASE /\ query' = "last" /\ cursor' = 1
           /\ UNCHANGED <<status, results, paused, due>>
  <2>1. Good(status)'
    BY <1>2, GoodUnchanged DEF IInv, LoopTop
  <2>2. 1 \in 1 .. MaxTools + 1
    BY ExecutorConstants
  <2> QED
    BY <1>2, <2>1, <2>2 DEF IInv, LoopTop, TypeOK, Known
<1> QED
  BY <1>1, <1>2 DEF LoopTop

\* Steps that leave the statuses, the owners and the passes alone.
LEMMA QuietSteps ==
    ASSUME IInv,
           \/ OtherMessage \/ EndOfStream \/ IterationEnds \/ WakeUp \/ Abort
           \/ \E i \in Ids : \/ YieldProgress(i) \/ Progress(i)
                             \/ \E r \in {"own", "error"} : ToolResult(i, r)
    PROVE  IInv'
<1>1. UNCHANGED <<status, owner, kind, paused, due, attempt>>
  BY DEF OtherMessage, EndOfStream, IterationEnds, WakeUp, Abort,
     YieldProgress, Progress, ToolResult
<1>2. Good(status)' /\ \A i \in paused' : Known(i)'
  BY <1>1, GoodUnchanged DEF IInv, Known
<1>3. 1 \in 1 .. MaxTools + 1 /\ \A i \in Ids : i \in 1 .. MaxTools + 1
  BY ExecutorConstants DEF Ids
<1>4. TypeOK'
  <2>1. CASE OtherMessage \/ EndOfStream \/ WakeUp \/ Abort
    BY <1>3, <2>1 DEF IInv, TypeOK, OtherMessage, EndOfStream, WakeUp, Abort
  <2>2. CASE IterationEnds
    <3>1. /\ query' \in {"stream", "done", "sleep", "loop"}
          /\ race' \in SUBSET Ids
      BY <2>2 DEF IterationEnds, Having, Mine
    <3> QED
      BY <1>1, <1>3, <2>2, <3>1 DEF IInv, TypeOK, IterationEnds
  <2>3. CASE \E i \in Ids : YieldProgress(i) \/ Progress(i)
    <3>1. progress' \in [Ids -> BOOLEAN]
      BY <2>3 DEF IInv, TypeOK, YieldProgress, Progress
    <3>2. query' \in {query, "yield"} /\ cursor' \in 1 .. MaxTools + 1
      BY <1>3, <2>3 DEF IInv, TypeOK, YieldProgress, Progress, Suspended
    <3>3. UNCHANGED <<results, failed, aborted, race>>
      BY <2>3 DEF YieldProgress, Progress
    <3> QED
      BY <1>1, <3>1, <3>2, <3>3 DEF IInv, TypeOK
  <2>4. CASE \E i \in Ids, r \in {"own", "error"} : ToolResult(i, r)
    <3>1. PICK i \in Ids, r \in {"own", "error"} : ToolResult(i, r)
      BY <2>4
    <3>2. results' \in [Ids -> ResultList]
      <4>1. <<r>> \in ResultList
        <5>1. CASE r = "own"
          BY <5>1, Pushed
        <5>2. CASE r = "error"
          BY <5>2, Pushed
        <5> QED
          BY <5>1, <5>2
      <4>2. results' = [results EXCEPT ![i] = <<r>>]
        BY <3>1 DEF ToolResult
      <4> QED
        BY <4>1, <4>2 DEF IInv, TypeOK
    <3>3. failed' \in SUBSET (1 .. attempt)
      <4>1. failed' = failed \/ failed' = failed \cup {owner[i]}
        BY <3>1, Zenon DEF ToolResult
      <4>2. failed \in SUBSET (1 .. attempt) /\ owner[i] \in 1 .. attempt
        BY DEF IInv, TypeOK
      <4> QED
        BY <4>1, <4>2
    <3> QED
      BY <1>1, <3>1, <3>2, <3>3 DEF IInv, TypeOK, ToolResult
  <2> QED
    BY <2>1, <2>2, <2>3, <2>4
<1> QED
  BY <1>2, <1>4 DEF IInv

\* A call ends, or its results are yielded.
LEMMA EndSteps ==
    ASSUME IInv, NEW i \in Ids, YieldResults(i) \/ Cancelled(i) \/ ToolEnds(i)
    PROVE  IInv'
<1>1. /\ UNCHANGED <<owner, kind, paused, attempt, failed, aborted, progress,
                     race>>
      /\ Began(status, i)
  BY DEF YieldResults, YieldsAt, Cancelled, ToolEnds, IInv, TypeOK, Began,
     Attention, Mine
<1>2. PICK s \in {"completed", "yielded"} :
         status' = [status EXCEPT ![i] = s]
  BY DEF YieldResults, Cancelled, ToolEnds, Completes
<1>3. Good(status)'
  BY <1>1, <1>2, EndKeeps DEF IInv
<1>4. results' \in [Ids -> ResultList]
  <2>1. results \in [Ids -> ResultList] /\ <<>> \in ResultList
        /\ Append(results[i], "synthetic") \in ResultList
    BY Pushed DEF IInv, TypeOK
  <2>2. CASE YieldResults(i)
    BY <2>1, <2>2 DEF YieldResults
  <2>3. CASE Cancelled(i)
    <3>1. Synthetic(i) \in [Ids -> ResultList]
      BY <2>1 DEF Synthetic
    <3> QED
      BY <2>3, <3>1 DEF Cancelled
  <2>4. CASE ToolEnds(i)
    BY <2>1, <2>4 DEF ToolEnds
  <2> QED
    BY <2>2, <2>3, <2>4
<1>5. due' \in SUBSET Ids /\ due' \subseteq due \cup {i}
  BY DEF IInv, TypeOK, YieldResults, Cancelled, ToolEnds, Completes
<1>6. /\ query' \in {query, "yield"}
      /\ cursor' \in 1 .. MaxTools + 1
  BY ExecutorConstants DEF IInv, TypeOK, YieldResults, Cancelled, ToolEnds,
     Suspended, Ids
<1>7. status' \in [Ids -> Statuses] /\ status'[i] \in {"completed", "yielded"}
      /\ \A j \in Ids \ {i} : status'[j] = status[j]
  BY <1>2 DEF IInv, TypeOK, Statuses
<1>8. TypeOK'
  BY <1>1, <1>4, <1>5, <1>6, <1>7 DEF IInv, TypeOK, Statuses
<1> QED
  BY <1>1, <1>3, <1>8 DEF IInv, Known

\* The fresh executor takes the calls to come; none of them has begun.
LEMMA FallbackKeeps == ASSUME IInv, Fallback PROVE IInv'
<1>1. attempt' = attempt + 1 /\ attempt' \in 1 .. MaxAttempts
  BY ExecutorConstants DEF IInv, TypeOK, Fallback
<1>2. /\ owner' \in [Ids -> 1 .. attempt']
      /\ \A i \in Ids : status[i] # "unseen" => owner'[i] = owner[i]
  BY <1>1 DEF IInv, TypeOK, Fallback
<1>3. /\ UNCHANGED <<status, kind, results, progress, paused, due, failed,
                     aborted, query, cursor, race>>
      /\ failed' \in SUBSET (1 .. attempt')
  BY <1>1 DEF IInv, TypeOK, Fallback
<1>4. TypeOK'
  BY <1>1, <1>2, <1>3 DEF IInv, TypeOK
<1>5. Good(status)'
  <2>1. QueuedKnown(status)' /\ SeenFirst(status)'
    BY <1>3 DEF IInv, Good, QueuedKnown, SeenFirst, Known
  <2>2. Alone(status)'
    BY <1>2, <1>3 DEF IInv, Good, Alone, Safe
  <2>3. InOrder(status)'
    BY <1>2, <1>3 DEF IInv, Good, InOrder, SeenFirst, Began, Known, Ids
  <2> QED
    BY <1>3, <2>1, <2>2, <2>3 DEF IInv, Good
<1> QED
  BY <1>3, <1>4, <1>5 DEF IInv, Known

LEMMA StepIInv == ASSUME IInv, [Next]_vars PROVE IInv'
<1>1. CASE UNCHANGED vars
  BY <1>1, GoodUnchanged DEF IInv, TypeOK, vars, Known
<1>2. CASE \E i \in Ids : AddTool(i)
  BY <1>2, AddToolKeeps
<1>3. CASE Fallback
  BY <1>3, FallbackKeeps
<1>4. CASE LoopTop
  BY <1>4, LoopTopKeeps
<1>5. CASE \E i \in Ids : Resume(i) \/ Finally(i)
  BY <1>5, ResumeKeeps, FinallyKeeps
<1>6. CASE \E i \in Ids : YieldResults(i) \/ Cancelled(i) \/ ToolEnds(i)
  BY <1>6, EndSteps
<1>7. CASE \/ OtherMessage \/ EndOfStream \/ IterationEnds \/ WakeUp \/ Abort
           \/ \E i \in Ids : \/ YieldProgress(i) \/ Progress(i)
                             \/ \E r \in {"own", "error"} : ToolResult(i, r)
  BY <1>7, QuietSteps
<1> QED
  BY <1>1, <1>2, <1>3, <1>4, <1>5, <1>6, <1>7 DEF Next, Consume, Finishes

-----------------------------------------------------------------------------
\* Every reachable state is typed, for any number of calls and executors.
THEOREM ExecutorTypes == Spec => []TypeOK
<1>1. IInv => TypeOK
  BY DEF IInv
<1> QED
  BY <1>1, InitIInv, StepIInv, PTL DEF Spec

\* Exclusive calls execute alone and calls start in the order they were added
\* (canExecuteTool and processQueue), whatever passes overlap and however calls
\* fail, are cancelled or belong to a discarded executor.
THEOREM ExclusiveAccessHolds == Spec => []ExclusiveAccess
<1>1. IInv => ExclusiveAccess
  BY DEF IInv, Good, Alone, InOrder, Began, Started, ExclusiveAccess,
     ExclusiveAlone, StartedInOrder
<1> QED
  BY <1>1, InitIInv, StepIInv, PTL DEF Spec

-----------------------------------------------------------------------------
\* The results of every call, by its status.
Answers(st, rs) ==
    \A i \in Ids :
        /\ st[i] \in {"unseen", "queued"} => rs[i] = <<>>
        /\ st[i] = "executing" => rs[i] \in {<<>>, <<"own">>, <<"error">>}
        /\ st[i] = "completed" =>
              rs[i] \in {<<"own">>, <<"error">>, <<"synthetic">>,
                         <<"own", "synthetic">>}

\* Only Bash calls that have begun have progress.
ProgressInv == \A i \in Ids : progress[i] => Began(status, i) /\ IsBash(i)

\* A list, and one more.
LEMMA AppendToList ==
    ASSUME NEW S, NEW b \in S, NEW q \in Seq(S)
    PROVE  /\ Append(q, b) \in Seq(S) /\ Len(Append(q, b)) = Len(q) + 1
           /\ Append(q, b)[Len(q) + 1] = b
           /\ \A i \in 1 .. Len(q) : Append(q, b)[i] = q[i]
  OBVIOUS

LEMMA AppendToOne ==
    ASSUME NEW S, NEW b \in S, NEW q \in Seq(S)
    PROVE  Len(q) = 1 =>
              /\ Append(q, b) \in Seq(S) /\ Len(Append(q, b)) = 2
              /\ Append(q, b)[1] = q[1] /\ Append(q, b)[2] = b
<1>1. /\ Append(q, b) \in Seq(S) /\ Len(Append(q, b)) = Len(q) + 1
      /\ Append(q, b)[Len(q) + 1] = b
      /\ \A i \in 1 .. Len(q) : Append(q, b)[i] = q[i]
  BY AppendToList
<1>2. Len(q) = 1 => Len(q) + 1 = 2 /\ 1 \in 1 .. Len(q)
  OBVIOUS
<1> QED
  BY <1>1, <1>2, Zenon

\* A list of two.
LEMMA ListOfTwo ==
    ASSUME NEW S, NEW r \in Seq(S), Len(r) = 2, NEW a \in S, NEW b \in S,
           r[1] = a, r[2] = b
    PROVE  r = <<a, b>>
<1>1. <<a, b>> \in Seq(S) /\ Len(<<a, b>>) = 2 /\ <<a, b>>[1] = a /\ <<a, b>>[2] = b
  OBVIOUS
<1>2. \A i \in 1 .. 2 : i = 1 \/ i = 2
  OBVIOUS
<1>3. \A i \in 1 .. Len(r) : r[i] = <<a, b>>[i]
  BY <1>1, <1>2, Zenon
<1> QED
  BY <1>1, <1>3, SeqEqual

\* The results of a call that is cancelled.
LEMMA Answered ==
    /\ Append(<<>>, "synthetic") = <<"synthetic">>
    /\ Append(<<"own">>, "synthetic") = <<"own", "synthetic">>
    /\ <<"error">> # <<>> /\ <<"error">>[1] = "error"
<1>1. Append(<<>>, "synthetic") = <<"synthetic">>
  OBVIOUS
<1>2. Append(<<"own">>, "synthetic") = <<"own", "synthetic">>
  <2> DEFINE T == {"own", "synthetic"}
  <2>1. <<"own">> \in Seq(T) /\ Len(<<"own">>) = 1 /\ <<"own">>[1] = "own"
    OBVIOUS
  <2>2. "own" \in T /\ "synthetic" \in T
    OBVIOUS
  <2> DEFINE q == <<"own">>
             e == "synthetic"
  <2> HIDE DEF T, q, e
  <2>3. q \in Seq(T) /\ Len(q) = 1 /\ q[1] = "own" /\ e \in T
    BY <2>1, <2>2 DEF q, e
  <2>4. /\ Append(q, e) \in Seq(T) /\ Len(Append(q, e)) = 2
        /\ Append(q, e)[1] = "own" /\ Append(q, e)[2] = e
    BY <2>3, AppendToOne
  <2>5. Append(q, e) = <<"own", e>>
    BY <2>2, <2>3, <2>4, ListOfTwo
  <2> QED
    BY <2>5 DEF q, e
<1>3. <<"error">> # <<>>
  OBVIOUS
<1>4. <<"error">>[1] = "error"
  OBVIOUS
<1> QED
  BY <1>1, <1>2, <1>3, <1>4

\* A pass answers the calls it completes, and has not answered those it starts.
LEMMA PassAnswers ==
    ASSUME NEW st \in [Ids -> Statuses], NEW g, NEW k \in Nat, NEW ps, NEW du,
           results \in [Ids -> ResultList], Answers(st, results),
           ProcessQueue(st, g, k, ps, du)
    PROVE  /\ Answers(status', results')
           /\ \A i \in Ids : Began(st, i) => Began(status', i)
<1>1. CASE status' = st /\ results' = results
  BY <1>1
<1>2. CASE \E i \in Ids :
             /\ Starts(st, g, k, i)
             /\ \/ /\ status' = [st EXCEPT ![i] = "completed"]
                   /\ results' = Synthetic(i)
                \/ /\ status' = [st EXCEPT ![i] = "executing"]
                   /\ results' = results
  <2>1. PICK i \in Ids :
             /\ Starts(st, g, k, i)
             /\ \/ /\ status' = [st EXCEPT ![i] = "completed"]
                   /\ results' = Synthetic(i)
                \/ /\ status' = [st EXCEPT ![i] = "executing"]
                   /\ results' = results
    BY <1>2
  <2>2. results[i] = <<>>
    BY <2>1 DEF Starts, Stops, Answers
  <2>3. \A j \in Ids : Began(st, j) => Began(status', j)
    BY <2>1 DEF Began
  <2>4. CASE /\ status' = [st EXCEPT ![i] = "completed"]
             /\ results' = Synthetic(i)
    <3>1. status'[i] = "completed" /\ \A j \in Ids \ {i} : status'[j] = st[j]
      BY <2>4
    <3>2. results'[i] = Append(<<>>, "synthetic")
          /\ \A j \in Ids \ {i} : results'[j] = results[j]
      BY <2>2, <2>4 DEF Synthetic
    <3>3. results'[i] = <<"synthetic">>
      BY <3>2, Answered
    <3> QED
      BY <2>3, <3>1, <3>2, <3>3 DEF Answers
  <2>5. CASE status' = [st EXCEPT ![i] = "executing"] /\ results' = results
    BY <2>2, <2>3, <2>5 DEF Answers
  <2> QED
    BY <2>1, <2>4, <2>5
<1> QED
  BY <1>1, <1>2 DEF ProcessQueue

AInv == Answers(status, results) /\ ProgressInv

\* The steps that consist of a pass of processQueue.
LEMMA PassSteps ==
    ASSUME IInv, AInv,
           LoopTop \/ \E i \in Ids : Resume(i) \/ Finally(i)
    PROVE  Answers(status', results')
           /\ \A i \in Ids : Began(status, i) => Began(status', i)
<1>1. status \in [Ids -> Statuses] /\ results \in [Ids -> ResultList]
      /\ Answers(status, results)
  BY DEF IInv, TypeOK, AInv, Statuses
<1>2. CASE UNCHANGED <<status, results>>
  BY <1>1, <1>2
<1>3. CASE \E g, ps, du : \E k \in Nat : ProcessQueue(status, g, k, ps, du)
  BY <1>1, <1>3, PassAnswers
<1>4. \A i \in Ids : i + 1 \in Nat
  BY DEF Ids
<1> QED
  BY <1>2, <1>3, <1>4 DEF LoopTop, Resume, Finally

LEMMA StepAInv == ASSUME IInv, AInv, [Next]_vars PROVE AInv'
<1>0. /\ status \in [Ids -> Statuses] /\ results \in [Ids -> ResultList]
      /\ progress \in [Ids -> BOOLEAN] /\ Answers(status, results)
  BY DEF IInv, TypeOK, AInv, Statuses
<1>1. ASSUME Answers(status', results'), UNCHANGED <<kind, progress>>,
             \A i \in Ids : Began(status, i) => Began(status', i)
      PROVE  AInv'
  BY <1>1 DEF AInv, Answers, ProgressInv, Began, IsBash
<1>2. CASE LoopTop \/ \E i \in Ids : Resume(i) \/ Finally(i)
  <2>1. UNCHANGED <<kind, progress>>
    BY <1>2 DEF LoopTop, Resume, Finally
  <2> QED
    BY <1>1, <1>2, <2>1, PassSteps
<1>3. ASSUME NEW i \in Ids, AddTool(i) PROVE AInv'
  <2>1. status[i] = "unseen" /\ results[i] = <<>> /\ UNCHANGED <<kind, progress>>
    BY <1>0, <1>3 DEF AddTool, Answers
  <2>2. CASE Known(i)
    <3> DEFINE st == [status EXCEPT ![i] = "queued"]
    <3>1. /\ ProcessQueue(st, attempt, 1, paused, due)
          /\ st \in [Ids -> Statuses] /\ 1 \in Nat
      BY <1>0, <1>3, <2>2 DEF AddTool, Statuses
    <3>2. Answers(st, results) /\ \A j \in Ids : Began(status, j) => Began(st, j)
      BY <1>0, <2>1 DEF Answers, Began
    <3> HIDE DEF st
    <3> QED
      BY <1>0, <1>1, <2>1, <3>1, <3>2, PassAnswers
  <2>3. CASE ~Known(i)
    <3>1. /\ status' = [status EXCEPT ![i] = "completed"]
          /\ results' = [results EXCEPT ![i] = <<"error">>]
      BY <1>3, <2>3 DEF AddTool
    <3> QED
      BY <1>0, <1>1, <2>1, <3>1 DEF Answers, Began
  <2> QED
    BY <2>2, <2>3
<1>4. ASSUME NEW i \in Ids, YieldResults(i) PROVE AInv'
  BY <1>0, <1>1, <1>4 DEF YieldResults, Answers, Began
<1>5. ASSUME NEW i \in Ids, Cancelled(i) PROVE AInv'
  <2>1. /\ status[i] = "executing" /\ ~ThisToolErrored(i)
        /\ status' = [status EXCEPT ![i] = "completed"]
        /\ results' = [results EXCEPT ![i] = Append(@, "synthetic")]
        /\ UNCHANGED <<kind, progress>>
    BY <1>5 DEF Cancelled, CutShort, Completes, Synthetic
  <2>2. results[i] \in {<<>>, <<"own">>}
    BY <1>0, <2>1, Answered DEF Answers, ThisToolErrored
  <2>3. results'[i] \in {<<"synthetic">>, <<"own", "synthetic">>}
    BY <1>0, <2>1, <2>2, Answered
  <2>4. status'[i] = "completed" /\ \A j \in Ids \ {i} :
           status'[j] = status[j] /\ results'[j] = results[j]
    BY <1>0, <2>1
  <2> QED
    BY <1>0, <1>1, <2>1, <2>3, <2>4 DEF Answers, Began
<1>6. ASSUME NEW i \in Ids, ToolEnds(i) PROVE AInv'
  BY <1>0, <1>1, <1>6 DEF ToolEnds, Completes, Answers, Began
<1>7. ASSUME NEW i \in Ids, NEW r \in {"own", "error"}, ToolResult(i, r) PROVE AInv'
  <2>1. /\ status[i] = "executing" /\ status' = status
        /\ results' = [results EXCEPT ![i] = <<r>>] /\ UNCHANGED <<kind, progress>>
    BY <1>7 DEF ToolResult
  <2>2. <<r>> \in {<<"own">>, <<"error">>}
    OBVIOUS
  <2> QED
    BY <1>0, <1>1, <2>1, <2>2 DEF Answers
<1>8. ASSUME NEW i \in Ids, YieldProgress(i) \/ Progress(i) PROVE AInv'
  <2>1. UNCHANGED <<kind, status, results>>
    BY <1>8 DEF YieldProgress, Progress
  <2>2. \A j \in Ids : progress'[j] => progress[j] \/ (Began(status, j) /\ IsBash(j))
    <3>1. CASE YieldProgress(i)
      BY <1>0, <3>1 DEF YieldProgress
    <3>2. CASE Progress(i)
      BY <1>0, <3>2 DEF Progress, Began
    <3> QED
      BY <1>8, <3>1, <3>2
  <2> QED
    BY <1>0, <2>1, <2>2 DEF AInv, Answers, ProgressInv, Began, IsBash
<1>9. CASE \/ OtherMessage \/ EndOfStream \/ IterationEnds \/ WakeUp \/ Abort
           \/ Fallback \/ UNCHANGED vars
  <2>1. UNCHANGED <<kind, status, results, progress>>
    BY <1>9 DEF OtherMessage, EndOfStream, IterationEnds, WakeUp, Abort,
       Fallback, vars
  <2> QED
    BY <1>0, <1>1, <2>1
<1> QED
  BY <1>2, <1>3, <1>4, <1>5, <1>6, <1>7, <1>8, <1>9 DEF Next, Consume, Finishes

LEMMA InitAInv == ASSUME Init PROVE AInv
BY DEF Init, AInv, Answers, ProgressInv

\* A call that ended with more, or other, than a result of its own was cut short.
CutInv ==
    \A i \in Ids :
        status[i] = "completed" /\ results[i] \notin {<<"own">>, <<"error">>}
            => AbortReason(i)

\* A pass completes a call only when there is a reason to cut it short.
LEMMA PassCuts ==
    ASSUME NEW st \in [Ids -> Statuses], NEW g, NEW k, NEW ps, NEW du,
           results \in [Ids -> ResultList], ProcessQueue(st, g, k, ps, du),
           NEW j \in Ids, status'[j] = "completed"
    PROVE  (st[j] = "completed" /\ results'[j] = results[j]) \/ AbortReason(j)
<1>1. CASE status' = st /\ results' = results
  BY <1>1
<1>2. ASSUME NEW i \in Ids, AbortReason(i), results' = Synthetic(i),
             status' = [st EXCEPT ![i] = "completed"]
      PROVE  (st[j] = "completed" /\ results'[j] = results[j]) \/ AbortReason(j)
  BY <1>2 DEF Synthetic
<1>3. ASSUME NEW i \in Ids, results' = results,
             status' = [st EXCEPT ![i] = "executing"]
      PROVE  st[j] = "completed" /\ results'[j] = results[j]
  BY <1>3
<1> QED
  BY <1>1, <1>2, <1>3 DEF ProcessQueue

\* A call is cut short for a reason that stays one.
LEMMA StepCutInv == ASSUME IInv, AInv, CutInv, [Next]_vars PROVE CutInv'
<1>0. /\ status \in [Ids -> Statuses] /\ results \in [Ids -> ResultList]
      /\ owner \in [Ids -> 1 .. attempt] /\ attempt \in Nat /\ Answers(status, results)
  BY DEF IInv, TypeOK, AInv, Statuses
<1>1. ASSUME UNCHANGED <<owner, attempt, failed, aborted>>,
             \A j \in Ids : status'[j] = "completed" =>
                \/ status[j] = "completed" /\ results'[j] = results[j]
                \/ results'[j] \in {<<"own">>, <<"error">>}
                \/ AbortReason(j)
      PROVE  CutInv'
  BY <1>1 DEF CutInv, AbortReason
<1>2. CASE LoopTop \/ \E i \in Ids : Resume(i) \/ Finally(i)
  <2>1. UNCHANGED <<owner, attempt, failed, aborted>>
    BY <1>2 DEF LoopTop, Resume, Finally
  <2>2. UNCHANGED <<status, results>>
        \/ \E g, k, ps, du : ProcessQueue(status, g, k, ps, du)
    BY <1>2 DEF LoopTop, Resume, Finally
  <2> QED
    BY <1>0, <1>1, <2>1, <2>2, PassCuts
<1>3. ASSUME NEW i \in Ids, AddTool(i) PROVE CutInv'
  <2>1. UNCHANGED <<owner, attempt, failed, aborted>>
    BY <1>3 DEF AddTool
  <2>2. CASE Known(i)
    <3> DEFINE st == [status EXCEPT ![i] = "queued"]
    <3>1. ProcessQueue(st, attempt, 1, paused, due) /\ st \in [Ids -> Statuses]
      BY <1>0, <1>3, <2>2 DEF AddTool, Statuses
    <3>2. \A j \in Ids : st[j] = "completed" => status[j] = "completed"
      BY <1>0
    <3> HIDE DEF st
    <3> QED
      BY <1>0, <1>1, <2>1, <3>1, <3>2, PassCuts
  <2>3. CASE ~Known(i)
    <3>1. /\ status' = [status EXCEPT ![i] = "completed"]
          /\ results' = [results EXCEPT ![i] = <<"error">>]
      BY <1>3, <2>3 DEF AddTool
    <3> QED
      BY <1>0, <1>1, <2>1, <3>1
  <2> QED
    BY <2>2, <2>3
<1>4. ASSUME NEW i \in Ids,
             YieldResults(i) \/ YieldProgress(i) \/ Progress(i)
      PROVE  CutInv'
  <2>1. UNCHANGED <<owner, attempt, failed, aborted>>
    BY <1>4 DEF YieldResults, YieldProgress, Progress
  <2>2. \A j \in Ids : status'[j] = "completed" =>
            status[j] = "completed" /\ results'[j] = results[j]
    BY <1>0, <1>4 DEF YieldResults, YieldProgress, Progress
  <2> QED
    BY <1>1, <2>1, <2>2
<1>5. ASSUME NEW i \in Ids, Cancelled(i) \/ ToolEnds(i) PROVE CutInv'
  <2>1. UNCHANGED <<owner, attempt, failed, aborted>>
        /\ status' = [status EXCEPT ![i] = "completed"] /\ status[i] = "executing"
    BY <1>5 DEF Cancelled, ToolEnds, Completes
  <2>2. AbortReason(i) \/ results'[i] \in {<<"own">>, <<"error">>}
    BY <1>0, <1>5 DEF Cancelled, CutShort, ToolEnds, Answers
  <2>3. \A j \in Ids \ {i} : results'[j] = results[j]
    BY <1>0, <1>5 DEF Cancelled, ToolEnds, Synthetic
  <2> QED
    BY <1>0, <1>1, <2>1, <2>2, <2>3
<1>6. ASSUME NEW i \in Ids, NEW r \in {"own", "error"}, ToolResult(i, r) PROVE CutInv'
  <2>1. /\ status[i] = "executing" /\ UNCHANGED <<status, owner, attempt, aborted>>
        /\ results' = [results EXCEPT ![i] = <<r>>] /\ failed \subseteq failed'
    BY <1>6 DEF ToolResult
  <2> QED
    BY <1>0, <2>1 DEF CutInv, AbortReason
<1>7. CASE Fallback
  <2>1. /\ attempt' = attempt + 1 /\ UNCHANGED <<status, results, failed, aborted>>
        /\ \A j \in Ids : status[j] # "unseen" => owner'[j] = owner[j]
    BY <1>7 DEF Fallback
  <2> QED
    BY <1>0, <2>1 DEF CutInv, AbortReason
<1>8. CASE \/ OtherMessage \/ EndOfStream \/ IterationEnds \/ WakeUp \/ Abort
           \/ UNCHANGED vars
  <2>1. /\ UNCHANGED <<status, results, owner, attempt, failed>>
        /\ aborted' = aborted \/ aborted'
    BY <1>8 DEF OtherMessage, EndOfStream, IterationEnds, WakeUp, Abort, vars
  <2> QED
    BY <2>1 DEF CutInv, AbortReason
<1> QED
  BY <1>2, <1>3, <1>4, <1>5, <1>6, <1>7, <1>8 DEF Next, Consume, Finishes

\* A call that ended is answered, by a result of its own, unless a sibling that
\* failed, the user or the discarding of the executor cut it short, which it
\* then is told as well (executeTool and createSyntheticErrorMessage).
THEOREM EveryEndedCallIsAnswered == Spec => []EndedCallsAreAnswered
<1>1. AInv /\ CutInv => EndedCallsAreAnswered
  BY DEF AInv, Answers, CutInv, EndedCallsAreAnswered
<1>2. Init => CutInv
  BY DEF Init, CutInv
<1> QED
  BY <1>1, <1>2, InitIInv, StepIInv, InitAInv, StepAInv, StepCutInv, PTL DEF Spec

-----------------------------------------------------------------------------
\* The exclusive calls that an iteration has passed are yielded, or there is a
\* call with an unknown name behind them.
Passed(k) ==
    \A i \in Ids :
        i < k /\ owner[i] = attempt /\ ~Safe(i) =>
            \/ status[i] = "yielded"
            \/ \E u \in Ids : i < u /\ u < k /\ ~Known(u)
CursorInv == Iterating => Passed(cursor)

\* When the iteration goes to call j, the exclusive calls in front of it are
\* yielded, or there is an unknown name between.
LEMMA InFront ==
    ASSUME IInv, AInv, CursorInv, NEW j \in Ids, Iterating, YieldsAt(cursor, j)
    PROVE  /\ owner[j] = attempt /\ Began(status, j)
           /\ \A i \in Ids :
                i < j /\ owner[i] = attempt /\ ~Safe(i) =>
                   \/ status[i] = "yielded"
                   \/ \E u \in Ids : i < u /\ u <= j /\ ~Known(u)
<1>0. cursor \in Nat /\ cursor <= j
  BY DEF IInv, TypeOK, YieldsAt, Attention, Ids
<1>1. owner[j] = attempt /\ Began(status, j)
  BY DEF YieldsAt, Attention, Mine, AInv, ProgressInv, Began
<1>2. ASSUME NEW i \in Ids, i < j, owner[i] = attempt, ~Safe(i)
      PROVE  \/ status[i] = "yielded"
             \/ \E u \in Ids : i < u /\ u <= j /\ ~Known(u)
  <2>1. CASE i < cursor
    BY <1>0, <1>2, <2>1 DEF CursorInv, Passed, Ids
  <2>2. CASE ~Known(j)
    BY <1>2, <2>2 DEF Ids
  <2>3. CASE i >= cursor /\ Known(j)
    <3>1. Began(status, i)
      BY <1>1, <1>2, <2>3 DEF IInv, Good, InOrder
    <3>2. i \notin Attention(cursor)
      BY <1>2 DEF YieldsAt, Ids
    <3>3. status[i] \notin {"completed", "executing"}
      BY <1>2, <2>3, <3>1, <3>2 DEF Attention, Mine, Began
    <3>4. status[i] \in Statuses
      BY DEF IInv, Good
    <3> QED
      BY <3>1, <3>3, <3>4 DEF Began, Statuses
  <2> QED
    BY <1>0, <2>1, <2>2, <2>3 DEF Ids
<1> QED
  BY <1>1, <1>2

LEMMA StepCursorInv ==
    ASSUME IInv, IInv', AInv, CursorInv, [Next]_vars PROVE CursorInv'
<1>1. Passed(1)'
  BY DEF Passed, Ids
<1>2. ASSUME cursor' = 1 PROVE CursorInv'
  BY <1>1, <1>2 DEF CursorInv
<1>3. CASE \/ \E i \in Ids : AddTool(i)
           \/ OtherMessage \/ IterationEnds
  BY <1>2, <1>3 DEF AddTool, OtherMessage, IterationEnds
<1>4. CASE LoopTop \/ \E i \in Ids : Resume(i) /\ query = "process" /\ cursor = i
  <2>1. cursor' = 1 \/ query' = "process"
    BY <1>4 DEF LoopTop, Resume, AwaitPass
  <2> QED
    BY <1>2, <2>1 DEF CursorInv, Iterating
<1>5. CASE EndOfStream \/ Fallback \/ WakeUp
  <2>1. query' \in {"loop", "stream"}
    BY <1>5 DEF EndOfStream, Fallback, WakeUp
  <2> QED
    BY <2>1 DEF CursorInv, Iterating
<1>6. ASSUME NEW i \in Ids, YieldProgress(i) PROVE CursorInv'
  <2>1. /\ Iterating /\ YieldsAt(cursor, i) /\ progress[i] /\ cursor' = i
        /\ UNCHANGED <<kind, owner, status, attempt>>
    BY <1>6 DEF YieldProgress
  <2>2. Known(i)
    BY <2>1 DEF AInv, ProgressInv, IsBash, Known
  <2>3. Passed(i)
    BY <2>1, <2>2, InFront DEF Passed, Ids
  <2> QED
    BY <2>1, <2>3 DEF CursorInv, Passed, Safe, Known
<1>7. ASSUME NEW i \in Ids, YieldResults(i) PROVE CursorInv'
  <2>1. /\ Iterating /\ YieldsAt(cursor, i) /\ cursor' = i + 1
        /\ status' = [status EXCEPT ![i] = "yielded"]
        /\ UNCHANGED <<kind, owner, attempt>>
    BY <1>7 DEF YieldResults
  <2>2. /\ status'[i] = "yielded"
        /\ \A j \in Ids : status[j] = "yielded" => status'[j] = "yielded"
    BY <2>1 DEF IInv, Good
  <2>3. ASSUME NEW j \in Ids, j < i + 1, owner[j] = attempt, ~Safe(j)
        PROVE  \/ status'[j] = "yielded"
               \/ \E u \in Ids : j < u /\ u < i + 1 /\ ~Known(u)
    <3>1. CASE j = i
      BY <2>2, <3>1
    <3>2. CASE j < i
      BY <2>1, <2>2, <2>3, <3>2, InFront DEF Ids
    <3> QED
      BY <2>3, <3>1, <3>2 DEF Ids
  <2>4. Passed(cursor)'
    BY <2>1, <2>3 DEF Passed, Safe, Known
  <2> QED
    BY <2>4 DEF CursorInv
<1>8. ASSUME UNCHANGED <<kind, owner, attempt, query, cursor>>,
             \A j \in Ids : status[j] = "yielded" => status'[j] = "yielded"
      PROVE  CursorInv'
  BY <1>8 DEF CursorInv, Iterating, Passed, Safe, Known
<1>9. CASE \E i \in Ids : Finally(i) \/ (Resume(i) /\ ~(query = "process" /\ cursor = i))
  <2>1. UNCHANGED <<kind, owner, attempt, query, cursor>>
    BY <1>9 DEF Finally, Resume
  <2>2. \A j \in Ids : status[j] = "yielded" => status'[j] = "yielded"
    <3>1. ASSUME NEW g, NEW k, NEW ps, NEW du, ProcessQueue(status, g, k, ps, du)
          PROVE  \A j \in Ids : status[j] = "yielded" => status'[j] = "yielded"
      BY <3>1 DEF ProcessQueue, Starts, Stops, IInv, Good
    <3> QED
      BY <1>9, <3>1 DEF Finally, Resume
  <2> QED
    BY <1>8, <2>1, <2>2
<1>10. CASE \/ Abort \/ UNCHANGED vars
            \/ \E i \in Ids : \/ Cancelled(i) \/ ToolEnds(i) \/ Progress(i)
                              \/ \E r \in {"own", "error"} : ToolResult(i, r)
  <2>1. UNCHANGED <<kind, owner, attempt, query, cursor>>
    BY <1>10 DEF Abort, vars, Cancelled, ToolEnds, Progress, ToolResult
  <2>2. \A j \in Ids : status[j] = "yielded" => status'[j] = "yielded"
    <3>1. CASE UNCHANGED status
      BY <3>1
    <3>2. CASE \E i \in Ids : status' = [status EXCEPT ![i] = "completed"]
                               /\ status[i] = "executing"
      BY <3>2 DEF IInv, Good
    <3> QED
      BY <1>10, <3>1, <3>2 DEF Abort, vars, Cancelled, ToolEnds, Progress,
         ToolResult, Completes
  <2> QED
    BY <1>8, <2>1, <2>2
<1> QED
  BY <1>3, <1>4, <1>5, <1>6, <1>7, <1>9, <1>10 DEF Next, Consume, Finishes

\* Only getCompletedResults yields.
LEMMA OnlyYieldsYield ==
    ASSUME IInv, [Next]_vars, NEW j \in Ids,
           status[j] # "yielded", status'[j] = "yielded"
    PROVE  YieldResults(j)
<1>0. status \in [Ids -> Statuses]
  BY DEF IInv, Good
<1>1. ASSUME NEW st \in [Ids -> Statuses], NEW g, NEW k, NEW ps, NEW du,
             ProcessQueue(st, g, k, ps, du)
      PROVE  status'[j] = "yielded" => st[j] = "yielded"
  BY <1>1 DEF ProcessQueue
<1>2. ~\E i \in Ids : AddTool(i)
  <2>1. \A i \in Ids : [status EXCEPT ![i] = "queued"] \in [Ids -> Statuses]
    BY <1>0 DEF Statuses
  <2>2. \A i \in Ids : /\ [status EXCEPT ![i] = "queued"][j] # "yielded"
                       /\ [status EXCEPT ![i] = "completed"][j] # "yielded"
    BY <1>0
  <2> QED
    BY <1>1, <2>1, <2>2 DEF AddTool
<1>3. ~LoopTop /\ ~\E i \in Ids : Resume(i) \/ Finally(i)
  BY <1>0, <1>1 DEF LoopTop, Resume, Finally
<1>4. ~\E i \in Ids : \/ Cancelled(i) \/ ToolEnds(i) \/ Progress(i) \/ YieldProgress(i)
                      \/ \E r \in {"own", "error"} : ToolResult(i, r)
  BY <1>0 DEF Cancelled, ToolEnds, Completes, Progress, YieldProgress, ToolResult
<1>5. /\ ~OtherMessage /\ ~EndOfStream /\ ~IterationEnds /\ ~WakeUp /\ ~Abort
      /\ ~Fallback /\ ~UNCHANGED vars
  BY DEF OtherMessage, EndOfStream, IterationEnds, WakeUp, Abort, Fallback, vars
<1>6. PICK i \in Ids : YieldResults(i)
  BY <1>2, <1>3, <1>4, <1>5 DEF Next, Consume, Finishes
<1>7. i = j
  BY <1>0, <1>6 DEF YieldResults
<1> QED
  BY <1>6, <1>7

\* The results of an exclusive call come out before those of the calls behind
\* it (getCompletedResults), however the iteration is suspended and resumed,
\* unless it was suspended at a call with an unknown name between the two.
THEOREM ExclusiveResultsInOrder == Spec => ExclusiveNotOvertaken
<1> DEFINE InTurn(i, j) == \/ status[i] = "yielded"
                           \/ \E k \in i + 1 .. j - 1 : ~Known(k)
<1>1. IInv /\ AInv /\ CursorInv /\ [Next]_vars
        => [\A i, j \in Ids :
              /\ i < j /\ owner[i] = owner[j] /\ ~Safe(i) /\ Known(j)
              /\ status[j] # "yielded" /\ status'[j] = "yielded"
              => InTurn(i, j)]_vars
  <2> SUFFICES ASSUME IInv, AInv, CursorInv, [Next]_vars, NEW i \in Ids, NEW j \in Ids,
                      i < j, owner[i] = owner[j], ~Safe(i), Known(j),
                      status[j] # "yielded", status'[j] = "yielded"
               PROVE  InTurn(i, j)
    OBVIOUS
  <2>1. YieldResults(j)
    BY OnlyYieldsYield
  <2>2. \/ status[i] = "yielded"
        \/ \E u \in Ids : i < u /\ u <= j /\ ~Known(u)
    BY <2>1, InFront DEF YieldResults
  <2>3. ASSUME NEW u \in Ids, i < u, u <= j, ~Known(u) PROVE u \in i + 1 .. j - 1
    <3>1. u # j
      BY <2>3
    <3> QED
      BY <2>3, <3>1 DEF Ids
  <2> QED
    BY <2>2, <2>3
<1>2. Init => CursorInv
  BY DEF Init, CursorInv, Iterating
<1> QED
  BY <1>1, <1>2, InitIInv, StepIInv, InitAInv, StepAInv, StepCursorInv, PTL
  DEF Spec, ExclusiveNotOvertaken
=============================================================================
