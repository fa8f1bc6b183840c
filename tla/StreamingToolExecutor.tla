------------------------ MODULE StreamingToolExecutor ------------------------
(***************************************************************************)
(* The executor of src/src/services/tools/StreamingToolExecutor.ts, which  *)
(* starts the tool calls of a response while the response still streams,   *)
(* with the consumer of src/src/query.ts that adds the calls, collects the *)
(* results and replaces the executor when the model falls back.            *)
(*                                                                         *)
(* A step is the code between two awaits (or two yields, for a generator). *)
(* The processes that interleave are the query loop, the passes of         *)
(* processQueue that wait for executeTool, and the calls' generators.  The *)
(* messages of a call are abstracted to its tool results: its own, its own *)
(* error, or one the executor makes up.  Promise callbacks go before I/O:  *)
(* a chunk of the stream, a message of a call or a key of the user is      *)
(* served when no callback is due.                                         *)
(***************************************************************************)
EXTENDS Naturals, Sequences

CONSTANTS
    MaxTools,    \* bound: tool calls of one response, fallbacks included
    MaxAttempts, \* bound: executors of one response
    Responses    \* the tools that responses call, in order

ASSUME ExecutorConstants ==
    /\ MaxTools \in Nat
    /\ MaxAttempts \in Nat \ {0}
    /\ Responses \subseteq
          [1 .. MaxTools -> {"read", "edit", "bash", "listing", "unknown"}]

VARIABLES
    kind,     \* the tool each call names
    owner,    \* the executor that holds, or will hold, the call
    status,   \* tool.status; "unseen" before addTool
    results,  \* the tool results among tool.results, until they are yielded
    progress, \* whether tool.pendingProgress has messages
    paused,   \* the calls whose start a pass of processQueue still awaits
    due,      \* the ended calls whose promise.finally has not run
    attempt,  \* the current executor; those before it are discarded
    failed,   \* the executors whose hasErrored is set
    aborted,  \* toolUseContext.abortController.signal.aborted
    query,    \* where the query loop stands
    cursor,   \* the index getCompletedResults, or the awaited pass, is at
    race      \* the calls Promise.race waits for

vars == <<kind, owner, status, results, progress, paused, due, attempt,
          failed, aborted, query, cursor, race>>

-----------------------------------------------------------------------------
Ids == 1 .. MaxTools

\* A "listing" is a Bash command that only reads.
Safe(i) == kind[i] \in {"read", "listing", "unknown"}
IsBash(i) == kind[i] \in {"bash", "listing"}
Known(i) == kind[i] # "unknown"

\* this.tools of the current executor.
Mine == {i \in Ids : owner[i] = attempt /\ status[i] # "unseen"}
Having(st) == {i \in Mine : status[i] = st}

\* Mutant: exclusive calls are held back by exclusive calls only.
CanExecuteTool_ExclusiveOnly(st, i) ==
    \A j \in Ids : owner[j] = owner[i] /\ st[j] = "executing"
                      => Safe(i) \/ Safe(j)

\* canExecuteTool, when the statuses are st.
CanExecuteTool(st, i) ==
    \A j \in Ids : owner[j] = owner[i] /\ st[j] = "executing"
                      => Safe(i) /\ Safe(j)

\* Mutant: an exclusive call that has to wait is passed over.
Stops_NoBreak(st, g, k) ==
    {i \in Ids : /\ i >= k /\ owner[i] = g /\ st[i] = "queued"
                 /\ CanExecuteTool(st, i)}

\* The queued calls of executor g, from index k, at which a pass stops: it
\* starts the call, or breaks at an exclusive one.
Stops(st, g, k) ==
    {i \in Ids : /\ i >= k /\ owner[i] = g /\ st[i] = "queued"
                 /\ CanExecuteTool(st, i) \/ ~Safe(i)}

\* Such a pass starts call i next.
Starts(st, g, k, i) ==
    /\ i \in Stops(st, g, k)
    /\ \A j \in Stops(st, g, k) : i <= j
    /\ CanExecuteTool(st, i)

\* getAbortReason: discarded, a Bash call failed, or the user interrupted.
AbortReason(i) == owner[i] < attempt \/ owner[i] \in failed \/ aborted

\* createSyntheticErrorMessage, pushed to the call's messages.
Synthetic(i) == [results EXCEPT ![i] = Append(@, "synthetic")]

\* Mutant: the status of a started call is not set.
ProcessQueue_StatusLeft(st, g, k, ps, du) ==
    /\ status' = st /\ due' = du
    /\ paused' = ps \cup {i \in Ids : Starts(st, g, k, i)}
    /\ UNCHANGED results

\* processQueue of executor g from index k up to its await: statuses st, with
\* ps the passes that wait and du the promises that have a finally to run.
ProcessQueue(st, g, k, ps, du) ==
    \/ /\ \A i \in Ids : ~Starts(st, g, k, i)
       /\ status' = st /\ paused' = ps /\ due' = du
       /\ UNCHANGED results
    \/ \E i \in Ids :
          /\ Starts(st, g, k, i)
          /\ paused' = ps \cup {i}
          /\ \/ /\ AbortReason(i)
                /\ status' = [st EXCEPT ![i] = "completed"]
                /\ due' = du \cup {i}
                /\ results' = Synthetic(i)
             \/ /\ ~AbortReason(i)
                /\ status' = [st EXCEPT ![i] = "executing"]
                /\ due' = du
                /\ UNCHANGED results

\* The awaited pass goes on from index k: it has started a call and waits
\* again, or it is over and getCompletedResults begins.
AwaitPass(g, k) ==
    \/ /\ \A i \in Ids : ~Starts(status, g, k, i)
       /\ query' = "collect" /\ cursor' = 1
    \/ \E i \in Ids : /\ Starts(status, g, k, i)
                     /\ query' = "process" /\ cursor' = i

-----------------------------------------------------------------------------
Init ==
    /\ kind \in Responses
    /\ owner = [i \in Ids |-> 1]
    /\ status = [i \in Ids |-> "unseen"]
    /\ results = [i \in Ids |-> <<>>]
    /\ progress = [i \in Ids |-> FALSE]
    /\ paused = {} /\ due = {}
    /\ attempt = 1
    /\ failed = {}
    /\ aborted = FALSE
    /\ query = "stream" /\ cursor = 1 /\ race = {}

\* No promise callback is due: the event loop serves I/O.
Polling == paused = {} /\ due = {} /\ query \notin {"loop", "process", "collect"}

\* An assistant message with a tool call: addTool, whose processQueue runs to
\* its first await, then getCompletedResults.
AddTool(i) ==
    /\ query = "stream" /\ Polling /\ ~aborted
    /\ status[i] = "unseen"
    /\ \A j \in Ids : status[j] = "unseen" => i <= j
    /\ \/ /\ Known(i)
          /\ ProcessQueue([status EXCEPT ![i] = "queued"], attempt, 1,
                          paused, due)
       \/ /\ ~Known(i)
          /\ status' = [status EXCEPT ![i] = "completed"]
          /\ results' = [results EXCEPT ![i] = <<"error">>]
          /\ UNCHANGED <<paused, due>>
    /\ query' = "harvest" /\ cursor' = 1
    /\ UNCHANGED <<kind, owner, progress, attempt, failed, aborted, race>>

\* Any other message of the stream: getCompletedResults only.
OtherMessage ==
    /\ query = "stream" /\ Polling /\ ~aborted
    /\ query' = "harvest" /\ cursor' = 1
    /\ UNCHANGED <<kind, owner, status, results, progress, paused, due,
                   attempt, failed, aborted, race>>

\* The stream fails and is retried: discard() and a fresh executor.  The calls
\* of the discarded one go on until their next message.
Fallback ==
    /\ query = "stream" /\ Polling /\ attempt < MaxAttempts
    /\ attempt' = attempt + 1
    /\ owner' = [i \in Ids |-> IF status[i] = "unseen" THEN attempt + 1
                                                       ELSE owner[i]]
    /\ UNCHANGED <<kind, status, results, progress, paused, due, failed,
                   aborted, query, cursor, race>>

\* The stream ends, or is aborted: the query calls getRemainingResults.
EndOfStream ==
    /\ query = "stream" /\ Polling
    /\ query' = "loop"
    /\ UNCHANGED <<kind, owner, status, results, progress, paused, due,
                   attempt, failed, aborted, cursor, race>>

-----------------------------------------------------------------------------
\* The query iterates over getCompletedResults: while it streams, in the loop
\* of getRemainingResults ("collect" up to the first message, "yield" when
\* suspended at one) and after that loop.
Iterating == query \in {"harvest", "collect", "yield", "last"}
Suspended == query' = IF query = "collect" THEN "yield" ELSE query

\* The calls from index k at which the loop of getCompletedResults yields or
\* breaks.
Attention(k) ==
    {i \in Mine : /\ i >= k
                  /\ \/ progress[i] \/ status[i] = "completed"
                     \/ status[i] = "executing" /\ ~Safe(i)}

\* The loop yields at i next.
YieldsAt(k, i) ==
    /\ i \in Attention(k)
    /\ \A j \in Attention(k) : i <= j
    /\ progress[i] \/ status[i] = "completed"

YieldProgress(i) ==
    /\ Iterating /\ YieldsAt(cursor, i)
    /\ progress[i]
    /\ progress' = [progress EXCEPT ![i] = FALSE]
    /\ cursor' = i /\ Suspended
    /\ UNCHANGED <<kind, owner, status, results, paused, due, attempt, failed,
                   aborted, race>>

YieldResults(i) ==
    /\ Iterating /\ YieldsAt(cursor, i)
    /\ ~progress[i]
    /\ status' = [status EXCEPT ![i] = "yielded"]
    /\ results' = [results EXCEPT ![i] = <<>>]
    /\ cursor' = i + 1 /\ Suspended
    /\ UNCHANGED <<kind, owner, progress, paused, due, attempt, failed,
                   aborted, race>>

\* Nothing to yield and calls that execute: wait for one, or for progress.
MustSleep ==
    /\ Having("executing") # {} /\ Having("completed") = {}
    /\ \A i \in Mine : ~progress[i]

\* The end of the loop of getCompletedResults.
IterationEnds ==
    /\ Iterating
    /\ \A i \in Ids : ~YieldsAt(cursor, i)
    /\ query' = CASE query = "harvest" -> "stream"
                  [] query = "last"    -> "done"
                  [] OTHER -> IF MustSleep THEN "sleep" ELSE "loop"
    /\ race' = IF query' = "sleep" THEN Having("executing") ELSE {}
    /\ cursor' = 1
    /\ UNCHANGED <<kind, owner, status, results, progress, paused, due,
                   attempt, failed, aborted>>

\* The top of the while loop of getRemainingResults: done, or processQueue.
LoopTop ==
    /\ query = "loop"
    /\ \/ /\ \A j \in Mine : status[j] = "yielded"
          /\ query' = "last" /\ cursor' = 1
          /\ UNCHANGED <<status, results, paused, due>>
       \/ /\ \E j \in Mine : status[j] # "yielded"
          /\ ProcessQueue(status, attempt, 1, paused, due)
          /\ AwaitPass(attempt, 1)
    /\ UNCHANGED <<kind, owner, progress, attempt, failed, aborted, race>>

\* Mutant: the promises of the executing calls are left out of the race.
WakeUp_ProgressOnly ==
    /\ query = "sleep"
    /\ \E i \in Mine : progress[i]
    /\ query' = "loop" /\ race' = {}
    /\ UNCHANGED <<kind, owner, status, results, progress, paused, due,
                   attempt, failed, aborted, cursor>>

\* Promise.race settles: one of its calls ended, or some call has progress.
WakeUp ==
    /\ query = "sleep"
    /\ \/ \E i \in race : status[i] # "executing"
       \/ \E i \in Mine : progress[i]
    /\ query' = "loop" /\ race' = {}
    /\ UNCHANGED <<kind, owner, status, results, progress, paused, due,
                   attempt, failed, aborted, cursor>>

-----------------------------------------------------------------------------
\* The pass that started i goes on behind it; getRemainingResults may be
\* waiting for the end of this pass.
Resume(i) ==
    /\ i \in paused
    /\ ProcessQueue(status, owner[i], i + 1, paused \ {i}, due)
    /\ \/ query = "process" /\ cursor = i /\ AwaitPass(owner[i], i + 1)
       \/ (query # "process" \/ cursor # i) /\ UNCHANGED <<query, cursor>>
    /\ UNCHANGED <<kind, owner, progress, attempt, failed, aborted, race>>

\* promise.finally of an ended call: another pass, from the first call.
Finally(i) ==
    /\ i \in due
    /\ ProcessQueue(status, owner[i], 1, paused, due \ {i})
    /\ UNCHANGED <<kind, owner, progress, attempt, failed, aborted, query,
                   cursor, race>>

\* thisToolErrored: the call's own error does not count as a sibling's.
ThisToolErrored(i) == results[i] # <<>> /\ results[i][1] = "error"

\* Mutant: the call that caused the error is cut as well.
CutShort_Always(i) == AbortReason(i)

\* The next message of i finds the call cancelled.
CutShort(i) == AbortReason(i) /\ ~ThisToolErrored(i)

Completes(i) ==
    /\ status' = [status EXCEPT ![i] = "completed"]
    /\ due' = due \cup {i}

\* A message of a cancelled call: it is dropped for a synthetic error.
Cancelled(i) ==
    /\ Polling /\ status[i] = "executing" /\ CutShort(i)
    /\ results' = Synthetic(i)
    /\ Completes(i)
    /\ UNCHANGED <<kind, owner, progress, paused, attempt, failed, aborted,
                   query, cursor, race>>

\* A progress message; of the tools here Bash sends them.
Progress(i) ==
    /\ Polling /\ IsBash(i) /\ status[i] = "executing" /\ ~CutShort(i)
    /\ results[i] = <<>>
    /\ progress' = [progress EXCEPT ![i] = TRUE]
    /\ UNCHANGED <<kind, owner, status, results, paused, due, attempt, failed,
                   aborted, query, cursor, race>>

\* The call's own result; an error of a Bash call cancels its siblings.
ToolResult(i, r) ==
    /\ Polling /\ status[i] = "executing" /\ ~CutShort(i)
    /\ results[i] = <<>>
    /\ results' = [results EXCEPT ![i] = <<r>>]
    /\ failed' = IF r = "error" /\ IsBash(i) THEN failed \cup {owner[i]}
                                             ELSE failed
    /\ UNCHANGED <<kind, owner, status, progress, paused, due, attempt,
                   aborted, query, cursor, race>>

\* The generator of i ends; it has given its result.
ToolEnds(i) ==
    /\ status[i] = "executing"
    /\ results[i] # <<>>
    /\ Completes(i)
    /\ UNCHANGED <<kind, owner, results, progress, paused, attempt, failed,
                   aborted, query, cursor, race>>

\* The user interrupts, or a permission dialog of a call aborts the turn.
Abort ==
    /\ Polling /\ ~aborted /\ query # "done"
    /\ aborted' = TRUE
    /\ UNCHANGED <<kind, owner, status, results, progress, paused, due,
                   attempt, failed, query, cursor, race>>

-----------------------------------------------------------------------------
\* The query loop at work on the results.
Consume ==
    \/ \E i \in Ids : YieldProgress(i) \/ YieldResults(i)
    \/ IterationEnds \/ LoopTop \/ WakeUp

Finishes(i) ==
    \/ Cancelled(i) \/ ToolEnds(i)
    \/ \E r \in {"own", "error"} : ToolResult(i, r)

Next ==
    \/ \E i \in Ids : AddTool(i)
    \/ OtherMessage \/ Fallback \/ EndOfStream \/ Abort
    \/ Consume
    \/ \E i \in Ids : Resume(i) \/ Finally(i) \/ Progress(i) \/ Finishes(i)

\* Promise callbacks run, the consumer goes on, and the event loop, whenever it
\* turns, serves every call's I/O.
Fairness ==
    /\ WF_vars(Consume)
    /\ \A i \in Ids : /\ WF_vars(Resume(i)) /\ WF_vars(Finally(i))
                      /\ SF_vars(Finishes(i))

Spec == Init /\ [][Next]_vars
FairSpec == Spec /\ Fairness

-----------------------------------------------------------------------------
ResultList == Seq({"own", "error", "synthetic"})

\* Type correctness; only calls that ended have a finally to run, and a pass
\* waits only for calls that were started.
TypeOK ==
    /\ kind \in Responses
    /\ attempt \in 1 .. MaxAttempts
    /\ owner \in [Ids -> 1 .. attempt]
    /\ status \in [Ids -> {"unseen", "queued", "executing", "completed",
                           "yielded"}]
    /\ results \in [Ids -> ResultList]
    /\ progress \in [Ids -> BOOLEAN]
    /\ paused \in SUBSET Ids /\ due \in SUBSET Ids
    /\ failed \in SUBSET (1 .. attempt)
    /\ aborted \in BOOLEAN
    /\ query \in {"stream", "harvest", "loop", "process", "collect", "yield",
                  "sleep", "last", "done"}
    /\ cursor \in 1 .. MaxTools + 1
    /\ race \in SUBSET Ids
    /\ \A i \in due : status[i] \in {"completed", "yielded"}
    /\ \A i \in paused : status[i] \notin {"unseen", "queued"}

\* Of two calls of one executor that execute together, both are safe.
ExclusiveAlone ==
    \A i, j \in Ids :
        /\ i # j /\ owner[i] = owner[j]
        /\ status[i] = "executing" /\ status[j] = "executing"
        => Safe(i) /\ Safe(j)

Started(i) == status[i] \notin {"unseen", "queued"}

\* A call that runs has no earlier call of its executor still in the queue.
StartedInOrder ==
    \A i, j \in Ids :
        /\ i < j /\ owner[i] = owner[j] /\ Known(j) /\ Started(j)
        => Started(i)

\* "Non-concurrent tools must execute alone (exclusive access)", and whatever
\* passes of processQueue overlap, calls start in the order they were added:
\* an edit never runs before a read the model placed in front of it.
ExclusiveAccess == ExclusiveAlone /\ StartedInOrder

\* "Emitted in the order tools were received" holds for exclusive calls: no
\* later call's result comes out before theirs.  The one exception is the
\* iteration suspended at a call with an unknown name between the two, while
\* the earlier call ran.
ExclusiveNotOvertaken ==
    [][\A i, j \in Ids :
         /\ i < j /\ owner[i] = owner[j] /\ ~Safe(i) /\ Known(j)
         /\ status[j] # "yielded" /\ status'[j] = "yielded"
         => \/ status[i] = "yielded"
            \/ \E k \in i + 1 .. j - 1 : ~Known(k)]_vars

\* A call that ended has been answered, by a result of its own, unless there was
\* a reason to cut it short, and a call that failed is not told of its own
\* failure again.  One cut short between its result and a later message is
\* answered twice, with the result and with the synthetic error.
EndedCallsAreAnswered ==
    \A i \in Ids :
        status[i] = "completed" =>
            \/ results[i] \in {<<"own">>, <<"error">>}
            \/ /\ results[i] \in {<<"synthetic">>, <<"own", "synthetic">>}
               /\ AbortReason(i)

\* getRemainingResults ends with every call answered, however calls fail, are
\* interrupted or wait for each other, unless a call has an unknown name:
\* behind an exclusive call that one keeps the loop turning without a message
\* or a sleep, and no I/O is served any more.
RemainingResultsEnd ==
    (\A i \in Ids : Known(i)) => (query = "loop" ~> query = "done")
=============================================================================
