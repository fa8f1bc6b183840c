# A TLA+ development of Lingda Workbench

Lingda Workbench is a browser workbench on top of a coding-agent runtime: a
Node process runs agent sessions, suspends them while a tool call waits for the
user's approval, and streams what happens to browser tabs. This directory holds
TLA+ modules of its protocols, the TLC runs that check them, and proofs that
TLAPS checks.

    tlc -workers 2 -config workbench.cfg MCWorkbench.tla
    tlapm WebChatSession_proof.tla

`PROJECT.json` lists the runs, the source lines of every definition, a mutant of
the code for every property, the findings, the hazards and the theorems.

## 1. The system

Everything runs in single-threaded JavaScript: handlers interleave at
`await`s and callbacks only. A step of every model is therefore the code
between two awaits of I/O, with the continuations that run in the same pass of
the microtask queue. Two components meet outside one process: the tab and the
server exchange requests and event streams, and the task list and the mailboxes are
shared by processes through files, so that a step there is one operation on one file.

| Component | State | Operations | What is hard |
|---|---|---|---|
| Browser chat session (`server/session/WebChatSession.ts`, `server/routes/chatRoutes.ts`) | status, pending approval, transcript, draft, subscribers | submitMessage, canUseTool, approve, subscribe, snapshot | one approval slot shared by parallel tool calls; a memory write-back awaited between the end of a turn and the reset of its status; tabs joining at any time |
| Tool orchestration (`services/tools/toolOrchestration.ts`) | the batches of a turn's tool calls | run serially or together | what runs together |
| Streaming tool executor (`services/tools/StreamingToolExecutor.ts`, its loop in `query.ts`) | tool calls, their states and messages | addTool, processQueue, getCompletedResults, getRemainingResults, discard | overlapping passes over one queue; ordering of results; aborts between two messages; sleeping on what may already be over |
| Query engine (`query.ts`, `QueryEngine.ts`) | the turn's messages and limits | the turn loop | compaction and fallback in the middle of a turn |
| Web client (`webui/src`: `StreamManager`, `chatStore`, `ChatArea`, `Sidebar`) | the stream, the session shown, the approval shown | connect, reconnect, send, approve, select a session | a turn that ends before the client listens; reconnection racing a disconnect; an answer that erases the next approval |
| MCP session manager (`server/mcpSessionManager.ts`, `server/routes/mcpRoutes.ts`) | per server: record, chained operations, reconnect timer, open connection | connect, retry, disconnect, clearAuth, describe | automatic attempts racing the user; connections replaced and not closed |
| Event uploader (`cli/transports/SerialBatchEventUploader.ts`) | buffer, batch in flight, waiters | enqueue, flush, close, the drain loop | order over retries, backpressure, flush as a barrier, close during a POST |
| Worker state uploader (`cli/transports/WorkerStateUploader.ts`) | one PUT in flight, one merged patch | enqueue, close | patches merged into one being retried |
| Transports (`cli/transports/*`) | connections and their buffers | connect, write, reconnect | epochs, replay after a reconnection |
| Bridge (`bridge/*`) | environments, work items, flush gate | poll, spawn, flush | messages held back while history is flushed; two epochs at once |
| Background tasks (`utils/task/*`, `tasks/*`) | task states, output files | spawn, stop, evict | notification and eviction of what has just ended |
| Task list (`utils/tasks.ts`, `TaskUpdateTool`, `useTaskListWatcher.ts`) | a file and a lock per task, a lock and a high water mark per list | create, update, claim, block, unassign, delete, reset | several processes at once; decisions on what was read before a lock; files caught while they are rewritten; numbers given twice; a process that dies with a lock |
| Mailboxes (`utils/teammateMailbox.ts`, `useInboxPoller.ts`, `print.ts`, `inProcessRunner.ts`) | a file of messages and a lock per agent; the queue of a busy recipient | send, poll, mark all, mark one, deliver | messages that arrive between reading and marking; a creation without the lock; a sender that dies as it writes; polls that overlap |
| Memory (`memory/*`) | daily notes, promoted facts | select context, write back | read, then append, by two sessions |
| API retry (`services/api/withRetry.ts`) | attempts, model | retry, fall back | a fallback in the middle of a stream |
| Providers, local server, other routes, terminal interface | little | conversion, file access, rendering | mostly data |

Interactions: a tab posts to `/api/chat`; the route answers at once and
`submitMessage` runs on. The session's `QueryEngine` calls `canUseTool` for each
tool call and waits for the promise it returns; only `/api/chat/approve`
settles it. `emit` calls every subscriber, each an SSE response of one tab. The
MCP manager is called by routes and by its own timers. The uploaders sit below
the transports, which the bridge drives.

### What makes each component correct

* Session: one turn at a time; a suspended session can always be resumed, by
  any tab; an answer stands; turns end; the transcript pairs replies and prompts.
* Uploader: nothing lost silently, nothing sent for two reasons, the server
  learns events in order, memory is bounded, flush is a barrier, waiters return.
* MCP manager: what the screen says is true of the connection; disconnecting is
  final; automatic attempts stay within their bound and never displace the
  user's choice; every request is answered.
* Worker state uploader: the server shows a state the worker was in, all its fields
  from one moment, never goes back, and catches up.
* Executor: an exclusive call runs alone; calls start in the order the model gave
  them; every call is answered; the loop that waits for them ends.
* Web client: one stream, and the manager has hold of it; a tab that waits hears of the end;
  a tab shows the approval the session waits for.
* Task list: a task has one holder; it is claimed after its blockers; a number
  names one task for ever; a lock belongs to the call that uses it.
* Mailboxes: a message that was sent reaches its recipient; what was marked stays marked.

## 2. Modules

### `WebChatSession` - the core

One session with its routes. Actors: the turns (`Turns`, one per call of
`submitMessage`), the tool calls of each (`Calls`), the tabs (`Subs`), and the
user who answers.

| Model | Code |
|---|---|
| `status`, `pendingApproval`, `messages`, `draft`, `subscribers` | the fields of the same names |
| `turn` | how far each `submitMessage` has come: `engine` (in the for-await loop), `writeback` (awaiting `writeBackMemory`), `ended`, `rejected` |
| `call` | how far each tool call has come; `asking` waits for the promise of `canUseTool` |
| `shown` | the status and approval each stream was last told |
| `SubmitMessage`, `RejectMessage` | lines 291-374 to the first await; the guard of line 295 |
| `CanUseTool`, `Approve` | 200-271; `/approve`, which finds the session by approval id |
| `EngineEnds`, `WriteBackDone`, `EngineThrows` | the result message and protection rules (402-446), the lines after the write-back, the catch block |
| `Subscribe`, `Unsubscribe` | 155-174 and the SSE route |

A post carries the transcript its tab shows, which may be an older one, and
replaces the session's. Text is abstracted to whether there is any: line 426
writes back only then.
The engine may end every turn with a result that says `is_error` (an API error, the limit
of turns, a failed execution). Line 406 then sets the status `error`, and when the turn has text line 428 awaits its
write-back: the guard of line 295 does not look at that, and admits another turn beside it
(`ErrorWriteBack`). The history variable `overlap` records that it has, until no turn is live. It is read
by properties only, and it is the one exception that `OneLiveTurn` and `SuspensionEndsByAnswer` make.
`StreamingTools` lets the engine end a turn while a call still waits. In this build the gate
of the streaming executor is stubbed to false
(`src/src/services/analytics/growthbook.ts:2`), so it describes code that
is present and off.

`Conversation` is what a session promises whoever uses it, with no status, event or
draft. A turn is `served` until it is answered, `closing` until it is over, and `over`. Its calls ask
(`asked`) and each is decided once, by the approval that is shown (`waiting`); its answer comes only
when none of its calls is open. How much more is promised depends on the `mode`:

| `mode` | The session | Promise |
|---|---|---|
| `one` | no turns overlap | a turn begins only when no other is served or closing; nothing stands between its message and its answer in the `log` |
| `failed` | the write-back after an error result is awaited (`ErrorWriteBack`) | besides, another turn may begin, and the mode is then `mixed` |
| `mixed` | `overlap` | turns may begin, or be refused, and answers may stand behind other messages; a turn may be over without one while an approval is shown. When the last of them is over the mode is `one` again |

The refinement maps the turns in `engine`, in `writeback`, and `ended` or `rejected` to the three sets,
the calls `asking` to `asked`, and `pendingApproval` and `messages` as they are. What the abstraction leaves
open on purpose: how much of an older transcript a post keeps, and whether a turn is over with
its answer or later. An overwritten approval is part of it: `Ask` replaces what
is shown, and the call before stays in `asked` for ever.

### `Workbench`, over `WebChatSession`

One tab composed with the session it shows. The server is an instance of
`WebChatSession` whose `Subs` are the `EventSource` objects the tab creates, one after the
other; every step of it that emits also appends to the streams that are open.

| Model | Code |
|---|---|
| `stream` | every `EventSource` with what is on its wire, who awaits its `connect()`, and the fetch of its reconnection |
| `manager` | `eventSource`, `reconnectTimeout`, `reconnectAttempts` of the `StreamManager` |
| `tab` | `isStreaming`, `pendingApproval`, `activeSessionId` of `chatStore`; whether `ChatArea` is mounted |
| `send`, `answer`, `load` | where each `handleSend`, `handleApproval` and fetch of a snapshot stands |
| `Send`, `PostArrives`, `SendReturns`, `SendFails`, `SendFinally` | `handleSend`, cut at its awaits, with its `finally` |
| `Deliver`, `Break`, `RetryAsks`, `RetryReturns`, `RetryFails` | `handleStreamEvent`, `onerror`, `handleReconnect` |
| `Click`, `AnswerArrives`, `AnswerReturns`, `AnswerFails` | `handleApproval`, cut at its POST, with its `catch`: a POST that failed leaves the card, which may be clicked again |
| `Mount`, `Unmount`, `Select`, `LoadReturns` | the bootstrap of `ChatArea`, its clean-up, the sidebar |

Responses of different connections are not ordered with each other: an answer's response may come
after the event of the next approval. A connection that breaks loses what was on its
wire. `session_status` events are not kept, since no listener of the tab reads them.
The session is that of this build, with error results, any `Calls` and any `MaxParallel`. The run gives every turn one call,
which is what its other bounds leave room for; the proofs do not.

### `StreamingToolExecutor`

The executors of one response (a fallback of the model discards one and makes another), with
the loop of `query.ts` that adds calls, collects results, and sleeps in `Promise.race`. What interleaves
are that loop, the passes of `processQueue` suspended behind a call they have started
(`paused`), the `promise.finally` of ended calls (`due`) and the generators of the calls.
Promise callbacks go before I/O: a chunk of the stream or a message of
a tool comes in only when no callback is due (`Polling`). `Responses` are the sequences of tools a response may
call: `edit` and `bash` are exclusive, `read` and `listing` (a Bash command that only reads)
are not, `unknown` names no tool.

### `TaskList`

The files of one list, their locks, and any number of concurrent `Calls`, each at one file
operation of its function. `writeFile` truncates before it writes, so that a file
may be `torn`, and whoever reads it then finds no task. A call keeps what it
has read (`read`, `list`) and acts on it later, as the code does: `unassignTeammateTasks` writes what its
listing called for, `TaskUpdateTool` decides on an owner it read before the lock.
`claimTask` reads the task under its lock, lists its blockers without theirs, reads it again
and writes. (Only blockers are listed: nothing else of the listing is used.) A
process that dies with a lock (`Dies`) loses it, as `proper-lockfile` gives up a
stale lock.

History variables name the exceptions the properties need, and no more: `snatched` (an owner
replaced by a call that had decided before), `reopened` (a completed task made
open by a stale update), `reused` (a number given twice), `raced` (what the high water mark's lack of
a lock needs to go wrong), and `missed`, in a claim, the blockers whose files it could not read.

### `Mailbox`

One mailbox: the file, its lock, and the calls on it. `Messages` are the calls of `writeToMailbox`, each with
its message; `Reads` are looks of the recipient. A look is one poll, from its read without the lock to the
return of its mark. `reader` chooses which of the three programs reads, since a mailbox has one:

| `reader` | Code | How it reads |
|---|---|---|
| `hook` | `useInboxPoller` | polls every second, delivers or queues what it found, then marks the whole file |
| `headless` | `run` of `print.ts` | marks the whole file, then goes on to what it had found |
| `loop` | `inProcessRunner` | takes the message that comes first by kind, marks its place, returns it; while it waits for an answer to a permission request, another poll looks for that |

| Model | Code |
|---|---|
| `file`, `list` | the file, `empty` between the truncation and the contents of a `writeFile`, and `garbled` when contents of two writers are mixed; `readMailbox` finds nothing in either |
| `lock` | the lock of `proper-lockfile` that senders and marks take |
| `Create`, `WritesEmptyList` | `writeToMailbox`, line 150: `writeFile` with `wx`, cut behind the opening of the file |
| `LockToSend`, `LockToMark`, `Open`, `Write` | the reading under the lock, the truncation and the writing |
| `GivesUp` | the catch blocks: with the lock not to be had, a message or a mark is dropped, and callers are told nothing |
| `Dies` | a sender's process ends with the lock, which becomes stale |
| `PollDelivers`, `QueueDelivers` | the delivery of the hook, at once or through `AppState.inbox` |
| `Turn` | the turns of the recipient that messages do not start, and the ends of all |

`confirmed`, `blind` and `wiped` are history: marked messages, messages marked by a call that had not read them,
and messages in a file that was destroyed.

### `SerialBatchEventUploader`, over `InOrderChannel`

The buffer, the batch in flight, the state of the drain loop, and the calls of
`enqueue` and `flush` that wait. `LoopFrom` is the body of the `while` loop up to its next
await, and every action that resumes or starts the loop uses it. `TakesBatch` is
`takeBatch`: with a byte limit it may cut a batch after any event but the first and it
removes events that cannot be serialized; a batch that is empty after this
has emptied the buffer, and ends the loop.
A failed POST may or may not have reached the server, and is requeued or, after
`MaxFailures`, dropped. History variables (`accepted`, `received`, `acked`,
`dropped`, `discarded`, `cleared`, `mark`) record what became of each event.

`InOrderChannel` is what callers are promised: events are numbered when accepted,
some may be given up, and the server comes to know the others in order. The
refinement maps `next`, `got`, `lost` to `accepted`, `received`, `dropped \cup discarded`.

### `McpSessionManager`

One server name: all state is kept per name. `chain` is the sequence of
operations `runSerialized` has chained; `pc` is the await the first one stands
at; `timer` is the attempt the reconnect timer will chain; `live` is what is
connected, by configuration, because `connectToServer` is memoized by it. A
settled operation and the start of the next are consecutive microtasks, so
requests and timers come in only at an await (`Quiet`).

### `WorkerStateUploader`, over `LaggingRegister`

The pending patch, the patch being sent and retried, and the state its PUTs have
written. A field's value is the number of the `enqueue()` call that wrote it, which is all that
"the last one wins" needs; a field is a top-level key or a key of a metadata object,
since those objects are merged key by key (no caller sets one to null). A PUT
that fails may have been applied, before it fails and not later. `LaggingRegister` is
the promise: what the server shows is the worker's state after some number of its
reports. The refinement maps its `view` to `server`.

### Proof modules, MC modules

`WebChatSession_proof`, `SerialBatchEventUploader_proof`, `McpSessionManager_proof`,
`WorkerStateUploader_proof`, `StreamingToolExecutor_proof`, `Workbench_proof`, `TaskList_proof` and `Mailbox_proof`
extend their modules and `TLAPS`. `MCSerialBatchEventUploader` adds the sizes of the
calls, `MCWebChatSession` the tool calls of the turns, `MCWorkerStateUploader` the fields that are reported together,
`MCStreamingToolExecutor` the responses, `MCTaskList` the symmetry of calls and agents,
`MCMailbox` that of senders and looks, and which kinds the messages may have together.
`MCWorkbench` adds one tool call per turn, the symmetry of turns and a `VIEW`, which drops what no guard and no
property looks at again (which way an ended call was answered, requests that are
over, the history of calls that are answered). A definition whose comment begins with
"Mutant:" is not part of a model: it is a plausible bug, which a property must notice.

## 3. Runs

| Run | Bounds | Shows |
|---|---|---|
| `session_turns` | 3 turns, of which one has 2 parallel calls, one has 1 and one none, error results, fairness | one turn at a time, unless an error result let turns overlap; the session implements `Conversation`; only an answer ends a suspension, with the same exception; the session rests, unless an approval was overwritten |
| `session_open` | 2 turns of 2 parallel calls, 1 tab, error results, streaming executor | types; a suspension always has a live approval; every open stream was shown it; decisions are final |
| `session_parallel` | 1 turn with 2 parallel calls, fairness | **violated**: `TurnsEnd` |
| `workbench` | 2 turns of 1 call, error results, 3 streams, 1 reconnection per `connect()`, 2 failures of connections or requests, the user leaves or uses the sidebar once | the manager has hold of the one open stream; a waiting tab hears of the end; a tab shows the approval |
| `workbench_late` | 2 turns of 1 call, 2 streams, nothing fails | **violated**: `EveryEndIsHeard` |
| `tools` | 6 responses of 3 calls, 1 fallback, fairness | exclusive calls run alone and in order; ended calls are answered; results come in order around exclusive calls; the remaining results end |
| `mailbox` | 3 messages of which 2 are of one kind only if they are peers', 2 looks under way, one reader of each kind | only the holder of the lock writes; a sent message is lost in three named ways only; no mark is taken back |
| `tasks` | 3 concurrent calls of any kind, 2 agents, 2 tasks of which one blocks the other, room for a third, calls that die | locks belong to their calls; numbers are given once; claims exclude each other and wait for blockers |
| `uploader` | calls of 1, 2 and 2 events, queue and batch of 2, 2 failures, 1 flush, byte limit, close | all safety properties of the uploader, the refinement, waiters return |
| `mcp` | 3 requests over a remote, a stdio and an invalid configuration, 3 automatic attempts, drops | the manager's properties, retries end, requests are answered |
| `mcp_orphan` | the same without drops, so that no other cause closes a connection | **violated**: `DisconnectedMeansClosed` |
| `worker_state` | 4 patches of `status` and `details`, `mode`, or `mode` and `ultraplan`; close; fairness | the refinement of the register, a resting uploader is up to date, the server catches up |

Why the bounds are enough for the cases of interest. Sessions: two turns are what the
guard and the write-back need to conflict, and a third one comes while they overlap or when they are over,
to find one turn at a time again; two calls are what the approval slot needs, of one turn or of two that
overlap; a second sender needs no stream, and `session_turns` has none, because no guard and
none of its properties looks at one; one tab that comes and goes is a late subscriber. Uploader: the calls
cannot all fit, so one blocks while a batch is in flight; a failed batch
returns to a full buffer; a second failure drops it; an unserializable event can be first,
last or in the middle; a close can come in each state. MCP: three requests and
three attempts let a user's operation come before, between and behind automatic
ones, and reach the bound. Worker state: with four patches, one is applied, one in
flight, one pending and one still comes, and the groups overlap in one field and not in others.
Workbench: two failures break a connection and the reconnection behind it, which uses up
the attempts, while a second turn or a mount opens another; three streams
are what that takes. Tools: two safe calls before an exclusive one, one on each
side, exclusive ones on each side, and an unknown name between; a fallback leaves calls
of a discarded executor running. Tasks: three calls are what most races of two need, the
third being the one that deletes, resets or completes between their steps; two tasks have a blocker, and a
third number lets one be given again. Mailbox: one sender creates the file while another sends, and
the third sends between a read and a mark; two looks overlap; three messages put one before and one behind
the one that a look has the place of.
Deadlock is not checked: each system may rest when
every turn, call and request of the instance is done.

`StreamingTools` is `FALSE` in `session_turns` and `session_parallel`, as in this build; with it
`ImplementsConversation` and `SuspensionEndsByAnswer` would have further exceptions (see below).

Properties that name an exception say what else would have to be false in the code: in
`StreamIsHeld` a `disconnect()` that overtakes a reconnection's fetch, in `EndIsHeard` a stream that opened
after the turn, in `ApprovalIsShown` an answer that took the next card
down, in `SessionRests` two calls that asked together, in `OneLiveTurn`, `SuspensionEndsByAnswer` and the `mixed` mode of `Conversation` a
turn that was let in during the write-back after an error result, in `NothingElseLost` the mark of what was not read and the destroyed file, in `ClaimsExclude` a stale update, in `IdsUnique` an unlocked deletion. Each
exception is a race the code really has; the property is that it has no other.

### Fairness, and why the code justifies it

* Session: the engine's stream ends (`WF` of `TurnStep`), a started tool call asks, and a user
  answers the approval that the session holds. `AssistantText`, `Subscribe` and
  posting have none: nobody must. With two calls at once a turn may wait for ever (finding 1), so
  `SessionRests` excepts it.
* Uploader: a POST settles and a backoff timer fires (`WF`); a resolved waiter runs
  (`WF`, a microtask); `SendOk` is strongly fair: with no failure limit the code retries for
  ever and can only promise anything of a server that answers in the end.
* Worker state: as for the uploader; the code retries until it is closed, so `SendOk` is
  strongly fair. `EventuallyUpToDate` excepts a closed uploader.
* Executor: the consumer, resumed passes and `finally` callbacks run (`WF`, promise callbacks), and a
  call that runs finishes: `SF`, because its I/O is served when no callback is due, which comes and goes.
  A loop that never sleeps starves it; that is the exception of `RemainingResultsEnd`.
* MCP: an operation's I/O settles (`reconnectMcpServerImpl` resolves in every case, each
  connection attempt having a timeout) and timers fire. Requests and drops have none.

### Findings

1. `session_parallel`: `canUseTool` overwrites `pendingApproval`
   (`WebChatSession.ts:219`). Two concurrency-safe calls of one turn ask together; the
   first can never be answered and the turn never ends.
2. `mcp_orphan`: a retry with another configuration, or a connect with an invalid
   one, drops the record's client without closing it; disconnecting then reports a
   closed server whose connection is open. `OnlyRetryOrRefusalOrphans` (checked and
   proved) says that there is no third cause.
3. `workbench_late`: `handleSend` opens its stream after the POST has returned
   (`StreamManager.ts:185`); a turn that has ended by then is told to it only in a `session_status`
   event, which the tab ignores. It stays in streaming with its input locked.

Seen while modelling, and kept out of the runs:

Session
* An error result sets the status `error` (`WebChatSession.ts:406`) before the awaited write-back,
  so that the guard of line 295 admits a second turn, and the first one's last lines
  then set `idle` under it, over its suspension even (450), and a third one may be admitted. This is the `overlap`
  that the properties of `session_turns` except; without the exception each of them is violated. What
  remains true is that an approval on the screen can be answered and every call is decided before its turn is answered. With the streaming
  executor on, line 406 overwrites `suspended_for_approval` too.
* The delta of a new assistant message is cut by the length of the one before it (line 384);
  a tab that posts an older transcript removes the entries it has not seen (304).
* Two sessions read the daily summary and then append to it: both write the same line
  (`MemoryWriteback.ts:55`).

Event uploader and transports
* A batch whose POST fails after `close()` is put back into the buffer (`SerialBatchEventUploader.ts:184`); a
  `flush()` called afterwards finds it, starts a drain that returns at once, and waits for ever.
* An `enqueue()` of more events than the queue holds waits for ever (line 108; the comment at
  `ccrClient.ts:355` knows it, and the bounds there are chosen to avoid it - the
  modules of this directory give calls that fit); a small `enqueue()` overtakes a waiting
  larger one (line 107).
* `CCRClient.initialize()` PUTs `idle` and then sets `currentState` (`ccrClient.ts:498`): a `running`
  reported meanwhile is forgotten, and the following `idle` is never sent (646).

MCP manager
* An invalid configuration does not clear the armed timer (`mcpSessionManager.ts:558`, the exception
  that `AutoBelongsToSession` names); the manager does not listen for a connection that
  closes by itself, so its record stays connected (648); `operationChains` keeps its entries,
  because it compares the stored promise with another one (127).

Web client
* A reconnection whose fetch is in flight when the user connects or disconnects opens its stream all the
  same (`StreamManager.ts:130`): a second stream, or one that applies its snapshot to the screen of another session.
* Selecting a busy session in the sidebar applies its snapshot and connects to nothing
  (`Sidebar.tsx:51`).
* The answer to one approval erases the card of the next if that comes first
  (`ChatArea.tsx:171`); the `finally` of one `handleSend` unlocks the input of the next (162).

Executor
* Behind an executing exclusive call, a completed call with an unknown name keeps
  `getRemainingResults` turning without a message or a sleep (`StreamingToolExecutor.ts:458`).
* The calls of a discarded executor run on beside those of the new one.

Task list and mailboxes
* Numbers can be given twice, though the comments at `tasks.ts:143` and `400` say otherwise: `deleteTask` reads and
  writes the mark without the list's lock (403).
* A teammate that is unassigned twice, or a `TaskUpdate` that saw no owner, takes a task from whoever claimed
  it meanwhile; the same updates open a completed task again (833).
* An update concurrent with a deletion writes the deleted file anew (365); a claim whose
  task vanishes under it reports success (585-600); a blocker whose file is caught truncated does not block.
* `markMessagesAsRead` marks messages that arrived after the poll had read the file and that nobody will
  read (`useInboxPoller.ts:864`, where line 860 says that the order "prevents permanent message loss"; `print.ts:2538`).
* The first two senders of a mailbox race: the one that created it writes its `[]` over what the other
  has sent (`teammateMailbox.ts:150`, before the lock that line 129 speaks of).
* A message whose sender cannot get the lock is dropped, and `SendMessageTool` reports that it was sent
  (`teammateMailbox.ts:184`).
* A poll that lasts longer than the interval overlaps with the next one, and both deliver (`useInboxPoller.ts:954`); in
  `print.ts` a prompt from stdin starts a turn beside the poll, and the end of that turn starts another (2512).

## 4. Proofs

All theorems hold for every value of the constants that satisfies the `ASSUME` of
the module; they use nothing else.

`WebChatSession_proof`
* `TypeCorrect`.
* `SuspensionIsAnswerable` (`SuspendedOnLiveCall`): inductive together with the types. An
  approval is mounted by a call that starts to ask and leaves with the answer; no
  turn that ends touches it, even when error results and the streaming executor let
  the turn end first.
* `ApprovalIsOnEveryScreen` (`SubscribersCanAnswer`): `emit` and the greeting of a new
  subscriber carry the same approval.
* `OneTurnAtATime` (`OneLiveTurn`), for every build: where turns do not overlap, a live turn keeps the session busy,
  or its write-back is awaited under the status `error` (`OneLiveTurnInv`), and then who comes in starts the overlap. When the last of the
  turns that overlap is over, the invariant holds of no turn and begins again.
* `AnswersStand` (`DecisionsAreFinal`): an action property; a call with a decision is
  never the pending one.
* `OnlyAnswersResume` (`SuspensionEndsByAnswer`), an action property, without the
  streaming executor: a call that waits belongs to a turn that is still in the engine (`EngineWaits`), so that a turn that ends
  under an approval is another one, and then turns overlap (`EndsUnderAnApproval`).
* `SessionIsAConversation` (`ImplementsConversation`), a refinement,
  without the streaming executor: every step of the session is one of `Conversation` or
  a stutter. `Sound` gathers the invariants above and that, where turns do not overlap, the transcript ends with the prompt of the
  turn the engine works on (`PromptStaysLast`). The steps need two more facts. A refusal is one of
  the abstract session only if a busy session has a live turn (`BusyIsLive`, the
  converse of what `OneTurnAtATime` rests on), overlapping turns included: a turn that ends under another's approval leaves that one
  live. And the end of a turn maps to one of the conversation only if the mode goes back to `one` when no turn is
  left, and to `failed` only behind an error result (`ModeGoes`).

`StreamingTools = FALSE` is the only assumption of these two, and holds of this build. Nothing is assumed of error results, of the
number of parallel calls or of the tabs.

`SerialBatchEventUploader_proof`
* `Invariance`: `Inv` says that batch and buffer together are an increasing sequence of
  accepted events, that what they do not hold is settled, and that what the
  server has never exceeds what was taken from the buffer. None of the listed
  properties is inductive alone: that order survives a requeue needs that every
  event in flight precedes every buffered one, which needs that nothing is held twice.
* `TypeCorrect`, `NoLossNoDuplicate`, `InOrderReceipt`, `FlushIsABarrier`, `MemoryIsBounded`.
* `UploaderIsAnInOrderChannel`: initial states map to initial states and every step to
  `Accept`, `Deliver` or a stutter.

`McpSessionManager_proof`
* `Invariance`: an automatic attempt is the armed timer or the running operation,
  never one that waits in the chain, because a timer fires only when nothing is
  ready and is cleared by the next operation that starts.
* `TypeCorrect`, with it the bound on the attempts; `DescribeOnlyReads`;
  `DisconnectWins`; `AutomaticIsOnScreen`; and the action property `OthersKeepHold`.

`WorkerStateUploader_proof`
* `TypeCorrect`, `RestIsUpToDate` and `UploaderIsALaggingRegister`, from one invariant: the
  server has the state after some report `n` that was taken, the patch in flight
  starts no later than `n` and ends with the last one taken, and the pending one covers the rest.
  No gap between them is what `CoalesceWrites` needs: merging a patch of reports
  `b+1..j` into a state after `n >= b` gives the state after `j`. It also covers a PUT
  that was applied and is retried.

`StreamingToolExecutor_proof`
* `ExecutorTypes`: every bound and the facts about `due` and `paused`; the cursor of a pass stays within the
  calls because a pass that breaks leaves it where it is.
* `ExclusiveAccessHolds`: however many passes of `processQueue` overlap, an exclusive call
  runs alone and no known call starts before an earlier one of its executor. `StartedInOrder` is inductive
  because a pass stops at the first call it cannot start, so that everything in front of a
  call it starts has been started before, by this pass or another; `ExclusiveAlone` follows from `CanExecuteTool`
  and from the executor a call keeps.
* `EveryEndedCallIsAnswered` (`EndedCallsAreAnswered`): `AInv` says which lists of results a call may have in each
  status, and `CutInv` that a call has a synthetic answer only if there was a reason to cut it short, which stays
  true: a sibling failed, the user interrupted, or the executor was discarded. A call that was cut short between its own
  result and a later message has both answers, its own and one synthetic, never two of these, because
  the loop over a generator makes one up at most once and then ends it.
* `ExclusiveResultsInOrder` (`ExclusiveNotOvertaken`): `CursorInv` says that the exclusive calls a suspended iteration has
  passed are yielded, or have a call of an unknown name behind them, which completes out of turn.

`Workbench_proof`, for any number of turns, streams, failures and moves of the user
* `SessionIsImplemented`: what the composition does to the session are steps of the session's own
  specification, so that everything section 2 says of a session on its own holds of the session behind the tab. The types and `SuspendedOnLiveCall` are carried over once more as
  `SessionInv`, with which calls keep which turns alive, because the proofs below use them state by state.
* `TypeCorrect`, with the bound on the reconnection attempts of one `connect()`.
* `OneStreamIsHeld` (`StreamIsHeld`): `HoldInv` adds that, unless overtaken, a stream with a reconnection under way is
  that of the last timer and no stream is current. It is what makes `disconnect()` complete: it closes the current
  stream and clears the one timer, and a timer that has fired already is the exception the property names.
* `EndsAreHeard` (`EndIsHeard`) and `ApprovalsAreShown` (`ApprovalIsShown`): one invariant, `BackInv`, says what backs a
  tab in streaming while nothing is coming: a stream is open (`Hearing`) that is late, or whose session has a live turn, or
  that has an end on the wire; and the approval is on the screen, was erased, or something is on the wire
  (`Showing`). The properties speak only of a session at rest or suspended; a step to such a state keeps them because
  the stream was there before, with the turn still live, and subscribed (`LinkInv`). The end of a turn that leaves an approval pending emits
  nothing, and then another turn is live (`EndIsTold`). That the last event on every wire of a suspended session is its
  approval (`WireInv`) covers the delivery of older approvals: the card they put up is replaced.
  `BackInv` and the others were checked as an invariant of a run before they were proved.

The sets of turns, calls and streams are arbitrary: the assumptions are that a call is a pair of a turn and a number, that `NoCall` and `NoTurn` are no call and no turn, and that
streams are numbered from 1, since 0 is `None`.

`TaskList_proof`, for any number of calls, agents and tasks
* `TypeCorrect`: with the types, that a lock is held by the call that reads or writes its
  file (`LockInv`). The difficult steps are those of one call that act on another:
  an unlink makes its write go nowhere, a death gives its lock up.
* `NumbersAreGivenOnce`: `NumberInv` says that, unless raced, every number given is not above the mark,
  or is about to be put below it by the one call that deletes or resets, or is the number of a file; and
  that a creation knows a number not below all of these. The mark only grows because two
  calls never write it at once, which is what `raced` excludes.
* `ClaimsExcludeEachOther`: `ClaimInv` says that the holders of a task are at most its owner
  unless it was snatched or given twice, that the call with the lock has read that owner, and
  that a task being created is nobody's. Without the second exception the theorem is false for
  three calls or more: a creation writes over the task that another call has claimed.
* `BlockedTasksAreNotClaimed` (`ClaimedIsUnblocked`): the blocker a claim has seen completed may be
  torn or gone while the claim writes, so that the property is not inductive. `Sound` says more: no call can write that
  blocker that has not read it completed, and none can create it under a number of its own; every step keeps it, or
  records the task as reopened or given twice. `Knows` ties it to the claim: blockers listed completed are sound, and
  the claimed task has no other, because its lock is held from before the listing.

`Mailbox_proof`, for any number of senders and looks
* `TypeCorrect`, with the lock, and that senders carry no findings.
* `LossesAreNamed` (`NothingElseLost`): `LossInv` says it of two lists, of what the file says unless it is being filled
  and of what the holder of the lock writes; and that a poll that marks has delivered what it found.
* `MarksAreKept` (`MarksStay`): `MarkInv` says of the same two lists that each message is in them once, that a look's message
  is nowhere but at the place the look knows, and that what the holder writes extends the file. The places are read
  without the lock and hold all the same, since a list only grows until the file is made anew.

Only model-checked: the liveness properties, since fairness is out of this prover's
reach. Every safety invariant and action property of the passing runs has its theorem.

## 5. Not modelled, and why

Texts, formats, logs, dates and titles; the configuration files that the MCP
routes rewrite; the partition of tool calls into batches (only how many run at once);
the lengths of delays. Of the tab: the transcript and drafts on the screen, settings, sends on other
sessions, other tabs (the session's own module has them), the bootstrap of the first
load (the model starts behind it). Of the executor: what an interrupt does to tools that declare a behaviour for
it, which none in this build does, context modifiers, and that the calls of one assistant message are added together: the model
adds them one by one, which allows more orders. Of the task list: a `TaskUpdate` that changes owner and status at once, or sets a
task back to pending (the model changes one of them per update), `claimTaskWithBusyCheck`, which
nobody calls, the retries of a lock (a call that gives up takes no further step), and texts. Of the mailboxes:
`clearMailbox`, which nobody calls, the reading of a mailbox as attachments of a prompt, which is for one type of
user only (`attachments.ts:3590`), the removal of a team's directory, the death of the reader, and what a reader does
with a message of the team's protocols beyond delivering it.

The repository holds over half a million lines, most of them
a terminal interface, command parsers, provider adapters, prompts and formats: they convert or render
data and keep no protocol state, and modelling them would transcribe them. The modules here are about
the protocols among the rest, a small part of all lines. What of the protocols is missing is marked `not_modelled` in `PROJECT.json` and is in the plan.

## 6. Plan

Done: `WebChatSession`, `SerialBatchEventUploader`, `McpSessionManager`, `WorkerStateUploader`,
`StreamingToolExecutor`, `Workbench`, `TaskList`, `Mailbox`. Next, the most important behaviour first:

1. `CCRClient` above the two uploaders: its start, and the epochs that end it.
2. The flush gate and the poll loop of the bridge; the eviction of background tasks; `MemoryWriteback`.
3. The turn loop of `query.ts` as the actor that drives the executor: compaction and fallback.
4. Proofs: the same for the modules to come; an abstract task list that `TaskList` implements.
