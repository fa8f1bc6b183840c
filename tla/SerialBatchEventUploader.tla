---------------------- MODULE SerialBatchEventUploader ----------------------
(***************************************************************************)
(* src/src/cli/transports/SerialBatchEventUploader.ts: a buffer of events  *)
(* posted in order, one batch at a time, with retry, backpressure, flush   *)
(* and close.                                                              *)
(*                                                                         *)
(* A step is the code between two awaits.  Events are numbered in the order *)
(* the buffer accepts them.  Byte sizes are abstracted: with a byte limit a *)
(* batch may be cut after any item but the first.  Delays are abstracted:  *)
(* a sleep may end at any time.  Of what the server sees, the set of events *)
(* it has received is kept; a POST that fails may have been received.      *)
(***************************************************************************)
EXTENDS Naturals, Sequences, FiniteSets

CONSTANTS
    Callers,      \* calls of enqueue()
    Size,         \* how many events each call carries
    Flushers,     \* calls of flush()
    MaxBatchSize, MaxQueueSize,
    MaxFailures,  \* maxConsecutiveFailures, 0 for undefined
    ByteLimited,  \* TRUE when maxBatchBytes is defined
    MayClose      \* TRUE when the owner may call close()

ASSUME UploaderConstants ==
    /\ Size \in [Callers -> Nat \ {0}]
    /\ MaxBatchSize \in Nat \ {0}
    /\ MaxQueueSize \in Nat \ {0}
    /\ MaxFailures \in Nat
    /\ ByteLimited \in BOOLEAN
    /\ MayClose \in BOOLEAN

VARIABLES
    pending,   \* this.pending
    inflight,  \* drain()'s batch while send() is awaited
    drain,     \* where drain() stands; this.draining is drain # "idle"
    failures,  \* drain()'s consecutive failures (kept 0 when not limited)
    closed,    \* this.closed
    caller,    \* each enqueue() call; "blocked" is in backpressureResolvers
    flusher,   \* each flush() call; "waiting" is in flushResolvers
    \* The history of the events.
    accepted,  \* how many were pushed onto pending; they are 1 .. accepted
    bad,       \* those that cannot be serialized
    received,  \* those the server has received
    acked,     \* those of batches whose send() resolved
    dropped,   \* those of batches given up after MaxFailures failures
    discarded, \* those takeBatch removed as not serializable
    cleared,   \* those close() threw away
    mark       \* for each flush() call, accepted when it was made

vars == <<pending, inflight, drain, failures, closed, caller, flusher,
          accepted, bad, received, acked, dropped, discarded, cleared, mark>>

-----------------------------------------------------------------------------
Items(s) == {s[i] : i \in 1 .. Len(s)}

Ordered(s) == \A i, j \in 1 .. Len(s) : i < j => s[i] < s[j]

\* The n events accepted after the first a.
EventsAfter(a, n) == [i \in 1 .. n |-> a + i]

\* Mutant: a call counts for one event, however many it carries.
Full_PerCall(n) == Len(pending) + 1 > MaxQueueSize

\* The buffer has no room for n more events.
Full(n) == Len(pending) + n > MaxQueueSize

\* Mutant: the waiters are forgotten.
Woken_None == caller

\* Resolve every backpressure waiter: each will test the buffer again.
Woken == [c \in Callers |-> IF caller[c] = "blocked" THEN "woken" ELSE caller[c]]

\* Resolve every flush waiter.
Flushed == [f \in Flushers |-> IF flusher[f] = "waiting" THEN "done" ELSE flusher[f]]

\* p without its first n events.
Rest(p, n) == SubSeq(p, n + 1, Len(p))

\* Mutant: the failed batch is lost.
Requeued_Lost == pending

\* The buffer with the failed batch back at its front.
Requeued == inflight \o pending

\* takeBatch scans the first n events of p and its batch is those at the
\* positions at[1] < ... < at[k], the serializable ones.  It stops at the end
\* of p, at MaxBatchSize, or at an event the byte limit leaves for later.
TakesBatch(p, unfit, n, k, at) ==
    /\ \A i, j \in 1 .. k : i < j => at[i] < at[j]
    /\ \A m \in 1 .. n : p[m] \notin unfit <=> \E j \in 1 .. k : at[j] = m
    /\ n < Len(p) => \/ k = MaxBatchSize
                     \/ ByteLimited /\ k > 0 /\ p[n + 1] \notin unfit
    /\ k = MaxBatchSize => at[k] = n

\* The drain loop from its test with p pending and the events of unfit not
\* serializable, up to the next await or out of the loop.
LoopFrom(p, unfit) ==
    IF p # <<>> /\ ~closed
    THEN \E n \in 1 .. Len(p) : \E k \in 0 .. n : \E at \in [1 .. k -> 1 .. n] :
            /\ k <= MaxBatchSize
            /\ TakesBatch(p, unfit, n, k, at)
            /\ inflight' = [j \in 1 .. k |-> p[at[j]]]
            /\ pending' = Rest(p, n)
            /\ discarded' = discarded \cup {p[m] : m \in {l \in 1 .. n : p[l] \in unfit}}
            /\ drain' = IF k > 0 THEN "sending" ELSE "idle"
            /\ flusher' = IF k > 0 THEN flusher ELSE Flushed
    ELSE /\ inflight' = <<>>
         /\ pending' = p
         /\ drain' = "idle"
         /\ flusher' = IF p = <<>> THEN Flushed ELSE flusher
         /\ UNCHANGED discarded

-----------------------------------------------------------------------------
Init ==
    /\ pending = <<>> /\ inflight = <<>>
    /\ drain = "idle" /\ failures = 0 /\ closed = FALSE
    /\ caller = [c \in Callers |-> "new"]
    /\ flusher = [f \in Flushers |-> "new"]
    /\ accepted = 0 /\ bad = {} /\ received = {} /\ acked = {}
    /\ dropped = {} /\ discarded = {} /\ cleared = {}
    /\ mark = [f \in Flushers |-> 0]

\* enqueue() from its test of the buffer, on the call or when a waiter is
\* resolved: the uploader is closed.
EnqueueClosed(c) ==
    /\ caller[c] \in {"new", "woken"}
    /\ closed
    /\ caller' = [caller EXCEPT ![c] = "done"]
    /\ UNCHANGED <<pending, inflight, drain, failures, closed, flusher, accepted,
                   bad, received, acked, dropped, discarded, cleared, mark>>

\* ... the events do not fit: wait.
EnqueueBlocks(c) ==
    /\ caller[c] \in {"new", "woken"}
    /\ ~closed /\ Full(Size[c])
    /\ caller' = [caller EXCEPT ![c] = "blocked"]
    /\ UNCHANGED <<pending, inflight, drain, failures, closed, flusher, accepted,
                   bad, received, acked, dropped, discarded, cleared, mark>>

\* ... they fit: push them, and start the drain loop if it is not running.
EnqueueAccepts(c) ==
    LET new == accepted + 1 .. accepted + Size[c]
        p == pending \o EventsAfter(accepted, Size[c])
    IN  /\ caller[c] \in {"new", "woken"}
        /\ ~closed /\ ~Full(Size[c])
        /\ caller' = [caller EXCEPT ![c] = "done"]
        /\ accepted' = accepted + Size[c]
        /\ \E b \in (IF ByteLimited THEN SUBSET new ELSE {{}}) :
              /\ bad' = bad \cup b
              /\ IF drain = "idle"
                 THEN failures' = 0 /\ LoopFrom(p, bad \cup b)
                 ELSE /\ pending' = p
                      /\ UNCHANGED <<inflight, drain, failures, flusher, discarded>>
        /\ UNCHANGED <<closed, received, acked, dropped, cleared, mark>>

\* Mutant: flush() looks at the buffer only, not at the drain loop.
Flush_BufferOnly(f) ==
    /\ flusher[f] = "new"
    /\ mark' = [mark EXCEPT ![f] = accepted]
    /\ flusher' = [flusher EXCEPT ![f] = IF pending = <<>> THEN "done" ELSE "waiting"]
    /\ UNCHANGED <<pending, inflight, drain, failures, closed, caller, accepted,
                   bad, received, acked, dropped, discarded, cleared>>

\* flush().  Its own call of drain() has no effect: while the uploader is open
\* an idle loop has nothing pending (IdleMeansEmpty), and a closed one returns.
Flush(f) ==
    /\ flusher[f] = "new"
    /\ mark' = [mark EXCEPT ![f] = accepted]
    /\ flusher' = [flusher EXCEPT ![f] =
                     IF pending = <<>> /\ drain = "idle" THEN "done" ELSE "waiting"]
    /\ UNCHANGED <<pending, inflight, drain, failures, closed, caller, accepted,
                   bad, received, acked, dropped, discarded, cleared>>

\* send() resolves: the next batch, or the end of the loop.
SendOk ==
    /\ drain = "sending"
    /\ received' = received \cup Items(inflight)
    /\ acked' = acked \cup Items(inflight)
    /\ failures' = 0
    /\ caller' = Woken
    /\ LoopFrom(pending, bad)
    /\ UNCHANGED <<closed, accepted, bad, dropped, cleared, mark>>

\* Mutant: a budget that was never set is counted down.
OneMoreFailure_Down == failures - 1

OneMoreFailure == IF MaxFailures = 0 THEN 0 ELSE failures + 1

GiveUp == MaxFailures # 0 /\ failures + 1 >= MaxFailures

\* send() rejects, the server having got the batch or not, and the batch goes
\* back to the front of the buffer, closed or not.
SendFails(delivered) ==
    /\ drain = "sending"
    /\ ~GiveUp
    /\ received' = IF delivered THEN received \cup Items(inflight) ELSE received
    /\ failures' = OneMoreFailure
    /\ pending' = Requeued
    /\ inflight' = <<>>
    /\ drain' = "sleeping"
    /\ UNCHANGED <<closed, caller, flusher, accepted, bad, acked, dropped,
                   discarded, cleared, mark>>

\* send() rejects once too often: the batch is dropped and the loop goes on.
SendFailsForGood(delivered) ==
    /\ drain = "sending"
    /\ GiveUp
    /\ received' = IF delivered THEN received \cup Items(inflight) ELSE received
    /\ dropped' = dropped \cup Items(inflight)
    /\ failures' = 0
    /\ caller' = Woken
    /\ LoopFrom(pending, bad)
    /\ UNCHANGED <<closed, accepted, bad, acked, cleared, mark>>

\* The backoff is over, or close() cut it short.
SleepEnds ==
    /\ drain = "sleeping"
    /\ LoopFrom(pending, bad)
    /\ UNCHANGED <<failures, closed, caller, accepted, bad, received, acked,
                   dropped, cleared, mark>>

Close ==
    /\ MayClose /\ ~closed
    /\ closed' = TRUE
    /\ cleared' = cleared \cup Items(pending)
    /\ pending' = <<>>
    /\ caller' = Woken
    /\ flusher' = Flushed
    /\ UNCHANGED <<inflight, drain, failures, accepted, bad, received, acked,
                   dropped, discarded, mark>>

Enqueue(c) == EnqueueClosed(c) \/ EnqueueBlocks(c) \/ EnqueueAccepts(c)

SendSettles ==
    SendOk \/ \E d \in BOOLEAN : SendFails(d) \/ SendFailsForGood(d)

Next ==
    \/ \E c \in Callers : Enqueue(c)
    \/ \E f \in Flushers : Flush(f)
    \/ SendSettles
    \/ SleepEnds
    \/ Close

\* Promises settle and timers fire; a server that is retried for ever answers
\* well in the end; a resolved waiter runs.
Fairness ==
    /\ WF_vars(SendSettles)
    /\ SF_vars(SendOk)
    /\ WF_vars(SleepEnds)
    /\ \A c \in Callers : WF_vars(caller[c] = "woken" /\ Enqueue(c))

Spec == Init /\ [][Next]_vars
FairSpec == Spec /\ Fairness

-----------------------------------------------------------------------------
\* Type correctness of the uploader's fields and of the history.
TypeOK ==
    /\ pending \in Seq(Nat) /\ inflight \in Seq(Nat)
    /\ drain \in {"idle", "sending", "sleeping"}
    /\ failures \in Nat
    /\ closed \in BOOLEAN
    /\ caller \in [Callers -> {"new", "blocked", "woken", "done"}]
    /\ flusher \in [Flushers -> {"new", "waiting", "done"}]
    /\ accepted \in Nat
    /\ mark \in [Flushers -> Nat]
    /\ \A s \in {bad, received, acked, dropped, discarded, cleared} :
          s \subseteq 1 .. accepted

\* The events that have left the buffer for good.
Settled == acked \cup dropped \cup discarded \cup cleared

\* Nothing is lost silently: every accepted event is buffered, in flight, or
\* accounted for, across failures, drops, cuts of a batch and close.
NothingLost ==
    1 .. accepted = Items(pending) \cup Items(inflight) \cup Settled

\* Nothing is sent for two reasons: an event that was acknowledged, dropped,
\* discarded or cleared is neither buffered nor in flight any more, and no
\* event is buffered and in flight at once.
NothingTwice ==
    /\ Items(pending) \cap Items(inflight) = {}
    /\ (Items(pending) \cup Items(inflight)) \cap Settled = {}

\* The events in flight and then those buffered are in the order of
\* acceptance, after any number of failed batches put back to the front.
BufferInOrder == Ordered(inflight \o pending)

\* Serial and ordered: when the server has an event, it has every earlier one
\* that was not given up, whatever was retried or received by a failed POST.
ReceivedInOrder ==
    \A x \in received : \A y \in 1 .. x - 1 :
        y \in received \cup dropped \cup discarded

\* While the uploader is open an idle drain loop has nothing left to send, so
\* no event waits for a wake-up that never comes.
IdleMeansEmpty == ~closed /\ drain = "idle" => pending = <<>>

\* A flush() that returned while the uploader is open has seen every event
\* accepted before it acknowledged or given up.
FlushMeansSent ==
    \A f \in Flushers :
        flusher[f] = "done" /\ ~closed => 1 .. mark[f] \subseteq Settled

\* Backpressure bounds the memory: a failed batch put back may exceed the
\* queue size, by one batch at most.
PendingBounded ==
    Len(pending) + Len(inflight) <= MaxQueueSize + MaxBatchSize

\* Callers that wait return: a flush() call, unless the uploader is closed, and an
\* enqueue() call that waits for space.
WaitersReturn ==
    /\ \A f \in Flushers : flusher[f] = "waiting" ~> flusher[f] = "done" \/ closed
    /\ \A c \in Callers : caller[c] = "blocked" ~> caller[c] = "done"

\* The uploader implements the in-order channel.
Channel == INSTANCE InOrderChannel WITH
    next <- accepted, got <- received, lost <- dropped \cup discarded
ImplementsChannel == Channel!Spec
=============================================================================
