------------------------- MODULE WorkerStateUploader -------------------------
(***************************************************************************)
(* src/src/cli/transports/WorkerStateUploader.ts: patches of the worker's  *)
(* state are merged into one pending patch and PUT one at a time, each PUT *)
(* being retried, with what came meanwhile merged in, until it succeeds.   *)
(*                                                                         *)
(* A step is the code between two awaits.  A patch is a function on the    *)
(* fields (the top-level keys, and the keys inside the metadata objects,   *)
(* which no caller sets to null as a whole); what it writes into a field   *)
(* is abstracted to the number of the enqueue() call, 0 for a field it     *)
(* does not have.  So a patch with no field stands for null.  A PUT that   *)
(* fails may have been applied, before it fails.                           *)
(***************************************************************************)
EXTENDS Naturals, Sequences

CONSTANTS
    Fields,
    Groups,    \* the sets of fields that callers patch together
    MaxPatches \* bound: calls of enqueue()

ASSUME WorkerStateConstants ==
    /\ Groups \subseteq (SUBSET Fields) \ {{}}
    /\ MaxPatches \in Nat

VARIABLES
    pending, \* this.pending
    current, \* sendWithRetry's current, no field when nothing is in flight
    stage,   \* where sendWithRetry stands; this.inflight is stage # "idle"
    closed,  \* this.closed
    server,  \* the state the PUTs have written
    reports, \* history: the fields of each enqueue() call on the open uploader
    taken    \* history: how many of these current and earlier PUTs carry

vars == <<pending, current, stage, closed, server, reports, taken>>

-----------------------------------------------------------------------------
NoPatch == [f \in Fields |-> 0]

\* coalescePatches.
Coalesce(base, overlay) ==
    [f \in Fields |-> IF overlay[f] # 0 THEN overlay[f] ELSE base[f]]

\* Mutant: drain() sends without asking whether anything is pending.
Drain_Always(p, n) ==
    /\ current' = p
    /\ pending' = NoPatch
    /\ stage' = "sending"
    /\ taken' = n

\* drain() with p pending, nothing in flight and the uploader open; n calls of
\* enqueue() are in p or were sent.
Drain(p, n) ==
    /\ current' = p
    /\ pending' = NoPatch
    /\ stage' = IF p = NoPatch THEN "idle" ELSE "sending"
    /\ taken' = n

Init ==
    /\ pending = NoPatch /\ current = NoPatch
    /\ stage = "idle" /\ closed = FALSE
    /\ server = NoPatch
    /\ reports = <<>> /\ taken = 0

\* enqueue() of a patch of the fields in g.  On a closed uploader it returns.
Enqueue(g) ==
    LET patch == [f \in Fields |-> IF f \in g THEN Len(reports) + 1 ELSE 0]
        p == Coalesce(pending, patch)
    IN  /\ Len(reports) < MaxPatches
        /\ ~closed
        /\ reports' = Append(reports, g)
        /\ IF stage = "idle"
           THEN Drain(p, Len(reports) + 1)
           ELSE pending' = p /\ UNCHANGED <<current, stage, taken>>
        /\ UNCHANGED <<closed, server>>

\* Mutant: what came while the PUT was in flight stays pending.
Settled_NoDrain ==
    /\ current' = NoPatch
    /\ stage' = "idle"
    /\ UNCHANGED <<pending, taken>>

\* sendWithRetry returns: what is pending is sent next, unless closed.
Settled ==
    IF closed
    THEN /\ current' = NoPatch
         /\ stage' = "idle"
         /\ UNCHANGED <<pending, taken>>
    ELSE Drain(pending, Len(reports))

SendOk ==
    /\ stage = "sending"
    /\ server' = Coalesce(server, current)
    /\ Settled
    /\ UNCHANGED <<closed, reports>>

\* send() resolves to false, the PUT having been applied or not.
SendFails(applied) ==
    /\ stage = "sending"
    /\ server' = IF applied THEN Coalesce(server, current) ELSE server
    /\ stage' = "sleeping"
    /\ UNCHANGED <<pending, current, closed, reports, taken>>

\* Mutant: a retry replaces what failed by what is pending.
Absorbed_Replaces ==
    /\ current' = IF pending # NoPatch THEN pending ELSE current
    /\ pending' = NoPatch
    /\ taken' = Len(reports)

\* The patches that came during the retry are absorbed into it.
Absorbed ==
    /\ current' = Coalesce(current, pending)
    /\ pending' = NoPatch
    /\ taken' = Len(reports)

\* Mutant: the PUT is given up.
SleepEnds_GivesUp ==
    /\ stage = "sleeping"
    /\ Settled
    /\ UNCHANGED <<closed, server, reports>>

\* The backoff is over: retry, or leave the loop when closed.
SleepEnds ==
    /\ stage = "sleeping"
    /\ IF closed THEN Settled ELSE Absorbed /\ stage' = "sending"
    /\ UNCHANGED <<closed, server, reports>>

Close ==
    /\ ~closed
    /\ closed' = TRUE
    /\ pending' = NoPatch
    /\ UNCHANGED <<current, stage, server, reports, taken>>

SendSettles == SendOk \/ \E applied \in BOOLEAN : SendFails(applied)

Next ==
    \/ \E g \in Groups : Enqueue(g)
    \/ SendSettles
    \/ SleepEnds
    \/ Close

\* PUTs settle and timers fire; a server that is retried for ever answers well
\* in the end.
Fairness == WF_vars(SendSettles) /\ SF_vars(SendOk) /\ WF_vars(SleepEnds)

Spec == Init /\ [][Next]_vars
FairSpec == Spec /\ Fairness

-----------------------------------------------------------------------------
Patches == [Fields -> 0 .. Len(reports)]

\* Type correctness; and a PUT is in flight, or waits for its retry, exactly
\* while there is something it carries.
TypeOK ==
    /\ pending \in Patches /\ current \in Patches /\ server \in Patches
    /\ stage \in {"idle", "sending", "sleeping"}
    /\ stage = "idle" <=> current = NoPatch
    /\ closed \in BOOLEAN
    /\ reports \in Seq(Groups)
    /\ taken \in 0 .. Len(reports)

\* What the server shows is always a state the worker was in, and never an
\* older one than it showed before, whatever is merged, retried, applied by a
\* PUT that failed, or cut off by close().
Register == INSTANCE LaggingRegister WITH view <- server
ImplementsRegister == Register!Spec

\* The server's state is the worker's.
UpToDate == Register!Writes(server, reports, 0, Len(reports))

\* When an open uploader is at rest the server is up to date, so that no report
\* waits for a wake-up that never comes.
RestMeansUpToDate == ~closed /\ stage = "idle" => UpToDate

\* The server becomes up to date once the worker stops reporting, however many
\* PUTs fail before, unless the uploader is closed.
EventuallyUpToDate == <>[](closed \/ UpToDate)
=============================================================================
