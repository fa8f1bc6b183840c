------------------------------ MODULE MCWorkbench ------------------------------
(* Workbench for TLC. *)
EXTENDS Workbench, TLC

\* One tool call in every turn.
OneCall == Turns \X {1}

\* The turns may be exchanged; the streams are numbered.
TurnSymmetry == Permutations(Turns)

Over(t) == turn[t] \in {"ended", "rejected"}

\* States are one that differ only in what no guard and no property looks at
\* again: the transcript, what the session recorded of its subscribers, which
\* way a call was answered, and the details of turns, calls, requests and
\* timers that are over.
View ==
    << status, pendingApproval, stream, tab, load, faults, moves, overtaken,
       unbacked, manager.current, manager.attempts,
       [t \in Turns |-> << IF Over(t) THEN "over" ELSE turn[t],
                           hasText[t] /\ ~Over(t),
                           IF send[t] = "connected" THEN "done" ELSE send[t] >>],
       [c \in Calls |-> IF call[c] \in {"allowed", "denied"} THEN "answered"
                                                             ELSE call[c]],
       {c \in Calls : answer[c] = "request"}, {c \in Calls : answer[c] = "ok"},
       {s \in Subs : s = manager.timer /\ stream[s].retry.phase = "waiting"},
       {s \in late : Active(s)}, {c \in erased : call[c] = "asking"} >>
=============================================================================
