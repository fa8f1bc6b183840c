--------------------------- MODULE InOrderChannel ---------------------------
(***************************************************************************)
(* What SerialBatchEventUploader promises its callers, without buffers,    *)
(* batches, retries or waiters: events get consecutive numbers when they   *)
(* are accepted, some may be given up, and the server comes to know the    *)
(* others in the order of their numbers.  Knowing an event is a set        *)
(* membership, so an event the server is sent twice is known once.         *)
(***************************************************************************)
EXTENDS Naturals

VARIABLES
    next, \* how many events were accepted; they are 1 .. next
    got,  \* the events the server knows
    lost  \* the events given up

cvars == <<next, got, lost>>

Init == next = 0 /\ got = {} /\ lost = {}

\* Some events are accepted; those that cannot be sent are given up at once.
Accept ==
    /\ next' \in Nat /\ next' >= next
    /\ lost \subseteq lost'
    /\ lost' \ lost \subseteq next + 1 .. next'
    /\ UNCHANGED got

\* The server learns accepted events, and more may be given up.  It learns
\* them in order: an event before a learnt one is known or given up by then,
\* and one already known is no later than a learnt one.
Deliver ==
    /\ got \subseteq got' /\ got' \subseteq 1 .. next
    /\ lost \subseteq lost' /\ lost' \subseteq 1 .. next
    /\ \A x \in got' \ got :
          /\ \A y \in 1 .. x - 1 : y \in got' \cup lost'
          /\ \A y \in got : y < x
    /\ UNCHANGED next

Next == Accept \/ Deliver

Spec == Init /\ [][Next]_cvars
=============================================================================
