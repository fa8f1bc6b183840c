--------------------------- MODULE LaggingRegister ---------------------------
(***************************************************************************)
(* What WorkerStateUploader promises: a worker reports changes of some of  *)
(* its fields, and whoever looks at the published state sees the state the *)
(* worker was in after some number of its reports, all fields together,    *)
(* never one that mixes two moments, and never an older one than before.   *)
(* A field's value is the number of the report that wrote it, 0 for none.  *)
(***************************************************************************)
EXTENDS Naturals, Sequences

CONSTANTS
    Fields,
    Groups \* the sets of fields that are reported together

VARIABLES
    reports, \* the reports so far, each the set of fields it wrote
    view     \* the published state

rvars == <<reports, view>>

\* v holds, of each field, the last of the reports after the first i and up to
\* j that wrote it.
Writes(v, h, i, j) ==
    \A f \in Fields :
        /\ v[f] = 0 \/ (v[f] \in i + 1 .. j /\ f \in h[v[f]])
        /\ \A m \in i + 1 .. j : f \in h[m] => m <= v[f]

Init == reports = <<>> /\ view = [f \in Fields |-> 0]

\* The worker reports.
Report ==
    /\ \E g \in Groups : reports' = Append(reports, g)
    /\ UNCHANGED view

\* A state of the worker, not older than the one before, is published.
Publish ==
    /\ \E n \in 0 .. Len(reports) : Writes(view', reports, 0, n)
    /\ \A f \in Fields : view'[f] >= view[f]
    /\ UNCHANGED reports

Next == Report \/ Publish

Spec == Init /\ [][Next]_rvars
=============================================================================
