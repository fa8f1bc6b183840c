------------------------------- MODULE MCTaskList -------------------------------
(* TaskList for TLC. *)
EXTENDS TaskList, TLC

\* Calls and agents may be exchanged.
CallSymmetry == Permutations(Calls) \cup Permutations(Agents)
=============================================================================
