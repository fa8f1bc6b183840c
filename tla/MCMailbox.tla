------------------------------- MODULE MCMailbox -------------------------------
(* Mailbox for TLC. *)
EXTENDS Mailbox, FiniteSets, TLC

\* At most one of a kind, but for the messages of peers.
MixedMailings ==
    {f \in [Messages -> Kinds] :
        \A k \in Kinds \ {"peer"} :
            Cardinality({m \in Messages : f[m] = k}) <= 1}

\* Messages and looks may be exchanged.
MailSymmetry == Permutations(Messages) \cup Permutations(Reads)
=============================================================================
