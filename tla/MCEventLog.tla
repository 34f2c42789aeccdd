----------------------------- MODULE MCEventLog -----------------------------
(* Small instances of EventLog for TLC. *)
EXTENDS EventLog, TLC

CONSTANTS c1, c2, g1, g2

MCClients == {c1, c2}
MCLogs == {g1, g2}

\* Clients and log ids are compared for equality only.
MCSymmetry == Permutations(MCClients) \cup Permutations(MCLogs)
=============================================================================
