--------------------------- MODULE MCWatchdogCore ---------------------------
(* Small instances of WatchdogCore for TLC. *)
EXTENDS WatchdogCore, TLC

CONSTANTS h1, h2, t1, t2, l1, l2, b1, b2

MCHosts == {h1, h2}
MCTxs == {t1, t2}
MCLeases == {l1, l2}
MCBases == {b1, b2}
MCClocks == {-1, 0, 1, 3, 4}
MCDeadlines == {3}
MCInvariants == {"route_present", "dns"}
MCBase == {"route_present"}
MCFloors == 0 .. 1

\* An arming on base b2 is longer than the reader takes.
MCSizeOf == [x \in MCLeases \cup MCBases \cup {Blank} |-> IF x = b2 THEN 3 ELSE 1]

\* Transactions and leases are compared for equality only (all leases have one
\* size) and never named by a constant; HostId names a host, SizeOf a base.
MCSymmetry == Permutations(MCTxs) \cup Permutations(MCLeases)
=============================================================================
