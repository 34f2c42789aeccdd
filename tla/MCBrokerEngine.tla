--------------------------- MODULE MCBrokerEngine ---------------------------
(* Small instances of BrokerEngine for TLC. *)
EXTENDS BrokerEngine, TLC

CONSTANTS t1, t2, a1, d1, k1, k2, c1, b1, b2

MCTxs == {t1, t2}
MCAgents == {a1}
MCDigests == {d1}
MCKeys == {k1, k2}
MCChanges == {c1}
MCBases == {b1, b2}

\* The last record is any, or the one step that needs all those before it.
MCAnyState == States
MCProbation == {"Probation"}

\* All of these are compared for equality only.
MCSymmetry == Permutations(MCTxs) \cup Permutations(MCKeys) \cup Permutations(MCBases)
=============================================================================
