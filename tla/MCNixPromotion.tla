--------------------------- MODULE MCNixPromotion ---------------------------
(* A small instance of NixPromotion for TLC. *)
EXTENDS NixPromotion, TLC

CONSTANTS c1, c2, k0, k1

MCCallers == {c1, c2}

\* Changes that evaluate to the installed system or to another, and changes
\* that are refused.
MCProposals == [closure : {k0, k1}, reason : {None, "Watchdog"}]

MCSymmetry == Permutations(MCCallers)
=============================================================================
