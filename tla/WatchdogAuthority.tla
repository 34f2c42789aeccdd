------------------------- MODULE WatchdogAuthority -------------------------
(***************************************************************************)
(* What the watchdog's store promises to everyone who reads it, whatever   *)
(* crashes and restarts: authority is granted once, its owner, base and    *)
(* deadline never change, its lease is only ever extended, within the      *)
(* deadline and before the decision, and the decision is made once.        *)
(***************************************************************************)
EXTENDS Integers

CONSTANTS Owners, Revisions, Decisions, None

VARIABLE grant

Init == grant = None

Grant ==
    /\ grant = None
    /\ grant' \in [owner : Owners, base : Revisions, deadline : Nat,
                   expires : Nat, chosen : {None}]
    /\ grant'.expires <= grant'.deadline

Extend ==
    /\ grant # None
    /\ grant.chosen = None
    /\ \E expires \in grant.expires + 1 .. grant.deadline :
         grant' = [grant EXCEPT !.expires = expires]

Decide ==
    /\ grant # None
    /\ grant.chosen = None
    /\ \E kind \in Decisions : grant' = [grant EXCEPT !.chosen = kind]

Next == Grant \/ Extend \/ Decide

Spec == Init /\ [][Next]_grant
=============================================================================
