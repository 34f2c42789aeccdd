-------------------------- MODULE MCWatchdogSession -------------------------
(* A small instance of WatchdogSession for TLC. *)
EXTENDS WatchdogSession

CONSTANTS c1, c2, t1, t2, l1, l2

MCClients == {c1, c2}

\* Two leases of a transaction, another transaction, a tag that is refused,
\* and a peer that is not the broker.
MCBinds ==
    {[tx |-> t1, lease |-> l1, tag |-> 2, broker |-> TRUE],
     [tx |-> t1, lease |-> l2, tag |-> 2, broker |-> TRUE],
     [tx |-> t2, lease |-> l1, tag |-> 1, broker |-> TRUE],
     [tx |-> t2, lease |-> l1, tag |-> 2, broker |-> FALSE]}

MCKinds == {"BeginCommit", "BeginRevert"}
=============================================================================
