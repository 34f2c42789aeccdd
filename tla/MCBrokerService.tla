--------------------------- MODULE MCBrokerService --------------------------
(* A small instance of BrokerService for TLC. *)
EXTENDS BrokerService, TLC

CONSTANTS a1, t1, t2, t3, r1, c1, c2

MCAgents == {a1}
MCDays == {0, 1}
MCConns == {c1, c2}
MCRefs == {r1}

\* t1 is good, t2 expires on day 1, t3 is revoked.
MCTokens ==
    (t1 :> [agent |-> a1, ref |-> r1, revoked |-> FALSE, expires |-> None])
      @@ (t2 :> [agent |-> a1, ref |-> r1, revoked |-> FALSE, expires |-> 1])
      @@ (t3 :> [agent |-> a1, ref |-> r1, revoked |-> TRUE, expires |-> None])

MCVector == [r \in Minimums |-> IF r = "root_config" THEN "snapshot_live" ELSE "none"]

NoMinimum == [r \in Minimums |-> None]

\* Reads only; or mutations up to D, except that tx.apply is pre-authorized.
MCManifests ==
    {[operations |-> <<>>, calls_per_day |-> 1, max_unapproved_class |-> None,
      min_safety |-> NoMinimum],
     [operations |-> "tx.apply" :> [policy |-> "pre_authorized", bounds |-> TRUE,
                                    out_of_bounds |-> None],
      calls_per_day |-> 1, max_unapproved_class |-> "D",
      min_safety |-> [NoMinimum EXCEPT !["root_config"] = "snapshot_live"]]}

Frame(v, op, version, token, params) ==
    [request |-> TRUE, v |-> v, id |-> 0, op |-> op, op_version |-> version,
     token |-> token, params |-> params]

\* Operations that may run, one that stage 3 stops, and frames refused
\* before: not a request, not an operation of v1, revoked token, unknown
\* operation version, bad parameters, parameters without a canonical form.
MCFrames ==
    {Frame(2, "config.propose", 1, t1, "ok"), Frame(2, "tx.rollback", 1, t1, "ok"),
     Frame(2, "tx.apply", 1, t2, "ok"),
     Frame(3, "tx.status", 1, t1, "ok"), Frame(1, "tx.status", 1, t1, "ok"),
     Frame(2, "tx.status", 1, t3, "ok"), Frame(2, "tx.status", 2, t1, "ok"),
     Frame(2, "tx.status", 1, t1, "invalid_request"),
     Frame(2, "tx.status", 1, t1, "internal")}

Line(method, known) == [method |-> method, known |-> known, valid |-> TRUE, token |-> t1]

MCLines == {Line("resources/read", TRUE), Line("tools/call", FALSE)}

\* For the liveness run: one document, one kind of frame, one day.
MCOneManifest == {m \in MCManifests : m.operations = <<>>}
MCOneFrame == {Frame(2, "events.replay", 1, t1, "ok")}
MCOneDay == {0}

MCSymmetry == Permutations(MCConns)
=============================================================================
