------------------------------- MODULE Policy -------------------------------
(***************************************************************************)
(* The broker's policy ladder: what a manifest, the host's safety vector   *)
(* and the effects of a call decide (broker/src/{policy,safety,manifest}   *)
(* .rs, tools/*.rs).  Everything here is a pure operator; stage 5, the     *)
(* quota, is an action and lives in QuotaLedger.                           *)
(***************************************************************************)
EXTENDS Integers, FiniteSets

CONSTANT None    \* an Option that is not there

---------------------------------------------------------------------------
\* Effect classes.  F is outside the order; it never reaches a comparison,
\* and has the top rank so that one would fail closed.

EffectClasses == {"R", "D", "M", "E", "F"}

rank == [R |-> 0, D |-> 1, M |-> 2, E |-> 3, F |-> 255]

---------------------------------------------------------------------------
\* The safety vector.

HostResources == {"root_config", "packages", "bootloader", "kernel"}
DataResources == {"plugin_data", "desktop_data", "home_data"}
Minimums      == HostResources \cup DataResources \cup {"service_state"}
Resources     == Minimums \cup {"external_effects"}

host_rank    == [none |-> 0, snapshot_reboot |-> 1, snapshot_live |-> 2,
                 generation |-> 3]
service_rank == [none |-> 0, desired_state |-> 1]
data_rank    == [none |-> 0, dedicated_snapshot |-> 1]

\* The ranks of one kind of resource; ranks of two kinds never meet.
RanksOf(resource) ==
    IF resource \in HostResources THEN host_rank
    ELSE IF resource \in DataResources THEN data_rank
    ELSE service_rank

\* A level at none fails whatever the manifest asks for.
meets_minimum(resource, host, min) ==
    /\ resource # "external_effects"
    /\ LET ranks  == RanksOf(resource)
           actual == ranks[host[resource]]
       IN  /\ actual > 0
           /\ min[resource] # None => actual >= ranks[min[resource]]

---------------------------------------------------------------------------
\* Operations, and the calls they describe to the ladder.

ReadOps     == {"system.info", "tx.status", "events.replay"}
MutatingOps == {"config.propose", "tx.test", "tx.apply", "tx.rollback"}
Ops         == ReadOps \cup MutatingOps

read_only(op) ==
    [op |-> op, effect_set |-> {"R"}, footprint |-> {},
     globally_forbidden |-> FALSE, within_bounds |-> None]

\* No tool computes whether its arguments are within the bounds of a
\* pre-authorization: within_bounds is None for all of them.
describe_call(op) ==
    IF op \in ReadOps
    THEN read_only(op)
    ELSE [op |-> op, effect_set |-> {"D"}, footprint |-> {<<"root_config", "D">>},
          globally_forbidden |-> FALSE, within_bounds |-> None]

---------------------------------------------------------------------------
\* Manifests.  `operations` has the operations with an explicit policy in
\* its domain.

\* What the types of a manifest and of the safety vector let through.
AgentManifest(manifest) ==
    /\ \A op \in DOMAIN manifest.operations :
          manifest.operations[op].policy \in {"pre_authorized", "requires_approval", "deny"}
    /\ manifest.max_unapproved_class \in EffectClasses \cup {None}
    /\ \A r \in Minimums : manifest.min_safety[r] \in DOMAIN RanksOf(r) \cup {None}

SafetyVector(host) == \A r \in Minimums : host[r] \in DOMAIN RanksOf(r)

\* out_of_bounds defaults to requiring an approval.
out_of_bounds(policy) ==
    IF policy.out_of_bounds = None THEN "requires_approval" ELSE policy.out_of_bounds

\* semantic_checks: what a manifest may not say although the schema lets it.
semantic_checks(manifest) ==
    /\ \A op \in DOMAIN manifest.operations :
          manifest.operations[op].policy = "pre_authorized"
             => manifest.operations[op].bounds
    /\ manifest.max_unapproved_class # "F"

---------------------------------------------------------------------------
\* The ladder.  A decision names the error code and the stage that decided.

Allow             == [code |-> "ok", stage |-> None]
Refuse(code, stage) == [code |-> code, stage |-> stage]

contains_forbidden(call) == call.globally_forbidden \/ "F" \in call.effect_set

failing_safety(call, min, host) ==
    \E touch \in call.footprint :
        /\ touch[2] \in {"D", "M"}
        /\ ~meets_minimum(touch[1], host, min)

\* A class of the set that no other outranks, F left aside.
highest_class(call) ==
    CHOOSE c \in call.effect_set \ {"F"} :
        \A d \in call.effect_set \ {"F"} : rank[d] <= rank[c]

\* Mutant: arguments nobody compared with the bounds count as within them.
stage_three_unbounded(policy, call) ==
    CASE policy.policy = "deny" -> Refuse("denied", "operation_policy")
      [] policy.policy = "requires_approval" ->
            Refuse("approval_required", "operation_policy")
      [] OTHER -> Allow

stage_three(policy, call) ==
    CASE policy.policy = "deny" -> Refuse("denied", "operation_policy")
      [] policy.policy = "requires_approval" ->
            Refuse("approval_required", "operation_policy")
      [] OTHER ->
            IF call.within_bounds = TRUE THEN Allow
            ELSE IF out_of_bounds(policy) = "deny"
                 THEN Refuse("denied", "operation_policy")
                 ELSE Refuse("approval_required", "operation_policy")

Ceiling(manifest) ==
    IF manifest.max_unapproved_class = None THEN "R" ELSE manifest.max_unapproved_class

stage_four(call, manifest) ==
    IF call.effect_set \ {"F"} = {}
    THEN Refuse("denied", "class_ceiling")
    ELSE IF rank[highest_class(call)] <= rank[Ceiling(manifest)]
         THEN Allow
         ELSE Refuse("approval_required", "class_ceiling")

\* Stages 1 to 4 of evaluate.  Only a call they allow goes on to the quota.
evaluate(call, manifest, host) ==
    IF contains_forbidden(call)
    THEN Refuse("denied", "forbidden_class")
    ELSE IF failing_safety(call, manifest.min_safety, host)
    THEN Refuse("denied", "safety_minimum")
    ELSE IF call.op \in DOMAIN manifest.operations
    THEN stage_three(manifest.operations[call.op], call)
    ELSE stage_four(call, manifest)

---------------------------------------------------------------------------
\* The reference: what a permitted call is, without stages or an order.

Covered(touch, manifest, host) ==
    touch[2] \in {"D", "M"} =>
        /\ touch[1] \in Minimums
        /\ host[touch[1]] # "none"
        /\ \/ manifest.min_safety[touch[1]] = None
           \/ RanksOf(touch[1])[manifest.min_safety[touch[1]]]
                 <= RanksOf(touch[1])[host[touch[1]]]

Permits(manifest, host, call) ==
    /\ ~call.globally_forbidden /\ "F" \notin call.effect_set
    /\ \A touch \in call.footprint : Covered(touch, manifest, host)
    /\ IF call.op \in DOMAIN manifest.operations
       THEN /\ manifest.operations[call.op].policy = "pre_authorized"
            /\ call.within_bounds = TRUE
       ELSE /\ call.effect_set # {}
            /\ \A c \in call.effect_set : rank[c] <= rank[Ceiling(manifest)]

=============================================================================
