------------------------ MODULE BrokerServiceProofs -------------------------
(***************************************************************************)
(* Proofs about BrokerService, with its Policy and QuotaLedger, for any    *)
(* connections, frames, tokens, manifests, days and limits.                *)
(***************************************************************************)
EXTENDS BrokerService, FiniteSetTheorems, TLAPS

-----------------------------------------------------------------------------
\* The ladder and its reference.

\* What describe_call returns, and what any tool may.
CallDescriptor(call) ==
    /\ call.effect_set \subseteq EffectClasses
    /\ call.footprint \subseteq Resources \X EffectClasses
    /\ call.globally_forbidden \in BOOLEAN

\* A set of classes without F has a highest one.
LEMMA HighestExists ==
  ASSUME NEW S, S \subseteq EffectClasses \ {"F"}, S # {}
  PROVE  \E c \in S : \A d \in S : rank[d] <= rank[c]
<1>1. \A c \in S : c \in {"R", "D", "M", "E"}
  BY DEF EffectClasses
<1>2. rank["R"] = 0 /\ rank["D"] = 1 /\ rank["M"] = 2 /\ rank["E"] = 3
  BY DEF rank
<1>3. CASE "E" \in S
  BY <1>1, <1>2, <1>3
<1>4. CASE "E" \notin S /\ "M" \in S
  BY <1>1, <1>2, <1>4
<1>5. CASE "E" \notin S /\ "M" \notin S /\ "D" \in S
  BY <1>1, <1>2, <1>5
<1>6. CASE "E" \notin S /\ "M" \notin S /\ "D" \notin S
  BY <1>1, <1>2, <1>6
<1> QED BY <1>3, <1>4, <1>5, <1>6

\* The ranks of levels: zero is none, and only none.
LEMMA LevelRanks ==
  ASSUME NEW r \in Minimums, NEW level \in DOMAIN RanksOf(r)
  PROVE  RanksOf(r)[level] \in Nat /\ (RanksOf(r)[level] > 0 <=> level # "none")
  BY DEF RanksOf, host_rank, data_rank, service_rank

\* Stage 2 lets a touch through just when the reference covers it.
LEMMA MinimumIsCovered ==
  ASSUME NEW manifest, AgentManifest(manifest), NEW host, SafetyVector(host),
         NEW touch \in Resources \X EffectClasses, touch[2] \in {"D", "M"}
  PROVE  meets_minimum(touch[1], host, manifest.min_safety) <=> Covered(touch, manifest, host)
<1> DEFINE r   == touch[1]
           min == manifest.min_safety[r]
<1>1. r \in Resources
  OBVIOUS
<1>2. CASE r = "external_effects"
  <2>1. "external_effects" \notin Minimums
    BY DEF Minimums, HostResources, DataResources
  <2> QED BY <1>2, <2>1 DEF meets_minimum, Covered
<1>3. CASE r \in Minimums
  <2>1. r # "external_effects"
    BY <1>3 DEF Minimums, HostResources, DataResources
  <2>2. /\ RanksOf(r)[host[r]] \in Nat
        /\ RanksOf(r)[host[r]] > 0 <=> host[r] # "none"
    BY <1>3, LevelRanks DEF SafetyVector
  <2>3. min # None => RanksOf(r)[min] \in Nat
    BY <1>3, LevelRanks DEF AgentManifest
  <2> QED BY <1>3, <2>1, <2>2, <2>3 DEF meets_minimum, Covered
<1> QED BY <1>1, <1>2, <1>3 DEF Resources

\* LadderMatchesReference: stages 1 to 4, taken in their order with their
\* early returns, allow exactly the calls that the reference permits, for any
\* manifest, safety vector and call. (broker/src/policy.rs evaluate)
THEOREM LadderMatchesReference ==
  ASSUME NEW manifest, AgentManifest(manifest), NEW host, SafetyVector(host),
         NEW call, CallDescriptor(call)
  PROVE  evaluate(call, manifest, host) = Allow <=> Permits(manifest, host, call)
<1> DEFINE S == call.effect_set
           policy == manifest.operations[call.op]
<1>1. \A stage : Refuse("denied", stage) # Allow /\ Refuse("approval_required", stage) # Allow
  BY DEF Allow, Refuse
<1>2. contains_forbidden(call) <=> call.globally_forbidden \/ "F" \in S
  BY DEF contains_forbidden
<1>3. failing_safety(call, manifest.min_safety, host)
        <=> \E touch \in call.footprint : ~Covered(touch, manifest, host)
  <2>1. \A touch \in call.footprint : touch \in Resources \X EffectClasses
    BY DEF CallDescriptor
  <2>2. \A touch \in call.footprint : touch[2] \notin {"D", "M"} => Covered(touch, manifest, host)
    BY DEF Covered
  <2> QED BY <2>1, <2>2, MinimumIsCovered DEF failing_safety
<1>4. ASSUME call.op \in DOMAIN manifest.operations
      PROVE  stage_three(policy, call) = Allow
               <=> policy.policy = "pre_authorized" /\ call.within_bounds = TRUE
  <2>1. policy.policy \in {"pre_authorized", "requires_approval", "deny"}
    BY <1>4 DEF AgentManifest
  <2>2. CASE policy.policy = "deny"
    BY <1>1, <2>2 DEF stage_three
  <2>3. CASE policy.policy = "requires_approval"
    BY <1>1, <2>3 DEF stage_three
  <2>4. CASE policy.policy = "pre_authorized" /\ call.within_bounds = TRUE
    BY <1>1, <2>4 DEF stage_three
  <2>5. CASE policy.policy = "pre_authorized" /\ call.within_bounds # TRUE
    BY <1>1, <2>5 DEF stage_three
  <2> QED BY <2>1, <2>2, <2>3, <2>4, <2>5
<1>5. ASSUME "F" \notin S
      PROVE  stage_four(call, manifest) = Allow
               <=> S # {} /\ \A c \in S : rank[c] <= rank[Ceiling(manifest)]
  <2>1. S \ {"F"} = S
    BY <1>5
  <2>2. CASE S = {}
    BY <1>1, <2>1, <2>2 DEF stage_four
  <2>3. CASE S # {}
    <3> DEFINE h == highest_class(call)
    <3>1. h \in S /\ \A d \in S : rank[d] <= rank[h]
      BY <1>5, <2>1, <2>3, HighestExists DEF highest_class, CallDescriptor
    <3>2. /\ \A c \in EffectClasses : rank[c] \in Nat
          /\ Ceiling(manifest) \in EffectClasses
      BY DEF rank, EffectClasses, Ceiling, AgentManifest
    <3>3. \A c \in S : rank[c] \in Nat
      BY <3>2 DEF CallDescriptor
    <3>4. rank[h] <= rank[Ceiling(manifest)]
            <=> \A c \in S : rank[c] <= rank[Ceiling(manifest)]
      BY <3>1, <3>2, <3>3
    <3> QED BY <1>1, <2>1, <2>3, <3>4 DEF stage_four
  <2> QED BY <2>2, <2>3
<1> QED BY <1>1, <1>2, <1>3, <1>4, <1>5 DEF evaluate, Permits

Refusals == [code : {"denied", "approval_required"},
             stage : {"forbidden_class", "safety_minimum", "operation_policy", "class_ceiling"}]

\* What is not allowed is a refusal of some stage.
LEMMA DecisionRange ==
  ASSUME NEW call, NEW manifest, NEW host, evaluate(call, manifest, host) # Allow
  PROVE  evaluate(call, manifest, host) \in Refusals
<1>1. \A policy : stage_three(policy, call) \in Refusals \cup {Allow}
  BY DEF stage_three, Refuse, Refusals
<1>2. stage_four(call, manifest) \in Refusals \cup {Allow}
  BY DEF stage_four, Refuse, Refusals
<1> QED BY <1>1, <1>2 DEF evaluate, Refuse, Refusals

-----------------------------------------------------------------------------
\* The inductive invariant.  A connection is described by predicates of its
\* record alone, so that a step of one thread says nothing about the others.

Fields   == {"phase", "client", "inbox", "served", "call", "agent", "manifest", "today", "answer"}
GwFields == {"phase", "conn", "line", "next", "inbox", "reply"}
Entries  == {Tokens[t] : t \in DOMAIN Tokens}
Ids      == {f.id : f \in Frames} \cup 1..MaxGatewayCalls

\* The phases with a request that passed the screen, and with a manifest.
Called == {"loading", "admitting", "executing"}
Judged == {"admitting", "executing"}

ConnType(r) ==
    /\ DOMAIN r = Fields
    /\ r.phase \in Threads \cup {"closed", "queued"}
    /\ r.client \in {None, "peer", "stranger", "gateway", "gone"}
    /\ r.inbox \in {None} \cup Requests
    /\ r.served \in 0..MaxRequests
    /\ r.phase \in Called => /\ r.call \in Requests /\ r.call.id \in Ids /\ r.call.op \in Ops
                             /\ r.agent \in Entries
    /\ r.phase \in Judged => r.manifest \in Manifests /\ r.today \in Days
    /\ r.phase = "answering" => r.answer \in Answers

Lawful(manifest, op) ==
    semantic_checks(manifest) /\ Permits(manifest, HostVector, describe_call(op))

\* What was judged lawful is still so when it runs and when it is answered.
ConnJudged(r) ==
    /\ r.phase \in Judged => Lawful(r.manifest, r.call.op)
    /\ r.phase = "answering" /\ r.answer.code = "ok" => Lawful(r.manifest, r.answer.op)

\* All that is under way on the connection is about request id.
Carries(r, id) ==
    /\ r.inbox # None => r.inbox.id = id
    /\ r.phase \in Called => r.call.id = id
    /\ r.phase = "answering" => r.answer.id \in {None, id}

ConnInv ==
    /\ DOMAIN conn = Conns
    /\ \A c \in Conns : ConnType(conn[c]) /\ ConnJudged(conn[c])

\* The session waits on the one connection that is its own, and nothing it
\* hears there is about an earlier request.
GatewayInv ==
    /\ DOMAIN gw = GwFields
    /\ gw.next \in 0..MaxGatewayCalls /\ gw.inbox \in {None} \cup Answers
    /\ gw.phase \in {"idle", "waiting"}
    /\ gw.phase = "waiting" => gw.conn \in Conns
    /\ gw.phase = "idle" => gw.inbox = None
    /\ gw.inbox # None => gw.inbox.id \in {None, gw.next}
    /\ \A c \in Conns : conn[c].client = "gateway" =>
          gw.phase = "waiting" /\ gw.conn = c /\ Carries(conn[c], gw.next)
    /\ AnswerIsMine

\* The window holds what its day has cost; later days have cost nothing.
LedgerInv ==
    /\ windows \in [Agents -> [day : Days, used : Nat]]
    /\ spent \in [Agents -> [Days -> Nat]]
    /\ \A a \in Agents :
          /\ spent[a][windows[a].day] = windows[a].used
          /\ \A d \in Days : d > windows[a].day => spent[a][d] = 0
    /\ BudgetKept

WorldInv ==
    /\ clock \in Days /\ manifests \in [Refs -> Manifests \cup {Unusable}]
    /\ acceptor \in {"polling", "joining", "done"}
    /\ main \in {"serving", "stopping", "exited"}

Inv == WorldInv /\ ConnInv /\ SlotsMatch /\ GatewayInv /\ LedgerInv

-----------------------------------------------------------------------------
\* One connection.

\* What the step of a thread does to the record of its connection.
Follows(old, new) ==
    /\ ConnType(new) /\ ConnJudged(new)
    /\ new.phase \in Threads
    /\ new.client = "gateway" =>
          old.client = "gateway" /\ \A id : Carries(old, id) => Carries(new, id)

\* A closed connection, and one whose thread is about to end.
LEMMA RestFacts ==
    /\ ConnType(Closed) /\ ConnJudged(Closed) /\ Closed.phase = "closed"
    /\ Closed.client = None /\ Closed.inbox = None
    /\ \A c, old : Follows(old, Ending(c))
<1>1. ConnType(Closed) /\ ConnJudged(Closed) /\ Closed.phase = "closed"
        /\ Closed.client = None /\ Closed.inbox = None
  BY LimitsAssumption
     DEF Closed, ConnType, ConnJudged, Fields, Called, Judged, Threads
<1>2. \A c, old : Follows(old, Ending(c))
  <2> SUFFICES ASSUME NEW c, NEW old PROVE Follows(old, Ending(c))
    OBVIOUS
  <2>1. /\ DOMAIN Ending(c) = Fields /\ Ending(c).phase = "ending"
        /\ Ending(c).client = None /\ Ending(c).inbox = None /\ Ending(c).served = 0
    BY DEF Ending, Closed, Fields
  <2> QED BY <2>1, LimitsAssumption, AbsentAssumption
          DEF Follows, ConnType, ConnJudged, Called, Judged, Threads
<1> QED BY <1>1, <1>2

\* What becomes of parameters.
Verdicts == {"ok", "invalid_request", "internal"}

\* A request has an id, and one that parses has an operation.
LEMMA RequestFacts ==
  ASSUME NEW f \in Requests, f # None
  PROVE  f.id \in Ids /\ (f.request => f.op \in Ops /\ f.params \in Verdicts)
<1>1. CASE f \in Frames
  BY <1>1, FramesAssumption DEF Ids, Verdicts
<1>2. ASSUME NEW line \in Lines, NEW id \in 1..MaxGatewayCalls, f = Relayed(line, id)
      PROVE  f.id \in Ids /\ f.op \in Ops /\ f.params \in Verdicts
  <2>1. f.id = id /\ f.op \in {"system.info", "events.replay"} /\ f.params = "ok"
    BY <1>2 DEF Relayed
  <2> QED BY <2>1 DEF Ids, Ops, ReadOps, Verdicts
<1> QED BY <1>1, <1>2 DEF Requests

ErrorCodes == {"invalid_request", "unauthenticated", "internal", "denied",
               "unsupported_operation", "approval_required", "quota_exhausted"}
Stages     == {None, "forbidden_class", "safety_minimum", "operation_policy",
               "class_ceiling", "quota"}

\* A response other than a result.
LEMMA AnswerFacts ==
  ASSUME NEW call, call.id \in Ids \cup {None}, NEW code \in ErrorCodes, NEW stage \in Stages
  PROVE  /\ Answer(call, code, stage) \in Answers
         /\ Answer(call, code, stage).code # "ok"
         /\ Answer(call, code, stage).id = call.id
  BY DEF Answer, Answers, Ids, ErrorCodes, Stages

\* A thread that drops what it held to write such a response.
LEMMA AnsweringFollows ==
  ASSUME NEW c, ConnType(conn[c]), NEW answer \in Answers, answer.code # "ok",
         \A id : Carries(conn[c], id) => answer.id \in {None, id}
  PROVE  Follows(conn[c], Answering(c, answer))
<1> DEFINE new == Answering(c, answer)
<1>1. /\ DOMAIN new = Fields /\ new.phase = "answering" /\ new.answer = answer
      /\ new.client = conn[c].client /\ new.inbox = conn[c].inbox
      /\ new.served = conn[c].served
  BY DEF Answering, ConnType, Fields
<1> HIDE DEF new
<1>2. ConnType(new) /\ ConnJudged(new) /\ new.phase \in Threads
  BY <1>1 DEF ConnType, ConnJudged, Called, Judged, Threads
<1>3. \A id : Carries(conn[c], id) => Carries(new, id)
  BY <1>1 DEF Carries, Called
<1> QED BY <1>1, <1>2, <1>3 DEF Follows, new

\* A thread whose request was screened reads or is refused.
LEMMA ReadBodyFollows ==
  ASSUME Inv, NEW c \in Conns, NEW frame \in Requests, frame # None, ReadBody(c, frame),
         conn[c].client = "peer" \/ frame = conn[c].inbox
  PROVE  \E new : Become(c, new) /\ Follows(conn[c], new)
<1> DEFINE refusal == Screen(frame)
           read == [conn[c] EXCEPT !.served = conn[c].served + 1, !.inbox = None]
           refused == [read EXCEPT !.phase = "answering", !.answer = refusal]
           loading == [read EXCEPT !.phase = "loading", !.call = frame,
                                   !.agent = resolve(frame.token)]
<1>0. ConnType(conn[c]) /\ conn[c].phase = "reading"
  BY DEF Inv, ConnInv, ReadBody, Thread
<1>1. Become(c, IF refusal # None THEN refused ELSE loading)
  BY DEF ReadBody
<1>2. conn[c].served + 1 \in 0..MaxRequests
  BY <1>0, LimitsAssumption DEF ConnType, ReadBody
<1>3. /\ DOMAIN read = Fields /\ read.client = conn[c].client /\ read.inbox = None
      /\ read.served = conn[c].served + 1
  BY <1>0 DEF ConnType, Fields
<1> HIDE DEF read, refusal
<1>4. CASE refusal # None
  <2>1. /\ DOMAIN refused = Fields /\ refused.phase = "answering" /\ refused.inbox = None
        /\ refused.answer = refusal /\ refused.client = conn[c].client
        /\ refused.served = conn[c].served + 1
    BY <1>3 DEF Fields
  <2>2. /\ refusal \in Answers /\ refusal.code # "ok" /\ refusal.id \in {None, frame.id}
    <3>1. frame.id \in Ids \cup {None} /\ NoRequest.id \in Ids \cup {None} /\ NoRequest.id = None
      BY RequestFacts DEF NoRequest
    <3>2. \E call \in {frame, NoRequest},
             code \in {"invalid_request", "unauthenticated", "unsupported_operation", "internal"} :
                refusal = Answer(call, code, None)
      BY <1>4, RequestFacts DEF refusal, Screen, parse, project_and_digest, Verdicts
    <3> QED BY <3>1, <3>2, AnswerFacts DEF ErrorCodes, Stages
  <2> HIDE DEF refused
  <2>3. ConnType(refused) /\ ConnJudged(refused) /\ refused.phase \in Threads
    BY <1>0, <1>2, <2>1, <2>2 DEF ConnType, ConnJudged, Called, Judged, Threads
  <2>4. refused.client = "gateway" => \A id : Carries(conn[c], id) => Carries(refused, id)
    BY <2>1, <2>2 DEF Carries, Called
  <2> QED BY <1>1, <1>4, <2>1, <2>3, <2>4 DEF Follows
<1>5. CASE refusal = None
  <2>1. /\ DOMAIN loading = Fields /\ loading.phase = "loading" /\ loading.inbox = None
        /\ loading.call = frame /\ loading.agent = resolve(frame.token)
        /\ loading.client = conn[c].client /\ loading.served = conn[c].served + 1
    BY <1>3 DEF Fields
  <2>2. resolve(frame.token) # None /\ frame.request
    <3>1. frame.id \in Ids \cup {None} /\ NoRequest.id \in Ids \cup {None}
      BY RequestFacts DEF NoRequest
    <3>2. \A call \in {frame, NoRequest},
             code \in {"invalid_request", "unauthenticated", "unsupported_operation", "internal"} :
                Answer(call, code, None) # None
      BY <3>1, AnswerFacts, AbsentAssumption DEF ErrorCodes, Stages
    <3> QED BY <1>5, <3>2 DEF refusal, Screen, parse
  <2>3. loading.agent \in Entries
    BY <2>1, <2>2 DEF resolve, Entries
  <2>4. frame.id \in Ids /\ frame.op \in Ops
    BY <2>2, RequestFacts
  <2> HIDE DEF loading
  <2>5. ConnType(loading) /\ ConnJudged(loading) /\ loading.phase \in Threads
    BY <1>0, <1>2, <2>1, <2>3, <2>4 DEF ConnType, ConnJudged, Called, Judged, Threads
  <2>6. loading.client = "gateway" => \A id : Carries(conn[c], id) => Carries(loading, id)
    BY <2>1 DEF Carries, Called
  <2> QED BY <1>1, <1>5, <2>1, <2>5, <2>6 DEF Follows
<1> QED BY <1>4, <1>5

\* The call a screened request describes to the ladder is well formed.
LEMMA DescribedCall ==
  ASSUME NEW op
  PROVE  CallDescriptor(describe_call(op))
  BY DEF CallDescriptor, describe_call, read_only, EffectClasses, Resources, Minimums,
         HostResources

\* A thread that has loaded its manifest is refused, or the call is lawful.
LEMMA LoadFollows ==
  ASSUME Inv, NEW c \in Conns, LoadManifest(c)
  PROVE  \E new : Become(c, new) /\ Follows(conn[c], new)
<1> DEFINE call     == conn[c].call
           manifest == load(conn[c].agent.ref)
           decision == evaluate(describe_call(call.op), manifest, HostVector)
           judged   == [conn[c] EXCEPT !.phase = "admitting", !.manifest = manifest,
                                       !.today = clock]
<1>0. /\ ConnType(conn[c]) /\ conn[c].phase = "loading" /\ clock \in Days
      /\ manifests \in [Refs -> Manifests \cup {Unusable}]
  BY DEF Inv, ConnInv, WorldInv, LoadManifest, Thread
<1>1. call.id \in Ids /\ conn[c].agent.ref \in Refs
  BY <1>0, StoreAssumption DEF ConnType, Called, Entries
<1>2. \A id : Carries(conn[c], id) => call.id = id
  BY <1>0 DEF Carries, Called
<1>3. CASE manifest = Unusable
  <2>1. Become(c, Answering(c, Answer(call, "denied", None)))
    BY <1>3 DEF LoadManifest
  <2> QED BY <1>0, <1>1, <1>2, <2>1, AnswerFacts, AnsweringFollows DEF ErrorCodes, Stages
<1>4. CASE manifest # Unusable /\ decision # Allow
  <2>1. Become(c, Answering(c, Answer(call, decision.code, decision.stage)))
    BY <1>4 DEF LoadManifest
  <2>2. decision \in Refusals
    BY <1>4, DecisionRange
  <2> HIDE DEF decision
  <2>3. decision.code \in ErrorCodes /\ decision.stage \in Stages
    BY <2>2 DEF Refusals, ErrorCodes, Stages
  <2>4. /\ Answer(call, decision.code, decision.stage) \in Answers
        /\ Answer(call, decision.code, decision.stage).code # "ok"
        /\ Answer(call, decision.code, decision.stage).id = call.id
    BY <1>1, <2>3, AnswerFacts
  <2>5. Follows(conn[c], Answering(c, Answer(call, decision.code, decision.stage)))
    BY <1>0, <1>2, <2>4, AnsweringFollows
  <2> QED BY <2>1, <2>5
<1>5. CASE manifest # Unusable /\ decision = Allow
  <2>1. Become(c, judged)
    BY <1>5 DEF LoadManifest
  <2>2. manifest \in Manifests /\ semantic_checks(manifest)
    BY <1>0, <1>1, <1>5 DEF load
  <2>3. Permits(manifest, HostVector, describe_call(call.op))
    BY <1>5, <2>2, LadderMatchesReference, DescribedCall, ManifestsAssumption, VectorAssumption
  <2> HIDE DEF manifest, decision
  <2>4. /\ DOMAIN judged = Fields /\ judged.phase = "admitting" /\ judged.today = clock
        /\ judged.manifest = manifest /\ judged.call = call /\ judged.agent = conn[c].agent
        /\ judged.inbox = conn[c].inbox /\ judged.client = conn[c].client
        /\ judged.served = conn[c].served
    BY <1>0 DEF ConnType, Fields
  <2> HIDE DEF judged
  <2>5. ConnType(judged) /\ ConnJudged(judged) /\ judged.phase \in Threads
    BY <1>0, <2>2, <2>3, <2>4 DEF ConnType, ConnJudged, Lawful, Called, Judged, Threads
  <2>6. \A id : Carries(conn[c], id) => Carries(judged, id)
    BY <1>0, <2>4 DEF Carries, Called
  <2> QED BY <2>1, <2>4, <2>5, <2>6 DEF Follows
<1> QED BY <1>3, <1>4, <1>5

\* The call of a thread at stage 5 is a known agent's, and the day it is
\* charged to is one the clock can show.
LEMMA ChargedDay ==
  ASSUME Inv, NEW c \in Conns, conn[c].phase = "admitting"
  PROVE  /\ conn[c].agent.agent \in Agents
         /\ Rolled(windows[conn[c].agent.agent], conn[c].today).day \in Days
<1>1. conn[c].agent.agent \in Agents /\ conn[c].today \in Days
  BY StoreAssumption DEF Inv, ConnInv, ConnType, Called, Judged, Entries
<1>2. windows[conn[c].agent.agent].day \in Days
  BY <1>1 DEF Inv, LedgerInv
<1> QED BY <1>1, <1>2 DEF Rolled

\* A thread that was admitted runs what was judged; one that was not is
\* refused.
LEMMA AdmitFollows ==
  ASSUME Inv, NEW c \in Conns, Admit(c)
  PROVE  \E new : Become(c, new) /\ Follows(conn[c], new)
<1> DEFINE call    == conn[c].call
           day     == Rolled(windows[conn[c].agent.agent], conn[c].today).day
           running == [conn[c] EXCEPT !.phase = "executing", !.today = day]
<1>0. ConnType(conn[c]) /\ ConnJudged(conn[c]) /\ conn[c].phase = "admitting"
  BY DEF Inv, ConnInv, Admit, Thread
<1>1. call.id \in Ids /\ \A id : Carries(conn[c], id) => call.id = id
  BY <1>0 DEF ConnType, Carries, Called
<1>2. Follows(conn[c], Answering(c, Answer(call, "quota_exhausted", "quota")))
  BY <1>0, <1>1, AnswerFacts, AnsweringFollows DEF ErrorCodes, Stages
<1>3. Follows(conn[c], running)
  <2>0. day \in Days
    BY <1>0, ChargedDay
  <2> HIDE DEF day
  <2>1. /\ DOMAIN running = Fields /\ running.phase = "executing" /\ running.today = day
        /\ running.manifest = conn[c].manifest /\ running.call = call
        /\ running.agent = conn[c].agent /\ running.inbox = conn[c].inbox
        /\ running.client = conn[c].client /\ running.served = conn[c].served
    BY <1>0 DEF ConnType, Fields
  <2> HIDE DEF running
  <2>2. ConnType(running) /\ ConnJudged(running) /\ running.phase \in Threads
    BY <1>0, <2>0, <2>1 DEF ConnType, ConnJudged, Called, Judged, Threads
  <2>3. \A id : Carries(conn[c], id) => Carries(running, id)
    BY <1>0, <2>1 DEF Carries, Called
  <2> QED BY <2>1, <2>2, <2>3 DEF Follows
<1>4. Become(c, running)
        \/ Become(c, Answering(c, Answer(call, "quota_exhausted", "quota")))
  BY DEF Admit
<1> QED BY <1>2, <1>3, <1>4

\* A thread answers with the result of what was judged, or with a failure.
LEMMA ExecuteFollows ==
  ASSUME Inv, NEW c \in Conns, Execute(c)
  PROVE  \E new : Become(c, new) /\ Follows(conn[c], new)
<1> DEFINE call   == conn[c].call
           result == Answer(call, "ok", None)
           done   == [conn[c] EXCEPT !.phase = "answering", !.call = None, !.today = None,
                                     !.answer = result]
<1>0. ConnType(conn[c]) /\ ConnJudged(conn[c]) /\ conn[c].phase = "executing"
  BY DEF Inv, ConnInv, Execute, Thread
<1>1. call.id \in Ids /\ call.op \in Ops /\ \A id : Carries(conn[c], id) => call.id = id
  BY <1>0 DEF ConnType, Carries, Called
<1>2. PICK outcome \in Outcomes(call.op) :
         Become(c, IF outcome[1] = "ok" THEN done
                   ELSE Answering(c, Answer(call, outcome[1], outcome[2])))
  BY DEF Execute
<1>3. outcome[1] = "ok" \/ (outcome[1] \in ErrorCodes /\ outcome[2] \in Stages)
  BY DEF Outcomes, system_info, contract_only, engine_failure, ErrorCodes, Stages
<1>4. CASE outcome[1] = "ok"
  <2>1. result \in Answers /\ result.id = call.id /\ result.op = call.op
    BY <1>1 DEF Answer, Answers, Ids
  <2> HIDE DEF result
  <2>2. /\ DOMAIN done = Fields /\ done.phase = "answering" /\ done.answer = result
        /\ done.manifest = conn[c].manifest /\ done.inbox = conn[c].inbox
        /\ done.client = conn[c].client /\ done.served = conn[c].served
    BY <1>0 DEF ConnType, Fields
  <2>3. Become(c, done)
    BY <1>2, <1>4
  <2> HIDE DEF done
  <2>4. ConnType(done) /\ ConnJudged(done) /\ done.phase \in Threads
    BY <1>0, <2>1, <2>2 DEF ConnType, ConnJudged, Called, Judged, Threads
  <2>5. \A id : Carries(conn[c], id) => Carries(done, id)
    BY <1>0, <1>1, <2>1, <2>2 DEF Carries, Called
  <2> QED BY <2>2, <2>3, <2>4, <2>5 DEF Follows
<1>5. CASE outcome[1] # "ok"
  <2>1. /\ Answer(call, outcome[1], outcome[2]) \in Answers
        /\ Answer(call, outcome[1], outcome[2]).code # "ok"
        /\ Answer(call, outcome[1], outcome[2]).id = call.id
    BY <1>1, <1>3, <1>5, AnswerFacts
  <2>2. Follows(conn[c], Answering(c, Answer(call, outcome[1], outcome[2])))
    BY <1>0, <1>1, <2>1, AnsweringFollows
  <2> QED BY <1>2, <1>5, <2>2
<1> QED BY <1>4, <1>5

\* The other steps of a thread that leave it running.
LEMMA ThreadFollows ==
  ASSUME Inv, NEW c \in Conns,
         CheckPeer(c) \/ Read(c) \/ LoadManifest(c) \/ Admit(c) \/ Execute(c)
           \/ WriteAnswer(c) \/ WriteFails(c) \/ AnswerTooLarge(c)
  PROVE  \E new : Become(c, new) /\ Follows(conn[c], new)
<1>0. ConnType(conn[c]) /\ ConnJudged(conn[c])
  BY DEF Inv, ConnInv
<1>1. CASE CheckPeer(c)
  <2> DEFINE new == [conn[c] EXCEPT !.phase = "reading"]
  <2>1. /\ DOMAIN new = Fields /\ new.phase = "reading" /\ new.inbox = conn[c].inbox
        /\ new.client = conn[c].client /\ new.served = conn[c].served
    BY <1>0 DEF ConnType, Fields
  <2>2. Become(c, Ending(c)) \/ Become(c, new)
    BY <1>1 DEF CheckPeer
  <2> HIDE DEF new
  <2>3. Follows(conn[c], new)
    BY <1>0, <2>1 DEF Follows, ConnType, ConnJudged, Carries, Called, Judged, Threads
  <2> QED BY <2>2, <2>3, RestFacts
<1>2. CASE Read(c)
  <2>1. CASE \E frame \in Frames : conn[c].client = "peer" /\ ReadBody(c, frame)
    <3>1. PICK frame \in Frames : conn[c].client = "peer" /\ ReadBody(c, frame)
      BY <2>1
    <3>2. frame \in Requests /\ frame # None
      BY AbsentAssumption DEF Requests
    <3> QED BY <3>1, <3>2, ReadBodyFollows
  <2>2. CASE conn[c].inbox # None /\ ReadBody(c, conn[c].inbox)
    <3>1. conn[c].inbox \in Requests
      BY <1>0, <2>2 DEF ConnType
    <3> QED BY <2>2, <3>1, ReadBodyFollows
  <2>3. CASE ReadZeroLength(c)
    <3> DEFINE answer == Answer(NoRequest, "invalid_request", None)
    <3>1. answer \in Answers /\ answer.code # "ok" /\ answer.id = None
      BY AnswerFacts DEF NoRequest, ErrorCodes, Stages
    <3>2. Become(c, Answering(c, answer))
      BY <2>3 DEF ReadZeroLength
    <3> HIDE DEF answer
    <3> QED BY <1>0, <3>1, <3>2, AnsweringFollows
  <2>4. CASE StopReading(c)
    BY <2>4, RestFacts DEF StopReading
  <2> QED BY <1>2, <2>1, <2>2, <2>3, <2>4 DEF Read
<1>3. CASE WriteAnswer(c)
  <2> DEFINE new == [conn[c] EXCEPT !.phase = "reading", !.answer = None,
                                    !.agent = None, !.manifest = None]
  <2>1. /\ DOMAIN new = Fields /\ new.phase = "reading" /\ new.inbox = conn[c].inbox
        /\ new.client = conn[c].client /\ new.served = conn[c].served
    BY <1>0 DEF ConnType, Fields
  <2>2. Become(c, new)
    BY <1>3 DEF WriteAnswer
  <2> HIDE DEF new
  <2>3. Follows(conn[c], new)
    BY <1>0, <2>1 DEF Follows, ConnType, ConnJudged, Carries, Called, Judged, Threads
  <2> QED BY <2>2, <2>3
<1>4. CASE WriteFails(c) \/ AnswerTooLarge(c)
  BY <1>4, RestFacts DEF WriteFails, AnswerTooLarge
<1> QED BY <1>1, <1>2, <1>3, <1>4, LoadFollows, AdmitFollows, ExecuteFollows

-----------------------------------------------------------------------------
\* All connections.

Running == {c \in Conns : HasThread(c)}

\* The connections with a thread are finitely many.
LEMMA RunningFinite ==
    IsFiniteSet(Running) /\ IsFiniteSet(Running')
      /\ Cardinality(Running) \in Nat /\ Cardinality(Running') \in Nat
<1>1. Running \subseteq Conns /\ Running' \subseteq Conns
  BY DEF Running
<1> QED BY <1>1, ConnsAssumption, FS_Subset, FS_CardinalityType

\* Only the record of c changes, and is as it should be.
LEMMA BecomeConn ==
  ASSUME ConnInv, NEW c \in Conns, NEW new, Become(c, new), ConnType(new), ConnJudged(new)
  PROVE  /\ ConnInv' /\ conn'[c] = new
         /\ \A d \in Conns \ {c} : conn'[d] = conn[d]
  BY DEF ConnInv, Become

\* A step that starts and ends no thread keeps the count.
LEMMA BecomeSlots ==
  ASSUME ConnInv, SlotsMatch, NEW c \in Conns, NEW new, Become(c, new), live' = live,
         conn[c].phase \in Threads <=> new.phase \in Threads
  PROVE  SlotsMatch'
<1>1. Running' = Running
  BY DEF Running, HasThread, Become, ConnInv
<1> QED BY <1>1 DEF SlotsMatch, Running

\* A step on a connection that is no more the gateway's than before leaves
\* the session as it was.
LEMMA BecomeGateway ==
  ASSUME ConnInv, GatewayInv, NEW c \in Conns, NEW new, Become(c, new), gw' = gw,
         new.client = "gateway" =>
            conn[c].client = "gateway" /\ \A id : Carries(conn[c], id) => Carries(new, id)
  PROVE  GatewayInv'
<1>1. \A d \in Conns : conn'[d] = IF d = c THEN new ELSE conn[d]
  BY DEF Become, ConnInv
<1>2. \A d \in Conns : conn'[d].client = "gateway" =>
         gw.phase = "waiting" /\ gw.conn = d /\ Carries(conn'[d], gw.next)
  BY <1>1 DEF GatewayInv
<1>3. AnswerIsMine'
  BY DEF GatewayInv, AnswerIsMine
<1> QED BY <1>2, <1>3 DEF GatewayInv, Carries

\* Parts of the state that a step leaves alone.
LEMMA ConnKept == ConnInv /\ UNCHANGED conn => ConnInv'
  BY DEF ConnInv

\* The same for the count of the threads.
LEMMA SlotsKept == SlotsMatch /\ UNCHANGED <<conn, live>> => SlotsMatch'
  BY DEF SlotsMatch, HasThread

\* The same for the session of the gateway.
LEMMA GatewayKept == GatewayInv /\ UNCHANGED <<conn, gw>> => GatewayInv'
  BY DEF GatewayInv, AnswerIsMine, Carries

\* The same for the ledger.
LEMMA LedgerKept == LedgerInv /\ UNCHANGED quota => LedgerInv'
  BY DEF LedgerInv, quota, BudgetKept

-----------------------------------------------------------------------------
\* A call that is admitted is charged to a window that still has room.
LEMMA AdmitLedger ==
  ASSUME LedgerInv, NEW agent \in Agents, NEW m \in Manifests, NEW today \in Days,
         NEW admitted \in BOOLEAN, TryAdmit(agent, m.calls_per_day, today, admitted)
  PROVE  LedgerInv'
<1> DEFINE limit  == m.calls_per_day
           window == Rolled(windows[agent], today)
           used   == window.used
           day    == window.day
<1>1. window \in [day : Days, used : Nat]
  BY DEF Rolled, LedgerInv
<1>2. day \in Days /\ used \in Nat /\ Days \subseteq Nat
  BY <1>1, DaysAssumption
<1>3. spent[agent][day] = used /\ \A d \in Days : d > day => spent[agent][d] = 0
  <2>1. windows[agent].day \in Nat /\ windows[agent].day \in Days
    BY <1>2 DEF LedgerInv
  <2>2. CASE today > windows[agent].day
    <3>1. window = [day |-> today, used |-> 0]
      BY <2>2 DEF Rolled
    <3>2. \A d \in Days : d > today => d > windows[agent].day
      BY <1>2, <2>1, <2>2
    <3> QED BY <2>2, <3>1, <3>2 DEF LedgerInv
  <2>3. CASE ~(today > windows[agent].day)
    BY <2>3 DEF Rolled, LedgerInv
  <2> QED BY <2>2, <2>3
<1>4. /\ windows' = [windows EXCEPT ![agent] =
                        IF admitted THEN [window EXCEPT !.used = used + 1] ELSE window]
      /\ spent' = IF admitted THEN [spent EXCEPT ![agent][day] = spent[agent][day] + 1]
                  ELSE spent
      /\ admitted = ~Exhausted(window, limit)
  BY DEF TryAdmit
<1> HIDE DEF window
<1>5. CASE ~admitted
  <2>1. windows' = [windows EXCEPT ![agent] = window] /\ spent' = spent
    BY <1>4, <1>5
  <2> QED BY <1>1, <1>3, <2>1 DEF LedgerInv, BudgetKept
<1>6. CASE admitted
  <2> DEFINE new == [window EXCEPT !.used = used + 1]
  <2>1. new \in [day : Days, used : Nat] /\ new.day = day /\ new.used = used + 1
    BY <1>1
  <2>2. windows' = [windows EXCEPT ![agent] = new]
    BY <1>4, <1>6
  <2> HIDE DEF new
  <2>3. spent' = [spent EXCEPT ![agent][day] = used + 1]
    BY <1>3, <1>4, <1>6
  <2>4. spent' \in [Agents -> [Days -> Nat]]
    BY <1>2, <2>3 DEF LedgerInv
  <2>5. \A a \in Agents, d \in Days :
           spent'[a][d] = IF a = agent /\ d = day THEN used + 1 ELSE spent[a][d]
    BY <1>2, <2>3 DEF LedgerInv
  <2>6. windows' \in [Agents -> [day : Days, used : Nat]]
    BY <2>1, <2>2 DEF LedgerInv
  <2>7. ASSUME NEW a \in Agents
        PROVE  /\ spent'[a][windows'[a].day] = windows'[a].used
               /\ \A d \in Days : d > windows'[a].day => spent'[a][d] = 0
    <3>1. CASE a = agent
      <4>1. windows'[a] = new
        BY <2>2, <3>1 DEF LedgerInv
      <4>2. \A d \in Days : d > day => d # day
        BY <1>2
      <4> QED BY <1>2, <1>3, <2>1, <2>5, <3>1, <4>1, <4>2
    <3>2. CASE a # agent
      <4>1. windows'[a] = windows[a] /\ windows[a].day \in Days
        BY <2>2, <3>2 DEF LedgerInv
      <4> QED BY <2>5, <3>2, <4>1 DEF LedgerInv
    <3> QED BY <3>1, <3>2
  <2>8. limit = NoCeiling \/ (limit \in Nat /\ used + 1 <= limit)
    <3>1. limit = NoCeiling \/ ~(used >= limit)
      BY <1>4, <1>6 DEF Exhausted
    <3> QED BY <1>2, <3>1, LimitsAssumption
  <2>9. BudgetKept'
    <3> SUFFICES ASSUME NEW a \in Agents, NEW d \in Days
                 PROVE  \E n \in Manifests :
                           n.calls_per_day = NoCeiling \/ spent'[a][d] <= n.calls_per_day
      BY DEF BudgetKept
    <3>1. CASE a = agent /\ d = day
      BY <2>5, <2>8, <3>1
    <3>2. CASE ~(a = agent /\ d = day)
      <4>1. spent'[a][d] = spent[a][d]
        BY <2>5, <3>2
      <4> QED BY <4>1 DEF LedgerInv, BudgetKept
    <3> QED BY <3>1, <3>2
  <2> QED BY <2>4, <2>6, <2>7, <2>9 DEF LedgerInv
<1> QED BY <1>5, <1>6

\* The invariant holds when the broker starts.
LEMMA InitInv == Init => Inv
<1> SUFFICES ASSUME Init PROVE Inv
  OBVIOUS
<1>1. WorldInv
  BY DEF Init, WorldInv
<1>2. ConnInv
  BY RestFacts DEF Init, ConnInv
<1>3. SlotsMatch
  <2>1. {c \in Conns : HasThread(c)} = {}
    BY RestFacts DEF Init, HasThread, Threads
  <2>2. Cardinality({c \in Conns : HasThread(c)}) = 0 /\ live = 0
    BY <2>1, FS_EmptySet DEF Init
  <2> QED BY <2>2, LimitsAssumption DEF SlotsMatch
<1>4. GatewayInv
  <2>1. /\ DOMAIN gw = GwFields /\ gw.phase = "idle" /\ gw.next = 0
        /\ gw.inbox = None /\ gw.reply = None
    BY DEF Init, Idle, GwFields
  <2> QED BY <2>1, RestFacts, LimitsAssumption, AbsentAssumption
          DEF Init, GatewayInv, AnswerIsMine
<1>5. LedgerInv
  <2>1. \A a \in Agents : windows[a] = FreshWindow /\ \A d \in Days : spent[a][d] = 0
    BY DEF Init, QuotaInit
  <2>2. FreshWindow \in [day : Days, used : Nat] /\ FreshWindow.used = 0 /\ FreshWindow.day = 0
    BY DaysAssumption DEF FreshWindow
  <2>3. /\ windows \in [Agents -> [day : Days, used : Nat]]
        /\ spent \in [Agents -> [Days -> Nat]]
    BY <2>2 DEF Init, QuotaInit
  <2>4. BudgetKept
    BY <2>1, AbsentAssumption, LimitsAssumption DEF BudgetKept
  <2> QED BY <2>1, <2>2, <2>3, <2>4, DaysAssumption DEF LedgerInv
<1> QED BY <1>1, <1>2, <1>3, <1>4, <1>5 DEF Inv

-----------------------------------------------------------------------------
\* The steps of the thread of a connection keep the invariant.
LEMMA ThreadInv ==
  ASSUME Inv, NEW c \in Conns, ThreadStep(c)
  PROVE  Inv'
<1> USE DEF Inv
<1>1. CASE ThreadEnds(c)
  <2>1. /\ conn[c].phase = "ending" /\ live' = live - 1 /\ Become(c, Closed)
        /\ UNCHANGED <<clock, manifests, acceptor, main, gw, quota>>
    BY <1>1 DEF ThreadEnds, Thread, world
  <2>2. ConnInv' /\ conn'[c] = Closed /\ \A d \in Conns \ {c} : conn'[d] = conn[d]
    BY <2>1, RestFacts, BecomeConn
  <2>3. SlotsMatch'
    <3>1. c \in Running /\ Running' = Running \ {c}
      BY <2>1, <2>2, RestFacts DEF Running, HasThread, Threads
    <3>2. Cardinality(Running') = Cardinality(Running) - 1
      BY <3>1, RunningFinite, FS_RemoveElement
    <3> QED BY <2>1, <3>2, RunningFinite, LimitsAssumption DEF SlotsMatch, Running
  <2>4. GatewayInv'
    BY <2>1, RestFacts, BecomeGateway, AbsentAssumption
  <2> QED BY <2>1, <2>2, <2>3, <2>4, LedgerKept DEF WorldInv
<1>2. CASE CheckPeer(c) \/ Read(c) \/ LoadManifest(c) \/ Admit(c) \/ Execute(c)
             \/ WriteAnswer(c) \/ WriteFails(c) \/ AnswerTooLarge(c)
  <2>1. PICK new : Become(c, new) /\ Follows(conn[c], new)
    BY <1>2, ThreadFollows
  <2>2. conn[c].phase \in Threads /\ UNCHANGED <<clock, manifests, acceptor, main, live>>
    BY <1>2 DEF CheckPeer, Read, ReadBody, ReadZeroLength, StopReading, LoadManifest, Admit,
                Execute, WriteAnswer, WriteFails, AnswerTooLarge, Thread, Threads, world
  <2>3. WorldInv' /\ ConnInv' /\ SlotsMatch'
    BY <2>1, <2>2, BecomeConn, BecomeSlots DEF WorldInv, Follows
  <2>4. CASE Admit(c)
    <3>1. gw' = gw /\ conn[c].phase = "admitting"
      BY <2>4 DEF Admit, Thread
    <3>2. /\ conn[c].agent.agent \in Agents /\ conn[c].manifest \in Manifests
          /\ conn[c].today \in Days
      BY <3>1, StoreAssumption DEF ConnInv, ConnType, Called, Judged, Entries
    <3>3. LedgerInv'
      BY <2>4, <3>2, AdmitLedger DEF Admit
    <3> QED BY <2>1, <2>3, <3>1, <3>3, BecomeGateway DEF Follows
  <2>5. CASE WriteAnswer(c)
    <3>1. /\ conn[c].phase = "answering" /\ UNCHANGED quota
          /\ gw' = IF conn[c].client = "gateway"
                   THEN [gw EXCEPT !.inbox = conn[c].answer] ELSE gw
      BY <2>5 DEF WriteAnswer, Thread
    <3>2. CASE conn[c].client = "gateway"
      <4>1. /\ gw.phase = "waiting" /\ gw.conn = c /\ Carries(conn[c], gw.next)
            /\ conn[c].answer \in Answers /\ conn[c].answer.id \in {None, gw.next}
        BY <3>1, <3>2 DEF ConnInv, ConnType, GatewayInv, Carries
      <4>2. /\ DOMAIN gw' = GwFields /\ gw'.phase = "waiting" /\ gw'.conn = c
            /\ gw'.next = gw.next /\ gw'.inbox = conn[c].answer /\ gw'.reply = gw.reply
        BY <3>1, <3>2, <4>1 DEF GatewayInv, GwFields
      <4>3. \A d \in Conns : conn'[d] = IF d = c THEN new ELSE conn[d]
        BY <2>1 DEF Become, ConnInv
      <4>4. \A d \in Conns : conn'[d].client = "gateway" =>
               gw.phase = "waiting" /\ gw.conn = d /\ Carries(conn'[d], gw.next)
        BY <2>1, <4>3 DEF GatewayInv, Follows
      <4>5. AnswerIsMine'
        BY <4>2 DEF GatewayInv, AnswerIsMine
      <4>6. GatewayInv'
        BY <4>1, <4>2, <4>4, <4>5 DEF GatewayInv, Carries
      <4> QED BY <2>3, <3>1, <4>6, LedgerKept
    <3>3. CASE conn[c].client # "gateway"
      BY <2>1, <2>3, <3>1, <3>3, BecomeGateway, LedgerKept DEF Follows
    <3> QED BY <3>2, <3>3
  <2>6. CASE ~Admit(c) /\ ~WriteAnswer(c)
    <3>1. gw' = gw /\ UNCHANGED quota
      BY <1>2, <2>6 DEF CheckPeer, Read, ReadBody, ReadZeroLength, StopReading, LoadManifest,
                        Execute, WriteFails, AnswerTooLarge
    <3> QED BY <2>1, <2>3, <3>1, BecomeGateway, LedgerKept DEF Follows
  <2> QED BY <2>4, <2>5, <2>6
<1> QED BY <1>1, <1>2 DEF ThreadStep

\* The steps of the world, the accept loop and the shutdown keep it.
LEMMA ServerInv ==
  ASSUME Inv, \/ ClockMoves \/ ManifestEdited \/ PeerConnects
              \/ \E c \in Conns : Accept(c)
              \/ AcceptorStops \/ AcceptorJoins \/ Terminate \/ ExitJoined \/ ExitAtDeadline
  PROVE  Inv'
<1> USE DEF Inv
<1>1. CASE ClockMoves \/ ManifestEdited \/ AcceptorStops \/ AcceptorJoins \/ Terminate
  <2>1. UNCHANGED <<conn, live, gw, quota>>
    BY <1>1 DEF ClockMoves, ManifestEdited, AcceptorStops, AcceptorJoins, Terminate, process
  <2>2. WorldInv'
    <3>1. CASE ClockMoves
      BY <3>1 DEF ClockMoves, WorldInv, process
    <3>2. CASE ManifestEdited
      BY <3>2 DEF ManifestEdited, WorldInv, process
    <3>3. CASE AcceptorStops \/ AcceptorJoins \/ Terminate
      BY <3>3 DEF AcceptorStops, AcceptorJoins, Terminate, WorldInv, world
    <3> QED BY <1>1, <3>1, <3>2, <3>3
  <2> QED BY <2>1, <2>2, ConnKept, SlotsKept, GatewayKept, LedgerKept
<1>2. CASE PeerConnects
  <2>1. PICK c \in Conns, peer \in {"peer", "stranger"} :
           /\ conn[c].phase = "closed"
           /\ Become(c, [Closed EXCEPT !.phase = "queued", !.client = peer])
    BY <1>2 DEF PeerConnects, Become
  <2> DEFINE new == [Closed EXCEPT !.phase = "queued", !.client = peer]
  <2>2. /\ ConnType(new) /\ ConnJudged(new) /\ new.phase = "queued"
        /\ new.client # "gateway"
    BY LimitsAssumption DEF Closed, ConnType, ConnJudged, Fields, Called, Judged, Threads
  <2>3. UNCHANGED <<clock, manifests, live, acceptor, main, gw, quota>>
    BY <1>2 DEF PeerConnects, world
  <2> HIDE DEF new
  <2>4. "queued" \notin Threads /\ "closed" \notin Threads
    BY DEF Threads
  <2> QED BY <2>1, <2>2, <2>3, <2>4, BecomeConn, BecomeSlots, BecomeGateway, LedgerKept
          DEF WorldInv, new
<1>3. ASSUME NEW c \in Conns, Accept(c) PROVE Inv'
  <2>1. /\ conn[c].phase = "queued" /\ UNCHANGED <<clock, manifests, main, gw, quota>>
        /\ acceptor' \in {"polling", "joining"}
    BY <1>3 DEF Accept, LoopAgain, world
  <2>2. WorldInv' /\ LedgerInv'
    BY <2>1, LedgerKept DEF WorldInv
  <2>3. "queued" \notin Threads /\ "closed" \notin Threads /\ "starting" \in Threads
    BY DEF Threads
  <2>4. CASE Become(c, Closed) /\ live' = live
    BY <2>1, <2>2, <2>3, <2>4, RestFacts, BecomeConn, BecomeSlots, BecomeGateway,
       AbsentAssumption
  <2>5. CASE /\ live < MaxConnections /\ live' = live + 1
             /\ Become(c, [conn[c] EXCEPT !.phase = "starting"])
    <3> DEFINE new == [conn[c] EXCEPT !.phase = "starting"]
    <3>1. /\ DOMAIN new = Fields /\ new.phase = "starting" /\ new.inbox = conn[c].inbox
          /\ new.client = conn[c].client /\ new.served = conn[c].served
      BY DEF ConnInv, ConnType, Fields
    <3> HIDE DEF new
    <3>2. ConnType(new) /\ ConnJudged(new) /\ \A id : Carries(conn[c], id) => Carries(new, id)
      BY <3>1, <2>3 DEF ConnInv, ConnType, ConnJudged, Carries, Called, Judged
    <3>3. Become(c, new)
      BY <2>5 DEF new
    <3>4. ConnInv' /\ conn'[c] = new /\ \A d \in Conns \ {c} : conn'[d] = conn[d]
      BY <3>2, <3>3, BecomeConn
    <3>5. SlotsMatch'
      <4>1. c \notin Running /\ Running' = Running \cup {c}
        BY <2>1, <2>3, <3>1, <3>4 DEF Running, HasThread
      <4>2. Cardinality(Running') = Cardinality(Running) + 1
        BY <4>1, RunningFinite, FS_AddElement
      <4> QED BY <2>5, <4>2, RunningFinite, LimitsAssumption DEF SlotsMatch, Running
    <3>6. GatewayInv'
      BY <2>1, <3>1, <3>2, <3>3, BecomeGateway
    <3> QED BY <2>2, <3>4, <3>5, <3>6
  <2> QED BY <1>3, <2>4, <2>5 DEF Accept, Become
<1>4. CASE ExitJoined \/ ExitAtDeadline
  <2>1. /\ main' = "exited" /\ acceptor' = "done" /\ live' = 0
        /\ conn' = [c \in Conns |-> Closed]
        /\ UNCHANGED <<clock, manifests, gw, quota>>
    BY <1>4 DEF ExitJoined, ExitAtDeadline, Exit, world
  <2>2. ConnInv'
    BY <2>1, RestFacts DEF ConnInv
  <2>3. SlotsMatch'
    <3>1. {c \in Conns : HasThread(c)}' = {}
      BY <2>1, RestFacts DEF HasThread, Threads
    <3> QED BY <2>1, <3>1, FS_EmptySet, LimitsAssumption DEF SlotsMatch
  <2>4. GatewayInv'
    BY <2>1, RestFacts, AbsentAssumption DEF GatewayInv, AnswerIsMine
  <2> QED BY <2>1, <2>2, <2>3, <2>4, LedgerKept DEF WorldInv
<1> QED BY <1>1, <1>2, <1>3, <1>4

\* The request a line is relayed as has the id it was given.
LEMMA RelayedFacts ==
  ASSUME NEW line \in Lines, NEW id, Relayed(line, id) # None
  PROVE  Relayed(line, id).id = id
  BY DEF Relayed

\* A session that has dropped its stream no longer owns a connection.
LEMMA DropFacts ==
  ASSUME Inv, gw.phase = "waiting", DropStream
  PROVE  /\ ConnInv' /\ \A c \in Conns : conn'[c].client # "gateway"
         /\ \A c \in Conns : /\ conn'[c].phase = conn[c].phase /\ conn'[c].agent = conn[c].agent
                              /\ conn'[c].today = conn[c].today
<1> DEFINE c == gw.conn
<1>1. c \in Conns /\ \A d \in Conns : conn[d].client = "gateway" => d = c
  BY DEF Inv, GatewayInv
<1>2. CASE conn[c].client = "gateway"
  <2> DEFINE new == [conn[c] EXCEPT !.client = "gone"]
  <2>1. conn' = [conn EXCEPT ![c] = new]
    BY <1>2 DEF DropStream
  <2>2. /\ DOMAIN new = Fields /\ new.client = "gone" /\ new.phase = conn[c].phase
        /\ new.inbox = conn[c].inbox /\ new.served = conn[c].served
        /\ new.call = conn[c].call /\ new.agent = conn[c].agent
        /\ new.manifest = conn[c].manifest /\ new.today = conn[c].today
        /\ new.answer = conn[c].answer
    BY <1>1 DEF Inv, ConnInv, ConnType, Fields
  <2> HIDE DEF new
  <2>3. ConnType(new) /\ ConnJudged(new)
    BY <1>1, <2>2 DEF Inv, ConnInv, ConnType, ConnJudged
  <2>4. ConnInv' /\ conn'[c] = new /\ \A d \in Conns \ {c} : conn'[d] = conn[d]
    BY <1>1, <2>1, <2>3, BecomeConn DEF Inv, Become
  <2> QED BY <1>1, <2>2, <2>4
<1>3. CASE conn[c].client # "gateway"
  BY <1>1, <1>3, ConnKept DEF DropStream, Inv
<1> QED BY <1>2, <1>3

\* The steps of the gateway keep the invariant.
LEMMA GatewayStep ==
  ASSUME Inv, Gateway
  PROVE  Inv'
<1> USE DEF Inv
<1>1. UNCHANGED <<clock, manifests, acceptor, main, live, quota>>
  BY DEF Gateway, GatewayAnswers, GatewayCalls, GatewayRefused, GatewayReceives,
         GatewayGivesUp, world, process
<1>2. WorldInv' /\ LedgerInv'
  BY <1>1, LedgerKept DEF WorldInv
<1>3. ASSUME NEW line \in Lines, GatewayAnswers(line) \/ GatewayRefused(line) PROVE Inv'
  <2>1. conn' = conn /\ gw.phase = "idle" /\ gw.inbox = None
    BY <1>3 DEF GatewayAnswers, GatewayRefused, GatewayInv, process
  <2>2. /\ DOMAIN gw' = GwFields /\ gw'.phase = "idle" /\ gw'.inbox = None
        /\ gw'.next \in 0..MaxGatewayCalls /\ gw'.reply.answer = None
    <3>1. CASE GatewayAnswers(line)
      BY <2>1, <3>1 DEF GatewayAnswers, Reply, GatewayInv, GwFields
    <3>2. CASE GatewayRefused(line)
      <4>1. gw.next + 1 \in 0..MaxGatewayCalls
        BY <3>2, LimitsAssumption DEF GatewayRefused, GatewayInv
      <4> QED BY <2>1, <3>2, <4>1 DEF GatewayRefused, Reply, GatewayInv, GwFields
    <3> QED BY <1>3, <3>1, <3>2
  <2>3. \A c \in Conns : conn'[c].client # "gateway"
    BY <2>1 DEF GatewayInv
  <2>4. GatewayInv'
    BY <2>2, <2>3 DEF GatewayInv, AnswerIsMine
  <2> QED BY <1>1, <1>2, <2>1, <2>4, ConnKept, SlotsKept
<1>4. ASSUME NEW line \in Lines, GatewayCalls(line) PROVE Inv'
  <2> DEFINE frame == Relayed(line, gw.next + 1)
             new   == [Closed EXCEPT !.phase = "queued", !.client = "gateway",
                                     !.inbox = frame]
  <2>1. PICK c \in Conns :
           /\ conn[c].phase = "closed" /\ Become(c, new)
           /\ gw' = [gw EXCEPT !.phase = "waiting", !.conn = c, !.line = line,
                               !.next = gw.next + 1, !.reply = None]
    BY <1>4 DEF GatewayCalls
  <2>2. gw.phase = "idle" /\ gw.inbox = None /\ gw.next + 1 \in 1..MaxGatewayCalls
    BY <1>4, LimitsAssumption DEF GatewayCalls, GatewayInv
  <2>3. frame \in Requests /\ (frame # None => frame.id = gw.next + 1)
    BY <1>4, <2>2, RelayedFacts DEF GatewayCalls, Requests
  <2> HIDE DEF frame
  <2>4. /\ DOMAIN new = Fields /\ new.phase = "queued" /\ new.client = "gateway"
        /\ new.inbox = frame /\ new.served = 0
    BY DEF Closed, Fields
  <2> HIDE DEF new
  <2>5. ConnType(new) /\ ConnJudged(new) /\ Carries(new, gw.next + 1)
    BY <2>3, <2>4, LimitsAssumption
       DEF ConnType, ConnJudged, Carries, Called, Judged, Threads
  <2>6. ConnInv' /\ conn'[c] = new /\ \A d \in Conns \ {c} : conn'[d] = conn[d]
    BY <2>1, <2>5, BecomeConn
  <2>7. "queued" \notin Threads /\ "closed" \notin Threads
    BY DEF Threads
  <2>8. SlotsMatch'
    BY <1>1, <2>1, <2>4, <2>7, BecomeSlots
  <2>9. GatewayInv'
    <3>1. /\ DOMAIN gw' = GwFields /\ gw'.phase = "waiting" /\ gw'.conn = c
          /\ gw'.inbox = None /\ gw'.next = gw.next + 1 /\ gw'.reply = None
      BY <2>1, <2>2 DEF GatewayInv, GwFields
    <3>2. \A d \in Conns : conn'[d].client = "gateway" => d = c
      BY <2>2, <2>6 DEF GatewayInv
    <3>3. Carries(conn'[c], gw'.next)
      BY <2>5, <2>6, <3>1
    <3> QED BY <2>2, <3>1, <3>2, <3>3 DEF GatewayInv, AnswerIsMine, Carries
  <2> QED BY <1>2, <2>6, <2>8, <2>9
<1>5. CASE GatewayReceives \/ GatewayGivesUp
  <2>1. gw.phase = "waiting" /\ DropStream
    BY <1>5 DEF GatewayReceives, GatewayGivesUp
  <2>2. /\ ConnInv' /\ \A c \in Conns : conn'[c].client # "gateway"
        /\ \A c \in Conns : conn'[c].phase = conn[c].phase
    BY <2>1, DropFacts
  <2>3. SlotsMatch'
    <3>1. {c \in Conns : HasThread(c)}' = {c \in Conns : HasThread(c)}
      BY <2>2 DEF HasThread
    <3> QED BY <1>1, <3>1 DEF SlotsMatch
  <2>4. /\ DOMAIN gw' = GwFields /\ gw'.phase = "idle" /\ gw'.inbox = None
        /\ gw'.next = gw.next
        /\ gw'.reply.answer = gw.inbox
    <3>1. CASE GatewayReceives
      BY <3>1 DEF GatewayReceives, Reply, GatewayInv, GwFields
    <3>2. CASE GatewayGivesUp
      BY <3>2 DEF GatewayGivesUp, Reply, GatewayInv, GwFields
    <3> QED BY <1>5, <3>1, <3>2
  <2>5. GatewayInv'
    BY <2>2, <2>4 DEF GatewayInv, AnswerIsMine
  <2> QED BY <1>2, <2>2, <2>3, <2>5
<1> QED BY <1>3, <1>4, <1>5 DEF Gateway

-----------------------------------------------------------------------------
\* Invariance: the inductive invariant holds in every state of every run of
\* the broker and its gateway (broker/src/server.rs, dispatch.rs).
THEOREM Invariance == Spec => []Inv
<1>1. Inv /\ [Next]_vars => Inv'
  <2> SUFFICES ASSUME Inv, [Next]_vars PROVE Inv'
    OBVIOUS
  <2>1. CASE UNCHANGED vars
    <3>1. UNCHANGED <<clock, manifests, conn, live, acceptor, main, gw, quota>>
      BY <2>1 DEF vars, world, process
    <3> QED BY <3>1, ConnKept, SlotsKept, GatewayKept, LedgerKept DEF Inv, WorldInv
  <2> QED BY <2>1, ThreadInv, ServerInv, GatewayStep DEF Next
<1> QED BY InitInv, <1>1, PTL DEF Spec

-----------------------------------------------------------------------------
\* What calls cost.  Only stage 5 charges, and then the call is sure to be
\* executed, on the budget of the day that was charged.

\* The connection is about to execute a call charged to day d of agent a.
Charged(r, a, d) == r.phase = "executing" /\ r.agent.agent = a /\ r.today = d

Executing(a, d) == {c \in Conns : Charged(conn[c], a, d)}

Balanced(a, d) == spent[a][d] = executed[a][d] + Cardinality(Executing(a, d))

ChargeInv ==
    /\ executed \in [Agents -> [Days -> Nat]]
    /\ main # "exited" => \A a \in Agents, d \in Days : Balanced(a, d)

\* The calls about to be executed are finitely many.
LEMMA ExecutingFinite ==
  ASSUME NEW a, NEW d
  PROVE  /\ IsFiniteSet(Executing(a, d)) /\ Cardinality(Executing(a, d)) \in Nat
<1>1. Executing(a, d) \subseteq Conns
  BY DEF Executing
<1>2. IsFiniteSet(Executing(a, d))
  BY <1>1, ConnsAssumption, FS_Subset
<1> QED BY <1>2, FS_CardinalityType

\* A step that charges nothing, and starts and ends no execution.
LEMMA QuietCharges ==
  ASSUME ChargeInv, UNCHANGED <<spent, executed>>, main' # "exited" => main # "exited",
         \A c \in Conns, a \in Agents, d \in Days :
            Charged(conn[c], a, d)' <=> Charged(conn[c], a, d)
  PROVE  ChargeInv'
<1>1. \A a \in Agents, d \in Days : Executing(a, d)' = Executing(a, d)
  BY DEF Executing
<1>2. ASSUME NEW a \in Agents, NEW d \in Days, Balanced(a, d) PROVE Balanced(a, d)'
  BY <1>1, <1>2 DEF Balanced
<1> QED BY <1>2 DEF ChargeInv

\* One connection changes, and executes neither before nor after.
LEMMA QuietBecome ==
  ASSUME Inv, ChargeInv, UNCHANGED <<spent, executed, main>>, NEW c \in Conns,
         conn[c].phase # "executing", conn'[c].phase # "executing",
         \A e \in Conns \ {c} : conn'[e] = conn[e]
  PROVE  ChargeInv'
<1>1. \A e \in Conns, a \in Agents, d \in Days :
         Charged(conn[e], a, d)' <=> Charged(conn[e], a, d)
  BY DEF Charged
<1> QED BY <1>1, QuietCharges

\* A call that is admitted is charged once, and is then about to be executed.
LEMMA AdmitCharges ==
  ASSUME Inv, ChargeInv, NEW c \in Conns, Admit(c)
  PROVE  ChargeInv'
<1> DEFINE agent   == conn[c].agent.agent
           day     == Rolled(windows[agent], conn[c].today).day
           running == [conn[c] EXCEPT !.phase = "executing", !.today = day]
           refused == Answering(c, Answer(conn[c].call, "quota_exhausted", "quota"))
<1>1. /\ ConnType(conn[c]) /\ DOMAIN conn = Conns /\ conn[c].phase = "admitting"
      /\ main # "exited" /\ main' = main /\ executed' = executed
  BY DEF Inv, ConnInv, Admit, Thread
<1>2. agent \in Agents /\ day \in Days
  BY <1>1, ChargedDay
<1>3. \/ Become(c, running) /\ spent' = [spent EXCEPT ![agent][day] = spent[agent][day] + 1]
      \/ Become(c, refused) /\ spent' = spent
  BY DEF Admit, TryAdmit
<1>4. CASE Become(c, refused) /\ spent' = spent
  <2>1. refused.phase = "answering"
    BY <1>1 DEF Answering, ConnType, Fields
  <2> HIDE DEF refused
  <2>2. conn'[c] = refused /\ \A e \in Conns \ {c} : conn'[e] = conn[e]
    BY <1>1, <1>4 DEF Become
  <2> QED BY <1>1, <1>4, <2>1, <2>2, QuietBecome
<1>5. CASE /\ Become(c, running)
           /\ spent' = [spent EXCEPT ![agent][day] = spent[agent][day] + 1]
  <2>1. running.phase = "executing" /\ running.agent.agent = agent /\ running.today = day
    BY <1>1 DEF ConnType, Fields
  <2>2. PICK x, y : x = agent /\ y = day
    OBVIOUS
  <2>3. /\ spent' = [spent EXCEPT ![x][y] = spent[x][y] + 1] /\ x \in Agents /\ y \in Days
        /\ running.phase = "executing" /\ running.agent.agent = x /\ running.today = y
    BY <1>2, <1>5, <2>1, <2>2
  <2> HIDE DEF running, agent, day
  <2>4. conn'[c] = running /\ \A e \in Conns \ {c} : conn'[e] = conn[e]
    BY <1>1, <1>5 DEF Become
  <2>5. ~Charged(conn[c], x, y) /\ Charged(conn'[c], x, y)
    BY <1>1, <2>3, <2>4 DEF Charged
  <2>6. ASSUME NEW a \in Agents, NEW d \in Days PROVE Balanced(a, d)'
    <3>0. Balanced(a, d) /\ executed[a][d] \in Nat
      BY <1>1 DEF ChargeInv
    <3>1. CASE a = x /\ d = y
      <4>1. c \notin Executing(a, d) /\ Executing(a, d)' = Executing(a, d) \cup {c}
        BY <2>4, <2>5, <3>1 DEF Executing
      <4>2. Cardinality(Executing(a, d)') = Cardinality(Executing(a, d)) + 1
        BY <4>1, ExecutingFinite, FS_AddElement
      <4>3. spent'[a][d] = spent[a][d] + 1
        BY <2>3, <3>1 DEF Inv, LedgerInv
      <4>4. Cardinality(Executing(a, d)) \in Nat
        BY ExecutingFinite
      <4> QED BY <1>1, <3>0, <4>2, <4>3, <4>4 DEF Balanced
    <3>2. CASE ~(a = x /\ d = y)
      <4>1. ~Charged(conn[c], a, d) /\ ~Charged(conn'[c], a, d)
        BY <1>1, <2>3, <2>4, <3>2 DEF Charged
      <4>2. Executing(a, d)' = Executing(a, d)
        BY <2>4, <4>1 DEF Executing
      <4>3. spent'[a][d] = spent[a][d]
        BY <2>3, <3>2 DEF Inv, LedgerInv
      <4> QED BY <1>1, <3>0, <4>2, <4>3 DEF Balanced
    <3> QED BY <3>1, <3>2
  <2> QED BY <1>1, <2>6 DEF ChargeInv
<1> QED BY <1>3, <1>4, <1>5

\* A call that is executed was charged, and leaves those about to be.
LEMMA ExecuteCharges ==
  ASSUME Inv, ChargeInv, NEW c \in Conns, Execute(c)
  PROVE  ChargeInv'
<1>1. /\ ConnType(conn[c]) /\ DOMAIN conn = Conns /\ conn[c].phase = "executing"
      /\ main # "exited" /\ main' = main /\ spent' = spent
      /\ executed' = [executed EXCEPT ![conn[c].agent.agent][conn[c].today]
                        = executed[conn[c].agent.agent][conn[c].today] + 1]
  BY DEF Inv, ConnInv, Execute, Thread, quota
<1>2. conn'[c].phase = "answering" /\ \A e \in Conns \ {c} : conn'[e] = conn[e]
  BY <1>1 DEF Execute, Become, Answering, ConnType, Fields
<1>3. conn[c].agent.agent \in Agents /\ conn[c].today \in Days
  BY <1>1, StoreAssumption DEF ConnType, Called, Judged, Entries
<1>4. PICK x \in Agents, y \in Days : x = conn[c].agent.agent /\ y = conn[c].today
  BY <1>3
<1>5. executed' = [executed EXCEPT ![x][y] = executed[x][y] + 1]
  BY <1>1, <1>4
<1>6. executed[x][y] \in Nat
  BY DEF ChargeInv
<1>7. executed' \in [Agents -> [Days -> Nat]]
  BY <1>5, <1>6 DEF ChargeInv
<1>8. ASSUME NEW a \in Agents, NEW d \in Days PROVE Balanced(a, d)'
  <2>0. Balanced(a, d) /\ executed[a][d] \in Nat
    BY <1>1 DEF ChargeInv
  <2>1. ~Charged(conn'[c], a, d) /\ (Charged(conn[c], a, d) <=> a = x /\ d = y)
    BY <1>1, <1>2, <1>4 DEF Charged
  <2>2. CASE a = x /\ d = y
    <3>1. c \in Executing(a, d) /\ Executing(a, d)' = Executing(a, d) \ {c}
      BY <1>2, <2>1, <2>2 DEF Executing
    <3>2. Cardinality(Executing(a, d)') = Cardinality(Executing(a, d)) - 1
      BY <3>1, ExecutingFinite, FS_RemoveElement
    <3>3. executed'[a][d] = executed[a][d] + 1
      BY <1>5, <2>2 DEF ChargeInv
    <3>4. Cardinality(Executing(a, d)) \in Nat
      BY ExecutingFinite
    <3> QED BY <1>1, <2>0, <3>2, <3>3, <3>4 DEF Balanced
  <2>3. CASE ~(a = x /\ d = y)
    <3>1. Executing(a, d)' = Executing(a, d)
      BY <1>2, <2>1, <2>3 DEF Executing
    <3>2. executed'[a][d] = executed[a][d]
      BY <1>5, <2>3 DEF ChargeInv
    <3> QED BY <1>1, <2>0, <3>1, <3>2 DEF Balanced
  <2> QED BY <2>2, <2>3
<1> QED BY <1>7, <1>8 DEF ChargeInv

\* The other steps of a thread charge nothing and execute nothing.
LEMMA ThreadCharges ==
  ASSUME Inv, ChargeInv, NEW c \in Conns, ThreadStep(c)
  PROVE  ChargeInv'
<1>0. ConnType(conn[c]) /\ DOMAIN conn = Conns
  BY DEF Inv, ConnInv
<1>1. ASSUME \/ CheckPeer(c) \/ StopReading(c) \/ WriteAnswer(c) \/ WriteFails(c)
             \/ AnswerTooLarge(c) \/ ThreadEnds(c)
             \/ LoadManifest(c) \/ ReadZeroLength(c)
             \/ \E frame : ReadBody(c, frame)
      PROVE  ChargeInv'
  <2>1. UNCHANGED <<spent, executed, main>> /\ conn[c].phase # "executing"
    BY <1>1 DEF CheckPeer, StopReading, WriteAnswer, WriteFails, AnswerTooLarge, ThreadEnds,
                LoadManifest, ReadZeroLength, ReadBody, Thread, quota
  <2>2. \E new : Become(c, new) /\ new.phase # "executing"
    <3>1. Ending(c).phase = "ending" /\ Closed.phase = "closed"
      BY DEF Ending, Closed
    <3>2. \A answer : Answering(c, answer).phase = "answering"
      BY <1>0 DEF Answering, ConnType, Fields
    <3>3. CASE \/ StopReading(c) \/ WriteFails(c) \/ AnswerTooLarge(c) \/ ThreadEnds(c)
               \/ ReadZeroLength(c)
      BY <3>1, <3>2, <3>3 DEF StopReading, WriteFails, AnswerTooLarge, ThreadEnds,
                              ReadZeroLength
    <3>4. CASE CheckPeer(c)
      <4> DEFINE new == [conn[c] EXCEPT !.phase = "reading"]
      <4>1. new.phase = "reading"
        BY <1>0 DEF ConnType, Fields
      <4>2. Become(c, Ending(c)) \/ Become(c, new)
        BY <3>4 DEF CheckPeer
      <4> QED BY <3>1, <4>1, <4>2
    <3>5. CASE WriteAnswer(c)
      <4> DEFINE new == [conn[c] EXCEPT !.phase = "reading", !.answer = None,
                                        !.agent = None, !.manifest = None]
      <4>1. new.phase = "reading"
        BY <1>0 DEF ConnType, Fields
      <4> QED BY <3>5, <4>1 DEF WriteAnswer
    <3>6. CASE LoadManifest(c)
      <4>1. PICK manifest, decision :
               \/ Become(c, Answering(c, Answer(conn[c].call, "denied", None)))
               \/ Become(c, Answering(c, Answer(conn[c].call, decision.code, decision.stage)))
               \/ Become(c, [conn[c] EXCEPT !.phase = "admitting", !.manifest = manifest,
                                            !.today = clock])
        BY <3>6 DEF LoadManifest
      <4>2. [conn[c] EXCEPT !.phase = "admitting", !.manifest = manifest,
                            !.today = clock].phase = "admitting"
        BY <1>0 DEF ConnType, Fields
      <4> QED BY <3>2, <4>1, <4>2
    <3>7. ASSUME NEW frame, ReadBody(c, frame)
          PROVE  \E new : Become(c, new) /\ new.phase # "executing"
      <4> DEFINE read == [conn[c] EXCEPT !.served = conn[c].served + 1, !.inbox = None]
                 refused == [read EXCEPT !.phase = "answering", !.answer = Screen(frame)]
                 loading == [read EXCEPT !.phase = "loading", !.call = frame,
                                         !.agent = resolve(frame.token)]
      <4>1. refused.phase = "answering" /\ loading.phase = "loading"
        BY <1>0 DEF ConnType, Fields
      <4>2. Become(c, refused) \/ Become(c, loading)
        BY <3>7 DEF ReadBody
      <4> QED BY <4>1, <4>2
    <3> QED BY <1>1, <3>3, <3>4, <3>5, <3>6, <3>7
  <2>3. conn'[c].phase # "executing" /\ \A e \in Conns \ {c} : conn'[e] = conn[e]
    BY <1>0, <2>2 DEF Become
  <2> QED BY <2>1, <2>3, QuietBecome
<1>2. Read(c) => \/ StopReading(c) \/ ReadZeroLength(c) \/ \E frame : ReadBody(c, frame)
  BY DEF Read
<1> QED BY <1>1, <1>2, AdmitCharges, ExecuteCharges DEF ThreadStep

\* The steps of the world, the accept loop and the shutdown charge nothing;
\* what was about to be executed is lost only when the process exits.
LEMMA ServerCharges ==
  ASSUME Inv, ChargeInv, \/ ClockMoves \/ ManifestEdited \/ PeerConnects
                         \/ \E c \in Conns : Accept(c)
                         \/ AcceptorStops \/ AcceptorJoins \/ Terminate
                         \/ ExitJoined \/ ExitAtDeadline
  PROVE  ChargeInv'
<1>0. DOMAIN conn = Conns /\ UNCHANGED <<spent, executed>>
  BY DEF Inv, ConnInv, ClockMoves, ManifestEdited, PeerConnects, Accept, AcceptorStops,
         AcceptorJoins, Terminate, ExitJoined, ExitAtDeadline, Exit, quota
<1>1. CASE ClockMoves \/ ManifestEdited \/ AcceptorStops \/ AcceptorJoins \/ Terminate
  <2>1. UNCHANGED conn /\ (main' # "exited" => main # "exited")
    BY <1>1 DEF ClockMoves, ManifestEdited, AcceptorStops, AcceptorJoins, Terminate, process
  <2> QED BY <1>0, <2>1, QuietCharges DEF Charged
<1>2. CASE PeerConnects
  <2>1. PICK c \in Conns, peer \in {"peer", "stranger"} :
           /\ conn[c].phase = "closed" /\ UNCHANGED main
           /\ conn' = [conn EXCEPT ![c] = [Closed EXCEPT !.phase = "queued", !.client = peer]]
    BY <1>2 DEF PeerConnects
  <2>2. conn'[c].phase = "queued" /\ \A e \in Conns \ {c} : conn'[e] = conn[e]
    BY <1>0, <2>1 DEF Closed
  <2> QED BY <1>0, <2>1, <2>2, QuietBecome
<1>3. ASSUME NEW c \in Conns, Accept(c) PROVE ChargeInv'
  <2>1. /\ conn[c].phase = "queued" /\ UNCHANGED main
        /\ \/ conn' = [conn EXCEPT ![c] = Closed]
           \/ conn' = [conn EXCEPT ![c].phase = "starting"]
    BY <1>3 DEF Accept
  <2>2. ConnType(conn[c])
    BY DEF Inv, ConnInv
  <2>3. conn'[c].phase # "executing" /\ \A e \in Conns \ {c} : conn'[e] = conn[e]
    <3>1. CASE conn' = [conn EXCEPT ![c] = Closed]
      BY <1>0, <3>1 DEF Closed
    <3>2. CASE conn' = [conn EXCEPT ![c].phase = "starting"]
      BY <1>0, <2>2, <3>2 DEF ConnType, Fields
    <3> QED BY <2>1, <3>1, <3>2
  <2> QED BY <1>0, <2>1, <2>3, QuietBecome
<1>4. CASE ExitJoined \/ ExitAtDeadline
  <2>1. main' = "exited"
    BY <1>4 DEF ExitJoined, ExitAtDeadline, Exit
  <2> QED BY <1>0, <2>1 DEF ChargeInv
<1> QED BY <1>1, <1>2, <1>3, <1>4

\* The steps of the gateway charge nothing: its calls pay in their threads.
LEMMA GatewayCharges ==
  ASSUME Inv, ChargeInv, Gateway
  PROVE  ChargeInv'
<1>0. DOMAIN conn = Conns /\ UNCHANGED <<spent, executed, main>>
  BY DEF Inv, ConnInv, Gateway, GatewayAnswers, GatewayCalls, GatewayRefused,
         GatewayReceives, GatewayGivesUp, quota, process
<1>1. ASSUME NEW line \in Lines, GatewayAnswers(line) \/ GatewayRefused(line)
      PROVE  ChargeInv'
  <2>1. UNCHANGED conn
    BY <1>1 DEF GatewayAnswers, GatewayRefused, process
  <2> QED BY <1>0, <2>1, QuietCharges DEF Charged
<1>2. ASSUME NEW line \in Lines, GatewayCalls(line) PROVE ChargeInv'
  <2>1. PICK c \in Conns :
           /\ conn[c].phase = "closed"
           /\ Become(c, [Closed EXCEPT !.phase = "queued", !.client = "gateway",
                                       !.inbox = Relayed(line, gw.next + 1)])
    BY <1>2 DEF GatewayCalls
  <2>2. conn'[c].phase = "queued" /\ \A e \in Conns \ {c} : conn'[e] = conn[e]
    BY <1>0, <2>1 DEF Become, Closed
  <2> QED BY <1>0, <2>1, <2>2, QuietBecome
<1>3. CASE GatewayReceives \/ GatewayGivesUp
  <2>1. gw.phase = "waiting" /\ DropStream
    BY <1>3 DEF GatewayReceives, GatewayGivesUp
  <2>2. \A c \in Conns : /\ conn'[c].phase = conn[c].phase /\ conn'[c].agent = conn[c].agent
                         /\ conn'[c].today = conn[c].today
    BY <2>1, DropFacts
  <2>3. \A c \in Conns, a \in Agents, d \in Days :
           Charged(conn[c], a, d)' <=> Charged(conn[c], a, d)
    BY <2>2 DEF Charged
  <2> QED BY <1>0, <2>3, QuietCharges
<1> QED BY <1>1, <1>2, <1>3 DEF Gateway

\* ChargesBalance: in every state, what has been charged is what was executed
\* plus what is about to be (broker/src/quota.rs, dispatch.rs).
LEMMA ChargesBalance == Spec => []ChargeInv
<1>1. Init => ChargeInv
  <2> SUFFICES ASSUME Init PROVE ChargeInv
    OBVIOUS
  <2>1. executed \in [Agents -> [Days -> Nat]]
    BY DEF Init
  <2>2. ASSUME NEW a \in Agents, NEW d \in Days PROVE Balanced(a, d)
    <3>1. Executing(a, d) = {}
      BY RestFacts DEF Init, Executing, Charged
    <3>2. Cardinality(Executing(a, d)) = 0
      BY <3>1, FS_EmptySet
    <3> QED BY <3>2 DEF Balanced, Init, QuotaInit
  <2> QED BY <2>1, <2>2 DEF ChargeInv
<1>2. Inv /\ ChargeInv /\ [Next]_vars => ChargeInv'
  <2> SUFFICES ASSUME Inv, ChargeInv, [Next]_vars PROVE ChargeInv'
    OBVIOUS
  <2>1. CASE UNCHANGED vars
    <3>1. UNCHANGED <<conn, main, spent, executed>>
      BY <2>1 DEF vars, process, quota
    <3> QED BY <3>1, QuietCharges DEF Charged
  <2> QED BY <2>1, ThreadCharges, ServerCharges, GatewayCharges DEF Next
<1> QED BY Invariance, <1>1, <1>2, PTL DEF Spec

-----------------------------------------------------------------------------
\* TypeCorrect: TypeOK holds for any connections, frames, tokens, manifests
\* and limits; in particular a connection serves at most MaxRequests bodies.
\* (broker/src/server.rs serve_connection)
THEOREM TypeCorrect == Spec => []TypeOK
<1>1. Inv /\ ChargeInv => TypeOK
  BY DEF Inv, WorldInv, ConnInv, ConnType, Called, Judged, Entries, GatewayInv, LedgerInv,
         ChargeInv, TypeOK
<1> QED BY Invariance, ChargesBalance, <1>1, PTL

\* BudgetIsKept: no interleaving of concurrent calls, manifest edits and clock
\* steps admits more calls in a day window than the most generous manifest
\* allows. (broker/src/quota.rs try_admit)
THEOREM BudgetIsKept == Spec => []BudgetKept
<1>1. Inv => BudgetKept
  BY DEF Inv, LedgerInv
<1> QED BY Invariance, <1>1, PTL

\* RefusalsCostNothing: in no interleaving of concurrent calls, manifest edits,
\* clock steps and clients that give up is a call charged that is not
\* executed, executed that was not charged, or charged to a day other than the
\* one whose budget admitted it. (broker/src/policy.rs evaluate, quota.rs
\* try_admit)
THEOREM RefusalsCostNothing == Spec => []RefusedCallsAreFree
<1>1. ChargeInv => RefusedCallsAreFree
  BY DEF ChargeInv, Balanced, Executing, Charged, RefusedCallsAreFree
<1> QED BY ChargesBalance, <1>1, PTL

\* LawfulWhenRun: what runs, and what has run, is permitted by the reference
\* definition under the manifest the call is bound to.
\* (broker/src/dispatch.rs execute_v2)
THEOREM LawfulWhenRun == Spec => []RunAsJudged
<1>1. Inv => RunAsJudged
  <2> SUFFICES ASSUME Inv, NEW c \in Conns,
                      \/ conn[c].phase = "executing"
                      \/ conn[c].phase = "answering" /\ conn[c].answer.code = "ok"
               PROVE  Lawful(conn[c].manifest, IF conn[c].phase = "executing"
                                               THEN conn[c].call.op ELSE conn[c].answer.op)
    BY DEF RunAsJudged, Lawful
  <2> QED BY DEF Inv, ConnInv, ConnJudged, Judged
<1> QED BY Invariance, <1>1, PTL

\* SlotsAreThreads: the accept loop's counter is the number of threads there
\* are, and never above the limit. (broker/src/server.rs accept_loop)
THEOREM SlotsAreThreads == Spec => []SlotsMatch
<1>1. Inv => SlotsMatch
  BY DEF Inv
<1> QED BY Invariance, <1>1, PTL

\* GatewayHearsItsOwn: what the gateway relays as a broker's answer is the
\* answer to the request it sent last. (gw/src/client.rs call)
THEOREM GatewayHearsItsOwn == Spec => []AnswerIsMine
<1>1. Inv => AnswerIsMine
  BY DEF Inv, GatewayInv
<1> QED BY Invariance, <1>1, PTL

=============================================================================
