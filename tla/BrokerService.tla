---------------------------- MODULE BrokerService ---------------------------
(***************************************************************************)
(* The broker as its callers see it: the accept loop with its connection   *)
(* threads, the request path of the dispatcher, the shutdown, and a        *)
(* gateway in front of it (broker/src/{server,dispatch,identity,manifest,  *)
(* main,signals,config,peercred}.rs, proto/src/{frame,wire}.rs, gw/src/    *)
(* *.rs).  Policy decides, QuotaLedger counts; what an operation then does *)
(* is BrokerEngine's subject, and only the kind of its outcome shows here. *)
(*                                                                         *)
(* Connection threads run concurrently and share the ledger, the clock and *)
(* the manifest directory, which an operator may edit at any time.  A call *)
(* reads them at different moments: each of its steps is an action.        *)
(***************************************************************************)
EXTENDS QuotaLedger, Policy

CONSTANTS
    Conns,           \* connections that may exist at once
    Frames,          \* the frame bodies unknown peers send
    Tokens,          \* the token store: from enrolled tokens to entries
    Refs,            \* manifest references of the token store
    Manifests,       \* the documents an operator may put under a reference
    Unusable,        \* a manifest that does not load
    HostVector,      \* adapter.safety_vector()
    Lines,           \* what a gateway's agent asks for
    MaxConnections,
    MaxRequests,     \* max_requests_per_connection
    MaxGatewayCalls  \* bound: calls of the gateway

\* Every response there can be.
Answers == [code : {"ok", "invalid_request", "unauthenticated", "internal", "denied",
                    "unsupported_operation", "approval_required", "quota_exhausted"},
            stage : {None, "forbidden_class", "safety_minimum", "operation_policy",
                     "class_ceiling", "quota"},
            id : {None} \cup {f.id : f \in Frames} \cup 1..MaxGatewayCalls,
            op : Ops \cup {None}]

ASSUME LimitsAssumption ==
    /\ MaxConnections \in Nat /\ MaxRequests \in Nat /\ MaxGatewayCalls \in Nat
    /\ \A m \in Manifests : m.calls_per_day \in Nat \cup {NoCeiling}
ASSUME StoreAssumption ==
    \A t \in DOMAIN Tokens : Tokens[t].agent \in Agents /\ Tokens[t].ref \in Refs
ASSUME AbsentAssumption ==
    /\ None \notin Conns /\ None \notin Frames /\ None \notin Agents
    /\ None \notin Days /\ None \notin Manifests
    /\ Unusable \notin Manifests /\ Manifests # {}
    /\ None \notin Answers /\ None \notin {"peer", "stranger", "gateway", "gone"}
ASSUME ConnsAssumption     == IsFiniteSet(Conns)
ASSUME FramesAssumption ==
    \A f \in Frames : f.request =>
        f.op \in Ops /\ f.params \in {"ok", "invalid_request", "internal"}
ASSUME ManifestsAssumption == \A m \in Manifests : AgentManifest(m)
ASSUME VectorAssumption    == SafetyVector(HostVector)

VARIABLES
    clock,       \* the day the wall clock shows
    manifests,   \* the manifest directory, by reference
    conn,        \* connections: the socket and the thread that serves it
    live,        \* the accept loop's count of connection threads
    acceptor,    \* "polling", "joining" or "done"
    main,        \* "serving", "stopping" or "exited"
    gw,          \* the gateway session
    executed     \* history: operations run, by agent and day they were charged to

world   == <<clock, manifests>>
process == <<conn, live, acceptor, main>>
vars    == <<world, process, gw, quota, executed>>

\* A response: its error code ("ok" for a result), the deciding stage, the
\* id it answers, and the operation a result is tagged with.
Answer(call, code, stage) ==
    [code |-> code, stage |-> stage, id |-> call.id,
     op |-> IF code = "ok" THEN call.op ELSE None]

\* Without a request there is nothing to correlate with.
NoRequest == [id |-> None, op |-> None]

Closed == [phase |-> "closed", client |-> None, inbox |-> None,
           served |-> 0, call |-> None, agent |-> None, manifest |-> None,
           today |-> None, answer |-> None]

\* The phases of a connection that has a thread.
Threads == {"starting", "reading", "loading", "admitting", "executing",
            "answering", "ending"}
HasThread(c) == conn[c].phase \in Threads

\* next is the session's request counter, inbox what its socket received.
Idle == [phase |-> "idle", conn |-> None, line |-> None, next |-> 0,
         inbox |-> None, reply |-> None]

Init ==
    /\ clock \in Days
    /\ manifests \in [Refs -> Manifests \cup {Unusable}]
    /\ conn = [c \in Conns |-> Closed]
    /\ live = 0
    /\ acceptor = "polling"
    /\ main = "serving"
    /\ gw = Idle
    /\ executed = [a \in Agents |-> [d \in Days |-> 0]]
    /\ QuotaInit

---------------------------------------------------------------------------
\* The world outside: the clock may be set either way, and a manifest is
\* replaced or damaged while calls are under way.

ClockMoves ==
    /\ clock' \in Days \ {clock}
    /\ UNCHANGED <<manifests, process, gw, quota, executed>>

ManifestEdited ==
    /\ \E r \in Refs, m \in Manifests \cup {Unusable} :
          /\ m # manifests[r]
          /\ manifests' = [manifests EXCEPT ![r] = m]
    /\ UNCHANGED <<clock, process, gw, quota, executed>>

---------------------------------------------------------------------------
\* The socket and the accept loop.

\* A peer connects; whether its uid is allowed shows in the first step of
\* the thread.
PeerConnects ==
    /\ main # "exited"
    /\ \E c \in Conns, peer \in {"peer", "stranger"} :
          /\ conn[c].phase = "closed"
          /\ conn' = [conn EXCEPT ![c] = [Closed EXCEPT !.phase = "queued", !.client = peer]]
    /\ UNCHANGED <<world, live, acceptor, main, gw, quota, executed>>

\* After each connection the loop looks at the shutdown flag again.
LoopAgain == IF main = "serving" THEN "polling" ELSE "joining"

\* Mutant: a thread that fails to start keeps its slot.
AcceptLeaks(c) ==
    /\ acceptor = "polling"
    /\ main # "exited"
    /\ conn[c].phase = "queued"
    /\ \/ /\ live >= MaxConnections
          /\ conn' = [conn EXCEPT ![c] = Closed]
          /\ UNCHANGED live
       \/ /\ live < MaxConnections
          /\ live' = live + 1
          /\ \E new \in {[conn[c] EXCEPT !.phase = "starting"], Closed} :
                conn' = [conn EXCEPT ![c] = new]
    /\ acceptor' = LoopAgain
    /\ UNCHANGED <<world, main, gw, quota, executed>>

\* At the limit the stream is dropped; spawning the thread may fail, and
\* then the count is taken back.
Accept(c) ==
    /\ acceptor = "polling"
    /\ main # "exited"
    /\ conn[c].phase = "queued"
    /\ \/ /\ live >= MaxConnections
          /\ conn' = [conn EXCEPT ![c] = Closed]
          /\ UNCHANGED live
       \/ /\ live < MaxConnections
          /\ live' = live + 1
          /\ conn' = [conn EXCEPT ![c].phase = "starting"]
       \/ /\ live < MaxConnections
          /\ conn' = [conn EXCEPT ![c] = Closed]
          /\ UNCHANGED live
    /\ acceptor' = LoopAgain
    /\ UNCHANGED <<world, main, gw, quota, executed>>

\* accept would block, and the loop sees the flag.
AcceptorStops ==
    /\ acceptor = "polling"
    /\ main = "stopping"
    /\ acceptor' = "joining"
    /\ UNCHANGED <<world, conn, live, main, gw, quota, executed>>

\* Every thread has been joined.
AcceptorJoins ==
    /\ acceptor = "joining"
    /\ main # "exited"
    /\ \A c \in Conns : ~HasThread(c)
    /\ acceptor' = "done"
    /\ UNCHANGED <<world, conn, live, main, gw, quota, executed>>

---------------------------------------------------------------------------
\* A connection thread: serve_connection.

Become(c, new) == conn' = [conn EXCEPT ![c] = new]

\* The thread drops what it held and writes `answer`.
Answering(c, answer) ==
    [conn[c] EXCEPT !.phase = "answering", !.call = None, !.agent = None,
                    !.manifest = None, !.today = None, !.answer = answer]

\* The stream is closed when serve_connection returns.
Ending(c) == [Closed EXCEPT !.phase = "ending"]

Thread(c, phase) == main # "exited" /\ conn[c].phase = phase

\* Nothing is read from a peer whose uid is not allowed.
CheckPeer(c) ==
    /\ Thread(c, "starting")
    /\ Become(c, IF conn[c].client = "stranger" THEN Ending(c)
                 ELSE [conn[c] EXCEPT !.phase = "reading"])
    /\ UNCHANGED <<world, live, acceptor, main, gw, quota, executed>>

\* TokenStore::resolve: None unless the token is enrolled, not revoked and
\* not expired.
resolve(token) ==
    IF /\ token \in DOMAIN Tokens
       /\ ~Tokens[token].revoked
       /\ Tokens[token].expires = None \/ clock < Tokens[token].expires
    THEN Tokens[token]
    ELSE None

\* What the steps of handle_frame ask of a frame body.  Parameters that do
\* not project or fail their schema are the caller's error; that the result
\* cannot be serialized or made canonical is the broker's own.
parse(frame)              == frame.request /\ frame.v \in {1, 2}
operation_allowed(frame)  == frame.v = 1 => frame.op = "system.info"
version_supported(frame)  == frame.op_version = 1
project_and_digest(frame) == frame.params

\* parse, operation_allowed, resolve, the operation's version and its
\* parameters, in the order of handle_frame: the refusal, or None.
Screen(frame) ==
    IF ~parse(frame) THEN Answer(NoRequest, "invalid_request", None)
    ELSE IF ~operation_allowed(frame) THEN Answer(frame, "invalid_request", None)
    ELSE IF resolve(frame.token) = None THEN Answer(frame, "unauthenticated", None)
    ELSE IF ~version_supported(frame) THEN Answer(frame, "unsupported_operation", None)
    ELSE IF project_and_digest(frame) # "ok"
         THEN Answer(frame, project_and_digest(frame), None)
    ELSE None

\* Mutant: the request limit is not looked at.
ReadBodyUnlimited(c, frame) ==
    LET refusal == Screen(frame)
        read    == [conn[c] EXCEPT !.served = @ + 1, !.inbox = None]
    IN  /\ Thread(c, "reading")
        /\ Become(c, IF refusal # None
                     THEN [read EXCEPT !.phase = "answering", !.answer = refusal]
                     ELSE [read EXCEPT !.phase = "loading", !.call = frame,
                                       !.agent = resolve(frame.token)])
        /\ UNCHANGED <<world, live, acceptor, main, gw, quota, executed>>

\* Mutant: a frame is served without being counted.
ReadBodyUncounted(c, frame) ==
    LET refusal == Screen(frame)
        read    == [conn[c] EXCEPT !.inbox = None]
    IN  /\ Thread(c, "reading")
        /\ conn[c].served < MaxRequests
        /\ Become(c, IF refusal # None
                     THEN [read EXCEPT !.phase = "answering", !.answer = refusal]
                     ELSE [read EXCEPT !.phase = "loading", !.call = frame,
                                       !.agent = resolve(frame.token)])
        /\ UNCHANGED <<world, live, acceptor, main, gw, quota, executed>>

\* One complete frame body: it counts against max_requests_per_connection.
ReadBody(c, frame) ==
    LET refusal == Screen(frame)
        read    == [conn[c] EXCEPT !.served = @ + 1, !.inbox = None]
    IN  /\ Thread(c, "reading")
        /\ conn[c].served < MaxRequests
        /\ Become(c, IF refusal # None
                     THEN [read EXCEPT !.phase = "answering", !.answer = refusal]
                     ELSE [read EXCEPT !.phase = "loading", !.call = frame,
                                       !.agent = resolve(frame.token)])
        /\ UNCHANGED <<world, live, acceptor, main, gw, quota, executed>>

\* A zero-length frame is answered, and is not counted.
ReadZeroLength(c) ==
    /\ Thread(c, "reading")
    /\ conn[c].served < MaxRequests
    /\ conn[c].client = "peer"
    /\ Become(c, Answering(c, Answer(NoRequest, "invalid_request", None)))
    /\ UNCHANGED <<world, live, acceptor, main, gw, quota, executed>>

\* The loop is left: the request limit, an oversize frame (its answer is
\* best effort), a truncated one, the end of the stream, or the timeout.
StopReading(c) ==
    /\ Thread(c, "reading")
    /\ Become(c, Ending(c))
    /\ UNCHANGED <<world, live, acceptor, main, gw, quota, executed>>

Read(c) ==
    \/ \E frame \in Frames : conn[c].client = "peer" /\ ReadBody(c, frame)
    \/ conn[c].inbox # None /\ ReadBody(c, conn[c].inbox)
    \/ ReadZeroLength(c)
    \/ StopReading(c)

\* ManifestStore::load: a document that parses and passes semantic_checks.
load(ref) ==
    IF manifests[ref] # Unusable /\ semantic_checks(manifests[ref])
    THEN manifests[ref] ELSE Unusable

\* The manifest is loaded for this call; stages 1 to 4 judge it; a call
\* they allow reads the day that try_admit will use.
LoadManifest(c) ==
    LET manifest == load(conn[c].agent.ref)
        decision == evaluate(describe_call(conn[c].call.op), manifest, HostVector)
    IN  /\ Thread(c, "loading")
        /\ Become(c,
              IF manifest = Unusable
              THEN Answering(c, Answer(conn[c].call, "denied", None))
              ELSE IF decision # Allow
              THEN Answering(c, Answer(conn[c].call, decision.code, decision.stage))
              ELSE [conn[c] EXCEPT !.phase = "admitting", !.manifest = manifest,
                                   !.today = clock])
        /\ UNCHANGED <<world, live, acceptor, main, gw, quota, executed>>

\* Stage 5, the last veto.  A call that is admitted keeps, as history, the
\* day it was charged to.
Admit(c) ==
    /\ Thread(c, "admitting")
    /\ \E admitted \in BOOLEAN :
          /\ TryAdmit(conn[c].agent.agent, conn[c].manifest.calls_per_day,
                      conn[c].today, admitted)
          /\ Become(c, IF admitted
                       THEN [conn[c] EXCEPT !.phase = "executing",
                                            !.today = Rolled(windows[conn[c].agent.agent], @).day]
                       ELSE Answering(c, Answer(conn[c].call, "quota_exhausted", "quota")))
    /\ UNCHANGED <<world, live, acceptor, main, gw, executed>>

\* system_info cannot fail; tx.rollback is not implemented, and ends in an
\* internal error; engine_failure reports the errors of the engine.
system_info   == {<<"ok", None>>}
contract_only == {<<"internal", None>>}
engine_failure(op) ==
    {<<"denied", "operation_policy">>, <<"internal", None>>}
        \cup (IF op \in MutatingOps THEN {<<"denied", "forbidden_class">>} ELSE {})

Outcomes(op) ==
    CASE op = "system.info" -> system_info
      [] op = "tx.rollback" -> contract_only
      [] OTHER -> {<<"ok", None>>} \cup engine_failure(op)

\* The result is bound to the agent and the manifest the call was judged
\* by: they stay with the answer.
Execute(c) ==
    /\ Thread(c, "executing")
    /\ \E outcome \in Outcomes(conn[c].call.op) :
          Become(c, IF outcome[1] = "ok"
                    THEN [conn[c] EXCEPT !.phase = "answering", !.call = None, !.today = None,
                                         !.answer = Answer(conn[c].call, "ok", None)]
                    ELSE Answering(c, Answer(conn[c].call, outcome[1], outcome[2])))
    /\ executed' = [executed EXCEPT ![conn[c].agent.agent][conn[c].today] = @ + 1]
    /\ UNCHANGED <<world, live, acceptor, main, gw, quota>>

\* The answer is written and the loop goes on.
WriteAnswer(c) ==
    /\ Thread(c, "answering")
    /\ conn[c].client # "gone"
    /\ Become(c, [conn[c] EXCEPT !.phase = "reading", !.answer = None,
                                 !.agent = None, !.manifest = None])
    /\ gw' = IF conn[c].client = "gateway"
             THEN [gw EXCEPT !.inbox = conn[c].answer] ELSE gw
    /\ UNCHANGED <<world, live, acceptor, main, quota, executed>>

\* The peer has closed, or does not read within the write timeout.  A
\* gateway that waits for the answer does read.
WriteFails(c) ==
    /\ Thread(c, "answering")
    /\ conn[c].client \in {"peer", "gone"}
    /\ Become(c, Ending(c))
    /\ UNCHANGED <<world, live, acceptor, main, gw, quota, executed>>

\* write_frame refuses an answer above MAX_FRAME_BYTES, and the connection
\* is closed without one.  A replay has no page size, and a proposal repeats
\* the changes of a request that was itself near the limit.
AnswerTooLarge(c) ==
    /\ Thread(c, "answering")
    /\ conn[c].answer.code = "ok" /\ conn[c].answer.op \in {"events.replay", "config.propose"}
    /\ Become(c, Ending(c))
    /\ UNCHANGED <<world, live, acceptor, main, gw, quota, executed>>

\* serve_connection has returned; the thread gives its slot back.
ThreadEnds(c) ==
    /\ Thread(c, "ending")
    /\ live' = live - 1
    /\ Become(c, Closed)
    /\ UNCHANGED <<world, acceptor, main, gw, quota, executed>>

ThreadStep(c) ==
    \/ CheckPeer(c) \/ Read(c) \/ LoadManifest(c) \/ Admit(c) \/ Execute(c)
    \/ WriteAnswer(c) \/ WriteFails(c) \/ AnswerTooLarge(c) \/ ThreadEnds(c)

---------------------------------------------------------------------------
\* Shutdown: the signal sets the flag, the main thread waits for the accept
\* thread until its deadline, and the process exits with whatever threads
\* are left.

Terminate ==
    /\ main = "serving"
    /\ main' = "stopping"
    /\ UNCHANGED <<world, conn, live, acceptor, gw, quota, executed>>

Exit ==
    /\ main' = "exited"
    /\ acceptor' = "done"
    /\ live' = 0
    /\ conn' = [c \in Conns |-> Closed]
    /\ UNCHANGED <<world, gw, quota, executed>>

ExitJoined == main = "stopping" /\ acceptor = "done" /\ Exit

\* Mutant: the accept thread is joined without a deadline.
ExitWithoutDeadline == main = "stopping" /\ acceptor = "done" /\ Exit

\* The wait is bounded, and may end before any thread takes a step.
ExitAtDeadline == main = "stopping" /\ acceptor # "done" /\ Exit

---------------------------------------------------------------------------
\* The gateway: one session, which handles one line at a time and opens a
\* connection for each call.

\* call_tool and read_resource: the frame a line is relayed as, None for a
\* line the gateway answers itself.
Relayed(line, id) ==
    CASE line.method = "tools/call" /\ line.known /\ line.valid ->
            [request |-> TRUE, v |-> 1, id |-> id, op |-> "system.info",
             op_version |-> 1, token |-> line.token, params |-> "ok"]
      [] line.method = "resources/read" /\ line.known /\ line.valid ->
            [request |-> TRUE, v |-> 2, id |-> id, op |-> "events.replay",
             op_version |-> 1, token |-> line.token, params |-> "ok"]
      [] OTHER -> None

\* handle_line's own answers: an unknown resource is refused as a result, an
\* unknown tool or bad arguments are invalid parameters.
OwnReply(line) ==
    CASE line.method = "resources/read" /\ ~line.known -> "refused"
      [] line.method \in {"tools/call", "resources/read"} -> "invalid_params"
      [] OTHER -> "local"

Reply(kind, answer) == [kind |-> kind, answer |-> answer]

\* handle_line of a line that needs no call.
GatewayAnswers(line) ==
    /\ gw.phase = "idle"
    /\ Relayed(line, gw.next) = None
    /\ gw' = [gw EXCEPT !.line = line, !.reply = Reply(OwnReply(line), None)]
    /\ UNCHANGED <<world, process, quota, executed>>

\* Mutant: the client keeps its stream and sends the next call on it.
GatewayCallsAgain(line) ==
    /\ gw.phase = "idle"
    /\ gw.next < MaxGatewayCalls
    /\ Relayed(line, gw.next) # None
    /\ main # "exited"
    /\ \E c \in Conns :
          /\ \/ /\ conn[c].phase = "closed"
                /\ Become(c, [Closed EXCEPT !.phase = "queued", !.client = "gateway",
                                           !.inbox = Relayed(line, gw.next + 1)])
             \/ /\ conn[c].client = "gone"
                /\ Become(c, [conn[c] EXCEPT !.client = "gateway",
                                            !.inbox = Relayed(line, gw.next + 1)])
          /\ gw' = [gw EXCEPT !.phase = "waiting", !.conn = c, !.line = line,
                              !.next = @ + 1, !.reply = None]
    /\ UNCHANGED <<world, live, acceptor, main, quota, executed>>

\* BrokerClient::call up to the read: connect and write the frame.
GatewayCalls(line) ==
    /\ gw.phase = "idle"
    /\ gw.next < MaxGatewayCalls
    /\ Relayed(line, gw.next) # None
    /\ main # "exited"
    /\ \E c \in Conns :
          /\ conn[c].phase = "closed"
          /\ Become(c, [Closed EXCEPT !.phase = "queued", !.client = "gateway",
                                     !.inbox = Relayed(line, gw.next + 1)])
          /\ gw' = [gw EXCEPT !.phase = "waiting", !.conn = c, !.line = line,
                              !.next = @ + 1, !.reply = None]
    /\ UNCHANGED <<world, live, acceptor, main, quota, executed>>

\* connect fails: the socket is gone.
GatewayRefused(line) ==
    /\ gw.phase = "idle"
    /\ gw.next < MaxGatewayCalls
    /\ Relayed(line, gw.next) # None
    /\ main = "exited"
    /\ gw' = [gw EXCEPT !.line = line, !.next = @ + 1,
                        !.reply = Reply("unreachable", None)]
    /\ UNCHANGED <<world, process, quota, executed>>

\* The stream is dropped when call returns.
DropStream ==
    conn' = IF conn[gw.conn].client = "gateway"
            THEN [conn EXCEPT ![gw.conn].client = "gone"] ELSE conn

\* The answer is relayed as it is; its id is not looked at.  A result must
\* be that of the operation called.
GatewayReceives ==
    /\ gw.phase = "waiting"
    /\ gw.inbox # None
    /\ gw' = [gw EXCEPT !.phase = "idle", !.conn = None, !.inbox = None,
                        !.reply = Reply(IF /\ gw.inbox.code = "ok"
                                           /\ gw.inbox.op = Relayed(gw.line, 0).op
                                        THEN "result" ELSE "refused", gw.inbox)]
    /\ DropStream
    /\ UNCHANGED <<world, live, acceptor, main, quota, executed>>

\* BROKER_TIMEOUT has passed, or the stream has ended.
GatewayGivesUp ==
    /\ gw.phase = "waiting"
    /\ gw.inbox = None
    /\ gw' = [gw EXCEPT !.phase = "idle", !.conn = None,
                        !.reply = Reply("unreachable", None)]
    /\ DropStream
    /\ UNCHANGED <<world, live, acceptor, main, quota, executed>>

Gateway ==
    \/ \E line \in Lines : GatewayAnswers(line) \/ GatewayCalls(line) \/ GatewayRefused(line)
    \/ GatewayReceives
    \/ GatewayGivesUp

---------------------------------------------------------------------------
Next ==
    \/ ClockMoves \/ ManifestEdited \/ PeerConnects
    \/ \E c \in Conns : Accept(c) \/ ThreadStep(c)
    \/ AcceptorStops \/ AcceptorJoins
    \/ Terminate \/ ExitJoined \/ ExitAtDeadline
    \/ Gateway

\* Threads are scheduled, and none waits for ever: a read ends with the read
\* timeout, a write with the write timeout, the shutdown with its deadline,
\* the gateway's wait with BROKER_TIMEOUT.  Peers, operators, the clock and
\* the signal owe nothing.
Fairness ==
    /\ \A c \in Conns : WF_vars(ThreadStep(c))
    /\ WF_vars(AcceptorStops) /\ WF_vars(AcceptorJoins)
    /\ WF_vars(ExitJoined) /\ WF_vars(ExitAtDeadline)
    /\ WF_vars(GatewayReceives) /\ WF_vars(GatewayGivesUp)

Spec == Init /\ [][Next]_vars /\ Fairness

---------------------------------------------------------------------------
\* Properties.

Requests == Frames \cup {Relayed(line, id) : line \in Lines, id \in 1..MaxGatewayCalls}

TypeOK ==
    /\ clock \in Days
    /\ manifests \in [Refs -> Manifests \cup {Unusable}]
    /\ \A c \in Conns :
          /\ conn[c].phase \in Threads \cup {"closed", "queued"}
          /\ conn[c].client \in {None, "peer", "stranger", "gateway", "gone"}
          /\ conn[c].inbox \in {None} \cup Requests
          /\ conn[c].served \in 0..MaxRequests
          /\ conn[c].phase \in {"loading", "admitting", "executing"} =>
                 conn[c].call \in Requests /\ conn[c].agent \in {Tokens[t] : t \in DOMAIN Tokens}
          /\ conn[c].phase \in {"admitting", "executing"} => conn[c].manifest \in Manifests
          /\ conn[c].phase \in {"admitting", "executing"} => conn[c].today \in Days
          /\ conn[c].phase = "answering" => conn[c].answer \in Answers
    /\ acceptor \in {"polling", "joining", "done"}
    /\ main \in {"serving", "stopping", "exited"}
    /\ gw.next \in 0..MaxGatewayCalls
    /\ gw.inbox \in {None} \cup Answers
    /\ windows \in [Agents -> [day : Days, used : Nat]]
    /\ spent \in [Agents -> [Days -> Nat]]
    /\ executed \in [Agents -> [Days -> Nat]]

\* BudgetKept: in one day window an agent has at most as many calls admitted
\* as the most generous manifest allows, however the threads of its
\* concurrent calls, a manifest edit and a clock that jumps either way
\* interleave between reading the day and taking the lock.
\* (broker/src/quota.rs try_admit)
BudgetKept ==
    \A a \in Agents, d \in Days : \E m \in Manifests :
        m.calls_per_day = NoCeiling \/ spent[a][d] <= m.calls_per_day

\* RefusedCallsAreFree: while the broker runs, what an agent has been
\* charged on a day is what was executed for it on that day's budget plus
\* what is about to be: no call that a stage, the quota included, refused
\* costs anything, none is executed that was not charged, and none charged
\* twice. (broker/src/policy.rs evaluate, quota.rs try_admit)
RefusedCallsAreFree ==
    main # "exited" =>
        \A a \in Agents, d \in Days :
            spent[a][d] = executed[a][d] + Cardinality({c \in Conns :
                /\ conn[c].phase = "executing"
                /\ conn[c].agent.agent = a /\ conn[c].today = d})

\* RunAsJudged: an operation that is about to run, or has returned a
\* result, is one that the manifest it is bound to permits by the reference
\* definition, although the manifest on disk may have changed since it was
\* loaded, and is damaged or stricter by the time the result goes out.
\* (broker/src/dispatch.rs execute_v2, policy.rs evaluate)
RunAsJudged ==
    \A c \in Conns :
        LET op == IF conn[c].phase = "executing" THEN conn[c].call.op ELSE conn[c].answer.op
        IN  \/ conn[c].phase = "executing"
            \/ conn[c].phase = "answering" /\ conn[c].answer.code = "ok"
            => /\ semantic_checks(conn[c].manifest)
               /\ Permits(conn[c].manifest, HostVector, describe_call(op))

\* SlotsMatch: the accept loop's counter is the number of connection
\* threads, and there are never more than the limit, through dropped
\* streams, threads that fail to start and every way a connection ends.
\* (broker/src/server.rs accept_loop, spawn_connection)
SlotsMatch ==
    /\ live = Cardinality({c \in Conns : HasThread(c)})
    /\ live <= MaxConnections

\* AnswerIsMine: what the gateway reports as a result is the answer to the
\* very request it last sent, also after an earlier call timed out whose
\* answer came late; it never compares ids, so this rests on the stream
\* being dropped with the call. (gw/src/client.rs call, session.rs)
AnswerIsMine ==
    gw.reply # None /\ gw.reply.kind \in {"result", "refused"} /\ gw.reply.answer # None =>
        gw.reply.answer.id \in {None, gw.next}

\* SlotsComeBack: no connection keeps its thread for ever, except one whose
\* peer keeps sending zero-length frames, which the request limit does not
\* count. (broker/src/server.rs serve_connection)
SlotsComeBack ==
    \A c \in Conns : []<>(~HasThread(c)) \/ []<><<ReadZeroLength(c)>>_vars

\* StopsInTime: once the signal has arrived the process exits, even if a
\* connection never ends and the accept thread waits for it.
\* (broker/src/server.rs shutdown)
StopsInTime == main = "stopping" ~> main = "exited"

=============================================================================
