--------------------------- MODULE WatchdogSession --------------------------
(***************************************************************************)
(* The watchdog's RPC server and its session protocol, with the brokers on *)
(* the other side of the socket (watchdogd/src/rpc/{server,protocol}.rs,   *)
(* session.rs, peercred.rs, worker_group_tag.rs, broker/src/watchdog/      *)
(* client.rs).                                                             *)
(*                                                                         *)
(* serve_one takes one connection through bind, one request and its        *)
(* answer; an error at any point closes the stream and says nothing.  Who  *)
(* calls it, and how often, is left open: in the repository only a test    *)
(* does.  A client may keep its stream for as long as it likes.  What      *)
(* a handler does to the store is WatchdogCore's subject: here the store   *)
(* is the epoch high-water and the grant of WatchdogAuthority, and a       *)
(* handler may accept, refuse or fail.                                     *)
(***************************************************************************)
EXTENDS Integers, FiniteSets, Sequences

CONSTANTS
    Clients,
    Binds,        \* what clients ask for: tx, lease and worker_group_tag,
                  \* and whether the peer has the broker's uid and gid
    Kinds,        \* kinds of decision
    MAX_TAG,      \* i32::MAX
    MaxSessions,  \* bound: clients stop connecting after that many sessions
    MaxRequests,  \* bound: request frames composed
    None

\* Sessions and epochs are counted from one.
Sessions == 0..MaxSessions + Cardinality(Clients)
Epochs   == 0..MaxSessions + 1

Txs      == {b.tx : b \in Binds}
Bindings == [tx : Txs, epoch : Epochs, lease : {b.lease : b \in Binds}, tag : 2..MAX_TAG]
Grants   == [binding : Bindings, chosen : Kinds \cup {None}]

\* What establishes a session: SessionEstablished.
Tickets  == [capability : Nat, tx : Txs, epoch : Epochs]

ASSUME BindsAssumption  == \A b \in Binds : b.tag \in Int
ASSUME BoundsAssumption == MAX_TAG \in Nat /\ MaxSessions \in Nat /\ MaxRequests \in Nat
ASSUME ClientsAssumption == IsFiniteSet(Clients)
ASSUME KindsAssumption  == Kinds \cap {"armed", "renewed", None} = {}
ASSUME NoneAssumption   == None \notin Bindings \cup Grants \cup Tickets

VARIABLES
    \* the store
    highWater,    \* epoch/high-water.json
    grant,        \* the armed binding with its decision, None before
    \* the process
    up,
    safeMode,
    binding,      \* durable_binding
    server,       \* where serve_one is, and the session it holds
    minted,       \* capabilities drawn from the entropy source so far
    \* the sockets
    stream,       \* one per client
    \* history
    sent,         \* request envelopes that were ever on the wire
    handled,      \* the envelopes given to handle_request, in order
    opened,       \* the bindings of the sessions this process established
    told          \* the answers clients accepted

store   == <<highWater, grant>>
core    == <<store, safeMode, binding, minted>>
history == <<sent, handled, opened, told>>
vars    == <<core, up, server, stream, history>>

\* A stream: its end on the client, what travels on it, and the session and
\* request the client remembers.
Closed == [phase |-> "closed", bind |-> None, frame |-> None, established |-> None,
           answer |-> None, request |-> None]

AtRest == [phase |-> "accepting", client |-> None, session |-> None, counter |-> 0,
           envelope |-> None, answer |-> None]

Init ==
    /\ highWater = 0 /\ grant = None
    /\ up = TRUE /\ safeMode = FALSE /\ binding = None
    /\ server = AtRest /\ minted = 0
    /\ stream = [c \in Clients |-> Closed]
    /\ sent = {} /\ handled = <<>> /\ opened = {} /\ told = {}

---------------------------------------------------------------------------
\* The client.  bootstrap_session sends one SessionBind; a caller then sends
\* one authenticated request on the session and decodes the answer.  A peer
\* may also stay silent (bind None), send a frame it has recorded, or go.

\* For a fresh transaction the epoch in the bind is not looked at; a
\* reconnect presents the epoch it was given.
ClientConnects(c, bind, epoch) ==
    /\ up
    /\ stream[c].phase = "closed"
    /\ minted < MaxSessions
    /\ stream' = [stream EXCEPT ![c] = [Closed EXCEPT !.phase = "queued",
          !.bind = IF bind = None THEN None
                   ELSE [tx |-> bind.tx, lease |-> bind.lease, tag |-> bind.tag,
                         epoch |-> epoch, broker |-> bind.broker]]]
    /\ UNCHANGED <<core, up, server, history>>

\* encode_request: the envelope repeats what was established, counter 1.
Envelope(established, rid, kind) ==
    [capability |-> established.capability, counter |-> 1, request_id |-> rid,
     tx |-> established.tx, epoch |-> established.epoch, kind |-> kind]

Established(c) == stream[c].established # None /\ stream[c].frame = None
                     /\ stream[c].request = None

ClientRequests(c, kind) ==
    /\ Established(c)
    /\ Cardinality(sent) < MaxRequests
    /\ LET envelope == Envelope(stream[c].established, Cardinality(sent) + 1, kind)
       IN  /\ sent' = sent \cup {envelope}
           /\ stream' = [stream EXCEPT ![c].frame = envelope, ![c].request = envelope]
    /\ UNCHANGED <<core, up, server, handled, opened, told>>

ClientReplays(c, envelope) ==
    /\ Established(c)
    /\ stream' = [stream EXCEPT ![c].frame = envelope, ![c].request = envelope]
    /\ UNCHANGED <<core, up, server, history>>

\* decode_response: capability, counter, ids and binding must all be those of
\* the request.
ClientAccepts(c) ==
    LET a == stream[c].answer
        r == stream[c].request
    IN  /\ a # None
        /\ a.envelope = r /\ a.envelope.capability = stream[c].established.capability
        /\ told' = told \cup {[envelope |-> r, result |-> a.result]}
        /\ stream' = [stream EXCEPT ![c] = Closed]
        /\ UNCHANGED <<core, up, server, sent, handled, opened>>

\* The client closes its end, whatever it was waiting for.
ClientLeaves(c) ==
    /\ stream[c].phase # "closed"
    /\ stream' = [stream EXCEPT ![c] = Closed]
    /\ UNCHANGED <<core, up, server, history>>

---------------------------------------------------------------------------
\* serve_one.

\* Mutant: 1, the process group of init, is let through.
TagNonZero(tag) == tag \in 1..MAX_TAG

\* WorkerGroupTag::try_from_raw.
TagAccepted(tag) == tag \in 2..MAX_TAG

Serving(phase) == up /\ server.phase = phase

\* Whether the client of this connection is still there.
Connected == stream[server.client].phase = "served"

Hangup == IF Connected THEN [stream EXCEPT ![server.client] = Closed] ELSE stream

ServeAccept(c) ==
    /\ Serving("accepting")
    /\ stream[c].phase = "queued"
    /\ server' = [AtRest EXCEPT !.phase = "binding", !.client = c]
    /\ stream' = [stream EXCEPT ![c].phase = "served"]
    /\ UNCHANGED <<core, up, history>>

\* An error of any kind: the stream is dropped, serve_one returns.
Drop ==
    /\ server' = AtRest
    /\ stream' = Hangup

\* Mutant: no timeout is set on the stream.
ServeHangsUp ==
    /\ up /\ server.phase \in {"binding", "requesting"}
    /\ ~Connected
    /\ Drop
    /\ UNCHANGED <<core, up, history>>

\* The peer has gone, or sends nothing for SOCKET_IO_TIMEOUT.
ServeTimesOut ==
    /\ up /\ server.phase \in {"binding", "requesting"}
    /\ \/ ~Connected
       \/ server.phase = "binding" /\ stream[server.client].bind = None
       \/ server.phase = "requesting" /\ stream[server.client].frame = None
    /\ Drop
    /\ UNCHANGED <<core, up, history>>

\* normalize_session_bind: without a binding the watchdog issues the epoch.
Normalized(bind) ==
    IF binding # None THEN bind ELSE [bind EXCEPT !.epoch = highWater + 1]

Identity(bind) ==
    [tx |-> bind.tx, epoch |-> bind.epoch, lease |-> bind.lease, tag |-> bind.tag]

\* Mutant: only the transaction of a reconnect is compared.
MatchesTx(bind) == binding # None => bind.tx = binding.tx

\* StaleReconnect unless the bind is exactly the binding there is.
MatchesBinding(bind) == binding # None => Identity(bind) = binding

BindAccepted(bind) ==
    /\ TagAccepted(bind.tag)
    /\ ~safeMode
    /\ bind.broker
    /\ MatchesBinding(Normalized(bind))

\* Mutant: the capability comes from the peer credentials alone.
DeriveFromPeer == 0

\* derive_capability: 32 fresh bytes, never drawn twice.
derive_capability == minted + 1

\* The session is bound before the client hears of it; if the client has gone
\* the binding stays.
ServeBind ==
    LET bind == Normalized(stream[server.client].bind)
        established == [capability |-> derive_capability, tx |-> bind.tx,
                        epoch |-> bind.epoch]
    IN  /\ Serving("binding")
        /\ Connected /\ stream[server.client].bind # None
        /\ BindAccepted(stream[server.client].bind)
        /\ minted' = minted + 1
        /\ binding' = Identity(bind)
        /\ opened' = opened \cup {Identity(bind)}
        /\ server' = [server EXCEPT !.phase = "requesting", !.session = established]
        /\ stream' = [stream EXCEPT ![server.client].established = established]
        /\ UNCHANGED <<store, safeMode, up, sent, handled, told>>

ServeBindRefused ==
    /\ Serving("binding")
    /\ Connected /\ stream[server.client].bind # None
    /\ ~BindAccepted(stream[server.client].bind)
    /\ Drop
    /\ UNCHANGED <<core, up, history>>

\* verify_authenticated: capability, next counter, host, transaction, epoch.
verify_authenticated(envelope) ==
    /\ envelope.capability = server.session.capability
    /\ envelope.counter # 0
    /\ envelope.counter = server.counter + 1
    /\ envelope.tx = server.session.tx /\ envelope.epoch = server.session.epoch

\* decode_request advances the counter before the handler runs.
ServeRequestVerified ==
    LET envelope == stream[server.client].frame
    IN  /\ Serving("requesting")
        /\ Connected /\ envelope # None
        /\ verify_authenticated(envelope)
        /\ server' = [server EXCEPT !.phase = "handling", !.counter = envelope.counter,
                                    !.envelope = envelope]
        /\ UNCHANGED <<core, up, stream, history>>

ServeRequestRefused ==
    /\ Serving("requesting")
    /\ Connected /\ stream[server.client].frame # None
    /\ ~verify_authenticated(stream[server.client].frame)
    /\ Drop
    /\ UNCHANGED <<core, up, history>>

---------------------------------------------------------------------------
\* The handlers as WatchdogAuthority describes them: arming grants once,
\* the decision is chosen once, renewal and health change nothing here.

ArmAllowed(e) ==
    grant = None /\ e.epoch = binding.epoch /\ e.epoch = highWater + 1

Grant == [binding |-> binding, chosen |-> None]

\* Mutant: a decision is answered although its record was not written.
AcceptedUnwritten(e, result) ==
    \/ /\ e.kind = "arm" /\ result = "armed"
       /\ ArmAllowed(e)
       /\ highWater' = highWater + 1
       /\ grant' = Grant
    \/ /\ e.kind = "decide" /\ result \in Kinds
       /\ grant # None /\ grant.chosen = None
       /\ UNCHANGED store

\* What the request may leave in the store, and the answer that stands for it.
Accepted(e, result) ==
    \/ /\ e.kind = "arm" /\ result = "armed"
       /\ ArmAllowed(e)
       /\ highWater' = highWater + 1
       /\ grant' = Grant
    \/ /\ e.kind = "renew" /\ result = "renewed"
       /\ grant # None /\ grant.chosen = None
       /\ UNCHANGED store
    \/ /\ e.kind = "decide" /\ result \in Kinds
       /\ grant # None /\ grant.chosen = None
       /\ grant' = [grant EXCEPT !.chosen = result]
       /\ UNCHANGED highWater

ServeHandled ==
    /\ Serving("handling") /\ ~safeMode
    /\ \E result \in Kinds \cup {"armed", "renewed"} :
          /\ Accepted(server.envelope, result)
          /\ server' = [server EXCEPT !.phase = "answering",
                                      !.answer = [envelope |-> server.envelope,
                                                  result |-> result]]
    /\ handled' = Append(handled, server.envelope)
    /\ UNCHANGED <<up, safeMode, binding, minted, stream, sent, opened, told>>

\* A refusal for any reason of the handler's leaves the store alone.
ServeHandlerRefuses ==
    /\ Serving("handling")
    /\ handled' = Append(handled, server.envelope)
    /\ Drop
    /\ UNCHANGED <<core, up, sent, opened, told>>

\* A durable step fails: what it was to write may be there or not, and safe
\* mode is latched.
ServeHandlerFails ==
    /\ Serving("handling") /\ ~safeMode
    /\ \/ /\ server.envelope.kind = "arm" /\ ArmAllowed(server.envelope)
          /\ highWater' \in {highWater, highWater + 1}
          /\ grant' \in {None} \cup (IF highWater' # highWater THEN {Grant} ELSE {})
       \/ /\ server.envelope.kind = "decide" /\ grant # None /\ grant.chosen = None
          /\ grant' \in {grant} \cup {[grant EXCEPT !.chosen = k] : k \in Kinds}
          /\ UNCHANGED highWater
       \/ /\ server.envelope.kind = "renew" /\ grant # None /\ grant.chosen = None
          /\ UNCHANGED store
    /\ safeMode' = TRUE
    /\ handled' = Append(handled, server.envelope)
    /\ Drop
    /\ UNCHANGED <<up, binding, minted, sent, opened, told>>

\* The answer is written, or the client has gone and it is lost.
ServeAnswers ==
    /\ Serving("answering")
    /\ server' = AtRest
    /\ stream' = IF Connected
                 THEN [stream EXCEPT ![server.client].answer = server.answer]
                 ELSE stream
    /\ UNCHANGED <<core, up, history>>

---------------------------------------------------------------------------
\* The process dies at any point and may be started again; a safe-mode marker
\* keeps it down.  Capabilities and streams die with it, the binding is
\* rebuilt from the log.

Crash ==
    /\ up
    /\ up' = FALSE /\ safeMode' = FALSE /\ binding' = None
    /\ server' = AtRest /\ opened' = {}
    /\ stream' = [c \in Clients |->
                     IF stream[c].phase = "served" /\ stream[c].answer # None
                     THEN stream[c] ELSE Closed]
    /\ UNCHANGED <<store, minted, sent, handled, told>>

Restart ==
    /\ ~up
    /\ up' = TRUE
    /\ binding' = IF grant = None THEN None ELSE grant.binding
    /\ UNCHANGED <<store, safeMode, minted, server, stream, history>>

---------------------------------------------------------------------------
Client(c) ==
    \/ \E bind \in Binds \cup {None}, epoch \in 0..highWater + 1 :
          ClientConnects(c, bind, epoch)
    \/ \E kind \in {"arm", "renew", "decide"} : ClientRequests(c, kind)
    \/ \E envelope \in sent : ClientReplays(c, envelope)
    \/ ClientAccepts(c) \/ ClientLeaves(c)

Serve ==
    \/ \E c \in Clients : ServeAccept(c)
    \/ ServeTimesOut \/ ServeBind \/ ServeBindRefused
    \/ ServeRequestVerified \/ ServeRequestRefused
    \/ ServeHandled \/ ServeHandlerRefuses \/ ServeHandlerFails \/ ServeAnswers

Next == (\E c \in Clients : Client(c)) \/ Serve \/ Crash \/ Restart

\* A call of serve_one goes on: its reads and writes end with
\* SOCKET_IO_TIMEOUT, its handlers return.  Nothing says it is called again.
Fairness ==
    /\ WF_vars(ServeTimesOut) /\ WF_vars(ServeBind \/ ServeBindRefused)
    /\ WF_vars(ServeRequestVerified \/ ServeRequestRefused)
    /\ WF_vars(ServeHandled \/ ServeHandlerRefuses \/ ServeHandlerFails)
    /\ WF_vars(ServeAnswers)

Spec == Init /\ [][Next]_vars /\ Fairness

---------------------------------------------------------------------------
\* Properties.

TypeOK ==
    /\ highWater \in Epochs /\ minted \in Sessions
    /\ up \in BOOLEAN /\ safeMode \in BOOLEAN
    /\ binding = None \/ binding \in Bindings
    /\ grant # None => grant.binding \in Bindings /\ grant.chosen \in Kinds \cup {None}
    /\ server.phase \in {"accepting", "binding", "requesting", "handling", "answering"}
    /\ server.phase # "accepting" => server.client \in Clients
    /\ \A c \in Clients : stream[c].phase \in {"closed", "queued", "served"}

\* HandledOnce: no request frame reaches a handler twice, although clients
\* reconnect to the same binding after a lost answer or a restart, every
\* session counts from one again, and a recorded frame may be sent on any of
\* them. (watchdogd/src/session.rs try_bind_with_cred, verify_authenticated)
HandledOnce ==
    \A i, j \in DOMAIN handled : handled[i] = handled[j] => i = j

\* OneBindingPerProcess: all sessions a watchdog process has established are
\* of one transaction, epoch, lease and tag, and once authority is granted
\* they are of its owner, also after a restart.
\* (watchdogd/src/core.rs bind_with_stream_cred, normalize_session_bind)
OneBindingPerProcess ==
    /\ Cardinality(opened) <= 1
    /\ grant # None => opened \subseteq {grant.binding}

\* AckedSurvives: an answer that a client accepted stays true through lost
\* answers, failed handlers, crashes and restarts: the authority it names is
\* granted to its transaction and epoch, the decision it names is the one.
\* (watchdogd/src/rpc/server.rs serve_one, rpc/protocol.rs decode_response)
AckedSurvives ==
    \A t \in told :
        /\ grant # None
        /\ grant.binding.tx = t.envelope.tx /\ grant.binding.epoch = t.envelope.epoch
        /\ t.result \in Kinds => grant.chosen = t.result

\* ServeEnds: a call of serve_one that has taken a connection returns, with
\* the next connection still to be taken, whatever its peer does: stay silent,
\* send half of the exchange, leave at any point, or never read its answer.
\* (watchdogd/src/rpc/server.rs serve_one)
ServeEnds == server.phase # "accepting" ~> server.phase = "accepting"

=============================================================================
