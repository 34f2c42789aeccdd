----------------------- MODULE WatchdogSessionProofs ------------------------
(***************************************************************************)
(* Proofs about WatchdogSession for any clients, binds, kinds of decision  *)
(* and bounds.                                                             *)
(***************************************************************************)
EXTENDS WatchdogSession, FiniteSetTheorems, TLAPS

Envelopes == [capability : Nat, counter : Nat, request_id : Nat, tx : Txs,
              epoch : Epochs, kind : {"arm", "renew", "decide"}]
AnswerSet == [envelope : Envelopes, result : Kinds \cup {"armed", "renewed"}]
BindSet   == [tx : Txs, lease : {b.lease : b \in Binds}, tag : Int, epoch : Epochs,
              broker : {b.broker : b \in Binds}]

StreamSet ==
    [phase : {"closed", "queued", "served"}, bind : BindSet \cup {None},
     frame : Envelopes \cup {None}, established : Tickets \cup {None},
     answer : AnswerSet \cup {None}, request : Envelopes \cup {None}]

ServerSet ==
    [phase : {"accepting", "binding", "requesting", "handling", "answering"},
     client : Clients \cup {None}, session : Tickets \cup {None}, counter : Nat,
     envelope : Envelopes \cup {None}, answer : AnswerSet \cup {None}]

TypeInv ==
    /\ highWater \in 0..MaxSessions /\ minted \in Nat
    /\ up \in BOOLEAN /\ safeMode \in BOOLEAN
    /\ binding \in Bindings \cup {None} /\ grant \in Grants \cup {None}
    /\ server \in ServerSet
    /\ stream \in [Clients -> StreamSet]
    /\ sent \subseteq Envelopes /\ IsFiniteSet(sent)
    /\ handled \in Seq(Envelopes)
    /\ opened \subseteq Bindings /\ told \subseteq AnswerSet

\* The phases in which serve_one has a session, and those in which its
\* request was not handled yet.
InSession == {"requesting", "handling", "answering"}
Unhandled == {"requesting", "handling"}

\* The session serve_one holds is of the binding there is, a request being
\* handled is of that session, and a process that is down has neither.
ServerInv ==
    /\ server.phase # "accepting" => up /\ server.client \in Clients
    /\ server.phase \in InSession =>
          /\ binding # None /\ server.session # None
          /\ server.session.tx = binding.tx /\ server.session.epoch = binding.epoch
    /\ server.phase = "handling" =>
          /\ server.envelope # None
          /\ server.envelope.capability = server.session.capability
          /\ server.envelope.tx = server.session.tx
          /\ server.envelope.epoch = server.session.epoch
    /\ server.phase = "answering" => server.answer \in AnswerSet

\* A running process knows the grant there is, and every session it has
\* opened is of its binding.
BindingInv ==
    /\ up /\ grant # None => binding = grant.binding
    /\ opened # {} => up /\ binding # None /\ opened = {binding}

\* The session that may still hand a request on has the newest capability,
\* and what was handled before came with an older one.
OnceInv ==
    /\ HandledOnce
    /\ server.phase \in Unhandled => server.session.capability = minted
    /\ \A i \in DOMAIN handled :
          /\ handled[i].capability <= minted
          /\ server.phase \in Unhandled => handled[i].capability < minted

\* What the answer a says is so.
Stands(a) ==
    /\ grant # None
    /\ grant.binding.tx = a.envelope.tx /\ grant.binding.epoch = a.envelope.epoch
    /\ a.result \in Kinds => grant.chosen = a.result

\* An answer is true from the moment it is composed.
AnswerInv ==
    /\ server.phase = "answering" => Stands(server.answer)
    /\ \A c \in Clients : stream[c].answer # None => Stands(stream[c].answer)
    /\ \A t \in told : Stands(t)

\* An epoch is used up with a session of its own, and as long as one may
\* still be used up there is room for it below the bound.
RoomInv ==
    /\ highWater <= minted
    /\ grant = None /\ ~safeMode =>
          /\ server.phase # "accepting" => highWater < MaxSessions
          /\ server.phase \in Unhandled => highWater < minted
          /\ \A c \in Clients : stream[c].phase = "queued" => highWater < MaxSessions

\* The clients that may still be given a session.
Pending == {c \in Clients : \/ stream[c].phase = "queued"
                            \/ stream[c].phase = "served" /\ stream[c].established = None}

\* A stream has no session before it is served, nor while serve_one has yet
\* to bind it.
FreshStreams ==
    \A c \in Clients :
        stream[c].phase \in {"closed", "queued"} => stream[c].established = None
FreshServed ==
    server.phase = "binding" /\ Connected => stream[server.client].established = None

PendingInv ==
    /\ minted + Cardinality(Pending) <= MaxSessions + Cardinality(Clients)
    /\ FreshStreams /\ FreshServed

Inv == TypeInv /\ ServerInv /\ BindingInv /\ OnceInv /\ AnswerInv /\ RoomInv /\ PendingInv

-----------------------------------------------------------------------------
\* The idle server and a closed stream.
LEMMA RestFacts ==
    /\ AtRest \in ServerSet /\ AtRest.phase = "accepting"
    /\ Closed \in StreamSet /\ Closed.phase = "closed"
    /\ Closed.answer = None /\ Closed.established = None
  BY DEF AtRest, Closed, ServerSet, StreamSet

\* serve_one hangs up: at most its own stream is closed.
LEMMA HangupFacts ==
  ASSUME TypeInv, stream' = Hangup
  PROVE  /\ stream' \in [Clients -> StreamSet]
         /\ \A c \in Clients : stream'[c] = stream[c] \/ stream'[c] = Closed
  BY RestFacts DEF Hangup, TypeInv

\* The invariant holds at the beginning.
LEMMA InitInv == Init => Inv
<1> SUFFICES ASSUME Init PROVE Inv
  OBVIOUS
<1>1. TypeInv
  <2>1. stream \in [Clients -> StreamSet] /\ server \in ServerSet
    BY RestFacts DEF Init
  <2>2. handled \in Seq(Envelopes) /\ sent \subseteq Envelopes /\ IsFiniteSet(sent)
    BY FS_EmptySet DEF Init
  <2>3. highWater \in 0..MaxSessions /\ minted \in Nat
    BY BoundsAssumption DEF Init
  <2>4. opened \subseteq Bindings /\ told \subseteq AnswerSet
    BY DEF Init
  <2> QED BY <2>1, <2>2, <2>3, <2>4 DEF Init, TypeInv
<1>2. ServerInv /\ BindingInv /\ OnceInv /\ AnswerInv /\ RoomInv
  BY RestFacts, BoundsAssumption
     DEF Init, ServerInv, InSession, Unhandled, BindingInv, OnceInv, HandledOnce, AnswerInv, RoomInv
<1>3. Pending = {} /\ Cardinality(Pending) = 0
  BY RestFacts, FS_EmptySet DEF Init, Pending
<1>4. Cardinality(Clients) \in Nat
  BY ClientsAssumption, FS_CardinalityType
<1>5. PendingInv
  BY <1>3, <1>4, RestFacts, BoundsAssumption
     DEF Init, PendingInv, FreshStreams, FreshServed
<1> QED BY <1>1, <1>2, <1>5 DEF Inv

-----------------------------------------------------------------------------
\* ServeBind gives a fresh ticket for the binding there is, or for the one it
\* makes.
LEMMA BindFacts ==
  ASSUME Inv, ServeBind
  PROVE  \E b \in Bindings, k \in Tickets :
            /\ binding' = b /\ (binding # None => b = binding)
            /\ k.capability = minted + 1 /\ k.tx = b.tx /\ k.epoch = b.epoch
            /\ server' = [server EXCEPT !.phase = "requesting", !.session = k]
            /\ stream' = [stream EXCEPT ![server.client].established = k]
<1> DEFINE bind == stream[server.client].bind
           b    == Identity(Normalized(bind))
           k    == [capability |-> minted + 1, tx |-> b.tx, epoch |-> b.epoch]
<1>1. server.client \in Clients /\ bind \in BindSet /\ BindAccepted(bind)
  BY DEF ServeBind, Serving, Inv, ServerInv, TypeInv, StreamSet
<1>2. b \in Bindings
  <2>1. Normalized(bind) \in BindSet /\ Normalized(bind).tag = bind.tag
    BY <1>1, BoundsAssumption DEF Normalized, BindSet, Epochs, Inv, TypeInv
  <2>2. bind.tag \in 2..MAX_TAG
    BY <1>1 DEF BindAccepted, TagAccepted
  <2> QED BY <2>1, <2>2 DEF Identity, BindSet, Bindings
<1>3. binding # None => b = binding
  BY <1>1 DEF BindAccepted, MatchesBinding
<1>4. b.tx = Normalized(bind).tx /\ b.epoch = Normalized(bind).epoch
  BY DEF Identity
<1>5. k \in Tickets
  BY <1>2 DEF Tickets, Bindings, Inv, TypeInv
<1>6. /\ binding' = b
      /\ server' = [server EXCEPT !.phase = "requesting", !.session = k]
      /\ stream' = [stream EXCEPT ![server.client].established = k]
  BY <1>4 DEF ServeBind, derive_capability
<1> HIDE DEF b
<1> QED BY <1>2, <1>3, <1>5, <1>6

\* What a step may do to the grant: make it for the binding there is, and
\* choose.
GrantKept ==
    /\ grant' \in Grants \cup {None}
    /\ grant # None => /\ grant' # None /\ grant'.binding = grant.binding
                       /\ grant.chosen # None => grant'.chosen = grant.chosen
    /\ up /\ grant' # None => grant'.binding = binding

\* Such a step leaves an answer true.
LEMMA StandsKept ==
  ASSUME GrantKept, NEW a, Stands(a)
  PROVE  /\ grant' # None
         /\ grant'.binding.tx = a.envelope.tx /\ grant'.binding.epoch = a.envelope.epoch
         /\ a.result \in Kinds => grant'.chosen = a.result
  BY KindsAssumption DEF GrantKept, Stands

\* The grant an arming leaves.
LEMMA GrantMade ==
  ASSUME Inv, server.phase = "handling"
  PROVE  /\ Grant \in Grants /\ Grant # None
         /\ Grant.binding = binding /\ Grant.chosen = None
<1>1. binding \in Bindings
  BY DEF Inv, TypeInv, ServerInv, InSession
<1>2. Grant \in Grants
  BY <1>1 DEF Grant, Grants
<1> QED BY <1>2, NoneAssumption DEF Grant

\* The grant the decision leaves.
LEMMA GrantDecided ==
  ASSUME NEW kind \in Kinds, grant \in Grants
  PROVE  LET new == [grant EXCEPT !.chosen = kind]
         IN  /\ new \in Grants /\ new # None
             /\ new.binding = grant.binding /\ new.chosen = kind
  BY NoneAssumption DEF Grants

\* A handled request is one of this session, its result stands, and a high
\* water is used up at most with the grant.
LEMMA HandledFacts ==
  ASSUME Inv, ServeHandled
  PROVE  /\ server.envelope \in Envelopes
         /\ GrantKept
         /\ highWater' = highWater \/ (grant = None /\ grant' # None /\ highWater' = highWater + 1)
         /\ \E a \in AnswerSet :
               /\ server' = [server EXCEPT !.phase = "answering", !.answer = a]
               /\ a.envelope = server.envelope
               /\ grant' # None
               /\ grant'.binding.tx = a.envelope.tx /\ grant'.binding.epoch = a.envelope.epoch
               /\ a.result \in Kinds => grant'.chosen = a.result
<1> DEFINE e == server.envelope
<1>0. server.phase = "handling" /\ up
  BY DEF ServeHandled, Serving
<1>1. /\ e \in Envelopes /\ binding \in Bindings
      /\ e.tx = binding.tx /\ e.epoch = binding.epoch
  BY <1>0 DEF Inv, TypeInv, ServerSet, ServerInv, InSession
<1>2. PICK result \in Kinds \cup {"armed", "renewed"} :
         /\ Accepted(e, result)
         /\ server' = [server EXCEPT !.phase = "answering",
                                     !.answer = [envelope |-> e, result |-> result]]
  BY DEF ServeHandled
<1>3. grant # None => grant \in Grants /\ grant.binding = binding
  BY <1>0 DEF Inv, TypeInv, BindingInv
<1>4. /\ GrantKept
      /\ highWater' = highWater \/ (grant = None /\ grant' # None /\ highWater' = highWater + 1)
      /\ grant' # None /\ grant'.binding = binding
      /\ result \in Kinds => grant'.chosen = result
  <2>1. CASE /\ e.kind = "arm" /\ result = "armed" /\ ArmAllowed(e)
             /\ highWater' = highWater + 1 /\ grant' = Grant
    BY <1>0, <2>1, GrantMade, KindsAssumption DEF ArmAllowed, GrantKept
  <2>2. CASE /\ e.kind = "renew" /\ result = "renewed"
             /\ grant # None /\ grant.chosen = None /\ UNCHANGED store
    BY <1>3, <2>2, KindsAssumption DEF GrantKept, store
  <2>3. CASE /\ e.kind = "decide" /\ result \in Kinds
             /\ grant # None /\ grant.chosen = None
             /\ grant' = [grant EXCEPT !.chosen = result] /\ UNCHANGED highWater
    BY <1>3, <2>3, GrantDecided DEF GrantKept
  <2> QED BY <1>2, <2>1, <2>2, <2>3 DEF Accepted
<1> DEFINE a == [envelope |-> e, result |-> result]
<1>5. a \in AnswerSet /\ a.envelope = e /\ a.result = result
  BY <1>1 DEF AnswerSet
<1>6. server' = [server EXCEPT !.phase = "answering", !.answer = a]
  BY <1>2
<1> HIDE DEF a
<1> QED BY <1>1, <1>4, <1>5, <1>6

\* A handler whose durable step fails leaves a grant as it was, or as the
\* step was to leave it.
LEMMA FailureFacts ==
  ASSUME Inv, ServeHandlerFails
  PROVE  /\ server.envelope \in Envelopes
         /\ GrantKept
         /\ highWater' \in {highWater, highWater + 1}
         /\ highWater' # highWater => grant = None
<1>0. server.phase = "handling" /\ up
  BY DEF ServeHandlerFails, Serving
<1>1. server.envelope \in Envelopes
  BY <1>0 DEF Inv, TypeInv, ServerSet, ServerInv
<1>2. grant # None => grant \in Grants /\ grant.binding = binding
  BY <1>0 DEF Inv, TypeInv, BindingInv
<1>3. CASE /\ ArmAllowed(server.envelope) /\ highWater' \in {highWater, highWater + 1}
           /\ grant' \in {None} \cup (IF highWater' # highWater THEN {Grant} ELSE {})
  BY <1>0, <1>1, <1>3, GrantMade DEF ArmAllowed, GrantKept
<1>4. CASE /\ grant # None /\ grant.chosen = None /\ UNCHANGED highWater
           /\ grant' \in {grant} \cup {[grant EXCEPT !.chosen = k] : k \in Kinds}
  <2>1. CASE grant' = grant
    BY <1>1, <1>2, <1>4, <2>1 DEF GrantKept
  <2>2. ASSUME NEW k \in Kinds, grant' = [grant EXCEPT !.chosen = k]
        PROVE  GrantKept
    BY <1>2, <1>4, <2>2, GrantDecided DEF GrantKept
  <2> QED BY <1>1, <1>4, <2>1, <2>2
<1>5. CASE grant # None /\ UNCHANGED store
  BY <1>1, <1>2, <1>5 DEF GrantKept, store
<1> QED BY <1>3, <1>4, <1>5 DEF ServeHandlerFails

-----------------------------------------------------------------------------
\* An envelope with a newer capability than all before it was not handled.
LEMMA OnceAppended ==
  ASSUME NEW e \in Envelopes, handled \in Seq(Envelopes), HandledOnce, minted \in Nat,
         \A i \in DOMAIN handled : handled[i].capability < minted,
         e.capability = minted, minted' = minted, handled' = Append(handled, e)
  PROVE  /\ HandledOnce'
         /\ \A i \in DOMAIN handled' : handled'[i].capability <= minted'
<1>1. \A i \in DOMAIN handled' : \/ i \in DOMAIN handled /\ handled'[i] = handled[i]
                                 \/ i = Len(handled) + 1 /\ handled'[i] = e
  OBVIOUS
<1>2. \A i \in DOMAIN handled : handled[i] \in Envelopes
  OBVIOUS
<1>3. \A i \in DOMAIN handled : handled[i].capability \in Nat
  BY <1>2 DEF Envelopes
<1>4. \A i \in DOMAIN handled : handled[i].capability # e.capability
  BY <1>3
<1>5. HandledOnce'
  BY <1>1, <1>4 DEF HandledOnce
<1>6. \A i \in DOMAIN handled' : handled'[i].capability <= minted'
  BY <1>1, <1>3
<1> QED BY <1>5, <1>6


-----------------------------------------------------------------------------
\* The clients that wait for a session are some of the clients.
LEMMA PendingBound ==
    /\ IsFiniteSet(Pending) /\ Cardinality(Pending) \in Nat
    /\ Cardinality(Pending) <= Cardinality(Clients)
    /\ IsFiniteSet(Pending') /\ Cardinality(Pending') \in Nat
    /\ Cardinality(Pending') <= Cardinality(Clients)
<1>1. Pending \subseteq Clients /\ Pending' \subseteq Clients
  BY DEF Pending
<1>2. IsFiniteSet(Pending) /\ Cardinality(Pending) <= Cardinality(Clients)
  BY <1>1, ClientsAssumption, FS_Subset
<1>3. IsFiniteSet(Pending') /\ Cardinality(Pending') <= Cardinality(Clients)
  BY <1>1, ClientsAssumption, FS_Subset
<1> QED BY <1>2, <1>3, FS_CardinalityType

\* A step after which no more clients wait and that draws no capability stays
\* within the bound.
LEMMA FewerPending ==
  ASSUME TypeInv, PendingInv, Pending' \subseteq Pending, minted' = minted
  PROVE  minted' + Cardinality(Pending') <= MaxSessions + Cardinality(Clients)
<1>1. Cardinality(Pending') <= Cardinality(Pending)
  BY PendingBound, FS_Subset
<1>2. Cardinality(Pending) \in Nat /\ Cardinality(Pending') \in Nat /\ Cardinality(Clients) \in Nat
  BY PendingBound, ClientsAssumption, FS_CardinalityType
<1> QED BY <1>1, <1>2, BoundsAssumption DEF TypeInv, PendingInv

-----------------------------------------------------------------------------
\* Every step keeps the types.
LEMMA TypeStep == Inv /\ [Next]_vars => TypeInv'
<1> SUFFICES ASSUME Inv, [Next]_vars PROVE TypeInv'
  OBVIOUS
<1> USE DEF Inv, core, store, history
<1>1. CASE UNCHANGED vars
  BY <1>1 DEF vars, TypeInv, ServerSet, StreamSet
<1>2. ASSUME NEW c \in Clients, NEW bind \in Binds \cup {None}, NEW epoch \in 0..highWater + 1,
             ClientConnects(c, bind, epoch)
      PROVE  TypeInv'
  <2> DEFINE new == [Closed EXCEPT !.phase = "queued",
                   !.bind = IF bind = None THEN None
                            ELSE [tx |-> bind.tx, lease |-> bind.lease, tag |-> bind.tag,
                                  epoch |-> epoch, broker |-> bind.broker]]
  <2>1. bind # None => [tx |-> bind.tx, lease |-> bind.lease, tag |-> bind.tag,
                        epoch |-> epoch, broker |-> bind.broker] \in BindSet
    BY BindsAssumption, BoundsAssumption DEF BindSet, Txs, Epochs, TypeInv
  <2>2. new \in StreamSet
    BY <2>1 DEF StreamSet, Closed
  <2>3. stream' = [stream EXCEPT ![c] = new]
    BY <1>2 DEF ClientConnects
  <2> HIDE DEF new
  <2> QED BY <1>2, <2>2, <2>3 DEF ClientConnects, TypeInv
<1>3. ASSUME NEW c \in Clients, NEW kind \in {"arm", "renew", "decide"},
             ClientRequests(c, kind)
      PROVE  TypeInv'
  <2> DEFINE envelope == Envelope(stream[c].established, Cardinality(sent) + 1, kind)
  <2>1. stream[c].established \in Tickets /\ Cardinality(sent) \in Nat
    BY <1>3, FS_CardinalityType DEF ClientRequests, Established, TypeInv, StreamSet
  <2>2. envelope \in Envelopes
    BY <2>1 DEF Envelope, Tickets, Envelopes
  <2>3. /\ sent' = sent \cup {envelope}
        /\ stream' = [stream EXCEPT ![c].frame = envelope, ![c].request = envelope]
    BY <1>3 DEF ClientRequests
  <2>4. IsFiniteSet(sent')
    BY <2>3, FS_AddElement DEF TypeInv
  <2> HIDE DEF envelope
  <2>5. stream' \in [Clients -> StreamSet]
    BY <2>2, <2>3 DEF TypeInv, StreamSet
  <2> QED BY <1>3, <2>2, <2>3, <2>4, <2>5 DEF ClientRequests, TypeInv
<1>4. ASSUME NEW c \in Clients, NEW envelope \in sent,
             ClientReplays(c, envelope)
      PROVE  TypeInv'
  <2>1. stream' \in [Clients -> StreamSet]
    BY <1>4 DEF ClientReplays, TypeInv, StreamSet
  <2> QED BY <1>4, <2>1 DEF ClientReplays, TypeInv
<1>5. ASSUME NEW c \in Clients, ClientAccepts(c) PROVE TypeInv'
  <2>1. stream[c].answer \in AnswerSet /\ stream[c].request = stream[c].answer.envelope
    BY <1>5 DEF ClientAccepts, TypeInv, StreamSet
  <2>2. [envelope |-> stream[c].request, result |-> stream[c].answer.result] \in AnswerSet
    BY <2>1 DEF AnswerSet
  <2>3. stream' \in [Clients -> StreamSet]
    BY <1>5, RestFacts DEF ClientAccepts, TypeInv
  <2> QED BY <1>5, <2>2, <2>3 DEF ClientAccepts, TypeInv
<1>6. ASSUME NEW c \in Clients, ClientLeaves(c) PROVE TypeInv'
  BY <1>6, RestFacts DEF ClientLeaves, Closed, TypeInv, ServerSet, StreamSet
<1>7. ASSUME NEW c \in Clients, ServeAccept(c) PROVE TypeInv'
  BY <1>7, RestFacts DEF ServeAccept, Serving, AtRest, TypeInv, ServerSet, StreamSet
<1>8. CASE ServeTimesOut
  BY <1>8, HangupFacts, RestFacts DEF ServeTimesOut, Drop, TypeInv, ServerSet, StreamSet
<1>9. CASE ServeBind
  <2>1. PICK b \in Bindings, k \in Tickets :
           /\ binding' = b
           /\ server' = [server EXCEPT !.phase = "requesting", !.session = k]
           /\ stream' = [stream EXCEPT ![server.client].established = k]
    BY <1>9, BindFacts
  <2>2. server' \in ServerSet /\ stream' \in [Clients -> StreamSet]
    BY <2>1 DEF TypeInv, ServerSet, StreamSet
  <2>3. opened' = opened \cup {binding'} /\ minted' = minted + 1
    BY <1>9 DEF ServeBind
  <2> QED BY <1>9, <2>1, <2>2, <2>3 DEF ServeBind, TypeInv
<1>10. CASE ServeBindRefused
  BY <1>10, HangupFacts, RestFacts DEF ServeBindRefused, Serving, Drop, TypeInv, ServerSet,
     StreamSet
<1>11. CASE ServeRequestVerified
  <2>1. server.client \in Clients /\ stream[server.client].frame \in Envelopes
    BY <1>11 DEF ServeRequestVerified, Serving, TypeInv, StreamSet, ServerInv
  <2>2. server' \in ServerSet
    BY <1>11, <2>1 DEF ServeRequestVerified, TypeInv, ServerSet, Envelopes
  <2> QED BY <1>11, <2>2 DEF ServeRequestVerified, TypeInv
<1>12. CASE ServeRequestRefused
  BY <1>12, HangupFacts, RestFacts DEF ServeRequestRefused, Serving, Drop, TypeInv,
     ServerSet, StreamSet
<1>13. CASE ServeHandled
  <2>1. server' \in ServerSet
    BY <1>13, HandledFacts DEF TypeInv, ServerSet
  <2>2. highWater' \in 0..MaxSessions
    <3>1. highWater' = highWater \/ (grant = None /\ highWater' = highWater + 1)
      BY <1>13, HandledFacts
    <3>2. grant = None => highWater < MaxSessions
      BY <1>13 DEF ServeHandled, Serving, RoomInv
    <3>3. highWater \in 0..MaxSessions
      BY DEF TypeInv
    <3> QED BY <3>1, <3>2, <3>3, BoundsAssumption
  <2>3. handled' \in Seq(Envelopes)
    <3>1. server.envelope \in Envelopes
      BY <1>13, HandledFacts
    <3>2. handled' = Append(handled, server.envelope) /\ handled \in Seq(Envelopes)
      BY <1>13 DEF ServeHandled, TypeInv
    <3> QED BY <3>1, <3>2
  <2>4. grant' \in Grants \cup {None}
    BY <1>13, HandledFacts DEF GrantKept
  <2> QED BY <1>13, <2>1, <2>2, <2>3, <2>4 DEF ServeHandled, TypeInv
<1>14. CASE ServeHandlerRefuses
  <2>1. server.envelope \in Envelopes
    BY <1>14 DEF ServeHandlerRefuses, Serving, ServerInv, TypeInv, ServerSet
  <2>2. handled' \in Seq(Envelopes)
    BY <1>14, <2>1 DEF ServeHandlerRefuses, TypeInv
  <2> QED BY <1>14, <2>2, HangupFacts, RestFacts DEF ServeHandlerRefuses, Drop, TypeInv
<1>15. CASE ServeHandlerFails
  <2>1. highWater' \in 0..MaxSessions
    BY <1>15, FailureFacts, BoundsAssumption
       DEF ServeHandlerFails, Serving, TypeInv, RoomInv
  <2>2. handled' \in Seq(Envelopes)
    BY <1>15, FailureFacts DEF ServeHandlerFails, TypeInv
  <2>3. grant' \in Grants \cup {None}
    BY <1>15, FailureFacts DEF GrantKept
  <2> QED BY <1>15, <2>1, <2>2, <2>3, HangupFacts, RestFacts DEF ServeHandlerFails, Drop,
             TypeInv
<1>16. CASE ServeAnswers
  <2>1. server.answer \in AnswerSet
    BY <1>16 DEF ServeAnswers, Serving, ServerInv, TypeInv, ServerSet
  <2>2. stream' \in [Clients -> StreamSet]
    BY <1>16, <2>1 DEF ServeAnswers, TypeInv, StreamSet
  <2> QED BY <1>16, <2>2, RestFacts DEF ServeAnswers, TypeInv
<1>17. CASE Crash
  BY <1>17, RestFacts DEF Crash, Closed, AtRest, TypeInv, ServerSet, StreamSet
<1>18. CASE Restart
  BY <1>18 DEF Restart, TypeInv, Grants
<1> QED BY <1>1, <1>2, <1>3, <1>4, <1>5, <1>6, <1>7, <1>8, <1>9, <1>10, <1>11, <1>12, <1>13,
           <1>14, <1>15, <1>16, <1>17, <1>18 DEF Next, Client, Serve

\* Every step keeps session, binding and request together.
LEMMA ServerStep == Inv /\ [Next]_vars => ServerInv'
<1> SUFFICES ASSUME Inv, [Next]_vars PROVE ServerInv'
  OBVIOUS
<1> USE DEF Inv, core, store, history
<1>1. CASE UNCHANGED vars
  BY <1>1 DEF vars, TypeInv, ServerSet, ServerInv, InSession
<1>2. ASSUME NEW c \in Clients, NEW bind \in Binds \cup {None}, NEW epoch \in 0..highWater + 1,
             ClientConnects(c, bind, epoch)
      PROVE  ServerInv'
  BY <1>2, RestFacts DEF ClientConnects, Closed, TypeInv, ServerSet, ServerInv, InSession
<1>3. ASSUME NEW c \in Clients, NEW kind \in {"arm", "renew", "decide"},
             ClientRequests(c, kind)
      PROVE  ServerInv'
  BY <1>3 DEF ClientRequests, Established, Envelope, TypeInv, ServerSet, ServerInv,
     InSession
<1>4. ASSUME NEW c \in Clients, NEW envelope \in sent,
             ClientReplays(c, envelope)
      PROVE  ServerInv'
  BY <1>4 DEF ClientReplays, Established, TypeInv, ServerSet, ServerInv, InSession
<1>5. ASSUME NEW c \in Clients, ClientAccepts(c) PROVE ServerInv'
  BY <1>5, RestFacts DEF ClientAccepts, Closed, TypeInv, ServerSet, ServerInv, InSession
<1>6. ASSUME NEW c \in Clients, ClientLeaves(c) PROVE ServerInv'
  BY <1>6, RestFacts DEF ClientLeaves, Closed, TypeInv, ServerSet, ServerInv, InSession
<1>7. ASSUME NEW c \in Clients, ServeAccept(c) PROVE ServerInv'
  BY <1>7, RestFacts DEF ServeAccept, Serving, AtRest, TypeInv, ServerSet, ServerInv,
     InSession
<1>8. CASE ServeTimesOut
  BY <1>8, HangupFacts, RestFacts DEF ServeTimesOut, Drop, TypeInv, ServerSet, ServerInv,
     InSession
<1>9. CASE ServeBind
  <2>1. PICK b \in Bindings, k \in Tickets :
           /\ binding' = b /\ k.tx = b.tx /\ k.epoch = b.epoch
           /\ server' = [server EXCEPT !.phase = "requesting", !.session = k]
    BY <1>9, BindFacts
  <2>2. server'.phase = "requesting" /\ server'.session = k /\ server'.client = server.client
    BY <2>1 DEF TypeInv, ServerSet
  <2>3. up' /\ server.client \in Clients
    BY <1>9 DEF ServeBind, Serving, ServerInv
  <2> QED BY <2>1, <2>2, <2>3, NoneAssumption DEF ServerInv, InSession
<1>10. CASE ServeBindRefused
  BY <1>10, HangupFacts, RestFacts DEF ServeBindRefused, Serving, Drop, TypeInv, ServerSet,
     ServerInv, InSession
<1>11. CASE ServeRequestVerified
  <2>1. server.client \in Clients /\ stream[server.client].frame \in Envelopes
    BY <1>11 DEF ServeRequestVerified, Serving, TypeInv, StreamSet, ServerInv
  <2> DEFINE e == stream[server.client].frame
  <2>2. /\ server'.phase = "handling" /\ server'.envelope = e
        /\ server'.session = server.session /\ server'.client = server.client
    BY <1>11 DEF ServeRequestVerified, TypeInv, ServerSet
  <2>3. /\ e # None /\ e.capability = server.session.capability
        /\ e.tx = server.session.tx /\ e.epoch = server.session.epoch
    BY <1>11 DEF ServeRequestVerified, verify_authenticated
  <2> QED BY <1>11, <2>1, <2>2, <2>3 DEF ServeRequestVerified, Serving, ServerInv, InSession
<1>12. CASE ServeRequestRefused
  BY <1>12, HangupFacts, RestFacts DEF ServeRequestRefused, Serving, Drop, TypeInv,
     ServerSet, ServerInv, InSession
<1>13. CASE ServeHandled
  <2>1. PICK a \in AnswerSet :
           server' = [server EXCEPT !.phase = "answering", !.answer = a]
    BY <1>13, HandledFacts
  <2>2. /\ server'.phase = "answering" /\ server'.answer = a
        /\ server'.session = server.session /\ server'.client = server.client
    BY <2>1 DEF TypeInv, ServerSet
  <2> QED BY <1>13, <2>2 DEF ServeHandled, Serving, ServerInv, InSession
<1>14. CASE ServeHandlerRefuses
  BY <1>14, HangupFacts, RestFacts DEF ServeHandlerRefuses, Serving, Drop, TypeInv,
     ServerSet, ServerInv, InSession
<1>15. CASE ServeHandlerFails
  BY <1>15, HangupFacts, RestFacts DEF ServeHandlerFails, Serving, Drop, TypeInv, ServerSet,
     ServerInv, InSession
<1>16. CASE ServeAnswers
  BY <1>16, RestFacts DEF ServeAnswers, Serving, Connected, AtRest, TypeInv, ServerSet,
     ServerInv, InSession
<1>17. CASE Crash
  BY <1>17, RestFacts DEF Crash, Closed, AtRest, TypeInv, ServerSet, ServerInv, InSession
<1>18. CASE Restart
  BY <1>18 DEF Restart, TypeInv, ServerSet, ServerInv, InSession
<1> QED BY <1>1, <1>2, <1>3, <1>4, <1>5, <1>6, <1>7, <1>8, <1>9, <1>10, <1>11, <1>12, <1>13,
           <1>14, <1>15, <1>16, <1>17, <1>18 DEF Next, Client, Serve

\* No step opens a session of another binding.
LEMMA BindingStep == Inv /\ [Next]_vars => BindingInv'
<1> SUFFICES ASSUME Inv, [Next]_vars PROVE BindingInv'
  OBVIOUS
<1> USE DEF Inv, core, store, history
<1>1. CASE UNCHANGED vars
  BY <1>1 DEF vars, TypeInv, ServerSet, ServerInv, InSession, BindingInv
<1>2. ASSUME NEW c \in Clients, NEW bind \in Binds \cup {None}, NEW epoch \in 0..highWater + 1,
             ClientConnects(c, bind, epoch)
      PROVE  BindingInv'
  BY <1>2, RestFacts DEF ClientConnects, Closed, TypeInv, ServerSet, ServerInv, InSession,
     BindingInv
<1>3. ASSUME NEW c \in Clients, NEW kind \in {"arm", "renew", "decide"},
             ClientRequests(c, kind)
      PROVE  BindingInv'
  BY <1>3 DEF ClientRequests, Established, Envelope, TypeInv, ServerSet, ServerInv,
     InSession, BindingInv
<1>4. ASSUME NEW c \in Clients, NEW envelope \in sent,
             ClientReplays(c, envelope)
      PROVE  BindingInv'
  BY <1>4 DEF ClientReplays, Established, TypeInv, ServerSet, ServerInv, InSession,
     BindingInv
<1>5. ASSUME NEW c \in Clients, ClientAccepts(c) PROVE BindingInv'
  BY <1>5, RestFacts DEF ClientAccepts, Closed, TypeInv, ServerSet, ServerInv, InSession,
     BindingInv
<1>6. ASSUME NEW c \in Clients, ClientLeaves(c) PROVE BindingInv'
  BY <1>6, RestFacts DEF ClientLeaves, Closed, TypeInv, ServerSet, ServerInv, InSession,
     BindingInv
<1>7. ASSUME NEW c \in Clients, ServeAccept(c) PROVE BindingInv'
  BY <1>7, RestFacts DEF ServeAccept, Serving, AtRest, TypeInv, ServerSet, ServerInv,
     InSession, BindingInv
<1>8. CASE ServeTimesOut
  BY <1>8, HangupFacts, RestFacts DEF ServeTimesOut, Drop, TypeInv, ServerSet, ServerInv,
     InSession, BindingInv
<1>9. CASE ServeBind
  <2>1. PICK b \in Bindings, k \in Tickets : binding' = b /\ (binding # None => b = binding)
    BY <1>9, BindFacts
  <2>2. opened' = opened \cup {binding'} /\ up' /\ up /\ grant' = grant
    BY <1>9 DEF ServeBind, Serving
  <2>3. grant # None => binding # None
    BY <2>2, NoneAssumption DEF BindingInv, TypeInv, Grants
  <2> QED BY <2>1, <2>2, <2>3, NoneAssumption DEF BindingInv
<1>10. CASE ServeBindRefused
  BY <1>10, HangupFacts, RestFacts DEF ServeBindRefused, Serving, Drop, TypeInv, ServerSet,
     ServerInv, InSession, BindingInv
<1>11. CASE ServeRequestVerified
  BY <1>11 DEF ServeRequestVerified, Serving, Connected, TypeInv, ServerSet, ServerInv,
     InSession, BindingInv
<1>12. CASE ServeRequestRefused
  BY <1>12, HangupFacts, RestFacts DEF ServeRequestRefused, Serving, Drop, TypeInv,
     ServerSet, ServerInv, InSession, BindingInv
<1>13. CASE ServeHandled
  BY <1>13, HandledFacts DEF ServeHandled, GrantKept, BindingInv
<1>14. CASE ServeHandlerRefuses
  BY <1>14, HangupFacts, RestFacts DEF ServeHandlerRefuses, Serving, Drop, TypeInv,
     ServerSet, ServerInv, InSession, BindingInv
<1>15. CASE ServeHandlerFails
  BY <1>15, FailureFacts DEF ServeHandlerFails, GrantKept, BindingInv
<1>16. CASE ServeAnswers
  BY <1>16, RestFacts DEF ServeAnswers, Serving, Connected, AtRest, TypeInv, ServerSet,
     ServerInv, InSession, BindingInv
<1>17. CASE Crash
  BY <1>17, RestFacts DEF Crash, Closed, AtRest, TypeInv, ServerSet, ServerInv, InSession,
     BindingInv
<1>18. CASE Restart
  BY <1>18 DEF Restart, TypeInv, ServerSet, ServerInv, InSession, BindingInv
<1> QED BY <1>1, <1>2, <1>3, <1>4, <1>5, <1>6, <1>7, <1>8, <1>9, <1>10, <1>11, <1>12, <1>13,
           <1>14, <1>15, <1>16, <1>17, <1>18 DEF Next, Client, Serve

\* No step hands on a request for the second time.
LEMMA OnceStep == Inv /\ [Next]_vars => OnceInv'
<1> SUFFICES ASSUME Inv, [Next]_vars PROVE OnceInv'
  OBVIOUS
<1> USE DEF Inv, core, store, history
<1>1. CASE UNCHANGED vars
  BY <1>1 DEF vars, TypeInv, ServerSet, ServerInv, InSession, Unhandled, OnceInv,
     HandledOnce
<1>2. ASSUME NEW c \in Clients, NEW bind \in Binds \cup {None}, NEW epoch \in 0..highWater + 1,
             ClientConnects(c, bind, epoch)
      PROVE  OnceInv'
  BY <1>2, RestFacts DEF ClientConnects, Closed, TypeInv, ServerSet, ServerInv, InSession,
     Unhandled, OnceInv, HandledOnce
<1>3. ASSUME NEW c \in Clients, NEW kind \in {"arm", "renew", "decide"},
             ClientRequests(c, kind)
      PROVE  OnceInv'
  BY <1>3 DEF ClientRequests, Established, Envelope, TypeInv, ServerSet, ServerInv,
     InSession, Unhandled, OnceInv, HandledOnce
<1>4. ASSUME NEW c \in Clients, NEW envelope \in sent,
             ClientReplays(c, envelope)
      PROVE  OnceInv'
  BY <1>4 DEF ClientReplays, Established, TypeInv, ServerSet, ServerInv, InSession,
     Unhandled, OnceInv, HandledOnce
<1>5. ASSUME NEW c \in Clients, ClientAccepts(c) PROVE OnceInv'
  BY <1>5, RestFacts DEF ClientAccepts, Closed, TypeInv, ServerSet, ServerInv, InSession,
     Unhandled, OnceInv, HandledOnce
<1>6. ASSUME NEW c \in Clients, ClientLeaves(c) PROVE OnceInv'
  BY <1>6, RestFacts DEF ClientLeaves, Closed, TypeInv, ServerSet, ServerInv, InSession,
     Unhandled, OnceInv, HandledOnce
<1>7. ASSUME NEW c \in Clients, ServeAccept(c) PROVE OnceInv'
  BY <1>7, RestFacts DEF ServeAccept, Serving, AtRest, TypeInv, ServerSet, ServerInv,
     InSession, Unhandled, OnceInv, HandledOnce
<1>8. CASE ServeTimesOut
  BY <1>8, HangupFacts, RestFacts DEF ServeTimesOut, Drop, TypeInv, ServerSet, ServerInv,
     InSession, Unhandled, OnceInv, HandledOnce
<1>9. CASE ServeBind
  <2>1. PICK b \in Bindings, k \in Tickets :
           /\ k.capability = minted + 1
           /\ server' = [server EXCEPT !.phase = "requesting", !.session = k]
    BY <1>9, BindFacts
  <2>2. server'.session.capability = minted'
    BY <1>9, <2>1 DEF ServeBind, TypeInv, ServerSet
  <2>3. \A i \in DOMAIN handled : handled[i].capability \in Nat
    <3>1. \A i \in DOMAIN handled : handled[i] \in Envelopes
      BY DEF TypeInv
    <3> QED BY <3>1 DEF Envelopes
  <2> QED BY <1>9, <2>2, <2>3 DEF ServeBind, OnceInv, HandledOnce, TypeInv
<1>10. CASE ServeBindRefused
  BY <1>10, HangupFacts, RestFacts DEF ServeBindRefused, Serving, Drop, TypeInv, ServerSet,
     ServerInv, InSession, Unhandled, OnceInv, HandledOnce
<1>11. CASE ServeRequestVerified
  BY <1>11 DEF ServeRequestVerified, Serving, Connected, TypeInv, ServerSet, ServerInv,
     InSession, Unhandled, OnceInv, HandledOnce
<1>12. CASE ServeRequestRefused
  BY <1>12, HangupFacts, RestFacts DEF ServeRequestRefused, Serving, Drop, TypeInv,
     ServerSet, ServerInv, InSession, Unhandled, OnceInv, HandledOnce
<1>13. CASE ServeHandled
  <2>1. server.envelope \in Envelopes /\ server.envelope.capability = minted
    BY <1>13 DEF ServeHandled, Serving, ServerInv, InSession, OnceInv, Unhandled, TypeInv,
       ServerSet
  <2>2. handled' = Append(handled, server.envelope) /\ minted' = minted
    BY <1>13 DEF ServeHandled
  <2>3. server'.phase \notin Unhandled
    BY <1>13, RestFacts, HandledFacts DEF ServeHandled, Drop, Unhandled, TypeInv, ServerSet
  <2>4. \A i \in DOMAIN handled : handled[i].capability < minted
    BY <1>13 DEF ServeHandled, Serving, OnceInv, Unhandled
  <2> QED BY <2>1, <2>2, <2>3, <2>4, OnceAppended DEF OnceInv, TypeInv
<1>14. CASE ServeHandlerRefuses
  <2>1. server.envelope \in Envelopes /\ server.envelope.capability = minted
    BY <1>14 DEF ServeHandlerRefuses, Serving, ServerInv, InSession, OnceInv, Unhandled,
       TypeInv, ServerSet
  <2>2. handled' = Append(handled, server.envelope) /\ minted' = minted
    BY <1>14 DEF ServeHandlerRefuses
  <2>3. server'.phase \notin Unhandled
    BY <1>14, RestFacts, HandledFacts DEF ServeHandlerRefuses, Drop, Unhandled, TypeInv,
       ServerSet
  <2>4. \A i \in DOMAIN handled : handled[i].capability < minted
    BY <1>14 DEF ServeHandlerRefuses, Serving, OnceInv, Unhandled
  <2> QED BY <2>1, <2>2, <2>3, <2>4, OnceAppended DEF OnceInv, TypeInv
<1>15. CASE ServeHandlerFails
  <2>1. server.envelope \in Envelopes /\ server.envelope.capability = minted
    BY <1>15 DEF ServeHandlerFails, Serving, ServerInv, InSession, OnceInv, Unhandled,
       TypeInv, ServerSet
  <2>2. handled' = Append(handled, server.envelope) /\ minted' = minted
    BY <1>15 DEF ServeHandlerFails
  <2>3. server'.phase \notin Unhandled
    BY <1>15, RestFacts, HandledFacts DEF ServeHandlerFails, Drop, Unhandled, TypeInv,
       ServerSet
  <2>4. \A i \in DOMAIN handled : handled[i].capability < minted
    BY <1>15 DEF ServeHandlerFails, Serving, OnceInv, Unhandled
  <2> QED BY <2>1, <2>2, <2>3, <2>4, OnceAppended DEF OnceInv, TypeInv
<1>16. CASE ServeAnswers
  BY <1>16, RestFacts DEF ServeAnswers, Serving, Connected, AtRest, TypeInv, ServerSet,
     ServerInv, InSession, Unhandled, OnceInv, HandledOnce
<1>17. CASE Crash
  BY <1>17, RestFacts DEF Crash, Closed, AtRest, TypeInv, ServerSet, ServerInv, InSession,
     Unhandled, OnceInv, HandledOnce
<1>18. CASE Restart
  BY <1>18 DEF Restart, TypeInv, ServerSet, ServerInv, InSession, Unhandled, OnceInv,
     HandledOnce
<1> QED BY <1>1, <1>2, <1>3, <1>4, <1>5, <1>6, <1>7, <1>8, <1>9, <1>10, <1>11, <1>12, <1>13,
           <1>14, <1>15, <1>16, <1>17, <1>18 DEF Next, Client, Serve

\* No step makes an answer untrue.
LEMMA AnswerStep == Inv /\ [Next]_vars => AnswerInv'
<1> SUFFICES ASSUME Inv, [Next]_vars PROVE AnswerInv'
  OBVIOUS
<1> USE DEF Inv, core, store, history
<1>1. CASE UNCHANGED vars
  BY <1>1 DEF vars, TypeInv, ServerSet, StreamSet, ServerInv, InSession, BindingInv,
     AnswerInv, Stands
<1>2. ASSUME NEW c \in Clients, NEW bind \in Binds \cup {None}, NEW epoch \in 0..highWater + 1,
             ClientConnects(c, bind, epoch)
      PROVE  AnswerInv'
  BY <1>2, RestFacts DEF ClientConnects, Closed, TypeInv, ServerSet, StreamSet, ServerInv,
     InSession, BindingInv, AnswerInv, Stands
<1>3. ASSUME NEW c \in Clients, NEW kind \in {"arm", "renew", "decide"},
             ClientRequests(c, kind)
      PROVE  AnswerInv'
  BY <1>3 DEF ClientRequests, Established, Envelope, TypeInv, ServerSet, StreamSet,
     ServerInv, InSession, BindingInv, AnswerInv, Stands
<1>4. ASSUME NEW c \in Clients, NEW envelope \in sent,
             ClientReplays(c, envelope)
      PROVE  AnswerInv'
  BY <1>4 DEF ClientReplays, Established, TypeInv, ServerSet, StreamSet, ServerInv,
     InSession, BindingInv, AnswerInv, Stands
<1>5. ASSUME NEW c \in Clients, ClientAccepts(c) PROVE AnswerInv'
  BY <1>5, RestFacts DEF ClientAccepts, Closed, TypeInv, ServerSet, StreamSet, ServerInv,
     InSession, BindingInv, AnswerInv, Stands
<1>6. ASSUME NEW c \in Clients, ClientLeaves(c) PROVE AnswerInv'
  BY <1>6, RestFacts DEF ClientLeaves, Closed, TypeInv, ServerSet, StreamSet, ServerInv,
     InSession, BindingInv, AnswerInv, Stands
<1>7. ASSUME NEW c \in Clients, ServeAccept(c) PROVE AnswerInv'
  BY <1>7, RestFacts DEF ServeAccept, Serving, AtRest, TypeInv, ServerSet, StreamSet,
     ServerInv, InSession, BindingInv, AnswerInv, Stands
<1>8. CASE ServeTimesOut
  BY <1>8, HangupFacts, RestFacts DEF ServeTimesOut, Drop, TypeInv, ServerSet, StreamSet,
     ServerInv, InSession, BindingInv, AnswerInv, Stands
<1>9. CASE ServeBind
  BY <1>9 DEF ServeBind, Serving, Connected, TypeInv, ServerSet, StreamSet, ServerInv,
     InSession, BindingInv, AnswerInv, Stands
<1>10. CASE ServeBindRefused
  BY <1>10, HangupFacts, RestFacts DEF ServeBindRefused, Serving, Drop, TypeInv, ServerSet,
     StreamSet, ServerInv, InSession, BindingInv, AnswerInv, Stands
<1>11. CASE ServeRequestVerified
  BY <1>11 DEF ServeRequestVerified, Serving, Connected, TypeInv, ServerSet, StreamSet,
     ServerInv, InSession, BindingInv, AnswerInv, Stands
<1>12. CASE ServeRequestRefused
  BY <1>12, HangupFacts, RestFacts DEF ServeRequestRefused, Serving, Drop, TypeInv,
     ServerSet, StreamSet, ServerInv, InSession, BindingInv, AnswerInv, Stands
<1>13. CASE ServeHandled
  <2>1. PICK a \in AnswerSet :
           /\ server' = [server EXCEPT !.phase = "answering", !.answer = a]
           /\ grant' # None
           /\ grant'.binding.tx = a.envelope.tx /\ grant'.binding.epoch = a.envelope.epoch
           /\ a.result \in Kinds => grant'.chosen = a.result
    BY <1>13, HandledFacts
  <2>2. GrantKept /\ server'.answer = a
    BY <1>13, <2>1, HandledFacts DEF TypeInv, ServerSet
  <2>3. \A c \in Clients : stream[c].answer # None => Stands(stream[c].answer)'
    BY <1>13, <2>2, StandsKept DEF ServeHandled, AnswerInv, Stands
  <2>4. \A t \in told : Stands(t)'
    BY <1>13, <2>2, StandsKept DEF ServeHandled, AnswerInv, Stands
  <2> QED BY <1>13, <2>1, <2>2, <2>3, <2>4 DEF ServeHandled, AnswerInv, Stands
<1>14. CASE ServeHandlerRefuses
  BY <1>14, HangupFacts, RestFacts DEF ServeHandlerRefuses, Serving, Drop, AnswerInv, Stands
<1>15. CASE ServeHandlerFails
  <2>1. GrantKept
    BY <1>15, FailureFacts
  <2>2. \A c \in Clients : stream[c].answer # None => Stands(stream[c].answer)
    BY DEF AnswerInv
  <2>3. \A c \in Clients : stream'[c].answer # None => Stands(stream'[c].answer)
    BY <1>15, <2>2, HangupFacts, RestFacts DEF ServeHandlerFails, Drop
  <2>4. \A t \in told : Stands(t)
    BY DEF AnswerInv
  <2> QED BY <1>15, <2>1, <2>3, <2>4, StandsKept, RestFacts DEF ServeHandlerFails, Drop,
             AnswerInv, Stands
<1>16. CASE ServeAnswers
  BY <1>16, RestFacts DEF ServeAnswers, Serving, Connected, AtRest, TypeInv, ServerSet,
     StreamSet, ServerInv, InSession, BindingInv, AnswerInv, Stands
<1>17. CASE Crash
  BY <1>17, RestFacts DEF Crash, Closed, AtRest, TypeInv, ServerSet, StreamSet, ServerInv,
     InSession, BindingInv, AnswerInv, Stands
<1>18. CASE Restart
  BY <1>18 DEF Restart, TypeInv, ServerSet, StreamSet, ServerInv, InSession, BindingInv,
     AnswerInv, Stands
<1> QED BY <1>1, <1>2, <1>3, <1>4, <1>5, <1>6, <1>7, <1>8, <1>9, <1>10, <1>11, <1>12, <1>13,
           <1>14, <1>15, <1>16, <1>17, <1>18 DEF Next, Client, Serve

\* No step uses up an epoch without a session.
LEMMA RoomStep == Inv /\ [Next]_vars => RoomInv'
<1> SUFFICES ASSUME Inv, [Next]_vars PROVE RoomInv'
  OBVIOUS
<1> USE DEF Inv, core, store, history
<1>1. CASE UNCHANGED vars
  BY <1>1 DEF vars, TypeInv, ServerSet, StreamSet, ServerInv, InSession, Unhandled, RoomInv
<1>2. ASSUME NEW c \in Clients, NEW bind \in Binds \cup {None}, NEW epoch \in 0..highWater + 1,
             ClientConnects(c, bind, epoch)
      PROVE  RoomInv'
  <2>1. \A d \in Clients : stream'[d].phase = "queued" => d = c \/ stream[d].phase = "queued"
    BY <1>2 DEF ClientConnects, TypeInv
  <2>2. highWater < MaxSessions
    BY <1>2, BoundsAssumption DEF ClientConnects, RoomInv, TypeInv
  <2> QED BY <1>2, <2>1, <2>2 DEF ClientConnects, RoomInv
<1>3. ASSUME NEW c \in Clients, NEW kind \in {"arm", "renew", "decide"},
             ClientRequests(c, kind)
      PROVE  RoomInv'
  BY <1>3 DEF ClientRequests, Established, Envelope, TypeInv, ServerSet, StreamSet,
     ServerInv, InSession, Unhandled, RoomInv
<1>4. ASSUME NEW c \in Clients, NEW envelope \in sent,
             ClientReplays(c, envelope)
      PROVE  RoomInv'
  BY <1>4 DEF ClientReplays, Established, TypeInv, ServerSet, StreamSet, ServerInv,
     InSession, Unhandled, RoomInv
<1>5. ASSUME NEW c \in Clients, ClientAccepts(c) PROVE RoomInv'
  BY <1>5, RestFacts DEF ClientAccepts, Closed, TypeInv, ServerSet, StreamSet, ServerInv,
     InSession, Unhandled, RoomInv
<1>6. ASSUME NEW c \in Clients, ClientLeaves(c) PROVE RoomInv'
  BY <1>6, RestFacts DEF ClientLeaves, Closed, TypeInv, ServerSet, StreamSet, ServerInv,
     InSession, Unhandled, RoomInv
<1>7. ASSUME NEW c \in Clients, ServeAccept(c) PROVE RoomInv'
  BY <1>7, RestFacts DEF ServeAccept, Serving, AtRest, TypeInv, ServerSet, StreamSet,
     ServerInv, InSession, Unhandled, RoomInv
<1>8. CASE ServeTimesOut
  BY <1>8, HangupFacts, RestFacts DEF ServeTimesOut, Drop, TypeInv, ServerSet, StreamSet,
     ServerInv, InSession, Unhandled, RoomInv
<1>9. CASE ServeBind
  BY <1>9 DEF ServeBind, Serving, Connected, TypeInv, ServerSet, StreamSet, ServerInv,
     InSession, Unhandled, RoomInv
<1>10. CASE ServeBindRefused
  BY <1>10, HangupFacts, RestFacts DEF ServeBindRefused, Serving, Drop, TypeInv, ServerSet,
     StreamSet, ServerInv, InSession, Unhandled, RoomInv
<1>11. CASE ServeRequestVerified
  BY <1>11 DEF ServeRequestVerified, Serving, Connected, TypeInv, ServerSet, StreamSet,
     ServerInv, InSession, Unhandled, RoomInv
<1>12. CASE ServeRequestRefused
  BY <1>12, HangupFacts, RestFacts DEF ServeRequestRefused, Serving, Drop, TypeInv,
     ServerSet, StreamSet, ServerInv, InSession, Unhandled, RoomInv
<1>13. CASE ServeHandled
  <2>1. server'.phase = "answering"
    BY <1>13, HandledFacts DEF TypeInv, ServerSet
  <2>2. grant = None => highWater < minted
    BY <1>13 DEF ServeHandled, Serving, RoomInv, Unhandled
  <2>3. grant' = None => grant = None /\ highWater' = highWater
    BY <1>13, HandledFacts DEF GrantKept
  <2>4. highWater' <= minted'
    <3>1. highWater' = highWater \/ (grant = None /\ highWater' = highWater + 1)
      BY <1>13, HandledFacts
    <3>2. minted' = minted /\ highWater <= minted /\ highWater \in 0..MaxSessions
      BY <1>13 DEF ServeHandled, RoomInv, TypeInv
    <3>3. minted \in Nat
      BY DEF TypeInv
    <3> QED BY <2>2, <3>1, <3>2, <3>3, BoundsAssumption
  <2> QED BY <1>13, <2>1, <2>3, <2>4 DEF ServeHandled, Serving, RoomInv, Unhandled
<1>14. CASE ServeHandlerRefuses
  BY <1>14, HangupFacts, RestFacts DEF ServeHandlerRefuses, Serving, Drop, TypeInv,
     ServerSet, StreamSet, ServerInv, InSession, Unhandled, RoomInv
<1>15. CASE ServeHandlerFails
  <2>1. grant = None => highWater < minted
    BY <1>15 DEF ServeHandlerFails, Serving, RoomInv, Unhandled
  <2>2. highWater' <= minted'
    BY <1>15, <2>1, FailureFacts DEF ServeHandlerFails, RoomInv, TypeInv
  <2> QED BY <1>15, <2>2 DEF ServeHandlerFails, RoomInv
<1>16. CASE ServeAnswers
  BY <1>16, RestFacts DEF ServeAnswers, Serving, Connected, AtRest, TypeInv, ServerSet,
     StreamSet, ServerInv, InSession, Unhandled, RoomInv
<1>17. CASE Crash
  BY <1>17, RestFacts DEF Crash, Closed, AtRest, TypeInv, ServerSet, StreamSet, ServerInv,
     InSession, Unhandled, RoomInv
<1>18. CASE Restart
  BY <1>18 DEF Restart, TypeInv, ServerSet, StreamSet, ServerInv, InSession, Unhandled,
     RoomInv
<1> QED BY <1>1, <1>2, <1>3, <1>4, <1>5, <1>6, <1>7, <1>8, <1>9, <1>10, <1>11, <1>12, <1>13,
           <1>14, <1>15, <1>16, <1>17, <1>18 DEF Next, Client, Serve

\* No step makes more sessions than clients connected for.
LEMMA PendingStep == Inv /\ [Next]_vars => PendingInv'
<1> SUFFICES ASSUME Inv, [Next]_vars PROVE PendingInv'
  OBVIOUS
<1> USE DEF Inv, core, store, history
<1>1. CASE UNCHANGED vars
  BY <1>1 DEF vars, PendingInv, FreshStreams, FreshServed, Pending, Connected
<1>2. ASSUME NEW c \in Clients, NEW bind \in Binds \cup {None}, NEW epoch \in 0..highWater + 1,
             ClientConnects(c, bind, epoch)
      PROVE  PendingInv'
  <2>1. Cardinality(Pending') <= Cardinality(Clients) /\ minted < MaxSessions /\ minted' = minted
    BY <1>2, PendingBound DEF ClientConnects
  <2>2. FreshStreams'
    BY <1>2, RestFacts DEF ClientConnects, Closed, PendingInv, FreshStreams, FreshServed,
       TypeInv
  <2>3. FreshServed'
    BY <1>2, RestFacts DEF ClientConnects, Closed, ServerInv, PendingInv, FreshStreams,
       FreshServed, Connected, TypeInv
  <2>4. Cardinality(Pending') \in Nat /\ Cardinality(Clients) \in Nat
    BY PendingBound, ClientsAssumption, FS_CardinalityType
  <2> QED BY <2>1, <2>2, <2>3, <2>4, BoundsAssumption DEF PendingInv, TypeInv
<1>3. ASSUME NEW c \in Clients, NEW kind \in {"arm", "renew", "decide"},
             ClientRequests(c, kind)
      PROVE  PendingInv'
  <2>1. Pending' \subseteq Pending /\ minted' = minted
    BY <1>3, HangupFacts, RestFacts DEF ClientRequests, Established, Envelope, Pending,
       TypeInv, ServerSet, StreamSet
  <2>2. FreshStreams'
    BY <1>3, HangupFacts, RestFacts DEF ClientRequests, Established, Envelope, PendingInv,
       FreshStreams, FreshServed, TypeInv, ServerSet, StreamSet
  <2>3. FreshServed'
    BY <1>3, HangupFacts, RestFacts DEF ClientRequests, Established, Envelope, ServerInv,
       PendingInv, FreshStreams, FreshServed, Connected, TypeInv, ServerSet, StreamSet
  <2> QED BY <2>1, <2>2, <2>3, FewerPending DEF PendingInv
<1>4. ASSUME NEW c \in Clients, NEW envelope \in sent,
             ClientReplays(c, envelope)
      PROVE  PendingInv'
  <2>1. Pending' \subseteq Pending /\ minted' = minted
    BY <1>4, HangupFacts, RestFacts DEF ClientReplays, Established, Pending, TypeInv,
       ServerSet, StreamSet
  <2>2. FreshStreams'
    BY <1>4, HangupFacts, RestFacts DEF ClientReplays, Established, PendingInv,
       FreshStreams, FreshServed, TypeInv, ServerSet, StreamSet
  <2>3. FreshServed'
    BY <1>4, HangupFacts, RestFacts DEF ClientReplays, Established, ServerInv, PendingInv,
       FreshStreams, FreshServed, Connected, TypeInv, ServerSet, StreamSet
  <2> QED BY <2>1, <2>2, <2>3, FewerPending DEF PendingInv
<1>5. ASSUME NEW c \in Clients, ClientAccepts(c) PROVE PendingInv'
  <2>1. Pending' \subseteq Pending /\ minted' = minted
    BY <1>5, HangupFacts, RestFacts DEF ClientAccepts, Closed, Pending, TypeInv, ServerSet,
       StreamSet
  <2>2. FreshStreams'
    BY <1>5, HangupFacts, RestFacts DEF ClientAccepts, Closed, PendingInv, FreshStreams,
       FreshServed, TypeInv, ServerSet, StreamSet
  <2>3. FreshServed'
    BY <1>5, HangupFacts, RestFacts DEF ClientAccepts, Closed, ServerInv, PendingInv,
       FreshStreams, FreshServed, Connected, TypeInv, ServerSet, StreamSet
  <2> QED BY <2>1, <2>2, <2>3, FewerPending DEF PendingInv
<1>6. ASSUME NEW c \in Clients, ClientLeaves(c) PROVE PendingInv'
  <2>1. Pending' \subseteq Pending /\ minted' = minted
    BY <1>6, HangupFacts, RestFacts DEF ClientLeaves, Closed, Pending, TypeInv, ServerSet,
       StreamSet
  <2>2. FreshStreams'
    BY <1>6, HangupFacts, RestFacts DEF ClientLeaves, Closed, PendingInv, FreshStreams,
       FreshServed, TypeInv, ServerSet, StreamSet
  <2>3. FreshServed'
    BY <1>6, HangupFacts, RestFacts DEF ClientLeaves, Closed, ServerInv, PendingInv,
       FreshStreams, FreshServed, Connected, TypeInv, ServerSet, StreamSet
  <2> QED BY <2>1, <2>2, <2>3, FewerPending DEF PendingInv
<1>7. ASSUME NEW c \in Clients, ServeAccept(c) PROVE PendingInv'
  <2>1. Pending' \subseteq Pending /\ minted' = minted
    BY <1>7, HangupFacts, RestFacts DEF ServeAccept, Serving, AtRest, Pending, TypeInv,
       ServerSet, StreamSet
  <2>2. FreshStreams'
    BY <1>7, HangupFacts, RestFacts DEF ServeAccept, Serving, AtRest, PendingInv,
       FreshStreams, FreshServed, TypeInv, ServerSet, StreamSet
  <2>3. FreshServed'
    BY <1>7, HangupFacts, RestFacts DEF ServeAccept, Serving, AtRest, ServerInv, PendingInv,
       FreshStreams, FreshServed, Connected, TypeInv, ServerSet, StreamSet
  <2> QED BY <2>1, <2>2, <2>3, FewerPending DEF PendingInv
<1>8. CASE ServeTimesOut
  <2>1. Pending' \subseteq Pending /\ minted' = minted
    BY <1>8, HangupFacts, RestFacts DEF ServeTimesOut, Drop, Pending, TypeInv, ServerSet,
       StreamSet
  <2>2. FreshStreams'
    BY <1>8, HangupFacts, RestFacts DEF ServeTimesOut, Drop, PendingInv, FreshStreams,
       FreshServed, TypeInv, ServerSet, StreamSet
  <2>3. FreshServed'
    BY <1>8, HangupFacts, RestFacts DEF ServeTimesOut, Drop, ServerInv, PendingInv,
       FreshStreams, FreshServed, Connected, TypeInv, ServerSet, StreamSet
  <2> QED BY <2>1, <2>2, <2>3, FewerPending DEF PendingInv
<1>9. CASE ServeBind
  <2>1. PICK b \in Bindings, k \in Tickets :
           /\ server' = [server EXCEPT !.phase = "requesting", !.session = k]
           /\ stream' = [stream EXCEPT ![server.client].established = k]
    BY <1>9, BindFacts
  <2>2. server.client \in Pending /\ stream[server.client].phase = "served"
    BY <1>9 DEF ServeBind, Serving, Connected, Pending, PendingInv, FreshServed, ServerInv
  <2>3. Pending' \subseteq Pending \ {server.client}
    BY <2>1, <2>2, NoneAssumption DEF Pending, TypeInv, StreamSet
  <2>4. /\ IsFiniteSet(Pending) /\ Cardinality(Pending) \in Nat
        /\ Cardinality(Pending) <= Cardinality(Clients) /\ Cardinality(Clients) \in Nat
    BY PendingBound, ClientsAssumption, FS_CardinalityType
  <2>5. Cardinality(Pending') <= Cardinality(Pending) - 1 /\ Cardinality(Pending') \in Nat
    <3>1. /\ IsFiniteSet(Pending \ {server.client})
          /\ Cardinality(Pending \ {server.client}) = Cardinality(Pending) - 1
      BY <2>2, <2>4, FS_RemoveElement
    <3>2. Cardinality(Pending') <= Cardinality(Pending \ {server.client}) /\ IsFiniteSet(Pending')
      BY <2>3, <3>1, FS_Subset
    <3> QED BY <3>1, <3>2, FS_CardinalityType
  <2>6. minted' = minted + 1 /\ minted \in Nat
    BY <1>9 DEF ServeBind, TypeInv
  <2>7. minted' + Cardinality(Pending') <= MaxSessions + Cardinality(Clients)
    BY <2>4, <2>5, <2>6, BoundsAssumption DEF PendingInv
  <2>8. FreshStreams'
    BY <2>1, <2>2 DEF PendingInv, FreshStreams, FreshServed, TypeInv, StreamSet
  <2>9. server'.phase = "requesting"
    BY <2>1 DEF TypeInv, ServerSet
  <2> QED BY <2>7, <2>8, <2>9 DEF PendingInv, FreshServed
<1>10. CASE ServeBindRefused
  <2>1. Pending' \subseteq Pending /\ minted' = minted
    BY <1>10, HangupFacts, RestFacts DEF ServeBindRefused, Serving, Drop, Pending, TypeInv,
       ServerSet, StreamSet
  <2>2. FreshStreams'
    BY <1>10, HangupFacts, RestFacts DEF ServeBindRefused, Serving, Drop, PendingInv,
       FreshStreams, FreshServed, TypeInv, ServerSet, StreamSet
  <2>3. FreshServed'
    BY <1>10, HangupFacts, RestFacts DEF ServeBindRefused, Serving, Drop, ServerInv,
       PendingInv, FreshStreams, FreshServed, Connected, TypeInv, ServerSet, StreamSet
  <2> QED BY <2>1, <2>2, <2>3, FewerPending DEF PendingInv
<1>11. CASE ServeRequestVerified
  <2>1. Pending' \subseteq Pending /\ minted' = minted
    BY <1>11, HangupFacts, RestFacts DEF ServeRequestVerified, Serving, Pending, TypeInv,
       ServerSet, StreamSet
  <2>2. FreshStreams'
    BY <1>11, HangupFacts, RestFacts DEF ServeRequestVerified, Serving, PendingInv,
       FreshStreams, FreshServed, TypeInv, ServerSet, StreamSet
  <2>3. FreshServed'
    BY <1>11, HangupFacts, RestFacts DEF ServeRequestVerified, Serving, ServerInv,
       PendingInv, FreshStreams, FreshServed, Connected, TypeInv, ServerSet, StreamSet
  <2> QED BY <2>1, <2>2, <2>3, FewerPending DEF PendingInv
<1>12. CASE ServeRequestRefused
  <2>1. Pending' \subseteq Pending /\ minted' = minted
    BY <1>12, HangupFacts, RestFacts DEF ServeRequestRefused, Serving, Drop, Pending,
       TypeInv, ServerSet, StreamSet
  <2>2. FreshStreams'
    BY <1>12, HangupFacts, RestFacts DEF ServeRequestRefused, Serving, Drop, PendingInv,
       FreshStreams, FreshServed, TypeInv, ServerSet, StreamSet
  <2>3. FreshServed'
    BY <1>12, HangupFacts, RestFacts DEF ServeRequestRefused, Serving, Drop, ServerInv,
       PendingInv, FreshStreams, FreshServed, Connected, TypeInv, ServerSet, StreamSet
  <2> QED BY <2>1, <2>2, <2>3, FewerPending DEF PendingInv
<1>13. CASE ServeHandled
  <2>1. Pending' \subseteq Pending /\ minted' = minted
    BY <1>13, HangupFacts, RestFacts DEF ServeHandled, Serving, Pending, TypeInv, ServerSet,
       StreamSet
  <2>2. FreshStreams'
    BY <1>13, HangupFacts, RestFacts DEF ServeHandled, Serving, PendingInv, FreshStreams,
       FreshServed, TypeInv, ServerSet, StreamSet
  <2>3. FreshServed'
    BY <1>13, HangupFacts, RestFacts DEF ServeHandled, Serving, ServerInv, PendingInv,
       FreshStreams, FreshServed, Connected, TypeInv, ServerSet, StreamSet
  <2> QED BY <2>1, <2>2, <2>3, FewerPending DEF PendingInv
<1>14. CASE ServeHandlerRefuses
  <2>1. Pending' \subseteq Pending /\ minted' = minted
    BY <1>14, HangupFacts, RestFacts DEF ServeHandlerRefuses, Serving, Drop, Pending,
       TypeInv, ServerSet, StreamSet
  <2>2. FreshStreams'
    BY <1>14, HangupFacts, RestFacts DEF ServeHandlerRefuses, Serving, Drop, PendingInv,
       FreshStreams, FreshServed, TypeInv, ServerSet, StreamSet
  <2>3. FreshServed'
    BY <1>14, HangupFacts, RestFacts DEF ServeHandlerRefuses, Serving, Drop, ServerInv,
       PendingInv, FreshStreams, FreshServed, Connected, TypeInv, ServerSet, StreamSet
  <2> QED BY <2>1, <2>2, <2>3, FewerPending DEF PendingInv
<1>15. CASE ServeHandlerFails
  <2>1. Pending' \subseteq Pending /\ minted' = minted
    BY <1>15, HangupFacts, RestFacts DEF ServeHandlerFails, Serving, Drop, Pending, TypeInv,
       ServerSet, StreamSet
  <2>2. FreshStreams'
    BY <1>15, HangupFacts, RestFacts DEF ServeHandlerFails, Serving, Drop, PendingInv,
       FreshStreams, FreshServed, TypeInv, ServerSet, StreamSet
  <2>3. FreshServed'
    BY <1>15, HangupFacts, RestFacts DEF ServeHandlerFails, Serving, Drop, ServerInv,
       PendingInv, FreshStreams, FreshServed, Connected, TypeInv, ServerSet, StreamSet
  <2> QED BY <2>1, <2>2, <2>3, FewerPending DEF PendingInv
<1>16. CASE ServeAnswers
  <2>1. Pending' \subseteq Pending /\ minted' = minted
    BY <1>16, HangupFacts, RestFacts DEF ServeAnswers, Serving, AtRest, Pending, TypeInv,
       ServerSet, StreamSet
  <2>2. FreshStreams'
    BY <1>16, HangupFacts, RestFacts DEF ServeAnswers, Serving, AtRest, PendingInv,
       FreshStreams, FreshServed, TypeInv, ServerSet, StreamSet
  <2>3. FreshServed'
    BY <1>16, HangupFacts, RestFacts DEF ServeAnswers, Serving, AtRest, ServerInv,
       PendingInv, FreshStreams, FreshServed, Connected, TypeInv, ServerSet, StreamSet
  <2> QED BY <2>1, <2>2, <2>3, FewerPending DEF PendingInv
<1>17. CASE Crash
  <2>1. Pending' \subseteq Pending /\ minted' = minted
    BY <1>17, HangupFacts, RestFacts DEF Crash, Closed, AtRest, Pending, TypeInv, ServerSet,
       StreamSet
  <2>2. FreshStreams'
    BY <1>17, HangupFacts, RestFacts DEF Crash, Closed, AtRest, PendingInv, FreshStreams,
       FreshServed, TypeInv, ServerSet, StreamSet
  <2>3. FreshServed'
    BY <1>17, HangupFacts, RestFacts DEF Crash, Closed, AtRest, ServerInv, PendingInv,
       FreshStreams, FreshServed, Connected, TypeInv, ServerSet, StreamSet
  <2> QED BY <2>1, <2>2, <2>3, FewerPending DEF PendingInv
<1>18. CASE Restart
  <2>1. Pending' \subseteq Pending /\ minted' = minted
    BY <1>18, HangupFacts, RestFacts DEF Restart, Pending, TypeInv, ServerSet, StreamSet
  <2>2. FreshStreams'
    BY <1>18, HangupFacts, RestFacts DEF Restart, PendingInv, FreshStreams, FreshServed,
       TypeInv, ServerSet, StreamSet
  <2>3. FreshServed'
    BY <1>18, HangupFacts, RestFacts DEF Restart, ServerInv, PendingInv, FreshStreams,
       FreshServed, Connected, TypeInv, ServerSet, StreamSet
  <2> QED BY <2>1, <2>2, <2>3, FewerPending DEF PendingInv
<1> QED BY <1>1, <1>2, <1>3, <1>4, <1>5, <1>6, <1>7, <1>8, <1>9, <1>10, <1>11, <1>12, <1>13,
           <1>14, <1>15, <1>16, <1>17, <1>18 DEF Next, Client, Serve

-----------------------------------------------------------------------------
\* Invariance: the inductive invariant holds in every state of every run of
\* the session protocol (watchdogd/src/rpc/server.rs serve_one).
THEOREM Invariance == Spec => []Inv
<1>1. Inv /\ [Next]_vars => Inv'
  BY TypeStep, ServerStep, BindingStep, OnceStep, AnswerStep, RoomStep, PendingStep DEF Inv
<1> QED BY InitInv, <1>1, PTL DEF Spec

\* TypeCorrect: TypeOK holds for any clients and bounds; in particular the
\* epoch high-water and the capabilities drawn stay within the bounds the
\* clients' connections set. (watchdogd/src/rpc/server.rs serve_one)
THEOREM TypeCorrect == Spec => []TypeOK
<1>1. Inv => TypeOK
  <2> SUFFICES ASSUME Inv PROVE TypeOK
    OBVIOUS
  <2>1. minted \in Sessions
    <3>1. minted \in Nat /\ minted + Cardinality(Pending) <= MaxSessions + Cardinality(Clients)
      BY DEF Inv, TypeInv, PendingInv
    <3>2. Cardinality(Pending) \in Nat /\ Cardinality(Clients) \in Nat
      BY PendingBound, ClientsAssumption, FS_CardinalityType
    <3> QED BY <3>1, <3>2, BoundsAssumption DEF Sessions
  <2>2. highWater \in Epochs
    BY BoundsAssumption DEF Inv, TypeInv, Epochs
  <2>3. /\ grant # None => grant.binding \in Bindings /\ grant.chosen \in Kinds \cup {None}
        /\ binding = None \/ binding \in Bindings
    BY DEF Inv, TypeInv, Grants
  <2>4. /\ server.phase \in {"accepting", "binding", "requesting", "handling", "answering"}
        /\ \A c \in Clients : stream[c].phase \in {"closed", "queued", "served"}
    BY DEF Inv, TypeInv, ServerSet, StreamSet
  <2> QED BY <2>1, <2>2, <2>3, <2>4 DEF Inv, TypeInv, ServerInv, TypeOK
<1> QED BY Invariance, <1>1, PTL

\* HandledAtMostOnce: no request frame reaches a handler twice, whatever
\* clients record and send again, however often they reconnect and the
\* watchdog restarts. (watchdogd/src/session.rs verify_authenticated)
THEOREM HandledAtMostOnce == Spec => []HandledOnce
<1>1. Inv => HandledOnce
  BY DEF Inv, OnceInv
<1> QED BY Invariance, <1>1, PTL

\* SessionsShareBinding: all sessions of a watchdog process are of one
\* binding, the grant's once there is one.
\* (watchdogd/src/core.rs bind_with_stream_cred)
THEOREM SessionsShareBinding == Spec => []OneBindingPerProcess
<1>1. Inv => OneBindingPerProcess
  <2> SUFFICES ASSUME Inv PROVE OneBindingPerProcess
    OBVIOUS
  <2>1. opened = {} \/ (up /\ opened = {binding})
    BY DEF Inv, BindingInv
  <2>2. Cardinality(opened) <= 1
    <3>1. CASE opened = {}
      BY <3>1, FS_EmptySet
    <3>2. CASE opened = {binding}
      <4>1. Cardinality(opened) = 1
        BY <3>2, FS_Singleton
      <4> QED BY <4>1
    <3> QED BY <2>1, <3>1, <3>2
  <2>3. grant # None => opened \subseteq {grant.binding}
    BY <2>1 DEF Inv, BindingInv
  <2> QED BY <2>2, <2>3 DEF OneBindingPerProcess
<1> QED BY Invariance, <1>1, PTL

\* AnswersSurvive: an answer a client accepted stays true through lost
\* answers, failed handlers, crashes and restarts.
\* (watchdogd/src/rpc/protocol.rs decode_response)
THEOREM AnswersSurvive == Spec => []AckedSurvives
<1>1. Inv => AckedSurvives
  BY DEF Inv, AnswerInv, Stands, AckedSurvives
<1> QED BY Invariance, <1>1, PTL

=============================================================================
