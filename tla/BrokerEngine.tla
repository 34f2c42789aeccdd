---------------------------- MODULE BrokerEngine ----------------------------
(***************************************************************************)
(* The broker's transaction engine and the three stores it keeps under     *)
(* state_dir: the WAL, the tx.state events and the idempotency bindings.   *)
(* (broker/src/transaction/{engine,state,recovery}.rs, storage/{wal,       *)
(* idempotency,durability}.rs, events.rs)                                  *)
(*                                                                         *)
(* dm_lock serializes the calls that change transactions, so there is at   *)
(* most one call in progress; but a call touches the stores one after the  *)
(* other, tx_status reads without dm_lock, and the process may die between *)
(* two writes.  A call is therefore several steps: `call` holds the one in *)
(* progress and the step it is at.  A call that the code refuses without   *)
(* touching any state is a stuttering step.                                *)
(***************************************************************************)
EXTENDS Integers, FiniteSets, Sequences, SequencesExt, FiniteSetsExt, Functions

CONSTANTS
    Txs,           \* transaction ids, generated fresh (ULIDs)
    Agents,
    Digests,       \* manifest digests
    Keys,          \* idempotency keys as clients send them
    Changes,       \* what a proposal asks for: its fingerprint
    Bases,         \* base revisions of the host
    None,
    MaxSeq,        \* bound: WAL sequence numbers used
    LastStates,    \* bound: the states that the last of them may record
    StorageFails   \* whether a read or a write may fail short of a crash

ASSUME MaxSeqAssumption == MaxSeq \in Nat
ASSUME FailsAssumption  == StorageFails \in BOOLEAN
ASSUME AbsentAssumption == None \notin Txs \cup Agents \cup Digests \cup Keys
                                          \cup Changes \cup Bases

VARIABLES
    \* state_dir
    wal,           \* wal/records: from sequence numbers to records
    walTemp,       \* a {seq}.json.tmp lies among them
    walReadable,   \* FALSE: some record no longer parses
    checkpoint,    \* wal/checkpoint.json; 0 when there is none
    events,        \* events/log.jsonl, the tx.state events of it
    eventsOk,      \* validate_integrity: every line parses, meta agrees
    idemFiles,     \* idempotency/*.json, by binding key
    \* the process
    up,
    safeMode,
    txs,           \* the snapshots tx_status and the transitions read
    idem,          \* IdempotencyStore::entries
    nextSeq,
    call,          \* the call that holds dm_lock, None when it is free
    \* the outside
    base,          \* what adapter.current_base_revision() answers
    issued,        \* transaction ids generated so far
    \* history
    replies,       \* what clients were told
    blind,         \* keys bound anew because the WAL could not be read
    adrift         \* transactions whose WAL write or rollback returned an error
                   \* in this process

stores  == <<wal, walTemp, walReadable, checkpoint, events, eventsOk, idemFiles>>
memory  == <<up, safeMode, txs, idem, nextSeq, call>>
outside == <<base, issued, replies>>
history == <<blind, adrift>>
vars    == <<stores, memory, outside, history>>

\* The broker-owned states; the watchdog-owned ones are never written here.
States == {"Proposed", "Testing", "Applying", "Probation", "Rejected"}

\* broker_may_enter, from a state the transaction is in.
BrokerMayEnter(from, to) ==
    <<from, to>> \in {<<"Proposed", "Testing">>, <<"Proposed", "Rejected">>,
                      <<"Testing", "Applying">>, <<"Testing", "Rejected">>,
                      <<"Applying", "Probation">>, <<"Applying", "Rejected">>}

\* op_for_state: the operation whose key a record in this state carries.
OpForState(state) ==
    IF state = "Proposed" THEN "config.propose" ELSE "tx.apply"

BindingKeys == Agents \X {"config.propose", "tx.apply"} \X Keys

WalRecord ==
    [tx : Txs, state : States, key : Keys \cup {None},
     fingerprint : Changes \cup Txs \cup {None},
     agent : Agents, digest : Digests, base : Bases]

TxSnapshot == [state : States, agent : Agents, digest : Digests, base : Bases]

IdempotencyRecord ==
    [tx : Txs, fingerprint : Changes \cup Txs,
     state : {"Proposed", "Applying", "Rejected"}]

\* idem_key of a record that carries a key.
BindingKey(r) == <<r.agent, OpForState(r.state), r.key>>

\* The idempotency record that a WAL record stands for.
IdemOf(r) == [tx |-> r.tx, fingerprint |-> r.fingerprint, state |-> r.state]

Steps == {"insert", "record", "event", "refusal_event", "refusal_record",
          "repair_record", "repair_event", "revert", "unwind", "unbind"}

\* rec is what the call writes, or the WAL record it found; before is the
\* snapshot the transaction had; unbinds: the rollback ends with idem.remove.
Calls ==
    [step : Steps, seq : 0 .. MaxSeq, rec : WalRecord,
     before : TxSnapshot \cup {None}, unbinds : BOOLEAN]

ASSUME CallAssumption == None \notin Calls \cup TxSnapshot

Replies ==
    [key : BindingKeys \cup {None}, tx : Txs, state : States,
     fingerprint : Changes \cup Txs \cup {None}, fresh : BOOLEAN]

TypeOK ==
    /\ \E s \in SUBSET (1 .. MaxSeq) : wal \in [s -> WalRecord]
    /\ walTemp \in BOOLEAN
    /\ walReadable \in BOOLEAN
    /\ checkpoint \in 0 .. MaxSeq
    /\ events \in Seq([tx : Txs, state : States])
    /\ eventsOk \in BOOLEAN
    /\ DOMAIN idemFiles \subseteq BindingKeys
    /\ \A k \in DOMAIN idemFiles : idemFiles[k] \in IdempotencyRecord
    /\ up \in BOOLEAN
    /\ safeMode \in BOOLEAN
    /\ DOMAIN txs \subseteq Txs
    /\ \A t \in DOMAIN txs : txs[t] \in TxSnapshot
    /\ DOMAIN idem \subseteq BindingKeys
    /\ \A k \in DOMAIN idem : idem[k] \in IdempotencyRecord
    /\ nextSeq \in 0 .. MaxSeq
    /\ call \in Calls \cup {None}
    /\ base \in Bases
    /\ issued \subseteq Txs
    /\ replies \subseteq Replies
    /\ blind \subseteq BindingKeys
    /\ adrift \subseteq Txs

Empty == [x \in {} |-> None]

Put(f, k, v) == [x \in DOMAIN f \cup {k} |-> IF x = k THEN v ELSE f[x]]

Without(f, k) == Restrict(f, DOMAIN f \ {k})

\* An empty state_dir, nothing running.
Init ==
    /\ wal = Empty /\ walTemp = FALSE /\ walReadable = TRUE /\ checkpoint = 0
    /\ events = <<>> /\ eventsOk = TRUE
    /\ idemFiles = Empty
    /\ up = FALSE /\ safeMode = FALSE
    /\ txs = Empty /\ idem = Empty /\ nextSeq = 0 /\ call = None
    /\ base \in Bases
    /\ issued = {}
    /\ replies = {}
    /\ blind = {} /\ adrift = {}

\* Mutant: calls are not refused in safe mode.
ServingIfUp == up

Serving == up /\ ~safeMode

-----------------------------------------------------------------------------
(* Recovery: open_owned. *)

\* Mutant: records beyond the checkpoint are accepted.
RecoverOkBeyondCheckpoint == walReadable /\ ~walTemp

\* WalStore::recover: no orphaned temp, every record parses, the sequence
\* numbers run from 1 to the checkpoint.
RecoverOk == walReadable /\ ~walTemp /\ DOMAIN wal = 1 .. checkpoint

IndicesOf(w, tx) == {i \in DOMAIN w : w[i].tx = tx}

SnapshotOf(r) ==
    [state |-> r.state, agent |-> r.agent, digest |-> r.digest, base |-> r.base]

\* validate_wal_semantics: every transaction starts as Proposed, keeps its
\* identity, and only takes steps of the transition table.
ValidateWalSemantics(w) ==
    \A i \in DOMAIN w :
        LET earlier == {j \in IndicesOf(w, w[i].tx) : j < i} IN
        IF earlier = {} THEN w[i].state = "Proposed"
        ELSE LET prev == w[Max(earlier)] IN
             /\ BrokerMayEnter(prev.state, w[i].state)
             /\ <<prev.agent, prev.digest, prev.base>> =
                    <<w[i].agent, w[i].digest, w[i].base>>

\* Which of its transaction's entries entry i is, counted from 1.
Nth(s, i) == Cardinality({j \in IndicesOf(s, s[i].tx) : j <= i})

\* Mutant: the events are not compared with the WAL.
ValidateEventsAgainstNothing(w, ev) == TRUE

\* validate_tx_state_events_against_wal: the events of a transaction are a
\* prefix of its WAL states, the n-th event showing the n-th record's.
ValidateEventsAgainstWal(w, ev) ==
    \A i \in DOMAIN ev : \E j \in IndicesOf(w, ev[i].tx) :
        Nth(w, j) = Nth(ev, i) /\ w[j].state = ev[i].state

OpensInSafeMode ==
    \/ ~RecoverOk
    \/ ~eventsOk
    \/ ~ValidateWalSemantics(wal)
    \/ ~ValidateEventsAgainstWal(wal, events)

\* merge_from_wal: bindings the index lost come back from the records, the
\* first record of a key winning.
MergeFromWal(entries, w) ==
    LET bound(k) == {i \in DOMAIN w : w[i].key # None /\ BindingKey(w[i]) = k}
        keys == {k \in BindingKeys : bound(k) # {}}
    IN  [k \in DOMAIN entries \cup keys |->
            IF k \in DOMAIN entries THEN entries[k]
            ELSE IdemOf(w[Min(bound(k))])]

\* Mutant: the first record of a transaction wins over the later ones.
RebuildTxsFromFirst(w) ==
    [tx \in {w[i].tx : i \in DOMAIN w} |-> SnapshotOf(w[Min(IndicesOf(w, tx))])]

\* The latest record of every transaction.
RebuildTxs(w) ==
    [tx \in {w[i].tx : i \in DOMAIN w} |-> SnapshotOf(w[Max(IndicesOf(w, tx))])]

Open ==
    /\ ~up
    /\ up' = TRUE
    /\ safeMode' = OpensInSafeMode
    /\ idem' = IF RecoverOk THEN MergeFromWal(idemFiles, wal) ELSE idemFiles
    /\ txs' = IF OpensInSafeMode THEN Empty ELSE RebuildTxs(wal)
    /\ nextSeq' = IF OpensInSafeMode THEN 0 ELSE checkpoint
    /\ adrift' = {}
    /\ UNCHANGED <<stores, call, outside, blind>>

\* The process is gone, and with it everything that is not in the stores.
Die ==
    /\ up' = FALSE /\ safeMode' = FALSE
    /\ txs' = Empty /\ idem' = Empty /\ nextSeq' = 0 /\ call' = None

-----------------------------------------------------------------------------
(* Answers. *)

Reply(key, tx, state, fingerprint, fresh) ==
    replies' = replies \cup
        {[key |-> key, tx |-> tx, state |-> state,
          fingerprint |-> fingerprint, fresh |-> fresh]}

\* The answer of a call that did its work now.
ReplyFresh(r) ==
    Reply(IF r.key = None THEN None ELSE BindingKey(r),
          r.tx, r.state, r.fingerprint, TRUE)

\* The answer given again for a key that is bound already.
ReplyAgain(k, entry, fingerprint) ==
    Reply(k, entry.tx, entry.state, fingerprint, FALSE)

-----------------------------------------------------------------------------
(* The first durable step of a call: persist_transition. *)

\* What append_transition may leave behind when it does not return Ok: the
\* write of the temp, its rename, then the checkpoint in the same two steps.
AppendInterrupted(seq, rec) ==
    \/ UNCHANGED <<wal, walTemp, checkpoint>>
    \/ walTemp' = TRUE /\ UNCHANGED <<wal, checkpoint>>
    \/ wal' = Put(wal, seq, rec) /\ UNCHANGED <<walTemp, checkpoint>>
    \/ wal' = Put(wal, seq, rec) /\ checkpoint' = seq /\ UNCHANGED walTemp

\* The append of persist_transition.  An error leaves next_seq taken and the
\* engine serving.
PersistTransition(rec) ==
    LET seq == nextSeq + 1 IN
    /\ nextSeq < MaxSeq
    /\ seq = MaxSeq => rec.state \in LastStates
    /\ \/ /\ wal' = Put(wal, seq, rec)
          /\ checkpoint' = seq
          /\ nextSeq' = seq
          /\ call' = [step |-> "insert", seq |-> seq, rec |-> rec,
                      before |-> IF rec.tx \in DOMAIN txs THEN txs[rec.tx] ELSE None,
                      unbinds |-> FALSE]
          /\ UNCHANGED <<walTemp, up, safeMode, txs, idem, adrift>>
       \/ /\ StorageFails
          /\ AppendInterrupted(seq, rec)
          /\ nextSeq' = seq
          /\ adrift' = adrift \cup {rec.tx}
          /\ UNCHANGED <<txs, call, up, safeMode, idem>>
       \/ /\ AppendInterrupted(seq, rec)
          /\ Die
          /\ UNCHANGED adrift
    /\ UNCHANGED <<walReadable, events, eventsOk, idemFiles, base, replies>>

-----------------------------------------------------------------------------
(* The calls. *)

RecordsOf(k) == {i \in DOMAIN wal : wal[i].key # None /\ BindingKey(wal[i]) = k}

\* Whether load_records succeeds: not on a damaged record, and any read may fail.
LoadOutcomes == {loads \in BOOLEAN : IF loads THEN walReadable
                                     ELSE ~walReadable \/ StorageFails}

\* lookup_idempotency_from_wal: the records bound to the key, of which the
\* latest counts; records that cannot be loaded count as none.
BoundInWal(k, loads) == IF loads THEN RecordsOf(k) ELSE {}

\* Mutant: the fingerprint of a repeated request is not compared.
ReplayAnyRequest(k, fingerprint, loads) ==
    /\ k \in DOMAIN idem
    /\ ReplyAgain(k, idem[k], fingerprint)
    /\ UNCHANGED <<stores, memory, base, issued, history>>

\* A key that is bound: in the index, or in the WAL only.  A different
\* fingerprint is a conflict, which changes nothing.
Replay(k, fingerprint, loads) ==
    \/ /\ k \in DOMAIN idem
       /\ idem[k].fingerprint = fingerprint
       /\ ReplyAgain(k, idem[k], fingerprint)
       /\ UNCHANGED <<stores, memory, base, issued, history>>
    \/ /\ k \notin DOMAIN idem
       /\ BoundInWal(k, loads) # {}
       /\ LET i == Max(BoundInWal(k, loads)) IN
          /\ wal[i].fingerprint = fingerprint
          /\ call' = [step |-> "repair_record", seq |-> i, rec |-> wal[i],
                      before |-> None, unbinds |-> FALSE]
       /\ UNCHANGED <<stores, up, safeMode, txs, idem, nextSeq, outside, history>>

\* Mutant: only the index is asked whether a key is bound.
UnboundInIndex(k, loads) == k \notin DOMAIN idem /\ UNCHANGED blind

\* Nothing is found for the key.  The history keeps it when the WAL did have it.
Unbound(k, loads) ==
    /\ k \notin DOMAIN idem
    /\ BoundInWal(k, loads) = {}
    /\ blind' = IF RecordsOf(k) = {} THEN blind ELSE blind \cup {k}

ConfigPropose(agent, digest, key, change) ==
    LET k == <<agent, "config.propose", key>> IN
    /\ Serving /\ call = None
    /\ \E loads \in LoadOutcomes :
       \/ Replay(k, change, loads)
       \/ /\ Unbound(k, loads)
          /\ \E tx \in Txs \ issued :
                /\ issued' = issued \cup {tx}
                /\ PersistTransition(
                     [tx |-> tx, state |-> "Proposed", key |-> key,
                      fingerprint |-> change, agent |-> agent,
                      digest |-> digest, base |-> base])

\* transition, up to persist_transition.
Transition(agent, digest, tx, to, key, fingerprint) ==
    /\ tx \in DOMAIN txs
    /\ txs[tx].agent = agent /\ txs[tx].digest = digest
    /\ BrokerMayEnter(txs[tx].state, to)
    /\ UNCHANGED issued
    /\ PersistTransition(
         [tx |-> tx, state |-> to, key |-> key, fingerprint |-> fingerprint,
          agent |-> agent, digest |-> digest, base |-> txs[tx].base])

TxTest(agent, digest, tx) ==
    /\ Serving /\ call = None
    /\ Transition(agent, digest, tx, "Testing", None, None)
    /\ UNCHANGED blind

AdvanceToProbation(agent, digest, tx) ==
    /\ Serving /\ call = None
    /\ Transition(agent, digest, tx, "Probation", None, None)
    /\ UNCHANGED blind

\* refuse_moved_base_apply: Rejected is recorded whatever state the
\* transaction is in.
RefuseMovedBaseApply(agent, digest, tx, key) ==
    /\ UNCHANGED issued
    /\ PersistTransition(
         [tx |-> tx, state |-> "Rejected", key |-> key, fingerprint |-> tx,
          agent |-> agent, digest |-> digest, base |-> txs[tx].base])

TxApply(agent, digest, tx, key) ==
    LET k == <<agent, "tx.apply", key>> IN
    /\ Serving /\ call = None
    /\ \E loads \in LoadOutcomes :
       \/ Replay(k, tx, loads)
       \/ /\ Unbound(k, loads)
          /\ tx \in DOMAIN txs
          /\ txs[tx].agent = agent /\ txs[tx].digest = digest
          /\ \/ /\ txs[tx].base # base
                /\ RefuseMovedBaseApply(agent, digest, tx, key)
             \/ /\ txs[tx].base = base
                /\ Transition(agent, digest, tx, "Applying", key, tx)

-----------------------------------------------------------------------------
(* The later steps of a call. *)

At(step) == call # None /\ call.step = step

GoTo(step) == call' = [call EXCEPT !.step = step]

Return == call' = None

\* Where a call goes on once its snapshot is in place: a key is bound first,
\* except that a refusal is published first.
AfterInsert(rec) ==
    IF rec.state = "Rejected" THEN "refusal_event"
    ELSE IF rec.key # None THEN "record" ELSE "event"

\* The rest of persist_transition: the snapshot that tx_status reads.
InsertSnapshot ==
    /\ At("insert")
    /\ txs' = Put(txs, call.rec.tx, SnapshotOf(call.rec))
    /\ GoTo(AfterInsert(call.rec))
    /\ UNCHANGED <<stores, up, safeMode, idem, nextSeq, outside, history>>

\* IdempotencyStore::insert of what the call has to bind; on an error the
\* file may be there all the same.
InsertOk ==
    LET k == BindingKey(call.rec) IN
    /\ idemFiles' = Put(idemFiles, k, IdemOf(call.rec))
    /\ idem' = Put(idem, k, IdemOf(call.rec))

InsertFails ==
    /\ StorageFails
    /\ UNCHANGED idem
    /\ idemFiles' \in {idemFiles,
                       Put(idemFiles, BindingKey(call.rec), IdemOf(call.rec))}

\* config_propose and tx_apply bind the key before the event.  A proposal
\* that cannot be bound stays; an apply that cannot be bound is rolled back.
RecordIdempotency ==
    /\ At("record")
    /\ \/ InsertOk /\ GoTo("event")
       \/ InsertFails /\ IF call.rec.state = "Proposed" THEN Return ELSE GoTo("revert")
    /\ UNCHANGED <<wal, walTemp, walReadable, checkpoint, events, eventsOk,
                   up, safeMode, txs, nextSeq, outside, history>>

\* A moved-base refusal is bound after its event; the answer is
\* BaseRevisionMoved.
RecordRefusal ==
    /\ At("refusal_record")
    /\ \/ InsertOk /\ ReplyFresh(call.rec)
       \/ InsertFails /\ UNCHANGED replies
    /\ Return
    /\ UNCHANGED <<wal, walTemp, walReadable, checkpoint, events, eventsOk,
                   up, safeMode, txs, nextSeq, base, issued, history>>

\* A key found in the WAL only is bound again; a proposal then gets the event
\* it may lack.
RepairRecord ==
    /\ At("repair_record")
    /\ \/ /\ InsertOk
          /\ IF call.rec.state = "Proposed"
             THEN GoTo("repair_event") /\ UNCHANGED replies
             ELSE Return /\ ReplyAgain(BindingKey(call.rec), IdemOf(call.rec), call.rec.fingerprint)
       \/ InsertFails /\ Return /\ UNCHANGED replies
    /\ UNCHANGED <<wal, walTemp, walReadable, checkpoint, events, eventsOk,
                   up, safeMode, txs, nextSeq, base, issued, history>>

\* EventLog::append of the state the call entered.
StateEvent == [tx |-> call.rec.tx, state |-> call.rec.state]

AppendOk == events' = Append(events, StateEvent) /\ UNCHANGED eventsOk

\* The line may be absent; torn, or there without its meta; or complete.
AppendFails ==
    \/ UNCHANGED <<events, eventsOk>>
    \/ eventsOk' = FALSE /\ UNCHANGED events
    \/ events' = Append(events, StateEvent) /\ UNCHANGED eventsOk

\* append_state_event enters safe mode before its caller sees the error.
AppendStateEvent ==
    /\ At("event") \/ At("refusal_event") \/ At("repair_event")
    /\ \/ /\ AppendOk
          /\ UNCHANGED safeMode
          /\ \/ At("event") /\ Return /\ ReplyFresh(call.rec)
             \/ At("refusal_event") /\ GoTo("refusal_record") /\ UNCHANGED replies
             \/ /\ At("repair_event") /\ Return
                /\ ReplyAgain(BindingKey(call.rec), IdemOf(call.rec), call.rec.fingerprint)
       \/ /\ StorageFails
          /\ AppendFails
          /\ safeMode' = TRUE
          /\ UNCHANGED replies
          /\ IF At("repair_event") THEN Return
             ELSE call' = [call EXCEPT !.step = "revert",
                              !.unbinds = At("event") /\ call.rec.key # None]
    /\ UNCHANGED <<wal, walTemp, walReadable, checkpoint, idemFiles,
                   up, txs, idem, nextSeq, base, issued, history>>

-----------------------------------------------------------------------------
(* Rollback. *)

\* Mutant: the rollback removes the record before the one just written.
RevertWalPrevious ==
    /\ At("revert")
    /\ wal' = Without(wal, call.seq - 1)
    /\ checkpoint' = call.seq - 1
    /\ GoTo("unwind")
    /\ UNCHANGED <<walTemp, walReadable, events, eventsOk, idemFiles,
                   up, safeMode, txs, idem, nextSeq, outside, history>>

\* revert_last_transition: the record goes first, then the checkpoint; below
\* sequence number 2 the checkpoint file is removed and the result ignored.
RevertWal ==
    /\ At("revert")
    /\ \/ /\ wal' = Without(wal, call.seq)
          /\ \/ checkpoint' = call.seq - 1
             \/ StorageFails /\ call.seq = 1 /\ UNCHANGED checkpoint
          /\ GoTo("unwind")
          /\ UNCHANGED adrift
       \/ /\ StorageFails           \* Err(Storage): the call returns here
          /\ \/ UNCHANGED <<wal, checkpoint>>
             \/ /\ call.seq > 1
                /\ wal' = Without(wal, call.seq)
                /\ checkpoint' \in {checkpoint, call.seq - 1}
          /\ Return
          /\ adrift' = adrift \cup {call.rec.tx}
    /\ UNCHANGED <<walTemp, walReadable, events, eventsOk, idemFiles,
                   up, safeMode, txs, idem, nextSeq, outside, blind>>

\* Mutant: the sequence number is given back twice.
UnwindTwice ==
    /\ At("unwind")
    /\ nextSeq' = call.seq - 2
    /\ txs' = Without(txs, call.rec.tx) /\ safeMode' = TRUE
    /\ Return
    /\ UNCHANGED <<stores, up, idem, outside, history>>

\* The rest of rollback_transition: the whole snapshot goes, safe mode is
\* entered.  A refusal puts back the snapshot it had.
Unwind ==
    /\ At("unwind")
    /\ nextSeq' = call.seq - 1
    /\ IF call.rec.state = "Rejected"
       THEN txs' = Put(txs, call.rec.tx, call.before) /\ UNCHANGED safeMode
       ELSE txs' = Without(txs, call.rec.tx) /\ safeMode' = TRUE
    /\ IF call.unbinds THEN GoTo("unbind") ELSE Return
    /\ UNCHANGED <<stores, up, idem, outside, history>>

\* IdempotencyStore::remove, its result ignored.
Unbind ==
    /\ At("unbind")
    /\ LET k == BindingKey(call.rec) IN
       \/ idemFiles' = Without(idemFiles, k) /\ idem' = Without(idem, k)
       \/ StorageFails /\ UNCHANGED <<idemFiles, idem>>
    /\ Return
    /\ UNCHANGED <<wal, walTemp, walReadable, checkpoint, events, eventsOk,
                   up, safeMode, txs, nextSeq, outside, history>>

-----------------------------------------------------------------------------
(* The outside. *)

\* The process dies between two writes, or within one: a torn event, an
\* index file without the rest, a removed record under the old checkpoint.
Crash ==
    /\ up
    /\ Die
    /\ \/ UNCHANGED stores
       \/ /\ At("event") \/ At("refusal_event") \/ At("repair_event")
          /\ AppendFails
          /\ UNCHANGED <<wal, walTemp, walReadable, checkpoint, idemFiles>>
       \/ /\ At("revert")
          /\ wal' = Without(wal, call.seq)
          /\ UNCHANGED <<walTemp, walReadable, checkpoint, events, eventsOk, idemFiles>>
    /\ UNCHANGED <<outside, history>>

BaseMoves ==
    /\ base' \in Bases \ {base}
    /\ UNCHANGED <<stores, memory, issued, replies, history>>

\* Bytes of a WAL record are damaged under the broker.
WalDamaged ==
    /\ walReadable /\ DOMAIN wal # {}
    /\ walReadable' = FALSE
    /\ UNCHANGED <<wal, walTemp, checkpoint, events, eventsOk, idemFiles,
                   memory, outside, history>>

Request ==
    \E agent \in Agents, digest \in Digests :
        \/ \E key \in Keys :
             \/ \E change \in Changes : ConfigPropose(agent, digest, key, change)
             \/ \E tx \in Txs : TxApply(agent, digest, tx, key)
        \/ \E tx \in Txs :
             \/ TxTest(agent, digest, tx)
             \/ AdvanceToProbation(agent, digest, tx)

CallStep ==
    \/ InsertSnapshot
    \/ RecordIdempotency \/ RecordRefusal \/ RepairRecord
    \/ AppendStateEvent
    \/ RevertWal \/ Unwind \/ Unbind

Next == Open \/ Request \/ CallStep \/ Crash \/ BaseMoves \/ WalDamaged

Spec == Init /\ [][Next]_vars

-----------------------------------------------------------------------------
(* Properties. *)

Recorded(tx, state) == \E i \in DOMAIN wal : wal[i].tx = tx /\ wal[i].state = state

\* A step that the engine did and acknowledged is in the WAL and stays there:
\* no rollback, failed write, crash or restart takes it away again.
AckedDurable == \A r \in replies : r.fresh => Recorded(r.tx, r.state)

\* An idempotency key is bound to at most one record of its operation, whatever
\* failed or died between WAL, index and event, as long as every lookup that
\* came to the WAL could read it: an unreadable WAL counts as one without the
\* key (engine.rs:573), and only then is a bound key bound again.
KeyBoundOnce ==
    \A i, j \in DOMAIN wal :
        /\ wal[i].key # None /\ wal[j].key # None
        /\ BindingKey(wal[i]) = BindingKey(wal[j])
        /\ BindingKey(wal[i]) \notin blind
        => i = j

\* Two answers for the same key name the same transaction, state and request.
RepliesAgree ==
    \A r, s \in replies :
        r.key # None /\ r.key = s.key =>
            <<r.tx, r.state, r.fingerprint>> = <<s.tx, s.state, s.fingerprint>>

Count(s, e) == Cardinality({i \in DOMAIN s : s[i].tx = e.tx /\ s[i].state = e.state})

\* While the engine serves, no state was published more often than it was
\* recorded: an event never runs ahead of the authoritative WAL.
EventsBehindWal ==
    Serving => \A i \in DOMAIN events : Count(events, events[i]) <= Count(wal, events[i])

\* In safe mode nothing is recorded, published or acknowledged any more, and
\* only a restart leaves it.
SafeModeStopsWork ==
    [][up /\ safeMode =>
         /\ DOMAIN wal' \subseteq DOMAIN wal
         /\ up' => safeMode' /\ events' = events
         /\ replies' = replies]_vars

Rank == [s \in States |->
    CASE s = "Proposed" -> 1 [] s = "Testing" -> 2 [] s = "Applying" -> 3
      [] s = "Probation" -> 4 [] s = "Rejected" -> 5]

\* A restart that serves knows every acknowledged step: no transaction comes
\* back in a state before one its client was told.
NoAckedStepForgotten ==
    [][~up /\ up' /\ ~safeMode' =>
         \A r \in replies : r.fresh =>
             /\ r.tx \in DOMAIN txs'
             /\ Rank[txs'[r.tx].state] >= Rank[r.state]]_vars

\* The WAL as the snapshots show it: without the record of a call that has yet
\* to insert its snapshot, with the record of one that has yet to take it back.
ShownWal ==
    IF At("insert") THEN Without(wal, call.seq)
    ELSE IF At("unwind") THEN Put(wal, call.seq, call.rec)
    ELSE wal

\* What tx_status reads, without dm_lock and at any moment between two writes
\* of another call, is what a restart would rebuild from the WAL, but for the
\* one record that the call in progress is writing or taking back, and for
\* transactions whose own WAL write or rollback returned an error.
MemoryMatchesWal ==
    Serving => \A tx \in Txs \ adrift :
        LET rebuilt == RebuildTxs(ShownWal) IN
        /\ tx \in DOMAIN txs <=> tx \in DOMAIN rebuilt
        /\ tx \in DOMAIN txs => txs[tx] = rebuilt[tx]

\* docs/effects.md:74: a state is persisted before it is entered, and replays
\* return the original result.  What a client is told, replays included, was
\* recorded.
AnswersDurable == \A r \in replies : Recorded(r.tx, r.state)

\* state.rs and the AGB-4 PLAN diagram: the broker's records follow the
\* transition table.
WalFollowsTable == up /\ ~safeMode => ValidateWalSemantics(wal)
=============================================================================
