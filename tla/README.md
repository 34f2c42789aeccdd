# Agentbed in TLA+

A verification development for Agentbed (`src/`): TLA+ modules of the parts that keep
durable state, TLC configurations that check them on small instances, and TLAPS proofs.
`PROJECT.json` lists components, runs, mutants, findings, hazards, theorems, and the source
lines behind every definition.

## 1. The system

Agentbed lets agents change a Linux host through transactions that can be taken back. Four
processes cooperate:

    agent --MCP--> gateway --socket--> broker --socket--> watchdog
                                         |                   |
                                     host adapter     its own store, floor, fence

The **gateway** translates. The **broker** authenticates, decides by policy, and drives a
transaction `Proposed -> Testing -> Applying -> Probation`. The **watchdog** alone decides
whether a transaction on probation is committed or reverted; it is armed with a deadline and
a lease, and if the lease runs out it fences the candidate's processes before it decides.

| Component | State | Operations | What is hard |
|---|---|---|---|
| watchdog core (`watchdogd/src/core.rs`) | epoch high-water, decision log, safe-mode marker; binding, armed state, `last_clock` | open/reopen, bind, Arm, renewal/Heartbeat, RequestDecision, fence | durable steps that fail half way, crashes, a wall clock that steps back, damaged files |
| decision log (`read_model.rs`) | append-only records | append, strict read, reconstruct | the reader must accept whatever the writer can leave |
| watchdog session, RPC (`session.rs`, `rpc/`) | capability, counter | bind, verify, serve_one | replays, requests after a failure |
| store topology (`topology.rs`) | probe files | verify_startup | mount-table corner cases |
| broker engine (`broker/src/transaction/`) | snapshots, `next_seq`, safe mode | config_propose, tx_test, tx_apply, advance_to_probation, tx_status, events_replay, open | three stores written one after the other; rollback; recovery |
| WAL, idempotency (`storage/`) | record files and checkpoint; binding files and index | append, revert, recover; insert, remove, merge | partial writes, retries |
| event log (`events.rs`) | `log.jsonl`, `meta.json`, cursor | append, replay, open | concurrent readers, log replacement |
| dispatch, policy, quota, identity (`broker/src/`) | quota counters | execute_v2, evaluate, try_admit | concurrency at the limit, day roll |
| Nix adapter (`adapters/nix`) | captures, pins, activation records | propose, activate once, pin, profile, boot, readback | exactly one activation |
| server, gateway, proto, schemas | connections | accept, shutdown, framing | limits, shutdown deadline |

Interactions: the gateway opens one broker connection per call. The broker's server runs one
thread per connection; they share the quota ledger, the manifest directory and the engine, whose
`dm_lock` serializes calls that change transactions, while `tx_status` and `events_replay` run
beside them. The Nix adapter is called from those threads; its store functions hold a mutex, its
commands do not. The watchdog serves one request at a time. Neither daemon shares memory with
the other.

What makes them correct:

* watchdog: one arming and one decision per store; no epoch is issued twice; memory is never
  ahead of the disk; a decision is taken on a clock reading within its window and, after expiry,
  behind its own fence; safe mode is final.
* broker: what was acknowledged stays recorded; one key, one effect, one answer; what `tx_status`
  shows is what a restart would rebuild; events never run ahead of the WAL; safe mode stops work.
* broker service: a call is charged exactly when it is executed, and only if the manifest it was
  judged by permits it; a day's budget is kept whatever the clock does; slots match threads and
  come back; the shutdown ends; the gateway never takes another call's answer for its own.
* watchdog session: no frame is handled twice, one binding per process, what was answered stays
  true, no peer holds `serve_one` for ever.
* Nix adapter: one test activation per candidate, one capture, no promotion without a pin record
  that survives a power loss.
* event log: a numbered log; no event twice, none skipped, none that was never written.

## 2. Modules

| Module | Models | Notes |
|---|---|---|
| `DecisionLog` | `read_model.rs` | records, schema, strict reader, reconstruction, as operators |
| `WatchdogCore` | `core.rs`, `durability_store.rs`, session binding | one action per request, three for a decision; extends `DecisionLog` |
| `WatchdogAuthority` | what readers of the store may rely on | abstract specification |
| `WatchdogCoreProofs`, `WatchdogRefinementProofs` | | TLAPS: invariants; action properties and the refinement |
| `BrokerEngine` | `transaction/*.rs`, `storage/*.rs` | a call is several steps; `call` is its program counter |
| `EventLog` | `events.rs`, `events_replay` | clients in threads of their own |
| `Policy` | `policy.rs`, `safety.rs`, semantic checks of `manifest.rs`, `describe_call` of the tools | operators, with the reference definition `Permits` |
| `QuotaLedger` | `quota.rs` | the critical section of `try_admit` as an action |
| `BrokerService` | `server.rs`, `dispatch.rs`, `identity.rs`, `manifest.rs`, `main.rs`, gateway | composes `Policy` and `QuotaLedger` with connection threads, clock, operator and gateway |
| `WatchdogSession` | `session.rs`, `rpc/*.rs`, the broker's `watchdog/client.rs` | server and clients over sockets; the store is the grant of `WatchdogAuthority` |
| `NixPromotion` | `adapters/nix/src`, `nix_host_adapter.rs` | threads, files with syncs, host commands |
| `Topology` | `topology.rs` | startup verification beside an operator who mounts and unmounts |
| `BrokerEngineProofs`, `EventLogProofs`, `BrokerServiceProofs`, `WatchdogSessionProofs`, `NixPromotionProofs`, `TopologyProofs` | | TLAPS, each about the module it is named after |
| `MC*` | | small instances |

**WatchdogCore.** The store is `epochFile`, `epochTemp`, `log`, `readable`, `marker`,
`markerTemp`; the process is `status`, `safeMode`, `binding`, `session`, `armed`, `logSeq`,
`lastClock`. A handler is one action because `serve_one` borrows the core exclusively, except
that a decision waits: `HandleDecision` reads the clock (once, as the code does), `FenceCandidate`
fences if the lease had run out at that reading, `RecordDecision` compares the reading with the
deadline and appends; `deciding` holds the decision in between, while clock, candidate and files
go on and no other request is taken. Inside a handler every durable step has its outcomes:
`AdvanceEpoch` and `AppendRecord` may succeed, fail (the handler then latches safe mode, whose
marker may or may not reach the disk) or be cut by a crash, and on the last two the file may have
been written or not. Times are ticks; the clock is an outside variable that jumps freely. A lease
stands for `lease_id` with `worker_group_tag`. Framing, CRC and JSON are the flag `readable`; the
length of a record is what its lease and its base take (`SizeOf`), which the reader limits (`Fits`)
and the writer does not. Two history variables serve `EpochMonotone`: the highest epoch that was
ever durable, and whether the epoch file disappeared while the log was empty.

**BrokerEngine.** Each call begins with `PersistTransition`, its WAL record, then puts the
snapshot in place (`InsertSnapshot`, a step of its own since `tx_status` may read before it) and
continues through `RecordIdempotency`, `AppendStateEvent`, `RecordRefusal`, `RepairRecord`, or back
through `RevertWal`, `Unwind`, `Unbind`; a crash may fall between or inside any two. `StorageFails`
selects whether a read of the WAL or a write may also fail while the process lives. A lookup of a
key in the WAL that cannot be read finds nothing (`LoadOutcomes`), for good or for once. The history
keeps the keys that were taken for free that way although the WAL had them (`blind`), and the
transactions whose WAL write or rollback returned an error since the start (`adrift`). A manifest digest, a
fingerprint or a base revision is a model value. The binding key `agent:op:key` is taken as
injective: for two keys to collide an agent id would have to contain an operation name between
colons. Only the `tx.state` events matter here, and whether the log passes its integrity check.

**EventLog.** `events_replay` is three steps: the safe-mode check, `replay` and
`latest_cursor`, the last two each under the meta lock. A cursor is `(log id, seq)`; its base64
form is left out. `AppendEvent` stands for any caller in the engine; the caller's entering of
safe mode after an error is part of the step, a crash before it another outcome.

**Policy and QuotaLedger.** `evaluate` is stages 1 to 4 of the ladder in the code's order, each a
named operator; a decision is its error code and stage. `Permits` says the same without stages or
order, and is what runs compare it with. Stage 5 has state: `TryAdmit` is what happens under the
ledger's lock, with the day that was read before the lock as an argument. `windows` is the map of
the code, `spent` the history of what was charged, by agent and day.

**BrokerService.** A connection is a record with the thread's program counter (`phase`), what the
peer sent and what the call holds. `handle_frame` is four steps, because other threads, the clock
and the operator can act between them: screening (parse, version, token, operation version,
parameters, in the code's order), `LoadManifest` with stages 1 to 4 and the reading of the day,
`Admit`, `Execute`. What an operation does to transactions is `BrokerEngine`'s subject; here only
the outcome's kind shows, with every failure `engine_failure` can report. The gateway relays one
line at a time on a stream of its own, and gives up by dropping the stream. `executed` is the history
of what ran, by agent and charged day; for its sake an admitted call keeps the day it was charged to,
which after a clock that stepped back is the window's and not the one it read.

**WatchdogSession.** `server` is where `serve_one` stands; each read and write on the stream is a
step, so a client may leave, fall silent, or the process may die at each. The handlers are those
of `WatchdogAuthority`: accept, refuse, or fail with the write done or not, which latches safe
mode. A capability is a number never drawn twice; an envelope is its fields. Clients may present
any epoch up to the next one when they reconnect, and resend any frame that was ever on the wire.
They may keep a stream for several requests, which the code's client, dropping it after each call,
does not do.

**NixPromotion.** Files have a page-cache state (`files`, `act`) and a durable one
(`durable`); a crash keeps of every entry either. The profile is the host's: threads and the
operator move it, to any system, and after a crash it is any. The boot default is written, never
read. A candidate may be the system that is installed. The pin is verified, the profile read back
and each command run in steps of their own, with everybody else between them. `reserve_activation`, `finalize_activation`,
`store_active` and `store_pin` are two or three steps, write and sync, with the mutex held between
them (`Unlocked`). The generation and `/etc` are probed one after the other, so they can be of
different moments. The commands are external and appear by what they leave. `flush_boundaries` and
`read_agreement` leave nothing that an operation reads and are left out.

**Topology.** The kernel is external: mounts are a sequence, oldest first, and a path leads to the
youngest mount on a prefix of it, because a mount can only be made where a path leads. The mount
table still lists what younger mounts hide. `verify_startup` is one step per thing it looks at,
with changes of the mounts between them; the write probe may fail or be killed at each step and
leave its files behind. Escapes and device numbers in the table are parsing and left out.

Requests that the code refuses without touching state are stuttering steps in `WatchdogCore`,
`BrokerEngine` and `EventLog`.

## 3. Runs

| Run | Checks | Shows |
|---|---|---|
| `watchdog_core` | `TypeOK LogAccepted MemoryMatchesLog SingleAuthority EpochMatchesLog BoundEpochIsNext EpochMonotone SafeModeIsFinal DecisionInWindow ImplementsAuthority` | the watchdog under failed writes, crashes, restarts, clock jumps, damage |
| `broker_faults` | `TypeOK AckedDurable KeyBoundOnce RepliesAgree EventsBehindWal MemoryMatchesWal SafeModeStopsWork NoAckedStepForgotten` | the broker when reads and writes fail or the process dies anywhere |
| `broker_answers` | `AnswersDurable` violated | a binding file outlives the record that was rolled back, and a retry after the restart is answered with a state that is not recorded |
| `event_log` | `TypeOK LogNumbered NothingTwice OnlyWrittenDelivered` | replay beside appends, crashes, a removed log |
| `broker_service` | `TypeOK BudgetKept RefusedCallsAreFree RunAsJudged AnswerIsMine` | concurrent calls through dispatch, policy and quota, beside a gateway, an operator and a clock |
| `broker_liveness` | `SlotsMatch SlotsComeBack StopsInTime` | at the limit streams are dropped and the counter stays right, no connection holds its slot for ever (but for zero-length frames, which the code does not count), and the shutdown ends |
| `watchdog_session` | `TypeOK HandledOnce OneBindingPerProcess AckedSurvives ServeEnds` | sessions, replays, reconnects, lost answers, crashes, silent peers |
| `nix_promotion` | `TestedAtMostOnce CaptureIsFinal PromotedStaysPinned` | two threads and power loss around capture, activation and promotion |
| `watchdog_floor` | `ArmedAboveFloor` violated | the floor is not compared on a fresh store |
| `topology` | `AcceptedIsSeparate` | an accepted store shares its file system with no protected domain |
| `wal_table` | `WalFollowsTable` violated | a refusal of a rejected transaction writes a WAL that recovery refuses |
| `event_skipped` | `NothingSkipped` violated | an event between two lock acquisitions is never delivered |

Further behaviours were met while modelling and have no run of their own; where a property would
otherwise be false, it names them as its exception.

* An arming whose `lease_id` and `base` make the record longer than 64 KiB is written, and the
  reader then refuses the log: a decision latches safe mode, a restart fails (`read_model.rs:256`;
  exception of `LogAccepted`).
* A decision that fences waits after its clock reading, so its record may reach the disk after
  the deadline (`core.rs:558`; `DecisionInWindow` is about the reading).
* An epoch file that is lost before the first arming makes the store a fresh one: epoch 0 is written
  again (`core.rs:142`; exception of `EpochMonotone`).
* A WAL that cannot be read at the moment of a lookup counts as one without the key, and a key that
  only the WAL has is bound a second time (`engine.rs:573`; exception of `KeyBoundOnce`).
* A WAL write or a rollback that returns an error leaves `tx_status` with a state that differs from
  the WAL until the restart (`engine.rs:517`, `539`; exception of `MemoryMatchesWal`).

Two more: a crash between a WAL record and its event leaves the event missing; the next transition publishes its
own, so the events are then no prefix of the WAL's states and the following open is in safe mode
(`recovery.rs:63`). And a mount over a parent of the store's path hides the store's mount, which
the mount table still lists: if the protected domains are mounted on other devices again, the
ordinary directory of the covering file system is accepted, still apart from every domain
(`topology.rs:290`).

The violated properties are sentences of the repository's plans or comments; `findings` in
`PROJECT.json` quotes them. Every property of a passing run has a mutant, an operator beside
the original that changes it the way a plausible bug would, under which TLC finds the property
violated.

**Bounds.** `watchdog_core`: two hosts (one foreign), two transactions, leases and bases, so
that every comparison can go wrong; `MaxEpoch = 2` reaches the overflow after one arming; clock
readings -1..4 with window 2 and deadline 3 contain before UNIX_EPOCH, within the lease, at its
expiry, at the deadline, and past it, and let one renewal extend the lease and one not;
one of the bases makes a record too long for the reader. The log needs no
bound: one arming, renewals that extend up to the deadline, one decision.
`broker_faults`: two transactions, keys and bases, one change, and three WAL records: a proposal,
a transition and a retry or a second proposal, which is the shortest history of each failure
known here. A fourth record is allowed for the step to probation alone (`LastStates`), which
needs three before it. `broker_answers` and `broker_table` have three records of any state.
`event_log`: two clients, two log ids, three events: one before, between and after the steps of a replay. One agent and one
digest leave the ownership guards of the engine unexercised; see the plan.
`broker_service`: two connections with one request each are enough for two threads to meet at a
limit of one call; two days let the clock go forward and back; the two manifests differ in what
they permit; the frames contain one for each refusal of the screening; two gateway calls let the
answer of the first be late for the second. `broker_liveness`: two connections for one slot, so
that the limit is reached and a stream dropped, two requests each.
`watchdog_session`: two clients, three requests, sessions until two were drawn: a session that arms, a reconnect to it, and a second request; binds that differ in transaction,
lease, tag and credentials; a tag range of one value with one below it. `nix_promotion`: two
threads, two candidates of which one is the installed system, one edit of `/etc`, installations by
the operator and crashes without bound. `topology`: three devices and
four mounts (the host, one over `/var`, the store, a domain), one change of the mounts during a
verification, two leftover probe files; one stamp for all probes, as with a clock before 1970.

**Deadlock** is checked in `nix_promotion` and `topology`. Elsewhere a daemon with nothing to do may stop, and
the bounded sequence numbers, identifiers, sessions and log ids run out.

**Fairness.** In `BrokerService`: connection threads and the accept thread are scheduled, reads
and writes end with `read_timeout` and `write_timeout`, the shutdown loop ends at its deadline,
the gateway's wait with `BROKER_TIMEOUT`: weak fairness of each thread's next step. In
`WatchdogSession`: weak fairness of the steps of `serve_one` once it has a connection, whose reads
and writes end with `SOCKET_IO_TIMEOUT`. That it takes a connection is not assumed: it serves one and
returns, and no loop in the repository calls it again, so nothing is claimed of clients that
wait. Peers, agents, operators, signals, the clock
and restarts owe nothing. The other modules assume no fairness and claim no liveness: nothing in
the code makes a client retry or an operator restart a process, and past the deadline the
watchdog never decides by itself; what must eventually happen there is left to later gates of the
roadmap.

**Symmetry** is over model values that are compared for equality only (connections in
`broker_service`, threads in `nix_promotion`, devices in `topology`); no run with symmetry checks liveness
(`ImplementsAuthority` is a safety property).

## 4. Proofs

Proofs hold for every value of the constants, from the ASSUMEs of the modules, which TLC
evaluates on every run: `None` and `Blank` belong to no set of identifiers or records; bounds are
natural numbers, the lease window and the maximum epoch positive; clocks are integers; connections
and clients are finitely many; a manifest and a safety vector have the values their Rust types let
through (`AgentManifest`, `SafetyVector`); a frame that parses as a request names an operation
of the protocol, and the check of its parameters ends in one of the code's three ways
(`FramesAssumption`); leases and bases have a size (`SizeAssumption`).

*WatchdogCoreProofs* (`SingleAuthority`, `LogAccepted`, `MemoryMatchesLog`, `EpochMatchesLog`,
`BoundEpochIsNext`, `TypeOK`). The reader finds the arming and the latest lease by searching the
log, which no prover can do for an arbitrary log. The lemmas under "The log as data" therefore
show that a log of the shape the core writes (`LogShape`: an arming, then extending renewals,
then perhaps a decision, all of one binding) is accepted unless a record is too long, and that reconstruction returns the
closed form `ArmedClosed`: first record, last lease record, last record. The inductive
invariant is `DiskInv /\ OutsideInv /\ MemoryInv /\ DecidingInv /\ HistoryInv`: the log has the shape, and a
readable high-water equals the epoch of a log with records (over an empty log it is not
constrained, so the crash window between writing the epoch and the record is inside the
invariant). While the core serves, its sequence number is the log's length; over an empty log
nothing is armed and a bound epoch is the high-water's successor; over a log with records
memory equals the closed form and its latest lease is no later than the last clock read.
It is needed because none of the properties is inductive alone: that a renewal can be
appended, for instance, rests on memory holding the log's last expiry. A decision in progress is one
of a core that still serves and is not decided, and has either found the lease running or left
nothing of the candidate (`DecidingInv`); while the epoch file is readable and was never lost it is
the highest there was (`HistoryInv`).

*WatchdogRefinementProofs* (`EpochMonotone`, `DecisionInWindow`, `SafeModeIsFinal`,
`ImplementsAuthority`), on top of that invariant. The lemma `LogStepNext` says what any step can do
to the log: nothing, arm an empty one with the epoch it has just made durable, append a renewal, or
append a decision on a reading inside the window that the log itself states. The action properties and the
refinement are read off these four cases; for the refinement, `GrantClosed` turns the grant that a
reader searches for in the log into first record, last lease and last record, so that each case is
one action of `WatchdogAuthority`. `SafeModeIsFinal` also needs that only a running process has
latched (`LatchInv`).

*BrokerEngineProofs* (`TypeOK`, `AckedDurable`, `KeyBoundOnce`, `RepliesAgree`,
`SafeModeStopsWork`, `NoAckedStepForgotten`, `EventsBehindWal`, `MemoryMatchesWal`), for any number of transactions, agents, digests, keys and
records. A rollback may remove one record, that of the call in progress, and the argument turns on
its being no one else's: `Doomed` is the set of that record, and what was acknowledged (`AckInv`) or
stands behind a binding without an index file (`BackInv`) is in the WAL outside it. `ReplyInv` says
that an answered key is bound to its answer in the index while the broker serves, would be bound
to it by a restart (`Backed`), and is not the key a call works on; so neither a rollback nor a
repair can touch it. `KeyBoundOnce` is what makes a restart rebuild the same binding from the WAL
that was answered, and needs in turn that the next sequence number is free whenever a call may use
it (`SeqInv`, also after an append that failed with its record on disk) and that a rollback only
gives back the number of the record it removed (`CallInv`). A key that was looked up in a WAL that
could not be read is the exception; answered keys are safe all the
same: they are in the index, or in the file or the first record that a restart binds them to
again (`Backed`). That transactions only go up between restarts rests
on `validate_wal_semantics`, by the least record of a transaction that goes below an earlier one.
`EventsBehindWal` has an invariant of its own on top, `PubInv`. It counts: a state was recorded as
often as it was published, and once more while the call in progress still owes its event
(`CountInv`); so a rollback, which only takes back a record that is owed, leaves enough. The case
that makes it hard is a repair, which publishes `Proposed` for a record that an earlier call wrote,
perhaps before a crash. It may, because a proposal whose key is not bound has no event yet
(`UnpublishedInv`), a transaction is proposed once and with a key (`ProposedInv`), its identifier is
new (`IssuedInv`), and a binding is only taken away in safe mode (`FlowInv`). A restart gives the
count back: recovery compares n-th event with n-th record, and `PrefixCounts` turns that
into the inequality of the counts.
`MemoryMatchesWal` has `MemInv`: every snapshot is the latest record of its transaction in
`ShownWal`, the WAL without the record whose snapshot is still to come and with the one whose
snapshot is still to go; and a refusal, the only record whose rollback restores an older
snapshot, is taken back in safe mode only. `AnswersDurable` is not proved, since it is false
(`broker_answers`).

*EventLogProofs* (`LogNumbered`, `NothingTwice`, `OnlyWrittenDelivered`, `TypeOK`). The
invariant adds that requests exist only in a running process, that memory has counted every
line while a replay is in progress (also after a failed append, when it is one ahead), that a
replay holds lines only, and that what was delivered of the present log is still in it. The log
id in a cursor is what saves the case of a removed log: ids are never reused.

*NixPromotionProofs* (`TestedAtMostOnce`, `CaptureIsFinal`, `PromotedStaysPinned`), for any number
of threads, candidates, edits and crashes; assumed is only that `None` is no capture
(`NoneAssumption`). Alone none of
the three is inductive: a second test is prevented by a lock that must also be there after a
crash. The invariant is `TypeInv /\ Reserved /\ TestedKept /\ CapturedKept /\ PinKept`. A
reservation belongs to one thread, and once its directory is synced it is durable
(`Reserved`); so a candidate whose test has started is free neither in memory nor on the disk, and
no thread is still before its test (`TestedKept`). An answered capture is the active one on both
sides of the page cache (`CapturedKept`). The marker of a pin stands for more than its record: where there is one, in the
cache or on the disk, the active capture is pinned on both sides (`Settled`), because the record
was synced before the marker was written and no other capture can become active any more
(`PinKept`). A thread past `verified_pin` relies on that, not on the marker, which a crash may take
back. `CrashKeeps` states what a crash leaves, once for all parts.

*BrokerServiceProofs* (`TypeOK`, `BudgetKept`, `RefusedCallsAreFree`, `RunAsJudged`, `SlotsMatch`, `AnswerIsMine`).
`LadderMatchesReference` first shows that the four stages, with their order and early returns, allow
exactly what the reference `Permits` allows, for any manifest, vector and call: the run's
comparison over the model's few manifests, for all of them. The inductive invariant is
`WorldInv /\ ConnInv /\ SlotsMatch /\ GatewayInv /\ LedgerInv`. A thread past the ladder holds the
manifest it was judged by and was allowed by it (`ConnInv`), so an edit of the manifest directory
between two steps changes nothing for it. The window of the ledger holds what its day has cost, and
later days have cost nothing (`LedgerInv`): without that second part a clock that steps back would
not keep the budget. A connection that the gateway still owns is the one it waits on and carries
its last request (`GatewayInv`), which is why a late answer is never taken for a new one. That the
counter of the accept loop is the number of threads needs cardinality lemmas for one thread more
or less, and finitely many connections. `ChargeInv`, on top of that invariant, balances the books of
every agent and day: `Admit` charges and adds one call about to be executed, `Execute` turns one such
call into an executed one, no other step does either, and what is lost when the process exits is why
the property speaks of a broker that runs.

*WatchdogSessionProofs* (`TypeOK`, `HandledOnce`, `OneBindingPerProcess`, `AckedSurvives`), for any
clients, binds and bounds. A session that may still hand on a request has the newest capability,
and everything handled came with an older one (`OnceInv`): a frame sent again never fits. The
session is of the process's binding, and that is the grant's once there is one (`ServerInv`,
`BindingInv`). An answer is true from the moment it is composed (`AnswerInv`), so it may be lost,
delivered late or after a restart. `RoomInv` and `PendingInv` count sessions against the bounds of
the model, for `TypeOK`.

*TopologyProofs* (`AcceptedIsSeparate`), for any devices, mounts and domains. As long as no mount
has changed since the verification began, the device it remembers is the store's and the domains
passed so far are on others (`DomainsInv`); behind the loop all of them are (`PassedInv`).

Every invariant and every action property of a passing run is the statement of a theorem, and so is
the refinement. Only model-checked are the liveness properties `SlotsComeBack`, `StopsInTime` and
`ServeEnds`: liveness and ENABLED are out of the prover's reach, and so are the values of
recursive definitions for every input. Where the code searches, sorts or collects, the models
therefore say which position or how many (`Nth`, first and last records) and the
lemmas work with finite sets of positions and their cardinalities; where an argument needs a least
position, the well-foundedness of `<` gives it (`LeastExists` in `BrokerEngineProofs`).

## 5. Not modelled

See `components`. In short: string processing (token hashing, YAML, JSON, JSON Schema, canonical
JSON, digests, magic bytes, lengths and checksums of frames, the textual scan of a protected
change, cursors' base64, escapes in the mount table); host probing and log lines; the
creation of sockets and directories at start-up; panics and the poisoned locks they leave; the apt adapter, a stub.

## 6. Plan

1. `BrokerEngine` with two agents and two digests for the ownership guards in a run (the theorems
   hold for any number of both).
2. A composition of `BrokerService` and `BrokerEngine`, to state that what the ledger charged is what
   the engine recorded.
