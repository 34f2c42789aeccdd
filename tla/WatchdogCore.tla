---------------------------- MODULE WatchdogCore ----------------------------
(***************************************************************************)
(* The watchdog: the single writer of commit/revert authority.             *)
(* (watchdogd/src/core.rs, durability_store.rs, session.rs, rpc/server.rs) *)
(*                                                                         *)
(* One process at a time owns the store.  It serves one request at a time  *)
(* (serve_one takes &mut WatchdogCore), so a handler is one action, with   *)
(* every durable step it makes inside it: each step may succeed, fail (the *)
(* handler then fails closed) or be cut by a crash, and what it leaves on  *)
(* disk is part of the outcome.  The exception is handle_decision, which   *)
(* reads the clock, may then wait for a fence and only then writes: it is  *)
(* three actions, between which time passes and the store may be damaged.  *)
(* A request that the code refuses without touching any state is a         *)
(* stuttering step.                                                        *)
(***************************************************************************)
EXTENDS DecisionLog

CONSTANTS
    HostId,        \* CoreConfig::host_id
    Clocks,        \* what the system clock may read; negative is pre-UNIX
    Deadlines,     \* arming deadlines a request may carry
    Invariants,    \* names of health invariants a manifest may list
    BASE_MANDATORY_INVARIANTS,
    Floors         \* what the external floor may answer

ASSUME HostAssumption     == HostId \in Hosts
ASSUME ClockAssumption    == Clocks \subseteq Int
ASSUME DeadlineAssumption == Deadlines \subseteq Nat
ASSUME InvariantsAssumption == BASE_MANDATORY_INVARIANTS \subseteq Invariants
ASSUME FloorAssumption    == Floors \subseteq Nat

VARIABLES
    \* the store
    epochFile,     \* epoch/high-water.json: an epoch, Missing or Malformed
    epochTemp,     \* a .tmp-epoch* file lies beside it
    log,           \* decisions/decision.log: its complete records
    readable,      \* FALSE: a torn tail or damaged bytes make the log unreadable
    marker,        \* state/safe-mode.json exists
    markerTemp,    \* a .tmp-safe-mode* file lies beside it
    \* the process
    status,        \* "running", "stopped", or the error startup returned
    safeMode,
    binding,       \* durable_binding
    session,       \* the established session's identity
    armed,
    logSeq,
    lastClock,
    deciding,      \* the decision being handled: its clock reading, what is next
    \* the outside
    clock,         \* what SystemTime::now() answers
    candidate,     \* what is left of the candidate: its group, its jobs
    floor,         \* the floor the last startup read
    \* history
    highest,       \* the highest high-water the file has ever held
    lost           \* the file disappeared while the log had no record

storeVars   == <<epochFile, epochTemp, log, readable, marker, markerTemp>>
processVars == <<status, safeMode, binding, session, armed, logSeq, lastClock>>
outsideVars == <<clock, candidate, floor>>
vars        == <<storeVars, processVars, deciding, outsideVars, highest, lost>>

Missing   == -1
Malformed == -2

ArmedState ==
    [binding  : Binding,
     base     : Bases \cup {Blank},
     deadline : Nat \cup {NoTime},
     expires  : Nat \cup {NoTime},
     chosen   : Decisions \cup {None}]

ASSUME ArmedAssumption == None \notin ArmedState

Parts == {"group", "jobs"}

\* A decision between its clock reading and its record: next is what it does
\* next, left what its fence left of the candidate (all of it before a fence).
Deciding == [now : Int, next : {"fence", "record"}, left : SUBSET Parts]

ASSUME DecidingAssumption == None \notin Deciding

StartupErrors ==
    {"SafeModeActive", "EpochLogMismatch", "Topology",
     "SafeModePersistUnavailable", "Durability"}

TypeOK ==
    /\ epochFile \in Epochs \cup {Missing, Malformed}
    /\ epochTemp \in BOOLEAN
    /\ log \in Seq(AuthorityRecord)
    /\ readable \in BOOLEAN
    /\ marker \in BOOLEAN
    /\ markerTemp \in BOOLEAN
    /\ status \in {"running", "stopped"} \cup StartupErrors
    /\ safeMode \in BOOLEAN
    /\ binding \in Binding \cup {None}
    /\ session \in Binding \cup {None}
    /\ armed \in ArmedState \cup {None}
    /\ logSeq \in Nat
    /\ lastClock \in Int
    /\ deciding \in Deciding \cup {None}
    /\ clock \in Clocks
    /\ candidate \in SUBSET Parts
    /\ floor \in Floors \cup {None}
    /\ highest \in Epochs
    /\ lost \in BOOLEAN

\* A freshly provisioned store, nothing running.
Init ==
    /\ epochFile = Missing /\ epochTemp = FALSE
    /\ log = <<>> /\ readable = TRUE
    /\ marker = FALSE /\ markerTemp = FALSE
    /\ status = "stopped" /\ safeMode = FALSE
    /\ binding = None /\ session = None /\ armed = None
    /\ logSeq = 0 /\ lastClock = 0 /\ deciding = None
    /\ clock \in Clocks
    /\ candidate = {"group"}
    /\ floor = None
    /\ highest = 0 /\ lost = FALSE

-----------------------------------------------------------------------------
(* Ends of a handler. *)

\* The process is gone, and with it everything that is not in the store.
Stop(why) ==
    /\ status' = why
    /\ safeMode' = FALSE
    /\ binding' = None /\ session' = None /\ armed' = None
    /\ logSeq' = 0 /\ lastClock' = 0

\* persist_safe_mode_marker: exclusive temp, fsync, rename, directory fsync,
\* readback; a temp left by an earlier attempt refuses it.  Its callers go on
\* the same way whether or not it worked.
PersistSafeModeMarker ==
    \/ UNCHANGED <<marker, markerTemp>>
    \/ ~markerTemp /\ markerTemp' = TRUE /\ UNCHANGED marker
    \/ ~markerTemp /\ marker' = TRUE /\ UNCHANGED markerTemp

\* enter_safe_mode and latch_safe_mode_best_effort: the latch in memory comes
\* first, the marker may not make it to the disk, and the process may die.
EnterSafeMode ==
    /\ PersistSafeModeMarker
    /\ \/ /\ safeMode' = TRUE
          /\ UNCHANGED <<status, binding, session, armed, logSeq, lastClock>>
       \/ Stop("stopped")

\* Mutant: the handlers forget the latch.
ServingIfRunning == status = "running"

Serving == status = "running" /\ ~safeMode

-----------------------------------------------------------------------------
(* Startup: open (isReopen = FALSE) and reopen. *)

EpochReadable == epochFile \in Epochs

\* startup up to the topology proof.  An Unwritable store makes it rename a
\* .tmp-safe that nothing wrote: no marker appears, whatever rename answers.
StartupRefusedEarly ==
    /\ UNCHANGED <<storeVars, floor>>
    /\ \/ marker /\ Stop("SafeModeActive")
       \/ ~marker /\ Stop("Topology")
       \/ ~marker /\ Stop("SafeModePersistUnavailable")
       \/ ~marker /\ ~(readable /\ OpenAccepts(log)) /\ Stop("SafeModeActive")
       \/ ~marker /\ readable /\ OpenAccepts(log)   \* the floor cannot be read
            /\ Stop("SafeModeActive")

\* The epoch high-water against the floor and the log; "ok" lets startup go on.
EpochCrosscheck(isReopen, f) ==
    LET crosscheck == isReopen \/ RecordCount(log) > 0 IN
    IF ~EpochReadable THEN "EpochLogMismatch"
    ELSE IF epochFile < f THEN "SafeModeActive"
    ELSE IF crosscheck /\ RecordCount(log) > 0 /\ epochFile # LogMaxEpoch(log)
         THEN "EpochLogMismatch"
    ELSE IF crosscheck /\ epochFile > 0 /\ RecordCount(log) = 0
         THEN "EpochLogMismatch"
    ELSE "ok"

\* Mutant: an empty log alone makes a store fresh.
FreshStoreByLog(isReopen) == ~isReopen /\ RecordCount(log) = 0

\* open on a store with neither log records nor an epoch file.
FreshStore(isReopen) ==
    ~isReopen /\ RecordCount(log) = 0 /\ epochFile = Missing

\* write_epoch_file(0) is a plain write with an fsync: not atomic.
WriteEpochZero(res) ==
    /\ res = "ok" => epochFile' = 0
    /\ res # "ok" => epochFile' \in {Missing, Malformed, 0}

\* reopen_state and the fields of the new core.
Run(isReopen) ==
    LET r == IF isReopen \/ RecordCount(log) > 0
             THEN ReconstructActiveAuthority(log) ELSE None
    IN /\ status' = "running"
       /\ safeMode' = FALSE
       /\ session' = None
       /\ logSeq' = RecordCount(log)
       /\ binding'   = IF r = None THEN None ELSE r.binding
       /\ lastClock' = IF r = None THEN 0 ELSE r.lastActivity
       /\ armed' = IF r = None THEN None
                   ELSE [binding |-> r.binding, base |-> r.base,
                         deadline |-> r.deadline, expires |-> r.expires,
                         chosen |-> r.chosen]

StartupFromStore(isReopen) ==
    /\ ~marker
    /\ readable /\ OpenAccepts(log)
    /\ floor' \in Floors
    /\ UNCHANGED <<epochTemp, log, readable, marker, markerTemp>>
    /\ \/ /\ FreshStore(isReopen)
          /\ \/ WriteEpochZero("ok") /\ Run(isReopen)
             \/ WriteEpochZero("failed") /\ Stop("Durability")
             \/ WriteEpochZero("crashed") /\ Stop("stopped")
       \/ /\ ~FreshStore(isReopen)
          /\ UNCHANGED epochFile
          /\ LET verdict == EpochCrosscheck(isReopen, floor') IN
             \/ verdict # "ok" /\ Stop(verdict)
             \/ verdict = "ok" /\ ~ReconstructAccepts(log) /\ Stop("SafeModeActive")
             \/ verdict = "ok" /\ ReconstructAccepts(log) /\ Run(isReopen)

Startup ==
    /\ status # "running"
    /\ \/ StartupRefusedEarly
       \/ \E isReopen \in BOOLEAN : StartupFromStore(isReopen)
    /\ UNCHANGED <<deciding, clock, candidate>>

-----------------------------------------------------------------------------
(* SessionBind. *)

\* Mutant: the successor of the high-water is not checked for overflow.
BindUnchecked(b) ==
    /\ status = "running" /\ ~safeMode
    /\ binding = None /\ EpochReadable
    /\ binding' = [b EXCEPT !.epoch = epochFile + 1]
    /\ session' = binding'
    /\ UNCHANGED <<storeVars, status, safeMode, armed, logSeq, lastClock, outsideVars>>

\* Mutant: the bind is given the high-water itself.
BindCurrentEpoch(b) ==
    /\ status = "running" /\ ~safeMode
    /\ binding = None /\ EpochReadable
    /\ binding' = [b EXCEPT !.epoch = epochFile]
    /\ session' = binding'
    /\ UNCHANGED <<storeVars, status, safeMode, armed, logSeq, lastClock, outsideVars>>

\* SessionState::bind: with no durable binding the watchdog issues the epoch
\* (normalize_session_bind, which runs before any check of the peer or of the
\* latch); otherwise the peer must present exactly the binding it has.
Bind(b) ==
    /\ status = "running"
    /\ \/ /\ binding = None
          /\ EpochReadable /\ epochFile < MaxEpoch
          /\ ~safeMode
          /\ binding' = [b EXCEPT !.epoch = epochFile + 1]
          /\ session' = binding'
          /\ UNCHANGED <<marker, markerTemp, status, safeMode, armed, logSeq, lastClock>>
       \/ /\ binding = None
          /\ ~EpochReadable \/ epochFile = MaxEpoch
          /\ EnterSafeMode
       \/ /\ binding # None /\ b = binding
          /\ ~safeMode
          /\ session' = b
          /\ UNCHANGED <<marker, markerTemp, status, safeMode, binding, armed,
                         logSeq, lastClock>>
    /\ UNCHANGED <<epochFile, epochTemp, log, readable, outsideVars>>

\* verify_authenticated and verify_envelope_binding: a request that reaches a
\* handler names the host, transaction and epoch of the established session.
Authenticated(host, tx, epoch) ==
    /\ session # None
    /\ host = session.host /\ tx = session.tx /\ epoch = session.epoch

-----------------------------------------------------------------------------
(* Durable steps of the handlers, with their result. *)

Results == {"ok", "failed", "crashed"}

\* Mutant: the new high-water does not reach the disk.
AdvanceEpochInMemory(res) ==
    res \in Results /\ UNCHANGED <<epochFile, epochTemp>>

\* advance_epoch, when epochFile can be read and has a successor: a residue
\* refuses it; otherwise temp, fsync, rename, directory fsync, readback.
AdvanceEpoch(res) ==
    \/ /\ res = "ok"
       /\ ~epochTemp
       /\ epochFile' = epochFile + 1
       /\ UNCHANGED epochTemp
    \/ /\ res \in {"failed", "crashed"}
       /\ \/ UNCHANGED <<epochFile, epochTemp>>
          \/ ~epochTemp /\ epochTemp' = TRUE /\ UNCHANGED epochFile
          \/ ~epochTemp /\ epochFile' = epochFile + 1 /\ UNCHANGED epochTemp

\* Mutant: a record is not validated before it is written.
AppendRecordUnvalidated(r, res) ==
    \/ res = "ok" /\ log' = Append(log, r) /\ UNCHANGED readable
    \/ res # "ok" /\ UNCHANGED <<log, readable>>

\* append_record: schema, write, file fsync, directory fsync.  When it does
\* not return Ok the record may be absent, torn or complete.
AppendRecord(r, res) ==
    \/ /\ res = "ok"
       /\ ValidateSchema(r)
       /\ log' = Append(log, r)
       /\ UNCHANGED readable
    \/ /\ res = "failed"
       /\ ~ValidateSchema(r)
       /\ UNCHANGED <<log, readable>>
    \/ /\ res \in {"failed", "crashed"}
       /\ ValidateSchema(r)
       /\ \/ UNCHANGED <<log, readable>>
          \/ UNCHANGED log /\ readable' = FALSE
          \/ log' = Append(log, r) /\ UNCHANGED readable

\* Mutant: a failed append is reported but does not latch safe mode.
AfterAppendUnlatched(res, accepted) ==
    \/ res = "ok" /\ accepted /\ UNCHANGED <<marker, markerTemp>>
    \/ res = "failed" /\ UNCHANGED <<marker, markerTemp, processVars>>
    \/ res = "crashed" /\ Stop("stopped") /\ UNCHANGED <<marker, markerTemp>>

\* The rest of a handler after append_record, which latches safe mode on error.
AfterAppend(res, accepted) ==
    \/ res = "ok" /\ accepted /\ UNCHANGED <<marker, markerTemp>>
    \/ res = "failed" /\ EnterSafeMode
    \/ res = "crashed" /\ Stop("stopped") /\ UNCHANGED <<marker, markerTemp>>

-----------------------------------------------------------------------------
(* The requests. *)

\* The observed base agrees; an empty observation is taken as agreement.
BaseAgrees(observed, base) == observed = Blank \/ observed = base

\* The manifest names every base invariant, and additive checks only repeat
\* names of the mandatory list.
ValidateManifest(mandatory, additive) ==
    /\ mandatory # {}
    /\ BASE_MANDATORY_INVARIANTS \subseteq mandatory
    /\ additive \subseteq mandatory

\* handle_arm up to the epoch.
ArmAllowed(host, tx, epoch, base, observed) ==
    /\ Authenticated(host, tx, epoch)
    /\ host = HostId
    /\ armed = None
    /\ BaseAgrees(observed, base)
    /\ \E mandatory, additive \in SUBSET Invariants :
          ValidateManifest(mandatory, additive)

HandleArm(host, tx, epoch, base, deadline, observed) ==
    /\ Serving
    /\ ArmAllowed(host, tx, epoch, base, observed)
    /\ UNCHANGED outsideVars
    /\ \/ /\ ~EpochReadable \/ epochFile = MaxEpoch
          /\ EnterSafeMode
          /\ UNCHANGED <<epochFile, epochTemp, log, readable>>
       \/ /\ EpochReadable /\ epochFile < MaxEpoch
          /\ binding # None
          /\ epoch = binding.epoch /\ epoch = epochFile + 1
          /\ deadline > clock
          /\ LET b == [host |-> host, tx |-> tx, epoch |-> epoch,
                       lease |-> binding.lease]
                 r == ArmedRecord(logSeq + 1, b, base, clock, deadline)
             IN
             \/ /\ AdvanceEpoch("crashed") /\ Stop("stopped")
                /\ UNCHANGED <<log, readable, marker, markerTemp>>
             \/ /\ AdvanceEpoch("failed") /\ EnterSafeMode
                /\ UNCHANGED <<log, readable>>
             \/ /\ AdvanceEpoch("ok")
                /\ clock < 0          \* armed_record refuses a pre-UNIX time
                /\ EnterSafeMode
                /\ UNCHANGED <<log, readable>>
             \/ /\ AdvanceEpoch("ok")
                /\ clock >= 0
                /\ \E res \in Results :
                     /\ AppendRecord(r, res)
                     /\ AfterAppend(res,
                          /\ armed' = [binding |-> b, base |-> base,
                                       deadline |-> deadline,
                                       expires |-> r.expires, chosen |-> None]
                          /\ logSeq' = logSeq + 1
                          /\ lastClock' = clock
                          /\ UNCHANGED <<status, safeMode, binding, session>>)

\* Mutant: a lease is renewed although the decision was made.
RenewalAllowedAfterDecision(host, tx, epoch, lease) ==
    /\ Authenticated(host, tx, epoch)
    /\ armed # None
    /\ armed.binding.lease = lease
    /\ clock >= lastClock
    /\ clock < armed.expires
    /\ clock <= armed.deadline

\* handle_lease_renewal up to the policy: RequestLeaseRenewal and Heartbeat.
RenewalAllowed(host, tx, epoch, lease) ==
    /\ Authenticated(host, tx, epoch)
    /\ armed # None
    /\ armed.binding.tx = tx
    /\ armed.binding.epoch = epoch
    /\ armed.binding.lease = lease
    /\ armed.chosen = None
    /\ clock >= lastClock
    /\ clock < armed.expires
    /\ clock <= armed.deadline

HandleLeaseRenewal(host, tx, epoch, lease) ==
    /\ Serving
    /\ RenewalAllowed(host, tx, epoch, lease)
    /\ UNCHANGED <<epochFile, epochTemp, outsideVars>>
    /\ LET expiry == LeaseExpiryAt(clock, armed.deadline)
           b == [host |-> armed.binding.host, tx |-> tx, epoch |-> epoch,
                 lease |-> lease]
           r == LeaseRenewedRecord(logSeq + 1, b, clock, armed.deadline)
       IN
       \/ /\ expiry <= armed.expires
          /\ lastClock' = clock
          /\ UNCHANGED <<log, readable, marker, markerTemp, status, safeMode,
                         binding, session, armed, logSeq>>
       \/ /\ expiry > armed.expires
          /\ \E res \in Results :
               /\ AppendRecord(r, res)
               /\ AfterAppend(res,
                    /\ armed' = [armed EXCEPT !.expires = expiry]
                    /\ logSeq' = logSeq + 1
                    /\ lastClock' = clock
                    /\ UNCHANGED <<status, safeMode, binding, session>>)

\* Mutant: the fence ends with the group and does not look for jobs.
RunFenceGroupOnly(res) ==
    /\ res = "ok"
    /\ candidate' = candidate \ {"group"}

\* run_fence: Term, wait, Kill if the group is still there, wait, then no job
\* may remain.  A failed fence may or may not have killed the group.
RunFence(res) ==
    \/ /\ res = "ok"
       /\ "jobs" \notin candidate
       /\ candidate' = {}
    \/ /\ res = "failed"
       /\ candidate' \in {candidate, candidate \ {"group"}}

\* Mutant: a decided transaction may be decided again.
DecisionAllowedAgain(host, tx, epoch) ==
    /\ Authenticated(host, tx, epoch)
    /\ armed # None
    /\ armed.binding.tx = tx
    /\ armed.binding.epoch = epoch

\* handle_decision up to the log.
DecisionAllowed(host, tx, epoch) ==
    /\ Authenticated(host, tx, epoch)
    /\ armed # None
    /\ armed.binding.tx = tx
    /\ armed.binding.epoch = epoch
    /\ armed.chosen = None

\* handle_decision up to the fence: the log must still be readable, and the
\* clock is read, once.  The code works with this reading to the end.
HandleDecision(host, tx, epoch, observed) ==
    /\ Serving
    /\ DecisionAllowed(host, tx, epoch)
    /\ UNCHANGED <<epochFile, epochTemp, log, readable, outsideVars>>
    /\ \/ /\ ~(readable /\ OpenAccepts(log))
          /\ EnterSafeMode
          /\ UNCHANGED deciding
       \/ /\ readable /\ OpenAccepts(log)
          /\ clock >= lastClock
          /\ BaseAgrees(observed, armed.base)
          /\ deciding' = [now  |-> clock,
                          next |-> IF clock >= armed.expires THEN "fence" ELSE "record",
                          left |-> Parts]
          /\ UNCHANGED <<marker, markerTemp, processVars>>

\* The lease had run out at the reading: run_fence, which may take two seconds.
FenceCandidate ==
    /\ deciding # None /\ deciding.next = "fence"
    /\ UNCHANGED <<epochFile, epochTemp, log, readable, clock, floor>>
    /\ \/ /\ RunFence("ok")
          /\ deciding' = [deciding EXCEPT !.next = "record", !.left = candidate']
          /\ UNCHANGED <<marker, markerTemp, processVars>>
       \/ /\ RunFence("failed")
          /\ EnterSafeMode
          /\ deciding' = None

\* The rest of handle_decision: the deadline against the reading, the health
\* evaluation, the record.
RecordDecision ==
    /\ deciding # None /\ deciding.next = "record"
    /\ deciding' = None
    /\ UNCHANGED <<epochFile, epochTemp, outsideVars>>
    /\ \/ UNCHANGED <<log, readable, marker, markerTemp, processVars>>
            \* past the deadline, or the evaluator failed: refused
       \/ /\ deciding.now <= armed.deadline
          /\ \E kind \in Decisions, res \in Results :
               /\ AppendRecord(
                    DecisionRecord(logSeq + 1, armed.binding, kind), res)
               /\ AfterAppend(res,
                    /\ armed' = [armed EXCEPT !.chosen = kind]
                    /\ logSeq' = logSeq + 1
                    /\ UNCHANGED <<status, safeMode, binding, session, lastClock>>)

-----------------------------------------------------------------------------
(* The outside. *)

Crash ==
    /\ status = "running"
    /\ Stop("stopped")
    /\ deciding' = None
    /\ UNCHANGED <<storeVars, outsideVars>>

\* The wall clock is set or runs; it may go back.
ClockMoves ==
    /\ clock' \in Clocks \ {clock}
    /\ UNCHANGED <<storeVars, processVars, deciding, candidate, floor>>

\* The candidate's group and jobs start and end on their own.
CandidateMoves ==
    /\ candidate' \in (SUBSET Parts) \ {candidate}
    /\ UNCHANGED <<storeVars, processVars, deciding, clock, floor>>

\* Bytes of the store are damaged under the watchdog.
StoreDamaged ==
    /\ \/ log # <<>> /\ readable /\ readable' = FALSE /\ UNCHANGED epochFile
       \/ EpochReadable /\ epochFile' \in {Missing, Malformed} /\ UNCHANGED readable
    /\ UNCHANGED <<epochTemp, log, marker, markerTemp, processVars, deciding,
                   outsideVars>>

\* A request that arrives while none is being handled.
Request ==
    /\ deciding = None
    /\ \E host \in Hosts, tx \in Txs, epoch \in Epochs :
        \/ \E lease \in Leases :
             /\ \/ Bind([host |-> host, tx |-> tx, epoch |-> epoch, lease |-> lease])
                \/ HandleLeaseRenewal(host, tx, epoch, lease)
             /\ UNCHANGED deciding
        \/ \E observed \in Bases \cup {Blank} :
             \/ /\ \E base \in Bases \cup {Blank}, deadline \in Deadlines :
                       HandleArm(host, tx, epoch, base, deadline, observed)
                /\ UNCHANGED deciding
             \/ HandleDecision(host, tx, epoch, observed)

\* What the history variables keep of a step.
Remember ==
    /\ highest' = IF epochFile' \in Epochs /\ epochFile' > highest
                  THEN epochFile' ELSE highest
    /\ lost' = (lost \/ (epochFile # Missing /\ epochFile' = Missing /\ log = <<>>))

Next ==
    /\ \/ Startup
       \/ Request
       \/ FenceCandidate
       \/ RecordDecision
       \/ Crash
       \/ ClockMoves
       \/ CandidateMoves
       \/ StoreDamaged
    /\ Remember

Spec == Init /\ [][Next]_vars

-----------------------------------------------------------------------------
(* Properties. *)

Grew(kinds) == Len(log') = Len(log) + 1 /\ log'[Len(log')].kind \in kinds

\* Whatever the interleaving of requests, failed durable steps, crashes and
\* restarts, the strict reader refuses a log that the core has written for one
\* reason only: a record longer than MAX_RECORD_BYTES, a limit the writer does
\* not have (read_model.rs:256 against append_record).  Every other check of
\* DecisionLogReader::open and of reconstruct_active_authority passes.
LogAccepted ==
    /\ OpenAccepts(log) <=> \A i \in DOMAIN log : Fits(log[i])
    /\ ReconstructAccepts(log)

\* While the core serves, its memory is exactly what a restart would rebuild
\* from the disk: nothing was acknowledged that is not durable, and nothing
\* durable is unknown to the handlers.
MemoryMatchesLog ==
    Serving =>
        /\ logSeq = RecordCount(log)
        /\ LET r == ReconstructActiveAuthority(log) IN
             IF r = None
             THEN armed = None
             ELSE /\ armed = [binding |-> r.binding, base |-> r.base,
                              deadline |-> r.deadline, expires |-> r.expires,
                              chosen |-> r.chosen]
                  /\ binding = r.binding
                  /\ lastClock >= r.lastActivity

\* A store carries at most one arming and at most one decision, and nothing is
\* ever recorded after the decision (ConflictingRequest in every handler).
SingleAuthority ==
    \A i, j \in DOMAIN log :
        /\ log[i].kind = "Armed" /\ log[j].kind = "Armed" => i = j
        /\ log[i].kind \in Decisions => j <= i

\* The high-water file and the log agree whenever the file can be read, so
\* startup never sees EpochLogMismatch on a log with records unless the file
\* was damaged.
EpochMatchesLog ==
    log # <<>> /\ EpochReadable => epochFile = LogMaxEpoch(log)

\* The epoch issued at bind is still the successor of the high-water when the
\* bound broker arms: an honest broker is never refused with WrongEpoch.
BoundEpochIsNext ==
    Serving /\ binding # None /\ armed = None /\ EpochReadable
        => binding.epoch = epochFile + 1

\* A readable high-water is never below one that was ever durable, and an
\* arming takes an epoch above all of them: damage, crashes, failed advances
\* and restarts do not hand out an epoch twice.  The exception is stated: once
\* the file has disappeared while the log had no record, open takes the store
\* for a fresh one and starts again from 0 (core.rs:142).
EpochMonotone ==
    [][/\ ~lost /\ epochFile' \in Epochs => epochFile' >= highest
       /\ Grew({"Armed"}) =>
            /\ log'[Len(log')].binding.epoch = epochFile'
            /\ lost \/ epochFile' > highest]_vars

\* Once latched, the core writes no authority and issues no epoch until it is
\* restarted; once the marker is on disk no startup succeeds again.
SafeModeIsFinal ==
    [][/\ safeMode => /\ log' = log
                      /\ epochFile' \in {epochFile, Missing, Malformed}
                      /\ safeMode' \/ status' # "running"
       /\ marker => marker' /\ (status' = "running" => status = "running")]_vars

\* A decision is recorded only on a clock reading that was not before the last
\* recorded activity and not after the deadline, and, when the lease had run
\* out at that reading, only after a fence of the same request that left
\* nothing of the candidate.  It is the reading that lies in the window: the
\* fence waits after it (core.rs:558, 613-626), so the record itself may reach
\* the disk after the deadline, and the candidate may have moved again.
DecisionInWindow ==
    [][Grew(Decisions) =>
         LET r == ReconstructActiveAuthority(log) IN
         /\ r.lastActivity <= deciding.now /\ deciding.now <= r.deadline
         /\ r.expires <= deciding.now => deciding.left = {}]_vars

\* PLAN.md: a local high-water below the external floor means no new epoch.
ArmedAboveFloor ==
    [][Grew({"Armed"}) => log'[Len(log')].binding.epoch > floor]_vars

-----------------------------------------------------------------------------
(* The store implements the authority that its readers rely on.  The grant is *)
(* read off the log alone, as a restart would read it.                        *)
Grants ==
    [owner : Binding, base : Bases, deadline : Nat, expires : Nat,
     chosen : Decisions \cup {None}]

ASSUME GrantAssumption == None \notin Grants

GrantOf(l) ==
    LET r == ReconstructActiveAuthority(l) IN
    IF r = None THEN None
    ELSE [owner |-> r.binding, base |-> r.base, deadline |-> r.deadline,
          expires |-> r.expires, chosen |-> r.chosen]

Auth == INSTANCE WatchdogAuthority
            WITH Owners <- Binding, Revisions <- Bases, grant <- GrantOf(log)

\* Every step of the core, crashes, torn appends and restarts included, is a
\* step of the authority specification or leaves the authority as it was.
ImplementsAuthority == Auth!Spec
=============================================================================
