---------------------- MODULE WatchdogRefinementProofs ----------------------
(***************************************************************************)
(* What a step of WatchdogCore may do, proved for every value of the       *)
(* constants on top of the inductive invariant of WatchdogCoreProofs: the  *)
(* action properties, and that the store implements WatchdogAuthority.     *)
(***************************************************************************)
EXTENDS WatchdogCoreProofs

\* The log keeps its records and has one more.
Extended ==
    /\ log # <<>> /\ Len(log') = Len(log) + 1
    /\ \A i \in DOMAIN log : log'[i] = log[i]

\* Arming: the first record, with the epoch that the same step made durable.
ArmStep ==
    /\ log = <<>> /\ Len(log') = 1
    /\ EpochReadable /\ epochFile' = epochFile + 1
    /\ log'[1].binding.epoch = epochFile'

\* A renewal is added to the log.
RenewStep == Extended /\ log'[Len(log')].kind = "LeaseRenewed"

\* A decision is added to the log, within the window that the log states.
DecideStep ==
    /\ Extended /\ log'[Len(log')].kind \in Decisions
    /\ LeaseRecord(log).at <= deciding.now /\ deciding.now <= log[1].deadline
    /\ LeaseRecord(log).expires <= deciding.now => deciding.left = {}

\* The only ways in which a step may change the log.
LogStep == log' = log \/ ArmStep \/ RenewStep \/ DecideStep

-----------------------------------------------------------------------------
(* How the handlers change the log. *)

\* A log has a length, and is empty when the length is zero.
LEMMA LogLength ==
    ASSUME NEW l \in Seq(AuthorityRecord)
    PROVE  /\ Len(l) \in Nat /\ DOMAIN l = 1 .. Len(l)
           /\ l = <<>> <=> Len(l) = 0
           /\ Len(l) = 1 => l # <<>>
  OBVIOUS

\* An append that is not complete leaves the log as it was.
LEMMA AppendExtends ==
    ASSUME log \in Seq(AuthorityRecord), NEW r, NEW res, AppendRecord(r, res)
    PROVE  \/ log' = log
           \/ /\ Len(log') = Len(log) + 1 /\ log'[Len(log')] = r
              /\ \A i \in DOMAIN log : log'[i] = log[i]
<1>1. log' = log \/ log' = Append(log, r)
  BY DEF AppendRecord
<1>2. ASSUME log' = Append(log, r)
      PROVE  /\ Len(log') = Len(log) + 1 /\ log'[Len(log')] = r
             /\ \A i \in DOMAIN log : log'[i] = log[i]
  BY <1>2
<1> QED BY <1>1, <1>2

\* An arming writes the epoch before the record that carries it.
LEMMA ArmLogStep ==
    ASSUME Inv, NEW host, NEW tx, NEW epoch, NEW base, NEW deadline, NEW observed,
           HandleArm(host, tx, epoch, base, deadline, observed)
    PROVE  log' = log \/ ArmStep
<1> DEFINE b == [host |-> host, tx |-> tx, epoch |-> epoch, lease |-> binding.lease]
           r == ArmedRecord(logSeq + 1, b, base, clock, deadline)
<1>1. log = <<>> /\ log \in Seq(AuthorityRecord) /\ Len(log) = 0
  BY ServingFacts DEF HandleArm, ArmAllowed, Inv, CoreInv, DiskInv
<1>2. CASE UNCHANGED log
  BY <1>2
<1>3. ASSUME EpochReadable, epoch = epochFile + 1, AdvanceEpoch("ok"),
             NEW res, AppendRecord(r, res)
      PROVE  log' = log \/ ArmStep
  <2>1. r.binding.epoch = epochFile + 1
    BY <1>3 DEF ArmedRecord
  <2> HIDE DEF r
  <2>2. epochFile' = epochFile + 1
    BY <1>3 DEF AdvanceEpoch
  <2>3. log' = log \/ (Len(log') = 1 /\ log'[Len(log')] = r)
    BY <1>1, <1>3, AppendExtends
  <2> QED BY <1>1, <1>3, <2>1, <2>2, <2>3 DEF ArmStep
<1> QED BY <1>2, <1>3 DEF HandleArm

\* A renewal adds at most a renewal record.
LEMMA RenewalLogStep ==
    ASSUME Inv, NEW host, NEW tx, NEW epoch, NEW lease,
           HandleLeaseRenewal(host, tx, epoch, lease)
    PROVE  log' = log \/ RenewStep
<1> DEFINE b == [host |-> armed.binding.host, tx |-> tx, epoch |-> epoch,
                 lease |-> lease]
           r == LeaseRenewedRecord(logSeq + 1, b, clock, armed.deadline)
<1>1. log # <<>> /\ log \in Seq(AuthorityRecord)
  BY ServingFacts DEF HandleLeaseRenewal, RenewalAllowed, Inv, CoreInv, DiskInv
<1>2. r.kind = "LeaseRenewed"
  BY DEF LeaseRenewedRecord
<1>3. CASE UNCHANGED log
  BY <1>3
<1>4. ASSUME NEW res, AppendRecord(r, res) PROVE log' = log \/ RenewStep
  <2> HIDE DEF r
  <2> QED BY <1>1, <1>2, <1>4, AppendExtends DEF RenewStep, Extended
<1> QED BY <1>3, <1>4 DEF HandleLeaseRenewal

\* The end of a decision adds at most a decision record, on a reading by the
\* deadline and, when the lease had run out, after a fence that left nothing.
LEMMA DecisionLogStep ==
    ASSUME Inv, RecordDecision
    PROVE  log' = log \/ DecideStep
<1>0. /\ CoreInv /\ DecidingInv /\ Serving /\ armed # None
      /\ deciding \in Deciding /\ deciding.now >= lastClock
      /\ deciding.now < armed.expires \/ deciding.left = {}
  BY DEF Inv, DecidingInv, RecordDecision
<1>1. /\ log # <<>> /\ log \in Seq(AuthorityRecord) /\ LogShape(log)
      /\ armed = ArmedClosed(log) /\ LeaseRecord(log).at <= lastClock
  BY <1>0, ServingFacts DEF CoreInv, DiskInv, MemoryAgrees
<1>2. /\ LeaseRecord(log).at \in Nat /\ LeaseRecord(log).expires \in Nat
      /\ lastClock \in Nat /\ deciding.now \in Int
  BY <1>0, <1>1, LeaseRecordFacts DEF CoreInv, MemoryInv, ProcessType, Deciding
<1>3. armed.deadline = log[1].deadline /\ armed.expires = LeaseRecord(log).expires
  BY <1>1 DEF ArmedClosed
<1>4. CASE UNCHANGED log
  BY <1>4
<1>5. ASSUME deciding.now <= armed.deadline, NEW kind \in Decisions, NEW res,
             AppendRecord(DecisionRecord(logSeq + 1, armed.binding, kind), res)
      PROVE  log' = log \/ DecideStep
  <2> DEFINE r == DecisionRecord(logSeq + 1, armed.binding, kind)
  <2>1. r.kind \in Decisions
    BY <1>5 DEF DecisionRecord
  <2>2. LeaseRecord(log).at <= deciding.now /\ deciding.now <= log[1].deadline
    BY <1>0, <1>1, <1>2, <1>3, <1>5
  <2>3. LeaseRecord(log).expires <= deciding.now => deciding.left = {}
    BY <1>0, <1>2, <1>3
  <2> HIDE DEF r
  <2>4. log' = log \/ (Extended /\ log'[Len(log')] = r)
    BY <1>1, <1>5, AppendExtends DEF Extended, r
  <2> QED BY <2>1, <2>2, <2>3, <2>4 DEF DecideStep
<1> QED BY <1>4, <1>5 DEF RecordDecision

\* Every step of the core and of its surroundings changes the log in one of the
\* four ways, or not at all.
LEMMA LogStepNext == ASSUME Inv, [Next]_vars PROVE LogStep
<1>1. CASE Startup
  BY <1>1 DEF Startup, StartupRefusedEarly, StartupFromStore, storeVars, LogStep
<1>2. CASE Request
  <2>1. ASSUME NEW b, Bind(b) PROVE log' = log
    BY <2>1 DEF Bind
  <2>2. ASSUME NEW host, NEW tx, NEW epoch, NEW observed,
               HandleDecision(host, tx, epoch, observed)
        PROVE  log' = log
    BY <2>2 DEF HandleDecision
  <2> QED BY <1>2, <2>1, <2>2, ArmLogStep, RenewalLogStep DEF Request, LogStep
<1>5. CASE FenceCandidate
  BY <1>5 DEF FenceCandidate, LogStep
<1>6. CASE RecordDecision
  BY <1>6, DecisionLogStep DEF LogStep
<1>3. CASE Crash \/ ClockMoves \/ CandidateMoves \/ StoreDamaged
  BY <1>3 DEF Crash, ClockMoves, CandidateMoves, StoreDamaged, storeVars, LogStep
<1>4. CASE UNCHANGED vars
  BY <1>4 DEF vars, storeVars, LogStep
<1> QED BY <1>1, <1>2, <1>3, <1>4, <1>5, <1>6 DEF Next

\* A log that is longer by a record of these kinds is the log of an arming or of
\* a decision, because in a log of the shape only the first record is an arming.
LEMMA GrewStep ==
    ASSUME Inv, [Next]_vars
    PROVE  /\ Grew({"Armed"}) => ArmStep
           /\ Grew(Decisions) => DecideStep
<1>1. /\ LogStep /\ LogShape(log') /\ log' \in Seq(AuthorityRecord)
      /\ log \in Seq(AuthorityRecord)
  BY LogStepNext, NextInv DEF Inv, CoreInv, DiskInv
<1>2. Len(log) \in Nat /\ Len(log') \in Nat /\ (log = <<>> <=> Len(log) = 0)
      /\ DOMAIN log' = 1 .. Len(log')
  BY <1>1
<1>3. Grew({"Armed"}) => ~RenewStep /\ ~DecideStep
  BY DEF Grew, RenewStep, DecideStep, Decisions
<1>4. Grew(Decisions) => ~RenewStep
  BY DEF Grew, RenewStep, Decisions
<1>5. Grew(Decisions) => ~ArmStep
  <2>1. Len(log') = 1 => log'[1].kind = "Armed"
    BY <1>1, <1>2 DEF LogShape, RecordShape
  <2> QED BY <2>1 DEF Grew, ArmStep, Decisions
<1>6. ASSUME log' = log PROVE ~Grew({"Armed"}) /\ ~Grew(Decisions)
  <2>1. \A n \in Nat : n # n + 1
    OBVIOUS
  <2>2. Len(log') # Len(log) + 1
    BY <1>2, <1>6, <2>1, Zenon
  <2> QED BY <2>2 DEF Grew
<1> QED BY <1>1, <1>3, <1>4, <1>5, <1>6 DEF LogStep

\* No crash, failed write, damage or restart brings back a high-water below one
\* that was ever durable, and an arming takes an epoch above all of them that the
\* same step made durable, as long as the file did not disappear from a store
\* without records.
THEOREM EpochNeverGoesBack == Spec => EpochMonotone
<1> DEFINE A == /\ ~lost /\ epochFile' \in Epochs => epochFile' >= highest
                /\ Grew({"Armed"}) =>
                     /\ log'[Len(log')].binding.epoch = epochFile'
                     /\ lost \/ epochFile' > highest
<1>1. Inv /\ [Next]_vars => [A]_vars
  <2> SUFFICES ASSUME Inv, [Next]_vars PROVE A
    OBVIOUS
  <2>0. /\ Missing \notin Epochs /\ Malformed \notin Epochs
        /\ Epochs \subseteq Int /\ highest \in Epochs
    BY EpochAssumption DEF Epochs, Missing, Malformed, Inv, HistoryInv
  <2>1. ASSUME ~lost PROVE EpochReadable => epochFile = highest
    BY <2>1, Zenon DEF Inv, HistoryInv
  <2>2. ASSUME ~lost PROVE epochFile = Missing /\ log = <<>> => highest = 0
    BY <2>2, Zenon DEF Inv, HistoryInv
  <2>3. ASSUME ~lost, epochFile' \in Epochs PROVE epochFile' >= highest
    <3>1. EpochStep
      BY EpochStepNext
    <3>2. CASE epochFile' = epochFile
      BY <2>0, <2>1, <2>3, <3>2 DEF EpochReadable
    <3>3. CASE epochFile = Missing /\ log = <<>> /\ epochFile' \in {Missing, Malformed, 0}
      BY <2>0, <2>2, <2>3, <3>3
    <3>4. CASE EpochReadable /\ epochFile' = epochFile + 1
      BY <2>0, <2>1, <2>3, <3>4
    <3> QED BY <2>0, <2>3, <3>1, <3>2, <3>3, <3>4 DEF EpochStep
  <2>4. ASSUME Grew({"Armed"})
        PROVE  /\ log'[Len(log')].binding.epoch = epochFile'
               /\ lost \/ epochFile' > highest
    <3>1. ArmStep
      BY <2>4, GrewStep
    <3>2. ASSUME ~lost PROVE epochFile' > highest
      BY <2>0, <2>1, <3>1, <3>2 DEF ArmStep
    <3> QED BY <3>1, <3>2 DEF ArmStep
  <2> QED BY <2>3, <2>4
<1> QED BY <1>1, Invariance, PTL DEF Spec, EpochMonotone

\* A decision reaches the log only on a clock reading within the window, and,
\* when the lease had run out at that reading, only after this request's fence
\* left nothing of the candidate: whatever happens between reading and record.
THEOREM DecisionsInWindow == Spec => DecisionInWindow
<1> DEFINE A == Grew(Decisions) =>
                  LET r == ReconstructActiveAuthority(log) IN
                  /\ r.lastActivity <= deciding.now /\ deciding.now <= r.deadline
                  /\ r.expires <= deciding.now => deciding.left = {}
<1>1. Inv /\ [Next]_vars => [A]_vars
  <2> SUFFICES ASSUME Inv, [Next]_vars, Grew(Decisions)
               PROVE  LET r == ReconstructActiveAuthority(log) IN
                      /\ r.lastActivity <= deciding.now /\ deciding.now <= r.deadline
                      /\ r.expires <= deciding.now => deciding.left = {}
    OBVIOUS
  <2>1. DecideStep
    BY GrewStep
  <2>2. ReconstructActiveAuthority(log) = Closed(log)
    BY <2>1, ReaderClosed DEF DecideStep, Extended, Inv, CoreInv, DiskInv
  <2>3. /\ Closed(log).lastActivity = LeaseRecord(log).at
        /\ Closed(log).deadline = log[1].deadline
        /\ Closed(log).expires = LeaseRecord(log).expires
    BY DEF Closed
  <2> QED BY <2>1, <2>2, <2>3 DEF DecideStep
<1> QED BY <1>1, Invariance, PTL DEF Spec, DecisionInWindow

-----------------------------------------------------------------------------
(* Safe mode.  The latch is memory of a running process only: without that,  *)
(* a startup could take a step in safe mode.                                 *)

LatchInv == safeMode => status = "running"

\* Every step keeps the latch with the process that set it.
LEMMA LatchStep == Inv /\ LatchInv /\ [Next]_vars => LatchInv'
<1> SUFFICES ASSUME Inv, LatchInv, [Next]_vars PROVE LatchInv'
  OBVIOUS
<1>0. ASSUME NEW why, Stop(why) PROVE LatchInv'
  BY <1>0 DEF Stop, LatchInv
<1>1. ASSUME status = "running", EnterSafeMode PROVE LatchInv'
  BY <1>0, <1>1 DEF EnterSafeMode, LatchInv
<1>2. ASSUME UNCHANGED <<status, safeMode>> PROVE LatchInv'
  BY <1>2 DEF LatchInv
<1>3. ASSUME NEW isReopen, Run(isReopen) PROVE LatchInv'
  BY <1>3 DEF Run, LatchInv
<1>4. CASE Startup
  BY <1>0, <1>3, <1>4 DEF Startup, StartupRefusedEarly, StartupFromStore
<1>8. ASSUME status = "running", NEW res, NEW accepted,
             accepted => UNCHANGED <<status, safeMode>>,
             AfterAppend(res, accepted)
      PROVE  LatchInv'
  BY <1>0, <1>1, <1>2, <1>8 DEF AfterAppend
<1>9. CASE FenceCandidate \/ RecordDecision
  <2>1. status = "running"
    BY <1>9 DEF FenceCandidate, RecordDecision, Inv, DecidingInv, Serving
  <2> QED BY <1>1, <1>2, <1>8, <1>9, <2>1
          DEF FenceCandidate, RecordDecision, processVars
<1>5. CASE Request
  <2>1. ASSUME NEW b, Bind(b) PROVE LatchInv'
    BY <1>1, <1>2, <2>1 DEF Bind
  <2>3. ASSUME NEW host, NEW tx, NEW epoch, NEW lease,
               HandleLeaseRenewal(host, tx, epoch, lease)
        PROVE  LatchInv'
    BY <1>2, <1>8, <2>3 DEF HandleLeaseRenewal, Serving
  <2>4. ASSUME NEW host, NEW tx, NEW epoch, NEW observed,
               HandleDecision(host, tx, epoch, observed)
        PROVE  LatchInv'
    BY <1>1, <1>2, <2>4 DEF HandleDecision, Serving, processVars
  <2>5. ASSUME NEW host, NEW tx, NEW epoch, NEW base, NEW deadline, NEW observed,
               HandleArm(host, tx, epoch, base, deadline, observed)
        PROVE  LatchInv'
    BY <1>0, <1>1, <1>8, <2>5 DEF HandleArm, Serving
  <2> QED BY <1>5, <2>1, <2>3, <2>4, <2>5 DEF Request
<1>6. CASE Crash
  BY <1>0, <1>6 DEF Crash
<1>7. CASE ClockMoves \/ CandidateMoves \/ StoreDamaged \/ UNCHANGED vars
  BY <1>2, <1>7 DEF ClockMoves, CandidateMoves, StoreDamaged, vars, processVars
<1> QED BY <1>4, <1>5, <1>6, <1>7, <1>9 DEF Next

\* The end of a handler leaves the marker on the disk.
LEMMA MarkerKept ==
    ASSUME PersistSafeModeMarker, marker
    PROVE  marker'
  BY DEF PersistSafeModeMarker

\* After the latch no request writes authority or an epoch, and after the marker
\* no startup gets a process running.
THEOREM SafeModeEndsAuthority == Spec => SafeModeIsFinal
<1> DEFINE A == /\ safeMode =>
                     /\ log' = log
                     /\ epochFile' \in {epochFile, Missing, Malformed}
                     /\ safeMode' \/ status' # "running"
                /\ marker => marker' /\ (status' = "running" => status = "running")
<1>1. Init => LatchInv
  BY DEF Init, LatchInv
<1>2. Inv /\ LatchInv /\ [Next]_vars => [A]_vars
  <2> SUFFICES ASSUME Inv, LatchInv, Next PROVE A
    BY DEF A
  <2>0. FenceCandidate \/ RecordDecision => Serving
    BY DEF FenceCandidate, RecordDecision, Inv, DecidingInv
  <2>1. ASSUME NEW why, Stop(why), why # "running" PROVE status' # "running"
    BY <2>1 DEF Stop
  <2>2. ASSUME safeMode
        PROVE  /\ log' = log
               /\ epochFile' \in {epochFile, Missing, Malformed}
               /\ safeMode' \/ status' # "running"
    <3>1. ~Startup /\ ~Serving /\ ~FenceCandidate /\ ~RecordDecision
      BY <2>0, <2>2 DEF LatchInv, Startup, Serving
    <3>2. EnterSafeMode => safeMode' \/ status' # "running"
      BY <2>1 DEF EnterSafeMode
    <3>3. CASE Request
      <4>1. ASSUME NEW b, Bind(b)
            PROVE  /\ log' = log
                   /\ epochFile' \in {epochFile, Missing, Malformed}
                   /\ safeMode' \/ status' # "running"
        BY <2>2, <3>2, <4>1 DEF Bind
      <4>2. ASSUME NEW host, NEW tx, NEW epoch
            PROVE  /\ \A lease : ~HandleLeaseRenewal(host, tx, epoch, lease)
                   /\ \A observed : ~HandleDecision(host, tx, epoch, observed)
                   /\ \A base, deadline, observed :
                        ~HandleArm(host, tx, epoch, base, deadline, observed)
        BY <3>1 DEF HandleLeaseRenewal, HandleDecision, HandleArm
      <4> QED BY <3>3, <4>1, <4>2 DEF Request
    <3>4. CASE Crash
      BY <2>1, <3>4 DEF Crash, storeVars
    <3>5. CASE ClockMoves \/ CandidateMoves \/ StoreDamaged
      BY <2>2, <3>5 DEF ClockMoves, CandidateMoves, StoreDamaged, storeVars, processVars
    <3> QED BY <3>1, <3>3, <3>4, <3>5 DEF Next
  <2>3. ASSUME marker PROVE marker' /\ (status' = "running" => status = "running")
    <3>1. EnterSafeMode => marker'
      BY <2>3, MarkerKept DEF EnterSafeMode
    <3>2. ASSUME NEW res, NEW accepted, AfterAppend(res, accepted) PROVE marker'
      BY <2>3, <3>1, <3>2 DEF AfterAppend
    <3>3. CASE Startup
      BY <2>1, <2>3, <3>3
         DEF Startup, StartupRefusedEarly, StartupFromStore, storeVars
    <3>4. CASE Request
      <4>1. ASSUME NEW b, Bind(b) PROVE marker' /\ status = "running"
        BY <2>3, <3>1, <4>1 DEF Bind
      <4>2. ASSUME NEW host, NEW tx, NEW epoch, NEW lease,
                   HandleLeaseRenewal(host, tx, epoch, lease)
            PROVE  marker' /\ status = "running"
        BY <2>3, <3>2, <4>2 DEF HandleLeaseRenewal, Serving
      <4>3. ASSUME NEW host, NEW tx, NEW epoch, NEW observed,
                   HandleDecision(host, tx, epoch, observed)
            PROVE  marker' /\ status = "running"
        BY <2>3, <3>1, <4>3 DEF HandleDecision, Serving
      <4>4. ASSUME NEW host, NEW tx, NEW epoch, NEW base, NEW deadline, NEW observed,
                   HandleArm(host, tx, epoch, base, deadline, observed)
            PROVE  marker' /\ status = "running"
        BY <2>3, <3>1, <3>2, <4>4 DEF HandleArm, Serving
      <4> QED BY <3>4, <4>1, <4>2, <4>3, <4>4 DEF Request
    <3>5. CASE Crash \/ ClockMoves \/ CandidateMoves \/ StoreDamaged
      BY <2>3, <3>5
         DEF Crash, ClockMoves, CandidateMoves, StoreDamaged, storeVars, processVars
    <3>6. CASE FenceCandidate \/ RecordDecision
      BY <2>0, <2>3, <3>1, <3>2, <3>6 DEF FenceCandidate, RecordDecision, Serving
    <3> QED BY <3>3, <3>4, <3>5, <3>6 DEF Next
  <2> QED BY <2>2, <2>3
<1> QED BY <1>1, <1>2, Invariance, LatchStep, PTL DEF Spec, SafeModeIsFinal

-----------------------------------------------------------------------------
(* The refinement. *)

\* The grant of a log of the shape: nothing for the empty log, otherwise the
\* arming with the current lease and the decision.
LEMMA GrantClosed ==
    ASSUME NEW l \in Seq(AuthorityRecord), LogShape(l)
    PROVE  /\ l = <<>> => GrantOf(l) = None
           /\ l # <<>> =>
                /\ GrantOf(l) \in Grants /\ GrantOf(l) # None
                /\ GrantOf(l) =
                     [owner |-> l[1].binding, base |-> l[1].base,
                      deadline |-> l[1].deadline,
                      expires |-> LeaseRecord(l).expires,
                      chosen |-> IF Decided(l) THEN l[Len(l)].kind ELSE None]
<1>1. ASSUME l = <<>> PROVE GrantOf(l) = None
  BY <1>1, ReaderClosed DEF GrantOf
<1>2. ASSUME l # <<>>
      PROVE  /\ GrantOf(l) \in Grants
             /\ GrantOf(l) =
                  [owner |-> l[1].binding, base |-> l[1].base,
                   deadline |-> l[1].deadline,
                   expires |-> LeaseRecord(l).expires,
                   chosen |-> IF Decided(l) THEN l[Len(l)].kind ELSE None]
  <2>1. ReconstructActiveAuthority(l) = Closed(l) /\ Closed(l) # None
    BY <1>2, ReaderClosed, ArmedClosedType
  <2>2. GrantOf(l) =
          [owner |-> l[1].binding, base |-> l[1].base, deadline |-> l[1].deadline,
           expires |-> LeaseRecord(l).expires,
           chosen |-> IF Decided(l) THEN l[Len(l)].kind ELSE None]
    BY <2>1 DEF GrantOf, Closed
  <2>3. /\ l[1] \in AuthorityRecord /\ l[1].deadline \in Nat /\ l[1].base \in Bases
        /\ LeaseRecord(l).expires \in Nat
    BY <1>2, LeaseRecordFacts
  <2>4. l[1].binding \in Binding
    BY <2>3 DEF AuthorityRecord
  <2>5. (IF Decided(l) THEN l[Len(l)].kind ELSE None) \in Decisions \cup {None}
    BY DEF Decided
  <2> QED BY <2>2, <2>3, <2>4, <2>5 DEF Grants
<1> QED BY <1>1, <1>2, GrantAssumption

\* An arming grants the authority.
LEMMA ArmGrants == ASSUME Inv, Inv', ArmStep PROVE Auth!Grant
<1>1. /\ log \in Seq(AuthorityRecord) /\ LogShape(log) /\ log = <<>>
      /\ log' \in Seq(AuthorityRecord) /\ LogShape(log') /\ Len(log') = 1
  BY DEF Inv, CoreInv, DiskInv, ArmStep
<1>2. log' # <<>>
  BY <1>1, LogLength, Zenon
<1>3. ~Decided(log') /\ LeaseRecord(log').expires <= log'[1].deadline
  BY <1>1, <1>2, LeaseRecordFacts
<1>4. /\ GrantOf(log) = None /\ GrantOf(log') \in Grants
      /\ GrantOf(log').chosen = None
      /\ GrantOf(log').expires = LeaseRecord(log').expires
      /\ GrantOf(log').deadline = log'[1].deadline
  <2>1. GrantOf(log) = None
    BY <1>1, GrantClosed
  <2>2. /\ GrantOf(log') \in Grants
        /\ GrantOf(log') = [owner |-> log'[1].binding, base |-> log'[1].base,
                            deadline |-> log'[1].deadline,
                            expires |-> LeaseRecord(log').expires, chosen |-> None]
    BY <1>1, <1>2, <1>3, GrantClosed
  <2> QED BY <2>1, <2>2
<1>5. GrantOf(log') \in [owner : Binding, base : Bases, deadline : Nat,
                         expires : Nat, chosen : {None}]
  BY <1>4 DEF Grants
<1> QED BY <1>3, <1>4, <1>5 DEF Auth!Grant

\* What a longer log keeps: it was not decided, and the lease is the last record.
LEMMA ExtendedFacts ==
    ASSUME Inv, Inv', Extended
    PROVE  /\ log \in Seq(AuthorityRecord) /\ LogShape(log) /\ log # <<>>
           /\ log' \in Seq(AuthorityRecord) /\ LogShape(log') /\ log' # <<>>
           /\ log'[1] = log[1] /\ ~Decided(log)
           /\ log'[Len(log') - 1] = LeaseRecord(log)
           /\ RecordShape(log', Len(log'))
<1>1. /\ log \in Seq(AuthorityRecord) /\ LogShape(log) /\ log # <<>>
      /\ log' \in Seq(AuthorityRecord) /\ LogShape(log')
  BY DEF Inv, CoreInv, DiskInv, Extended
<1>2. /\ Len(log) \in Nat /\ Len(log) >= 1 /\ DOMAIN log = 1 .. Len(log)
  BY <1>1, LeaseRecordFacts
<1>3. Len(log') = Len(log) + 1 /\ DOMAIN log' = 1 .. Len(log) + 1
  BY <1>1, LogLength DEF Extended
<1>4. /\ 1 \in DOMAIN log /\ Len(log) \in DOMAIN log
      /\ Len(log) \in DOMAIN log' /\ Len(log') \in DOMAIN log'
      /\ Len(log) # Len(log') /\ Len(log') - 1 = Len(log)
  <2>1. \A n \in Nat : n >= 1 => /\ 1 \in 1 .. n /\ n \in 1 .. n
                                 /\ n \in 1 .. n + 1 /\ n + 1 \in 1 .. n + 1
                                 /\ n # n + 1 /\ (n + 1) - 1 = n
    OBVIOUS
  <2> QED BY <1>2, <1>3, <2>1, Zenon
<1>5. log'[1] = log[1] /\ log'[Len(log)] = log[Len(log)]
  BY <1>4 DEF Extended
<1>6. RecordShape(log', Len(log)) /\ RecordShape(log', Len(log'))
  BY <1>1, <1>4 DEF LogShape
<1>7. log[Len(log)].kind \notin Decisions
  BY <1>4, <1>5, <1>6 DEF RecordShape
<1>8. ~Decided(log) /\ LeaseRecord(log) = log[Len(log)]
  BY <1>7 DEF Decided, LeaseRecord
<1>9. log' # <<>>
  BY <1>1, <1>2, <1>3
<1> QED BY <1>1, <1>4, <1>5, <1>6, <1>8, <1>9

\* A renewal extends the lease, within the deadline and before the decision.
LEMMA RenewExtends == ASSUME Inv, Inv', RenewStep PROVE Auth!Extend
<1>1. /\ log \in Seq(AuthorityRecord) /\ LogShape(log) /\ log # <<>>
      /\ log' \in Seq(AuthorityRecord) /\ LogShape(log') /\ log' # <<>>
      /\ log'[1] = log[1] /\ ~Decided(log)
      /\ log'[Len(log') - 1] = LeaseRecord(log)
      /\ RecordShape(log', Len(log'))
      /\ log'[Len(log')].kind = "LeaseRenewed"
  BY ExtendedFacts DEF RenewStep
<1>2. ~Decided(log') /\ LeaseRecord(log') = log'[Len(log')]
  BY <1>1 DEF Decided, LeaseRecord, Decisions
<1>3. LeaseRecord(log').expires > LeaseRecord(log).expires
  BY <1>1, <1>2 DEF RecordShape, RenewalAccepted
<1>4. /\ LeaseRecord(log).expires \in Nat /\ LeaseRecord(log').expires \in Nat
      /\ LeaseRecord(log').expires <= log[1].deadline /\ log[1].deadline \in Nat
  <2>1. LeaseRecord(log).expires \in Nat /\ log[1].deadline \in Nat
    BY <1>1, LeaseRecordFacts
  <2>2. LeaseRecord(log').expires \in Nat
        /\ LeaseRecord(log').expires <= log'[1].deadline
    BY <1>1, LeaseRecordFacts
  <2> QED BY <1>1, <2>1, <2>2
<1> DEFINE e == LeaseRecord(log').expires
<1>5. e \in LeaseRecord(log).expires + 1 .. log[1].deadline
  BY <1>3, <1>4
<1>6. /\ GrantOf(log) # None
      /\ GrantOf(log) = [owner |-> log[1].binding, base |-> log[1].base,
                         deadline |-> log[1].deadline,
                         expires |-> LeaseRecord(log).expires, chosen |-> None]
  BY <1>1, GrantClosed
<1>7. GrantOf(log') = [owner |-> log[1].binding, base |-> log[1].base,
                       deadline |-> log[1].deadline, expires |-> e,
                       chosen |-> None]
  BY <1>1, <1>2, GrantClosed
<1> HIDE DEF e
<1>8. /\ GrantOf(log).chosen = None
      /\ e \in GrantOf(log).expires + 1 .. GrantOf(log).deadline
      /\ GrantOf(log') = [GrantOf(log) EXCEPT !.expires = e]
  BY <1>5, <1>6, <1>7
<1> QED BY <1>6, <1>8 DEF Auth!Extend

\* A decision is made once and changes nothing else of the grant.
LEMMA DecideDecides == ASSUME Inv, Inv', DecideStep PROVE Auth!Decide
<1>1. /\ log \in Seq(AuthorityRecord) /\ LogShape(log) /\ log # <<>>
      /\ log' \in Seq(AuthorityRecord) /\ LogShape(log') /\ log' # <<>>
      /\ log'[1] = log[1] /\ ~Decided(log)
      /\ log'[Len(log') - 1] = LeaseRecord(log)
      /\ log'[Len(log')].kind \in Decisions
  BY ExtendedFacts DEF DecideStep
<1>2. Decided(log') /\ LeaseRecord(log') = LeaseRecord(log)
  BY <1>1 DEF Decided, LeaseRecord
<1> DEFINE k == log'[Len(log')].kind
<1>3. /\ GrantOf(log) # None
      /\ GrantOf(log) = [owner |-> log[1].binding, base |-> log[1].base,
                         deadline |-> log[1].deadline,
                         expires |-> LeaseRecord(log).expires, chosen |-> None]
  BY <1>1, GrantClosed
<1>4. GrantOf(log') = [owner |-> log[1].binding, base |-> log[1].base,
                       deadline |-> log[1].deadline,
                       expires |-> LeaseRecord(log).expires, chosen |-> k]
  BY <1>1, <1>2, GrantClosed
<1>5. k \in Decisions
  BY <1>1
<1> HIDE DEF k
<1>6. /\ GrantOf(log).chosen = None
      /\ GrantOf(log') = [GrantOf(log) EXCEPT !.chosen = k]
  BY <1>3, <1>4
<1> QED BY <1>3, <1>5, <1>6 DEF Auth!Decide

\* The store implements the authority specification: whatever crashes, tears,
\* refuses or restarts, the authority that a reader of the log sees is granted
\* once, extended within its deadline and decided once.
THEOREM StoreImplementsAuthority == Spec => ImplementsAuthority
<1>1. Init => Auth!Init
  <2> SUFFICES ASSUME Init PROVE GrantOf(log) = None
    BY DEF Auth!Init
  <2>1. log = <<>> /\ log \in Seq(AuthorityRecord) /\ LogShape(log)
    BY InitInv DEF Init, CoreInv, DiskInv
  <2> QED BY <2>1, GrantClosed
<1>2. Inv /\ [Next]_vars => [Auth!Next]_(GrantOf(log))
  <2> SUFFICES ASSUME Inv, [Next]_vars
               PROVE  Auth!Next \/ GrantOf(log)' = GrantOf(log)
    OBVIOUS
  <2>1. Inv' /\ LogStep
    BY NextInv, LogStepNext
  <2>2. CASE log' = log
    <3>1. GrantOf(log') = GrantOf(log)
      BY <2>2
    <3> QED BY <3>1
  <2>3. CASE ArmStep
    BY <2>1, <2>3, ArmGrants DEF Auth!Next
  <2>4. CASE RenewStep
    BY <2>1, <2>4, RenewExtends DEF Auth!Next
  <2>5. CASE DecideStep
    BY <2>1, <2>5, DecideDecides DEF Auth!Next
  <2> QED BY <2>1, <2>2, <2>3, <2>4, <2>5 DEF LogStep
<1> QED BY <1>1, <1>2, Invariance, PTL DEF Spec, ImplementsAuthority, Auth!Spec
=============================================================================
