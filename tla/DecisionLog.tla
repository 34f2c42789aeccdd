---------------------------- MODULE DecisionLog ----------------------------
(***************************************************************************)
(* The watchdog's append-only decision log as data: the authority records  *)
(* the core appends, and the strict reader that validates a log and        *)
(* rebuilds the active authority from it (watchdogd/src/read_model.rs).    *)
(*                                                                         *)
(* A record is a TLA+ record; its framing, CRC and JSON are abstracted to  *)
(* the flag "readable" of module WatchdogCore, which says that every byte  *)
(* of the file parses.  A time is a number of ticks since UNIX_EPOCH.      *)
(* A lease stands for the pair lease_id, worker_group_tag, which the code  *)
(* always copies and compares together.                                    *)
(***************************************************************************)
EXTENDS Integers, Sequences

CONSTANTS
    Hosts,         \* host identifiers a peer may name
    Txs,           \* transaction identifiers
    Leases,        \* lease identities (lease_id with its worker_group_tag)
    Bases,         \* non-empty base revisions
    Blank,         \* the empty base string
    None,          \* Option::None
    MaxEpoch,      \* stands for u64::MAX, the last epoch
    LEASE_WINDOW,  \* LEASE_WINDOW, in ticks
    SizeOf,        \* what a lease or a base takes of a record's payload
    MAX_RECORD_BYTES  \* the largest payload the reader takes

ASSUME BlankAssumption  == Blank \notin Bases
ASSUME EpochAssumption  == MaxEpoch \in Nat \ {0}
ASSUME WindowAssumption == LEASE_WINDOW \in Nat \ {0}
ASSUME SizeAssumption ==
    /\ SizeOf \in [Leases \cup Bases \cup {Blank} -> Nat]
    /\ MAX_RECORD_BYTES \in Nat

Epochs == 0 .. MaxEpoch

\* A field that the record's kind does not carry (Option::None).
NoTime == -1

Decisions == {"BeginCommit", "BeginRevert"}

\* The kinds some code path writes.  ProbationPassed, Committed and Reverted
\* are declared by the enum, but nothing in the repository appends them.
Kinds == {"Armed", "LeaseRenewed"} \cup Decisions

\* BoundSession: the identity that every record carries.
Binding == [host : Hosts, tx : Txs, epoch : Epochs, lease : Leases]

AuthorityRecord ==
    [kind     : Kinds,
     sequence : Nat,
     binding  : Binding,
     base     : Bases \cup {Blank},
     at       : Nat \cup {NoTime},    \* armed_at or renewed_at
     deadline : Nat \cup {NoTime},
     expires  : Nat \cup {NoTime}]    \* lease_expires_at

ReconstructedAuthority ==
    [binding      : Binding,
     base         : Bases \cup {Blank},
     deadline     : Nat \cup {NoTime},
     expires      : Nat \cup {NoTime},
     lastActivity : Nat \cup {NoTime},
     chosen       : Decisions \cup {None}]

ASSUME NoneAssumption ==
    /\ None \notin Binding
    /\ None \notin ReconstructedAuthority
    /\ None \notin Decisions

-----------------------------------------------------------------------------
(* The frozen lease policy, min(observed_at + LEASE_WINDOW, hard_deadline);  *)
(* the code refuses a deadline that is not after observed_at.                *)
LeaseExpiryAt(at, deadline) ==
    IF at + LEASE_WINDOW <= deadline THEN at + LEASE_WINDOW ELSE deadline

ArmedRecord(seq, binding, base, now, deadline) ==
    [kind |-> "Armed", sequence |-> seq, binding |-> binding, base |-> base,
     at |-> now, deadline |-> deadline,
     expires |-> LeaseExpiryAt(now, deadline)]

LeaseRenewedRecord(seq, binding, now, deadline) ==
    [kind |-> "LeaseRenewed", sequence |-> seq, binding |-> binding,
     base |-> Blank, at |-> now, deadline |-> NoTime,
     expires |-> LeaseExpiryAt(now, deadline)]

DecisionRecord(seq, binding, kind) ==
    [kind |-> kind, sequence |-> seq, binding |-> binding, base |-> Blank,
     at |-> NoTime, deadline |-> NoTime, expires |-> NoTime]

(* validate_schema, run before a record is written and after it is read. *)
ValidateSchema(r) ==
    /\ r.kind = "Armed" =>
         /\ r.base # Blank
         /\ r.at < r.deadline
         /\ r.expires = LeaseExpiryAt(r.at, r.deadline)
    /\ r.kind = "LeaseRenewed" => r.at \in Nat /\ r.expires \in Nat

-----------------------------------------------------------------------------
\* The payload is no longer than MAX_RECORD_BYTES.  The reader asks this of a
\* record; append_record does not.
Fits(r) == SizeOf[r.binding.lease] + SizeOf[r.base] <= MAX_RECORD_BYTES

(* DecisionLogReader::open on a file that parses. *)
OpenAccepts(log) ==
    \A i \in DOMAIN log :
        /\ Fits(log[i])
        /\ ValidateSchema(log[i])
        /\ log[i].sequence = i
        /\ i > 1 => log[i].binding.epoch >= log[i-1].binding.epoch

RecordCount(log) == Len(log)

\* Epochs never decrease in an accepted log: the last one is the largest.
LogMaxEpoch(log) == IF log = <<>> THEN 0 ELSE log[Len(log)].binding.epoch

\* What the reader's fold holds when it comes to position i.
ActiveBefore(log, i) == \E j \in 1 .. i-1 : log[j].kind = "Armed"
ChosenBefore(log, i) == \E j \in 1 .. i-1 : log[j].kind \in Decisions
ArmedIndex(log) ==
    CHOOSE j \in DOMAIN log :
        /\ log[j].kind = "Armed"
        /\ \A k \in 1 .. j-1 : log[k].kind # "Armed"
LeaseIndex(log, i) ==
    CHOOSE j \in 1 .. i-1 :
        /\ log[j].kind \in {"Armed", "LeaseRenewed"}
        /\ \A k \in j+1 .. i-1 : log[k].kind \notin {"Armed", "LeaseRenewed"}

RenewalAccepted(r, armed, prior) ==
    /\ r.binding = armed.binding
    /\ r.at >= prior.at
    /\ r.at < prior.expires
    /\ r.at < armed.deadline
    /\ r.expires = LeaseExpiryAt(r.at, armed.deadline)
    /\ r.expires > prior.expires

(* reconstruct_active_authority returns Ok: the match arms of its loop. *)
ReconstructAccepts(log) ==
    \A i \in DOMAIN log :
        LET r == log[i] IN
        /\ r.kind = "Armed" => ~ActiveBefore(log, i)
        /\ r.kind # "Armed" => /\ ActiveBefore(log, i)
                               /\ ~ChosenBefore(log, i)
        /\ r.kind = "LeaseRenewed" =>
               RenewalAccepted(r, log[ArmedIndex(log)], log[LeaseIndex(log, i)])
        /\ r.kind \in Decisions => r.binding = log[ArmedIndex(log)].binding

(* The authority it returns: the arming, the last lease and the decision, *)
(* which is the last record because nothing is accepted after it.         *)
ReconstructActiveAuthority(log) ==
    IF ~ActiveBefore(log, Len(log) + 1)
    THEN None
    ELSE LET a == log[ArmedIndex(log)]
             l == log[LeaseIndex(log, Len(log) + 1)]
         IN [binding      |-> a.binding,
             base         |-> a.base,
             deadline     |-> a.deadline,
             expires      |-> l.expires,
             lastActivity |-> l.at,
             chosen       |-> IF ChosenBefore(log, Len(log) + 1)
                              THEN log[Len(log)].kind
                              ELSE None]
=============================================================================
