---------------------------- MODULE NixPromotion ----------------------------
(***************************************************************************)
(* The Nix adapter (adapters/nix/src, broker/src/nix_host_adapter.rs): a   *)
(* proposal is captured once in the capture store, tested at most once,    *)
(* pinned, made the system profile and then the boot default.              *)
(*                                                                         *)
(* Several threads call the adapter; the store functions run under its     *)
(* mutex, the commands and the reads between them do not.  A file is in    *)
(* the page cache first and durable when its directory is synced; a crash  *)
(* keeps of every entry the durable or the newer state.  The commands are  *)
(* external: they succeed, or fail with their effect done or not.  The     *)
(* operator of the host installs what he likes at any moment, and the host *)
(* may come up again with any profile, so whether the profile was flushed  *)
(* makes no difference here.  The boot default is written and not read.    *)
(***************************************************************************)
EXTENDS Naturals, Sequences, FiniteSets

CONSTANTS
    Callers,
    Proposals,    \* requests: the closure the changes evaluate to, and why
                  \* they are refused
    BaseSystem,   \* the closure that is installed at the beginning
    MaxEdits,     \* bound: edits of /etc/nixos by an operator
    None

ASSUME BoundAssumption == MaxEdits \in Nat

VARIABLES
    files,     \* the store's directory: active.json, pin.json and its marker
    act,       \* activations/: the record or the lock of every closure
    profile,   \* the system profile's target
    durable,   \* what of the first two survives a power loss
    etc,       \* revision of /etc (its git head and the digest of nixos/)
    cache,     \* probe_cache
    caller,    \* the call every thread is in
    \* history
    captured,  \* captures whose proposal was answered with success
    tested,    \* how often nixos-rebuild test was started, per closure
    promoted   \* closures the adapter has made the profile or the boot default

disk    == <<files, act, profile, durable>>
history == <<captured, tested, promoted>>
vars    == <<disk, etc, cache, caller, history>>

Closures == {p.closure : p \in Proposals}
Systems  == Closures \cup {BaseSystem}

\* Base revisions, None that of an unresolved adapter; and captures.
Bases    == [generation : Systems, etc : 0..MaxEdits] \cup {None}
Captures == [closure : Closures, base : Bases]

ASSUME NoneAssumption == None \notin Captures

Idle == [at |-> "idle", closure |-> None, base |-> None, seen |-> None]

Init ==
    /\ files = [active |-> None, pin |-> None, marker |-> None]
    /\ act = [k \in Closures |-> "free"]
    /\ profile = BaseSystem
    /\ durable = [files |-> files, act |-> act]
    /\ etc = 0 /\ cache = None
    /\ caller = [c \in Callers |-> Idle]
    /\ captured = {}
    /\ tested = [k \in Closures |-> 0]
    /\ promoted = {}

---------------------------------------------------------------------------
\* The commands of the adapter, by what they read or leave.

nix_current_generation == profile
read_profile_target    == profile

\* etc_git_head and config_digest.
etc_revision == etc

nix_eval_candidate(p)           == p.closure
nixos_rebuild_test(k)           == tested' = [tested EXCEPT ![k] = @ + 1]
nix_env_profile_set(k)          == profile' = k /\ promoted' = promoted \cup {k}
switch_to_configuration_boot(k) == promoted' = promoted \cup {k} /\ UNCHANGED profile

---------------------------------------------------------------------------
\* Moves of a caller.

At(c, phase)   == caller[c].at = phase
Goes(c, phase) == caller' = [caller EXCEPT ![c].at = phase, ![c].seen = None]
Returns(c)     == caller' = [caller EXCEPT ![c] = Idle]

\* What the caller is about: a capture once its base is known.
capture(c) == [closure |-> caller[c].closure, base |-> caller[c].base]

\* The promotion primitives are called for the capture there is: the one the
\* proposal returned, or load_active gave after a restart.
Captured(c) == At(c, "idle") /\ files.active # None

Begins(c, phase) ==
    caller' = [caller EXCEPT ![c] = [at |-> phase, closure |-> files.active.closure,
                                     base |-> files.active.base, seen |-> None]]

\* The store's mutex is held between the first write of a store function and
\* its last sync.
Syncing == {"activeSync", "reserveSync", "finalizeSync", "pinSync", "markerSync"}
Unlocked == \A c \in Callers : caller[c].at \notin Syncing

SyncFiles == durable' = [durable EXCEPT !.files = files]
SyncAct   == durable' = [durable EXCEPT !.act = act]

\* A command or a system call fails and the call returns with the error.
Fails(c, phases) ==
    /\ caller[c].at \in phases
    /\ Returns(c)
    /\ UNCHANGED <<disk, etc, cache, history>>

---------------------------------------------------------------------------
\* propose_config.

\* check_protected_changes: the first change that touches what the adapter
\* protects, or contradicts an earlier one, is the reason.
check_protected_changes(p) == p.reason = None

WithBase(c, k, base) ==
    caller' = [caller EXCEPT ![c] = [at |-> "eval", closure |-> k, base |-> base,
                                     seen |-> None]]

\* probe_cached: the first successful probe is kept for good; the cache is
\* locked while it runs.  A failed probe is not kept, and the proposal goes
\* on with the base revision of the unresolved adapter.  (A proposal that
\* begins when there is a capture is refused below and leaves nothing but a
\* cached probe, which no later proposal of this process comes to use.)
ProposeConfig(c, p) ==
    /\ At(c, "idle") /\ files.active = None
    /\ check_protected_changes(p)
    /\ \A d \in Callers : ~At(d, "cacheEtc")
    /\ \/ cache # None /\ WithBase(c, nix_eval_candidate(p), cache)
       \/ cache = None /\ WithBase(c, nix_eval_candidate(p), None)
       \/ cache = None /\ caller' = [caller EXCEPT ![c] =
            [at |-> "cacheEtc", closure |-> nix_eval_candidate(p), base |-> None,
             seen |-> nix_current_generation]]
    /\ UNCHANGED <<disk, etc, cache, history>>

\* probe reads the generation first and /etc afterwards.
ProbeEtc(c) ==
    LET base == [generation |-> caller[c].seen, etc |-> etc_revision]
    IN  /\ At(c, "cacheEtc")
        /\ \/ cache' = base /\ WithBase(c, caller[c].closure, base)
           \/ WithBase(c, caller[c].closure, None) /\ UNCHANGED cache
        /\ UNCHANGED <<disk, etc, history>>

\* propose_and_capture: load_active without the mutex, then the evaluation.
Propose(c) ==
    /\ At(c, "eval")
    /\ files.active = None
    /\ Goes(c, "storing")
    /\ UNCHANGED <<disk, etc, cache, history>>

\* Mutant: load_active has already looked.
StoreActiveUnchecked(c) ==
    /\ At(c, "storing") /\ Unlocked
    /\ files' = [files EXCEPT !.active = capture(c)]
    /\ Goes(c, "activeSync")
    /\ UNCHANGED <<act, profile, durable, etc, cache, history>>

\* store_active: refused if there is a capture; temp file and rename.
StoreActive(c) ==
    /\ At(c, "storing") /\ Unlocked
    /\ files.active = None
    /\ files' = [files EXCEPT !.active = capture(c)]
    /\ Goes(c, "activeSync")
    /\ UNCHANGED <<act, profile, durable, etc, cache, history>>

StoreActiveSyncs(c) ==
    /\ At(c, "activeSync")
    /\ SyncFiles
    /\ captured' = captured \cup {capture(c)}
    /\ Returns(c)
    /\ UNCHANGED <<files, act, profile, etc, cache, tested, promoted>>

\* The sync or the marker fails: an error, with the capture in place, and
\* durable or not.
StoreActiveFails(c) ==
    /\ At(c, "activeSync")
    /\ SyncFiles \/ UNCHANGED durable
    /\ Returns(c)
    /\ UNCHANGED <<files, act, profile, etc, cache, history>>

ProposeRefused(c) ==
    Fails(c, {"eval"} \cup (IF Unlocked THEN {"storing"} ELSE {}))

---------------------------------------------------------------------------
\* activate_once.

\* Mutant: only a finished activation counts.
ReserveUnlessActivated(c) ==
    /\ Captured(c) /\ Unlocked
    /\ act[files.active.closure] # "activated"
    /\ act' = [act EXCEPT ![files.active.closure] = "lock"]
    /\ Begins(c, "reserveSync")
    /\ UNCHANGED <<files, profile, durable, etc, cache, history>>

\* reserve_activation: neither a record nor a lock may exist.
Reserve(c) ==
    /\ Captured(c) /\ Unlocked
    /\ act[files.active.closure] = "free"
    /\ act' = [act EXCEPT ![files.active.closure] = "lock"]
    /\ Begins(c, "reserveSync")
    /\ UNCHANGED <<files, profile, durable, etc, cache, history>>

ReserveSyncs(c) ==
    /\ At(c, "reserveSync")
    /\ SyncAct
    /\ Goes(c, "probing")
    /\ UNCHANGED <<files, act, profile, etc, cache, history>>

\* Not durable: the call returns, the lock stays.
ReserveRefused(c) == Fails(c, {"reserveSync"})

ReprobeGeneration(c) ==
    /\ At(c, "probing")
    /\ caller' = [caller EXCEPT ![c].at = "probingEtc", ![c].seen = nix_current_generation]
    /\ UNCHANGED <<disk, etc, cache, history>>

ReprobeEtc(c) ==
    /\ At(c, "probingEtc")
    /\ Goes(c, IF [generation |-> caller[c].seen, etc |-> etc_revision] = caller[c].base
               THEN "testing" ELSE "releasing")
    /\ UNCHANGED <<disk, etc, cache, history>>

ReprobeFails(c) ==
    /\ At(c, "probing") \/ At(c, "probingEtc")
    /\ Goes(c, "releasing")
    /\ UNCHANGED <<disk, etc, cache, history>>

\* release_activation_reservation: the lock is removed, not synced; an error
\* is ignored.
Release(c) ==
    /\ At(c, "releasing") /\ Unlocked
    /\ \/ act' = [act EXCEPT ![caller[c].closure] = IF @ = "lock" THEN "free" ELSE @]
       \/ UNCHANGED act
    /\ Returns(c)
    /\ UNCHANGED <<files, profile, durable, etc, cache, history>>

\* nixos-rebuild test, whatever comes of it.
RunTest(c) ==
    /\ At(c, "testing")
    /\ nixos_rebuild_test(caller[c].closure)
    /\ Goes(c, "finalizing")
    /\ UNCHANGED <<disk, etc, cache, captured, promoted>>

\* finalize_activation: the lock becomes the record.
Finalize(c) ==
    /\ At(c, "finalizing") /\ Unlocked
    /\ act[caller[c].closure] # "activated"
    /\ act' = [act EXCEPT ![caller[c].closure] = "activated"]
    /\ Goes(c, "finalizeSync")
    /\ UNCHANGED <<files, profile, durable, etc, cache, history>>

FinalizeSyncs(c) ==
    /\ At(c, "finalizeSync")
    /\ SyncAct
    /\ Returns(c)
    /\ UNCHANGED <<files, act, profile, etc, cache, history>>

FinalizeFails(c) ==
    Fails(c, {"finalizeSync"} \cup (IF Unlocked THEN {"finalizing"} ELSE {}))

---------------------------------------------------------------------------
\* pin_closure: the realised path must be the candidate.  store_pin replaces
\* pin.json, then writes the marker.

StorePin(c) ==
    /\ Captured(c) /\ Unlocked
    /\ files' = [files EXCEPT !.pin = files.active]
    /\ Begins(c, "pinSync")
    /\ UNCHANGED <<act, profile, durable, etc, cache, history>>

PinSyncs(c) ==
    /\ At(c, "pinSync")
    /\ SyncFiles
    /\ files' = [files EXCEPT !.marker = "synced"]
    /\ Goes(c, "markerSync")
    /\ UNCHANGED <<act, profile, etc, cache, history>>

MarkerSyncs(c) ==
    /\ At(c, "markerSync")
    /\ SyncFiles
    /\ Returns(c)
    /\ UNCHANGED <<files, act, profile, etc, cache, history>>

\* A write or a sync fails.
PinRefused(c) == Fails(c, {"pinSync", "markerSync"})

---------------------------------------------------------------------------
\* advance_profile and configure_boot.  What they have checked may be
\* different when the command runs.

\* Mutant: the marker is not asked for.
verified_pin_unmarked == files.pin = files.active

\* verified_pin: the record is of this capture and its marker exists.
verified_pin == files.pin = files.active /\ files.marker # None

VerifyPin(c, phase) ==
    /\ Captured(c) /\ verified_pin
    /\ Begins(c, phase)
    /\ UNCHANGED <<disk, etc, cache, history>>

\* The read back of advance_profile changes its answer only.
AdvanceProfile(c) ==
    /\ At(c, "advancing")
    /\ nix_env_profile_set(caller[c].closure)
    /\ Returns(c)
    /\ UNCHANGED <<files, act, durable, etc, cache, captured, tested>>

\* configure_boot goes on if it reads its closure as the profile.
ReadProfile(c) ==
    /\ At(c, "readingProfile")
    /\ read_profile_target = caller[c].closure
    /\ Goes(c, "booting")
    /\ UNCHANGED <<disk, etc, cache, history>>

ConfigureBoot(c) ==
    /\ At(c, "booting")
    /\ switch_to_configuration_boot(caller[c].closure)
    /\ Returns(c)
    /\ UNCHANGED <<files, act, durable, etc, cache, captured, tested>>

\* A check that does not hold, or a command that fails without effect.
PromotionRefused(c) == Fails(c, {"advancing", "readingProfile", "booting"})

---------------------------------------------------------------------------
\* The surroundings.

\* An operator edits /etc, or installs a system of his own, which may be the
\* candidate.
OperatorEdits ==
    /\ etc < MaxEdits
    /\ etc' = etc + 1
    /\ UNCHANGED <<disk, cache, caller, history>>

OperatorInstalls ==
    /\ profile' \in Systems \ {profile}
    /\ UNCHANGED <<files, act, durable, etc, cache, caller, history>>

\* What a crash may leave of a directory: of every entry the new state or
\* the durable one.
Leftovers(now, safe) ==
    {[f \in DOMAIN now |-> IF f \in lost THEN safe[f] ELSE now[f]] :
        lost \in SUBSET {f \in DOMAIN now : now[f] # safe[f]}}

\* The process or the machine goes down and comes up again.
Crash ==
    /\ files' \in Leftovers(files, durable.files)
    /\ act'   \in Leftovers(act, durable.act)
    /\ profile' \in Systems
    /\ durable' = [files |-> files', act |-> act']
    /\ caller' = [c \in Callers |-> Idle]
    /\ cache' = None
    /\ UNCHANGED <<etc, history>>

---------------------------------------------------------------------------
ProposeStep(c) ==
    \/ \E p \in Proposals : ProposeConfig(c, p)
    \/ ProbeEtc(c) \/ Propose(c) \/ ProposeRefused(c)
    \/ StoreActive(c) \/ StoreActiveSyncs(c) \/ StoreActiveFails(c)

ActivateStep(c) ==
    \/ Reserve(c) \/ ReserveSyncs(c) \/ ReserveRefused(c)
    \/ ReprobeGeneration(c) \/ ReprobeEtc(c) \/ ReprobeFails(c) \/ Release(c)
    \/ RunTest(c) \/ Finalize(c) \/ FinalizeSyncs(c) \/ FinalizeFails(c)

PromoteStep(c) ==
    \/ StorePin(c) \/ PinSyncs(c) \/ MarkerSyncs(c) \/ PinRefused(c)
    \/ \E phase \in {"advancing", "readingProfile"} : VerifyPin(c, phase)
    \/ AdvanceProfile(c) \/ ReadProfile(c) \/ ConfigureBoot(c) \/ PromotionRefused(c)

Next ==
    \/ \E c \in Callers : ProposeStep(c) \/ ActivateStep(c) \/ PromoteStep(c)
    \/ OperatorEdits \/ OperatorInstalls \/ Crash

Spec == Init /\ [][Next]_vars

---------------------------------------------------------------------------
\* Properties.

\* TestedAtMostOnce: nixos-rebuild test is started at most once for a
\* candidate, whatever threads call activate_once at the same time, and
\* although a crash, with or without the loss of what was not synced, may
\* fall between the reservation, the command and its record.
\* (adapters/nix/src/promotion/test_activation.rs activate_once)
TestedAtMostOnce == \A k \in Closures : tested[k] <= 1

\* CaptureIsFinal: a capture whose proposal was answered stays the active
\* one, through the proposals that race with it and through power loss.
\* (adapters/nix/src/capture.rs store_active, propose.rs propose_and_capture)
CaptureIsFinal == \A k \in captured : files.active = k

\* PromotedStaysPinned: a closure that the adapter's commands have made the
\* system profile or the boot default is the one of the pin record, and the
\* record survives a power loss at any later moment: who recovers between two
\* steps of the promotion finds what it was about.  That holds although a
\* sync of the record may fail half way, verified_pin takes no lock, and an
\* earlier capture that was lost with the power may have been pinned too.
\* (adapters/nix/src/capture.rs store_pin, load_verified_pin, promotion/
\* {pin,profile,boot}.rs)
PromotedStaysPinned ==
    \A k \in promoted : durable.files.pin # None /\ durable.files.pin.closure = k

=============================================================================
