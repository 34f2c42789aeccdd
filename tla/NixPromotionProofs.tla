------------------------- MODULE NixPromotionProofs -------------------------
(***************************************************************************)
(* Proofs about NixPromotion for any number of threads, candidates, edits  *)
(* and crashes.                                                            *)
(***************************************************************************)
EXTENDS NixPromotion, TLAPS

Phases == {"idle", "cacheEtc", "eval", "storing", "activeSync", "reserveSync", "probing",
           "probingEtc", "testing", "releasing", "finalizing", "finalizeSync", "pinSync",
           "markerSync", "advancing", "readingProfile", "booting"}

FilesType == [active : Captures \cup {None}, pin : Captures \cup {None},
              marker : {None, "synced"}]
ActType   == [Closures -> {"free", "lock", "activated"}]

Call == [at : Phases, closure : Closures \cup {None}, base : Bases,
         seen : Systems \cup {None}]

CallersType ==
    /\ caller \in [Callers -> Call]
    /\ \A c \in Callers : caller[c].at # "idle" => caller[c].closure \in Closures
    /\ \A c \in Callers : caller[c].at = "cacheEtc" => caller[c].seen \in Systems

TypeInv ==
    /\ files \in FilesType /\ act \in ActType /\ profile \in Systems
    /\ durable \in [files : FilesType, act : ActType]
    /\ etc \in 0..MaxEdits /\ cache \in Bases
    /\ CallersType
    /\ captured \in SUBSET Captures
    /\ tested \in [Closures -> Nat]
    /\ promoted \in SUBSET Closures

\* The phases of activate_once between the reservation and its return.
Activating == {"reserveSync", "probing", "probingEtc", "testing", "releasing",
               "finalizing", "finalizeSync"}
Holds(c, k) == caller[c].at \in Activating /\ caller[c].closure = k

\* A candidate is reserved by one thread at most, and not free meanwhile; once
\* the reservation is synced it is not free on the disk either.
Reserved ==
    \A c \in Callers, k \in Closures : Holds(c, k) =>
        /\ act[k] # "free"
        /\ caller[c].at # "reserveSync" => durable.act[k] # "free"
        /\ \A d \in Callers : Holds(d, k) => d = c

\* A candidate that was tested is never free again, in memory or after a
\* crash, and no thread is before its test.
TestedKept ==
    \A k \in Closures : tested[k] # 0 =>
        /\ tested[k] = 1
        /\ act[k] # "free" /\ durable.act[k] # "free"
        /\ \A c \in Callers : Holds(c, k) => caller[c].at \in {"finalizing", "finalizeSync"}

\* An answered capture is the active one on both sides of the cache.
CapturedKept ==
    /\ \A k \in captured : files.active = k /\ durable.files.active = k
    /\ \A c \in Callers : caller[c].at = "activeSync" => files.active = capture(c)

\* The capture there is, is pinned, on both sides of the cache.
Settled ==
    /\ files.active # None /\ files.pin = files.active
    /\ durable.files.active = files.active /\ durable.files.pin = files.active

\* The marker says so, also one that is lost again, and so does everything
\* that was promoted or is about to be, which is of that capture.
PinKept ==
    /\ files.marker # None \/ durable.files.marker # None \/ promoted # {} => Settled
    /\ \A c \in Callers : caller[c].at = "pinSync" =>
          files.active # None /\ files.pin = files.active
    /\ \A c \in Callers : caller[c].at \in {"advancing", "readingProfile", "booting"} =>
          Settled /\ caller[c].closure = files.active.closure
    /\ \A k \in promoted : k = files.active.closure

Inv == TypeInv /\ Reserved /\ TestedKept /\ CapturedKept /\ PinKept

-----------------------------------------------------------------------------
\* What a crash leaves of an entry is its newer or its durable state.
LEMMA LeftoversKeep ==
  ASSUME NEW now, NEW safe, NEW new \in Leftovers(now, safe)
  PROVE  /\ new = [f \in DOMAIN now |-> new[f]]
         /\ \A f \in DOMAIN now : new[f] = now[f] \/ new[f] = safe[f]
  BY DEF Leftovers

\* It holds at the beginning.
LEMMA InitInv == Init => Inv
<1> SUFFICES ASSUME Init PROVE Inv
  OBVIOUS
<1>1. TypeInv
  BY BoundAssumption DEF Init, TypeInv, CallersType, Call, FilesType, ActType,
     Systems, Bases, Idle, Phases
<1>2. Reserved /\ TestedKept /\ CapturedKept
  BY DEF Init, Reserved, TestedKept, CapturedKept, Holds, Activating, Idle
<1>3. PinKept
  BY DEF Init, PinKept, Idle
<1> QED BY <1>1, <1>2, <1>3 DEF Inv

\* A crash leaves of every file and activation the newer or the durable
\* state, and no call.
LEMMA CrashKeeps ==
  ASSUME TypeInv, Crash
  PROVE  /\ files' \in FilesType /\ act' \in ActType /\ profile' \in Systems
         /\ durable' = [files |-> files', act |-> act']
         /\ files'.active \in {files.active, durable.files.active}
         /\ files'.pin \in {files.pin, durable.files.pin}
         /\ files'.marker \in {files.marker, durable.files.marker}
         /\ \A k \in Closures : act'[k] \in {act[k], durable.act[k]}
<1>1. /\ files' \in Leftovers(files, durable.files) /\ act' \in Leftovers(act, durable.act)
      /\ durable' = [files |-> files', act |-> act'] /\ profile' \in Systems
  BY DEF Crash
<1>2. files' = [f \in DOMAIN files |-> files'[f]]
      /\ \A f \in DOMAIN files : files'[f] = files[f] \/ files'[f] = durable.files[f]
  BY <1>1, LeftoversKeep
<1>3. act' = [f \in DOMAIN act |-> act'[f]]
      /\ \A f \in DOMAIN act : act'[f] = act[f] \/ act'[f] = durable.act[f]
  BY <1>1, LeftoversKeep
<1>4. files' \in FilesType
  BY <1>2 DEF TypeInv, FilesType
<1>5. act' \in ActType
  BY <1>3 DEF TypeInv, ActType
<1> QED BY <1>1, <1>2, <1>3, <1>4, <1>5 DEF TypeInv, FilesType, ActType

\* A caller that is given a well-typed call.
LEMMA CallTyped ==
  ASSUME CallersType, NEW c \in Callers, NEW new \in Call,
         new.at # "idle" => new.closure \in Closures,
         new.at = "cacheEtc" => new.seen \in Systems,
         caller' = [caller EXCEPT ![c] = new]
  PROVE  CallersType'
  BY DEF CallersType, Call

\* A proposal that goes on with a base revision.
LEMMA WithBaseTyped ==
  ASSUME CallersType, NEW c \in Callers, NEW k \in Closures, NEW b \in Bases,
         WithBase(c, k, b)
  PROVE  CallersType'
<1> DEFINE new == [at |-> "eval", closure |-> k, base |-> b, seen |-> None]
<1>1. new \in Call /\ new.at = "eval" /\ new.closure \in Closures
  BY DEF Call, Phases
<1>2. caller' = [caller EXCEPT ![c] = new]
  BY DEF WithBase
<1> HIDE DEF new
<1> QED BY <1>1, <1>2, CallTyped

\* A call that goes on to another phase.
LEMMA GoesTyped ==
  ASSUME CallersType, NEW c \in Callers, NEW phase \in Phases \ {"cacheEtc"},
         caller[c].at # "idle", Goes(c, phase)
  PROVE  CallersType'
<1> DEFINE new == [caller[c] EXCEPT !.at = phase, !.seen = None]
<1>1. caller' = [caller EXCEPT ![c] = new]
  BY DEF Goes, CallersType, Call
<1>2. new \in Call /\ new.at = phase /\ new.closure \in Closures
  BY DEF CallersType, Call
<1> HIDE DEF new
<1> QED BY <1>1, <1>2, CallTyped

\* Every step keeps the types.
LEMMA TypeStep == Inv /\ [Next]_vars => TypeInv'
<1> SUFFICES ASSUME Inv, [Next]_vars PROVE TypeInv'
  OBVIOUS
<1> USE DEF Inv, disk, history
<1>1. CASE UNCHANGED vars
  BY <1>1 DEF vars, TypeInv, CallersType, Call, FilesType, ActType, Systems,
     Bases, Captures, Phases
<1>2. ASSUME NEW c \in Callers, NEW p \in Proposals, ProposeConfig(c, p) PROVE TypeInv'
  <2>0. p.closure \in Closures /\ None \in Bases
    BY DEF Closures, Bases
  <2>1. CASE \E b \in Bases : WithBase(c, p.closure, b)
    <3>1. PICK b \in Bases : WithBase(c, p.closure, b)
      BY <2>1
    <3>2. CallersType'
      BY <2>0, <3>1, WithBaseTyped DEF TypeInv
    <3> QED BY <1>2, <3>2 DEF ProposeConfig, TypeInv
  <2>2. CASE caller' = [caller EXCEPT ![c] = [at |-> "cacheEtc", closure |-> p.closure,
                                              base |-> None, seen |-> profile]]
    <3> DEFINE new == [at |-> "cacheEtc", closure |-> p.closure, base |-> None,
                       seen |-> profile]
    <3>1. new \in Call /\ new.closure \in Closures /\ new.seen \in Systems
      BY <2>0 DEF Call, Phases, TypeInv
    <3>2. caller' = [caller EXCEPT ![c] = new]
      BY <2>2
    <3> HIDE DEF new
    <3>3. CallersType'
      BY <3>1, <3>2, CallTyped DEF TypeInv
    <3> QED BY <1>2, <3>3 DEF ProposeConfig, TypeInv
  <2>3. \/ cache # None /\ WithBase(c, p.closure, cache)
        \/ WithBase(c, p.closure, None)
        \/ caller' = [caller EXCEPT ![c] = [at |-> "cacheEtc", closure |-> p.closure,
                                            base |-> None, seen |-> profile]]
    BY <1>2 DEF ProposeConfig, nix_eval_candidate, nix_current_generation
  <2> QED BY <2>0, <2>1, <2>2, <2>3 DEF TypeInv
<1>3. ASSUME NEW c \in Callers, ProbeEtc(c) PROVE TypeInv'
  <2> DEFINE base == [generation |-> caller[c].seen, etc |-> etc]
  <2>0. caller[c].closure \in Closures /\ caller[c].seen \in Systems
    BY <1>3 DEF ProbeEtc, At, TypeInv, CallersType
  <2>1. base \in Bases /\ None \in Bases
    BY <2>0 DEF TypeInv, Bases
  <2>2. cache' \in {cache, base} /\ \E b \in {base, None} : WithBase(c, caller[c].closure, b)
    BY <1>3 DEF ProbeEtc, etc_revision
  <2> HIDE DEF base
  <2>3. PICK b \in Bases : WithBase(c, caller[c].closure, b)
    BY <2>1, <2>2
  <2>4. CallersType'
    BY <2>0, <2>3, WithBaseTyped DEF TypeInv
  <2> QED BY <1>3, <2>1, <2>2, <2>4 DEF ProbeEtc, TypeInv
<1>4. ASSUME NEW c \in Callers, Propose(c) PROVE TypeInv'
  <2>0. caller[c] \in Call /\ caller[c].closure \in Closures
    BY <1>4 DEF Propose, At, TypeInv, CallersType
  <2>1. CallersType'
    BY <1>4, GoesTyped DEF Propose, At, TypeInv, Phases
  <2> QED BY <1>4, <2>0, <2>1, BoundAssumption DEF Propose, At, TypeInv, FilesType, ActType,
             Systems, Bases, Captures, Call
<1>5. ASSUME NEW c \in Callers, ProposeRefused(c) PROVE TypeInv'
  BY <1>5, BoundAssumption DEF ProposeRefused, Fails, Returns, Idle, TypeInv, CallersType,
     Call, FilesType, ActType, Systems, Bases, Captures, Phases
<1>6. ASSUME NEW c \in Callers, StoreActive(c) PROVE TypeInv'
  <2>0. caller[c] \in Call /\ caller[c].closure \in Closures
    BY <1>6 DEF StoreActive, At, TypeInv, CallersType
  <2>1. CallersType'
    BY <1>6, GoesTyped DEF StoreActive, At, capture, TypeInv, Phases
  <2> QED BY <1>6, <2>0, <2>1, BoundAssumption DEF StoreActive, At, capture, TypeInv,
             FilesType, ActType, Systems, Bases, Captures, Call
<1>7. ASSUME NEW c \in Callers, StoreActiveSyncs(c) PROVE TypeInv'
  BY <1>7, BoundAssumption DEF StoreActiveSyncs, At, SyncFiles, Returns, Idle, capture,
     TypeInv, CallersType, Call, FilesType, ActType, Systems, Bases, Captures,
     Phases
<1>8. ASSUME NEW c \in Callers, StoreActiveFails(c) PROVE TypeInv'
  BY <1>8, BoundAssumption DEF StoreActiveFails, At, SyncFiles, Returns, Idle, TypeInv,
     CallersType, Call, FilesType, ActType, Systems, Bases, Captures, Phases
<1>9. ASSUME NEW c \in Callers, Reserve(c) PROVE TypeInv'
  BY <1>9, BoundAssumption DEF Reserve, At, Captured, Begins, TypeInv, CallersType, Call,
     FilesType, ActType, Systems, Bases, Captures, Phases
<1>10. ASSUME NEW c \in Callers, ReserveSyncs(c) PROVE TypeInv'
  <2>0. caller[c] \in Call /\ caller[c].closure \in Closures
    BY <1>10 DEF ReserveSyncs, At, TypeInv, CallersType
  <2>1. CallersType'
    BY <1>10, GoesTyped DEF ReserveSyncs, At, SyncAct, TypeInv, Phases
  <2> QED BY <1>10, <2>0, <2>1, BoundAssumption DEF ReserveSyncs, At, SyncAct, TypeInv,
             FilesType, ActType, Systems, Bases, Captures, Call
<1>11. ASSUME NEW c \in Callers, ReserveRefused(c) PROVE TypeInv'
  BY <1>11, BoundAssumption DEF ReserveRefused, Fails, Returns, Idle, TypeInv, CallersType,
     Call, FilesType, ActType, Systems, Bases, Captures, Phases
<1>12. ASSUME NEW c \in Callers, ReprobeGeneration(c) PROVE TypeInv'
  <2>0. caller[c] \in Call /\ caller[c].closure \in Closures
    BY <1>12 DEF ReprobeGeneration, At, TypeInv, CallersType
  <2>1. CallersType'
    BY <1>12, CallTyped DEF ReprobeGeneration, At, nix_current_generation, TypeInv,
       CallersType, Call, FilesType, ActType, Systems, Bases, Captures, Phases
  <2> QED BY <1>12, <2>0, <2>1, BoundAssumption DEF ReprobeGeneration, At,
             nix_current_generation, TypeInv, FilesType, ActType, Systems, Bases,
             Captures, Call
<1>13. ASSUME NEW c \in Callers, ReprobeEtc(c) PROVE TypeInv'
  <2>0. caller[c] \in Call /\ caller[c].closure \in Closures
    BY <1>13 DEF ReprobeEtc, At, TypeInv, CallersType
  <2>1. CallersType'
    BY <1>13, GoesTyped DEF ReprobeEtc, At, etc_revision, TypeInv, Phases
  <2> QED BY <1>13, <2>0, <2>1, BoundAssumption DEF ReprobeEtc, At, etc_revision, TypeInv,
             FilesType, ActType, Systems, Bases, Captures, Call
<1>14. ASSUME NEW c \in Callers, ReprobeFails(c) PROVE TypeInv'
  <2>0. caller[c] \in Call /\ caller[c].closure \in Closures
    BY <1>14 DEF ReprobeFails, At, TypeInv, CallersType
  <2>1. CallersType'
    BY <1>14, GoesTyped DEF ReprobeFails, At, TypeInv, Phases
  <2> QED BY <1>14, <2>0, <2>1, BoundAssumption DEF ReprobeFails, At, TypeInv, FilesType,
             ActType, Systems, Bases, Captures, Call
<1>15. ASSUME NEW c \in Callers, Release(c) PROVE TypeInv'
  BY <1>15, BoundAssumption DEF Release, At, Returns, Idle, TypeInv, CallersType, Call,
     FilesType, ActType, Systems, Bases, Captures, Phases
<1>16. ASSUME NEW c \in Callers, RunTest(c) PROVE TypeInv'
  <2>0. caller[c] \in Call /\ caller[c].closure \in Closures
    BY <1>16 DEF RunTest, At, TypeInv, CallersType
  <2>1. CallersType'
    BY <1>16, GoesTyped DEF RunTest, At, nixos_rebuild_test, TypeInv, Phases
  <2> QED BY <1>16, <2>0, <2>1, BoundAssumption DEF RunTest, At, nixos_rebuild_test,
             TypeInv, FilesType, ActType, Systems, Bases, Captures, Call
<1>17. ASSUME NEW c \in Callers, Finalize(c) PROVE TypeInv'
  <2>0. caller[c] \in Call /\ caller[c].closure \in Closures
    BY <1>17 DEF Finalize, At, TypeInv, CallersType
  <2>1. CallersType'
    BY <1>17, GoesTyped DEF Finalize, At, TypeInv, Phases
  <2> QED BY <1>17, <2>0, <2>1, BoundAssumption DEF Finalize, At, TypeInv, FilesType,
             ActType, Systems, Bases, Captures, Call
<1>18. ASSUME NEW c \in Callers, FinalizeSyncs(c) PROVE TypeInv'
  BY <1>18, BoundAssumption DEF FinalizeSyncs, At, SyncAct, Returns, Idle, TypeInv,
     CallersType, Call, FilesType, ActType, Systems, Bases, Captures, Phases
<1>19. ASSUME NEW c \in Callers, FinalizeFails(c) PROVE TypeInv'
  BY <1>19, BoundAssumption DEF FinalizeFails, Fails, Returns, Idle, TypeInv, CallersType,
     Call, FilesType, ActType, Systems, Bases, Captures, Phases
<1>20. ASSUME NEW c \in Callers, StorePin(c) PROVE TypeInv'
  BY <1>20, BoundAssumption DEF StorePin, At, Captured, Begins, TypeInv, CallersType, Call,
     FilesType, ActType, Systems, Bases, Captures, Phases
<1>21. ASSUME NEW c \in Callers, PinSyncs(c) PROVE TypeInv'
  <2>0. caller[c] \in Call /\ caller[c].closure \in Closures
    BY <1>21 DEF PinSyncs, At, TypeInv, CallersType
  <2>1. CallersType'
    BY <1>21, GoesTyped DEF PinSyncs, At, SyncFiles, TypeInv, Phases
  <2> QED BY <1>21, <2>0, <2>1, BoundAssumption DEF PinSyncs, At, SyncFiles, TypeInv,
             FilesType, ActType, Systems, Bases, Captures, Call
<1>22. ASSUME NEW c \in Callers, MarkerSyncs(c) PROVE TypeInv'
  BY <1>22, BoundAssumption DEF MarkerSyncs, At, SyncFiles, Returns, Idle, TypeInv,
     CallersType, Call, FilesType, ActType, Systems, Bases, Captures, Phases
<1>23. ASSUME NEW c \in Callers, PinRefused(c) PROVE TypeInv'
  BY <1>23, BoundAssumption DEF PinRefused, Fails, Returns, Idle, TypeInv, CallersType,
     Call, FilesType, ActType, Systems, Bases, Captures, Phases
<1>24. ASSUME NEW c \in Callers, NEW phase \in {"advancing", "readingProfile"},
              VerifyPin(c, phase)
       PROVE  TypeInv'
  BY <1>24, BoundAssumption DEF VerifyPin, At, Captured, Begins, verified_pin, TypeInv,
     CallersType, Call, FilesType, ActType, Systems, Bases, Captures, Phases
<1>25. ASSUME NEW c \in Callers, AdvanceProfile(c) PROVE TypeInv'
  BY <1>25, BoundAssumption DEF AdvanceProfile, At, Returns, Idle, nix_env_profile_set,
     TypeInv, CallersType, Call, FilesType, ActType, Systems, Bases, Captures, Phases
<1>26. ASSUME NEW c \in Callers, ReadProfile(c) PROVE TypeInv'
  <2>1. CallersType'
    BY <1>26, GoesTyped DEF ReadProfile, At, TypeInv, Phases
  <2> QED BY <1>26, <2>1 DEF ReadProfile, TypeInv
<1>27. ASSUME NEW c \in Callers, ConfigureBoot(c) PROVE TypeInv'
  BY <1>27, BoundAssumption DEF ConfigureBoot, At, Returns, Idle,
     switch_to_configuration_boot, TypeInv, CallersType, Call, FilesType, ActType,
     Systems, Bases, Captures, Phases
<1>28. ASSUME NEW c \in Callers, PromotionRefused(c) PROVE TypeInv'
  BY <1>28, BoundAssumption DEF PromotionRefused, Fails, Returns, Idle, TypeInv,
     CallersType, Call, FilesType, ActType, Systems, Bases, Captures, Phases
<1>29. CASE OperatorEdits
  BY <1>29, BoundAssumption DEF OperatorEdits, TypeInv, CallersType, Call, FilesType,
     ActType, Systems, Bases, Captures, Phases
<1>30. CASE OperatorInstalls
  BY <1>30, BoundAssumption DEF OperatorInstalls, TypeInv, CallersType, Call, FilesType,
     ActType, Systems, Bases, Captures, Phases
<1>31. CASE Crash
  BY <1>31, CrashKeeps, BoundAssumption DEF Crash, Idle, TypeInv, CallersType, Call,
     FilesType, ActType, Systems, Bases, Captures, Phases
<1> QED BY <1>1, <1>2, <1>3, <1>4, <1>5, <1>6, <1>7, <1>8, <1>9, <1>10, <1>11, <1>12, <1>13,
           <1>14, <1>15, <1>16, <1>17, <1>18, <1>19, <1>20, <1>21, <1>22, <1>23, <1>24,
           <1>25, <1>26, <1>27, <1>28, <1>29, <1>30, <1>31 DEF Next, ProposeStep,
           ActivateStep, PromoteStep

\* Every step keeps the reservations exclusive.
LEMMA ReservedStep == Inv /\ [Next]_vars => Reserved'
<1> SUFFICES ASSUME Inv, [Next]_vars PROVE Reserved'
  OBVIOUS
<1> USE DEF Inv, disk, history
<1>1. CASE UNCHANGED vars
  BY <1>1 DEF vars, TypeInv, CallersType, Call, ActType, FilesType, Captures, Reserved,
     Holds, Activating
<1>2. ASSUME NEW c \in Callers, NEW p \in Proposals, ProposeConfig(c, p) PROVE Reserved'
  BY <1>2 DEF ProposeConfig, WithBase, At, nix_eval_candidate, nix_current_generation,
     TypeInv, CallersType, Call, ActType, FilesType, Captures, Reserved, Holds, Activating
<1>3. ASSUME NEW c \in Callers, ProbeEtc(c) PROVE Reserved'
  BY <1>3 DEF ProbeEtc, At, WithBase, etc_revision, TypeInv, CallersType, Call, ActType,
     FilesType, Captures, Reserved, Holds, Activating
<1>4. ASSUME NEW c \in Callers, Propose(c) PROVE Reserved'
  BY <1>4 DEF Propose, At, Goes, TypeInv, CallersType, Call, ActType, FilesType, Captures,
     Reserved, Holds, Activating
<1>5. ASSUME NEW c \in Callers, ProposeRefused(c) PROVE Reserved'
  BY <1>5 DEF ProposeRefused, Fails, Returns, Idle, TypeInv, CallersType, Call, ActType,
     FilesType, Captures, Reserved, Holds, Activating
<1>6. ASSUME NEW c \in Callers, StoreActive(c) PROVE Reserved'
  BY <1>6 DEF StoreActive, At, Goes, capture, TypeInv, CallersType, Call, ActType,
     FilesType, Captures, Reserved, Holds, Activating
<1>7. ASSUME NEW c \in Callers, StoreActiveSyncs(c) PROVE Reserved'
  BY <1>7 DEF StoreActiveSyncs, At, SyncFiles, Returns, Idle, capture, TypeInv, CallersType,
     Call, ActType, FilesType, Captures, Reserved, Holds, Activating
<1>8. ASSUME NEW c \in Callers, StoreActiveFails(c) PROVE Reserved'
  BY <1>8 DEF StoreActiveFails, At, SyncFiles, Returns, Idle, TypeInv, CallersType, Call,
     ActType, FilesType, Captures, Reserved, Holds, Activating
<1>9. ASSUME NEW c \in Callers, Reserve(c) PROVE Reserved'
  BY <1>9 DEF Reserve, At, Captured, Begins, TypeInv, CallersType, Call, ActType, FilesType,
     Captures, Reserved, Holds, Activating
<1>10. ASSUME NEW c \in Callers, ReserveSyncs(c) PROVE Reserved'
  BY <1>10 DEF ReserveSyncs, At, SyncAct, Goes, TypeInv, CallersType, Call, ActType,
     FilesType, Captures, Reserved, Holds, Activating
<1>11. ASSUME NEW c \in Callers, ReserveRefused(c) PROVE Reserved'
  BY <1>11 DEF ReserveRefused, Fails, Returns, Idle, TypeInv, CallersType, Call, ActType,
     FilesType, Captures, Reserved, Holds, Activating
<1>12. ASSUME NEW c \in Callers, ReprobeGeneration(c) PROVE Reserved'
  BY <1>12 DEF ReprobeGeneration, At, nix_current_generation, TypeInv, CallersType, Call,
     ActType, FilesType, Captures, Reserved, Holds, Activating
<1>13. ASSUME NEW c \in Callers, ReprobeEtc(c) PROVE Reserved'
  BY <1>13 DEF ReprobeEtc, At, Goes, etc_revision, TypeInv, CallersType, Call, ActType,
     FilesType, Captures, Reserved, Holds, Activating
<1>14. ASSUME NEW c \in Callers, ReprobeFails(c) PROVE Reserved'
  BY <1>14 DEF ReprobeFails, At, Goes, TypeInv, CallersType, Call, ActType, FilesType,
     Captures, Reserved, Holds, Activating
<1>15. ASSUME NEW c \in Callers, Release(c) PROVE Reserved'
  BY <1>15 DEF Release, At, Returns, Idle, TypeInv, CallersType, Call, ActType, FilesType,
     Captures, Reserved, Holds, Activating
<1>16. ASSUME NEW c \in Callers, RunTest(c) PROVE Reserved'
  BY <1>16 DEF RunTest, At, Goes, nixos_rebuild_test, TypeInv, CallersType, Call, ActType,
     FilesType, Captures, Reserved, Holds, Activating
<1>17. ASSUME NEW c \in Callers, Finalize(c) PROVE Reserved'
  BY <1>17 DEF Finalize, At, Goes, TypeInv, CallersType, Call, ActType, FilesType, Captures,
     Reserved, Holds, Activating
<1>18. ASSUME NEW c \in Callers, FinalizeSyncs(c) PROVE Reserved'
  BY <1>18 DEF FinalizeSyncs, At, SyncAct, Returns, Idle, TypeInv, CallersType, Call,
     ActType, FilesType, Captures, Reserved, Holds, Activating
<1>19. ASSUME NEW c \in Callers, FinalizeFails(c) PROVE Reserved'
  BY <1>19 DEF FinalizeFails, Fails, Returns, Idle, TypeInv, CallersType, Call, ActType,
     FilesType, Captures, Reserved, Holds, Activating
<1>20. ASSUME NEW c \in Callers, StorePin(c) PROVE Reserved'
  BY <1>20 DEF StorePin, At, Captured, Begins, TypeInv, CallersType, Call, ActType,
     FilesType, Captures, Reserved, Holds, Activating
<1>21. ASSUME NEW c \in Callers, PinSyncs(c) PROVE Reserved'
  BY <1>21 DEF PinSyncs, At, SyncFiles, Goes, TypeInv, CallersType, Call, ActType,
     FilesType, Captures, Reserved, Holds, Activating
<1>22. ASSUME NEW c \in Callers, MarkerSyncs(c) PROVE Reserved'
  BY <1>22 DEF MarkerSyncs, At, SyncFiles, Returns, Idle, TypeInv, CallersType, Call,
     ActType, FilesType, Captures, Reserved, Holds, Activating
<1>23. ASSUME NEW c \in Callers, PinRefused(c) PROVE Reserved'
  BY <1>23 DEF PinRefused, Fails, Returns, Idle, TypeInv, CallersType, Call, ActType,
     FilesType, Captures, Reserved, Holds, Activating
<1>24. ASSUME NEW c \in Callers, NEW phase \in {"advancing", "readingProfile"},
              VerifyPin(c, phase)
       PROVE  Reserved'
  BY <1>24 DEF VerifyPin, At, Captured, Begins, verified_pin, TypeInv, CallersType, Call,
     ActType, FilesType, Captures, Reserved, Holds, Activating
<1>25. ASSUME NEW c \in Callers, AdvanceProfile(c) PROVE Reserved'
  BY <1>25 DEF AdvanceProfile, At, Returns, Idle, nix_env_profile_set, TypeInv,
     CallersType, Call, ActType, FilesType, Captures, Reserved, Holds, Activating
<1>26. ASSUME NEW c \in Callers, ReadProfile(c) PROVE Reserved'
  BY <1>26 DEF ReadProfile, At, Goes, TypeInv, CallersType, Call, ActType, FilesType,
     Captures, Reserved, Holds, Activating
<1>27. ASSUME NEW c \in Callers, ConfigureBoot(c) PROVE Reserved'
  BY <1>27 DEF ConfigureBoot, At, Returns, Idle, switch_to_configuration_boot, TypeInv,
     CallersType, Call, ActType, FilesType, Captures, Reserved, Holds, Activating
<1>28. ASSUME NEW c \in Callers, PromotionRefused(c) PROVE Reserved'
  BY <1>28 DEF PromotionRefused, Fails, Returns, Idle, TypeInv, CallersType, Call,
     ActType, FilesType, Captures, Reserved, Holds, Activating
<1>29. CASE OperatorEdits
  BY <1>29 DEF OperatorEdits, TypeInv, CallersType, Call, ActType, FilesType, Captures,
     Reserved, Holds, Activating
<1>30. CASE OperatorInstalls
  BY <1>30 DEF OperatorInstalls, TypeInv, CallersType, Call, ActType, FilesType, Captures,
     Reserved, Holds, Activating
<1>31. CASE Crash
  BY <1>31, CrashKeeps DEF Crash, Idle, TypeInv, CallersType, Call, ActType, FilesType,
     Captures, Reserved, Holds, Activating
<1> QED BY <1>1, <1>2, <1>3, <1>4, <1>5, <1>6, <1>7, <1>8, <1>9, <1>10, <1>11, <1>12, <1>13,
           <1>14, <1>15, <1>16, <1>17, <1>18, <1>19, <1>20, <1>21, <1>22, <1>23, <1>24,
           <1>25, <1>26, <1>27, <1>28, <1>29, <1>30, <1>31 DEF Next, ProposeStep,
           ActivateStep, PromoteStep

\* No step frees or tests a candidate that was tested.
LEMMA TestedStep == Inv /\ [Next]_vars => TestedKept'
<1> SUFFICES ASSUME Inv, [Next]_vars PROVE TestedKept'
  OBVIOUS
<1> USE DEF Inv, disk, history
<1>1. CASE UNCHANGED vars
  BY <1>1 DEF vars, TypeInv, CallersType, Call, ActType, FilesType, Captures, Reserved,
     Holds, Activating, TestedKept
<1>2. ASSUME NEW c \in Callers, NEW p \in Proposals, ProposeConfig(c, p) PROVE TestedKept'
  BY <1>2 DEF ProposeConfig, WithBase, At, nix_eval_candidate, nix_current_generation,
     TypeInv, CallersType, Call, ActType, FilesType, Captures, Reserved, Holds, Activating,
     TestedKept
<1>3. ASSUME NEW c \in Callers, ProbeEtc(c) PROVE TestedKept'
  <2>1. PICK b : WithBase(c, caller[c].closure, b)
    BY <1>3 DEF ProbeEtc
  <2>2. \A d \in Callers : caller'[d] = caller[d] \/ caller'[d].at = "eval"
    BY <2>1 DEF WithBase, TypeInv, CallersType
  <2> QED BY <1>3, <2>2 DEF ProbeEtc, Holds, Activating, TestedKept
<1>4. ASSUME NEW c \in Callers, Propose(c) PROVE TestedKept'
  BY <1>4 DEF Propose, At, Goes, TypeInv, CallersType, Call, ActType, FilesType, Captures,
     Reserved, Holds, Activating, TestedKept
<1>5. ASSUME NEW c \in Callers, ProposeRefused(c) PROVE TestedKept'
  BY <1>5 DEF ProposeRefused, Fails, Returns, Idle, TypeInv, CallersType, Call, ActType,
     FilesType, Captures, Reserved, Holds, Activating, TestedKept
<1>6. ASSUME NEW c \in Callers, StoreActive(c) PROVE TestedKept'
  BY <1>6 DEF StoreActive, At, Goes, capture, TypeInv, CallersType, Call, ActType,
     FilesType, Captures, Reserved, Holds, Activating, TestedKept
<1>7. ASSUME NEW c \in Callers, StoreActiveSyncs(c) PROVE TestedKept'
  BY <1>7 DEF StoreActiveSyncs, At, SyncFiles, Returns, Idle, capture, TypeInv, CallersType,
     Call, ActType, FilesType, Captures, Reserved, Holds, Activating, TestedKept
<1>8. ASSUME NEW c \in Callers, StoreActiveFails(c) PROVE TestedKept'
  BY <1>8 DEF StoreActiveFails, At, SyncFiles, Returns, Idle, TypeInv, CallersType, Call,
     ActType, FilesType, Captures, Reserved, Holds, Activating, TestedKept
<1>9. ASSUME NEW c \in Callers, Reserve(c) PROVE TestedKept'
  BY <1>9 DEF Reserve, At, Captured, Begins, TypeInv, CallersType, Call, ActType, FilesType,
     Captures, Reserved, Holds, Activating, TestedKept
<1>10. ASSUME NEW c \in Callers, ReserveSyncs(c) PROVE TestedKept'
  BY <1>10 DEF ReserveSyncs, At, SyncAct, Goes, TypeInv, CallersType, Call, ActType,
     FilesType, Captures, Reserved, Holds, Activating, TestedKept
<1>11. ASSUME NEW c \in Callers, ReserveRefused(c) PROVE TestedKept'
  BY <1>11 DEF ReserveRefused, Fails, Returns, Idle, TypeInv, CallersType, Call, ActType,
     FilesType, Captures, Reserved, Holds, Activating, TestedKept
<1>12. ASSUME NEW c \in Callers, ReprobeGeneration(c) PROVE TestedKept'
  BY <1>12 DEF ReprobeGeneration, At, nix_current_generation, TypeInv, CallersType, Call,
     ActType, FilesType, Captures, Reserved, Holds, Activating, TestedKept
<1>13. ASSUME NEW c \in Callers, ReprobeEtc(c) PROVE TestedKept'
  BY <1>13 DEF ReprobeEtc, At, Goes, etc_revision, TypeInv, CallersType, Call, ActType,
     FilesType, Captures, Reserved, Holds, Activating, TestedKept
<1>14. ASSUME NEW c \in Callers, ReprobeFails(c) PROVE TestedKept'
  BY <1>14 DEF ReprobeFails, At, Goes, TypeInv, CallersType, Call, ActType, FilesType,
     Captures, Reserved, Holds, Activating, TestedKept
<1>15. ASSUME NEW c \in Callers, Release(c) PROVE TestedKept'
  BY <1>15 DEF Release, At, Returns, Idle, TypeInv, CallersType, Call, ActType, FilesType,
     Captures, Reserved, Holds, Activating, TestedKept
<1>16. ASSUME NEW c \in Callers, RunTest(c) PROVE TestedKept'
  BY <1>16 DEF RunTest, At, Goes, nixos_rebuild_test, TypeInv, CallersType, Call, ActType,
     FilesType, Captures, Reserved, Holds, Activating, TestedKept
<1>17. ASSUME NEW c \in Callers, Finalize(c) PROVE TestedKept'
  BY <1>17 DEF Finalize, At, Goes, TypeInv, CallersType, Call, ActType, FilesType, Captures,
     Reserved, Holds, Activating, TestedKept
<1>18. ASSUME NEW c \in Callers, FinalizeSyncs(c) PROVE TestedKept'
  BY <1>18 DEF FinalizeSyncs, At, SyncAct, Returns, Idle, TypeInv, CallersType, Call,
     ActType, FilesType, Captures, Reserved, Holds, Activating, TestedKept
<1>19. ASSUME NEW c \in Callers, FinalizeFails(c) PROVE TestedKept'
  BY <1>19 DEF FinalizeFails, Fails, Returns, Idle, TypeInv, CallersType, Call, ActType,
     FilesType, Captures, Reserved, Holds, Activating, TestedKept
<1>20. ASSUME NEW c \in Callers, StorePin(c) PROVE TestedKept'
  BY <1>20 DEF StorePin, At, Captured, Begins, TypeInv, CallersType, Call, ActType,
     FilesType, Captures, Reserved, Holds, Activating, TestedKept
<1>21. ASSUME NEW c \in Callers, PinSyncs(c) PROVE TestedKept'
  BY <1>21 DEF PinSyncs, At, SyncFiles, Goes, TypeInv, CallersType, Call, ActType,
     FilesType, Captures, Reserved, Holds, Activating, TestedKept
<1>22. ASSUME NEW c \in Callers, MarkerSyncs(c) PROVE TestedKept'
  BY <1>22 DEF MarkerSyncs, At, SyncFiles, Returns, Idle, TypeInv, CallersType, Call,
     ActType, FilesType, Captures, Reserved, Holds, Activating, TestedKept
<1>23. ASSUME NEW c \in Callers, PinRefused(c) PROVE TestedKept'
  BY <1>23 DEF PinRefused, Fails, Returns, Idle, TypeInv, CallersType, Call, ActType,
     FilesType, Captures, Reserved, Holds, Activating, TestedKept
<1>24. ASSUME NEW c \in Callers, NEW phase \in {"advancing", "readingProfile"},
              VerifyPin(c, phase)
       PROVE  TestedKept'
  BY <1>24 DEF VerifyPin, At, Captured, Begins, verified_pin, TypeInv, CallersType, Call,
     ActType, FilesType, Captures, Reserved, Holds, Activating, TestedKept
<1>25. ASSUME NEW c \in Callers, AdvanceProfile(c) PROVE TestedKept'
  BY <1>25 DEF AdvanceProfile, At, Returns, Idle, nix_env_profile_set, TypeInv,
     CallersType, Call, ActType, FilesType, Captures, Reserved, Holds, Activating,
     TestedKept
<1>26. ASSUME NEW c \in Callers, ReadProfile(c) PROVE TestedKept'
  BY <1>26 DEF ReadProfile, At, Goes, TypeInv, CallersType, Call, ActType, FilesType,
     Captures, Reserved, Holds, Activating, TestedKept
<1>27. ASSUME NEW c \in Callers, ConfigureBoot(c) PROVE TestedKept'
  BY <1>27 DEF ConfigureBoot, At, Returns, Idle, switch_to_configuration_boot, TypeInv,
     CallersType, Call, ActType, FilesType, Captures, Reserved, Holds, Activating,
     TestedKept
<1>28. ASSUME NEW c \in Callers, PromotionRefused(c) PROVE TestedKept'
  BY <1>28 DEF PromotionRefused, Fails, Returns, Idle, TypeInv, CallersType, Call,
     ActType, FilesType, Captures, Reserved, Holds, Activating, TestedKept
<1>29. CASE OperatorEdits
  BY <1>29 DEF OperatorEdits, TypeInv, CallersType, Call, ActType, FilesType, Captures,
     Reserved, Holds, Activating, TestedKept
<1>30. CASE OperatorInstalls
  BY <1>30 DEF OperatorInstalls, TypeInv, CallersType, Call, ActType, FilesType, Captures,
     Reserved, Holds, Activating, TestedKept
<1>31. CASE Crash
  BY <1>31, CrashKeeps DEF Crash, Idle, TypeInv, CallersType, Call, ActType, FilesType,
     Captures, Reserved, Holds, Activating, TestedKept
<1> QED BY <1>1, <1>2, <1>3, <1>4, <1>5, <1>6, <1>7, <1>8, <1>9, <1>10, <1>11, <1>12, <1>13,
           <1>14, <1>15, <1>16, <1>17, <1>18, <1>19, <1>20, <1>21, <1>22, <1>23, <1>24,
           <1>25, <1>26, <1>27, <1>28, <1>29, <1>30, <1>31 DEF Next, ProposeStep,
           ActivateStep, PromoteStep

\* No step replaces an answered capture.
LEMMA CapturedStep == Inv /\ [Next]_vars => CapturedKept'
<1> SUFFICES ASSUME Inv, [Next]_vars PROVE CapturedKept'
  OBVIOUS
<1> USE DEF Inv, disk, history
<1>1. CASE UNCHANGED vars
  BY <1>1 DEF vars, TypeInv, CallersType, Call, FilesType, Captures, CapturedKept, capture,
     Syncing, Unlocked
<1>2. ASSUME NEW c \in Callers, NEW p \in Proposals, ProposeConfig(c, p) PROVE CapturedKept'
  BY <1>2, NoneAssumption DEF ProposeConfig, WithBase, At, nix_eval_candidate,
     nix_current_generation, TypeInv, CallersType, Call, FilesType, Captures, CapturedKept,
     capture, Syncing, Unlocked
<1>3. ASSUME NEW c \in Callers, ProbeEtc(c) PROVE CapturedKept'
  BY <1>3, NoneAssumption DEF ProbeEtc, At, WithBase, etc_revision, TypeInv, CallersType,
     Call, FilesType, Captures, CapturedKept, capture, Syncing, Unlocked
<1>4. ASSUME NEW c \in Callers, Propose(c) PROVE CapturedKept'
  BY <1>4, NoneAssumption DEF Propose, At, Goes, TypeInv, CallersType, Call, FilesType,
     Captures, CapturedKept, capture, Syncing, Unlocked
<1>5. ASSUME NEW c \in Callers, ProposeRefused(c) PROVE CapturedKept'
  BY <1>5, NoneAssumption DEF ProposeRefused, Fails, Returns, Idle, TypeInv, CallersType,
     Call, FilesType, Captures, CapturedKept, capture, Syncing, Unlocked
<1>6. ASSUME NEW c \in Callers, StoreActive(c) PROVE CapturedKept'
  BY <1>6, NoneAssumption DEF StoreActive, At, Goes, capture, TypeInv, CallersType, Call,
     FilesType, Captures, CapturedKept, capture, Syncing, Unlocked
<1>7. ASSUME NEW c \in Callers, StoreActiveSyncs(c) PROVE CapturedKept'
  BY <1>7, NoneAssumption DEF StoreActiveSyncs, At, SyncFiles, Returns, Idle, capture,
     TypeInv, CallersType, Call, FilesType, Captures, CapturedKept, capture, Syncing,
     Unlocked
<1>8. ASSUME NEW c \in Callers, StoreActiveFails(c) PROVE CapturedKept'
  BY <1>8, NoneAssumption DEF StoreActiveFails, At, SyncFiles, Returns, Idle, TypeInv,
     CallersType, Call, FilesType, Captures, CapturedKept, capture, Syncing, Unlocked
<1>9. ASSUME NEW c \in Callers, Reserve(c) PROVE CapturedKept'
  BY <1>9, NoneAssumption DEF Reserve, At, Captured, Begins, TypeInv, CallersType, Call,
     FilesType, Captures, CapturedKept, capture, Syncing, Unlocked
<1>10. ASSUME NEW c \in Callers, ReserveSyncs(c) PROVE CapturedKept'
  BY <1>10, NoneAssumption DEF ReserveSyncs, At, SyncAct, Goes, TypeInv, CallersType, Call,
     FilesType, Captures, CapturedKept, capture, Syncing, Unlocked
<1>11. ASSUME NEW c \in Callers, ReserveRefused(c) PROVE CapturedKept'
  BY <1>11, NoneAssumption DEF ReserveRefused, Fails, Returns, Idle, TypeInv, CallersType,
     Call, FilesType, Captures, CapturedKept, capture, Syncing, Unlocked
<1>12. ASSUME NEW c \in Callers, ReprobeGeneration(c) PROVE CapturedKept'
  BY <1>12, NoneAssumption DEF ReprobeGeneration, At, nix_current_generation, TypeInv,
     CallersType, Call, FilesType, Captures, CapturedKept, capture, Syncing, Unlocked
<1>13. ASSUME NEW c \in Callers, ReprobeEtc(c) PROVE CapturedKept'
  BY <1>13, NoneAssumption DEF ReprobeEtc, At, Goes, etc_revision, TypeInv, CallersType,
     Call, FilesType, Captures, CapturedKept, capture, Syncing, Unlocked
<1>14. ASSUME NEW c \in Callers, ReprobeFails(c) PROVE CapturedKept'
  BY <1>14, NoneAssumption DEF ReprobeFails, At, Goes, TypeInv, CallersType, Call,
     FilesType, Captures, CapturedKept, capture, Syncing, Unlocked
<1>15. ASSUME NEW c \in Callers, Release(c) PROVE CapturedKept'
  BY <1>15, NoneAssumption DEF Release, At, Returns, Idle, TypeInv, CallersType, Call,
     FilesType, Captures, CapturedKept, capture, Syncing, Unlocked
<1>16. ASSUME NEW c \in Callers, RunTest(c) PROVE CapturedKept'
  BY <1>16, NoneAssumption DEF RunTest, At, Goes, nixos_rebuild_test, TypeInv, CallersType,
     Call, FilesType, Captures, CapturedKept, capture, Syncing, Unlocked
<1>17. ASSUME NEW c \in Callers, Finalize(c) PROVE CapturedKept'
  BY <1>17, NoneAssumption DEF Finalize, At, Goes, TypeInv, CallersType, Call, FilesType,
     Captures, CapturedKept, capture, Syncing, Unlocked
<1>18. ASSUME NEW c \in Callers, FinalizeSyncs(c) PROVE CapturedKept'
  BY <1>18, NoneAssumption DEF FinalizeSyncs, At, SyncAct, Returns, Idle, TypeInv,
     CallersType, Call, FilesType, Captures, CapturedKept, capture, Syncing, Unlocked
<1>19. ASSUME NEW c \in Callers, FinalizeFails(c) PROVE CapturedKept'
  BY <1>19, NoneAssumption DEF FinalizeFails, Fails, Returns, Idle, TypeInv, CallersType,
     Call, FilesType, Captures, CapturedKept, capture, Syncing, Unlocked
<1>20. ASSUME NEW c \in Callers, StorePin(c) PROVE CapturedKept'
  BY <1>20, NoneAssumption DEF StorePin, At, Captured, Begins, TypeInv, CallersType, Call,
     FilesType, Captures, CapturedKept, capture, Syncing, Unlocked
<1>21. ASSUME NEW c \in Callers, PinSyncs(c) PROVE CapturedKept'
  BY <1>21, NoneAssumption DEF PinSyncs, At, SyncFiles, Goes, TypeInv, CallersType, Call,
     FilesType, Captures, CapturedKept, capture, Syncing, Unlocked
<1>22. ASSUME NEW c \in Callers, MarkerSyncs(c) PROVE CapturedKept'
  BY <1>22, NoneAssumption DEF MarkerSyncs, At, SyncFiles, Returns, Idle, TypeInv,
     CallersType, Call, FilesType, Captures, CapturedKept, capture, Syncing, Unlocked
<1>23. ASSUME NEW c \in Callers, PinRefused(c) PROVE CapturedKept'
  BY <1>23, NoneAssumption DEF PinRefused, Fails, Returns, Idle, TypeInv, CallersType, Call,
     FilesType, Captures, CapturedKept, capture, Syncing, Unlocked
<1>24. ASSUME NEW c \in Callers, NEW phase \in {"advancing", "readingProfile"},
              VerifyPin(c, phase)
       PROVE  CapturedKept'
  BY <1>24, NoneAssumption DEF VerifyPin, At, Captured, Begins, verified_pin, TypeInv,
     CallersType, Call, FilesType, Captures, CapturedKept, capture, Syncing, Unlocked
<1>25. ASSUME NEW c \in Callers, AdvanceProfile(c) PROVE CapturedKept'
  BY <1>25, NoneAssumption DEF AdvanceProfile, At, Returns, Idle, nix_env_profile_set,
     TypeInv, CallersType, Call, FilesType, Captures, CapturedKept, capture, Syncing,
     Unlocked
<1>26. ASSUME NEW c \in Callers, ReadProfile(c) PROVE CapturedKept'
  BY <1>26, NoneAssumption DEF ReadProfile, At, Goes, TypeInv, CallersType, Call,
     FilesType, Captures, CapturedKept, capture, Syncing, Unlocked
<1>27. ASSUME NEW c \in Callers, ConfigureBoot(c) PROVE CapturedKept'
  BY <1>27, NoneAssumption DEF ConfigureBoot, At, Returns, Idle,
     switch_to_configuration_boot, TypeInv, CallersType, Call, FilesType, Captures,
     CapturedKept, capture, Syncing, Unlocked
<1>28. ASSUME NEW c \in Callers, PromotionRefused(c) PROVE CapturedKept'
  BY <1>28, NoneAssumption DEF PromotionRefused, Fails, Returns, Idle, TypeInv,
     CallersType, Call, FilesType, Captures, CapturedKept, capture, Syncing, Unlocked
<1>29. CASE OperatorEdits
  BY <1>29, NoneAssumption DEF OperatorEdits, TypeInv, CallersType, Call, FilesType,
     Captures, CapturedKept, capture, Syncing, Unlocked
<1>30. CASE OperatorInstalls
  BY <1>30, NoneAssumption DEF OperatorInstalls, TypeInv, CallersType, Call, FilesType,
     Captures, CapturedKept, capture, Syncing, Unlocked
<1>31. CASE Crash
  BY <1>31, CrashKeeps, NoneAssumption DEF Crash, Idle, TypeInv, CallersType, Call,
     FilesType, Captures, CapturedKept, capture, Syncing, Unlocked
<1> QED BY <1>1, <1>2, <1>3, <1>4, <1>5, <1>6, <1>7, <1>8, <1>9, <1>10, <1>11, <1>12, <1>13,
           <1>14, <1>15, <1>16, <1>17, <1>18, <1>19, <1>20, <1>21, <1>22, <1>23, <1>24,
           <1>25, <1>26, <1>27, <1>28, <1>29, <1>30, <1>31 DEF Next, ProposeStep,
           ActivateStep, PromoteStep

\* No step promotes what is not pinned for good.
LEMMA PinStep == Inv /\ [Next]_vars => PinKept'
<1> SUFFICES ASSUME Inv, [Next]_vars PROVE PinKept'
  OBVIOUS
<1> USE DEF Inv, disk, history
<1>1. CASE UNCHANGED vars
  BY <1>1 DEF vars, TypeInv, CallersType, Call, FilesType, Captures,
     PinKept, Settled
<1>2. ASSUME NEW c \in Callers, NEW p \in Proposals, ProposeConfig(c, p) PROVE PinKept'
  BY <1>2, NoneAssumption DEF ProposeConfig, WithBase, At, nix_eval_candidate,
     nix_current_generation, TypeInv, CallersType, Call, FilesType, Captures,
     PinKept, Settled
<1>3. ASSUME NEW c \in Callers, ProbeEtc(c) PROVE PinKept'
  BY <1>3, NoneAssumption DEF ProbeEtc, At, WithBase, etc_revision, TypeInv, CallersType,
     Call, FilesType, Captures, PinKept, Settled
<1>4. ASSUME NEW c \in Callers, Propose(c) PROVE PinKept'
  BY <1>4, NoneAssumption DEF Propose, At, Goes, TypeInv, CallersType, Call, FilesType,
     Captures, PinKept, Settled
<1>5. ASSUME NEW c \in Callers, ProposeRefused(c) PROVE PinKept'
  BY <1>5, NoneAssumption DEF ProposeRefused, Fails, Returns, Idle, TypeInv, CallersType,
     Call, FilesType, Captures, PinKept, Settled
<1>6. ASSUME NEW c \in Callers, StoreActive(c) PROVE PinKept'
  BY <1>6, NoneAssumption DEF StoreActive, At, Goes, capture, TypeInv, CallersType, Call,
     FilesType, Captures, PinKept, Settled
<1>7. ASSUME NEW c \in Callers, StoreActiveSyncs(c) PROVE PinKept'
  BY <1>7, NoneAssumption DEF StoreActiveSyncs, At, SyncFiles, Returns, Idle, capture,
     TypeInv, CallersType, Call, FilesType, Captures, PinKept,
     Settled
<1>8. ASSUME NEW c \in Callers, StoreActiveFails(c) PROVE PinKept'
  BY <1>8, NoneAssumption DEF StoreActiveFails, At, SyncFiles, Returns, Idle, TypeInv,
     CallersType, Call, FilesType, Captures, PinKept, Settled
<1>9. ASSUME NEW c \in Callers, Reserve(c) PROVE PinKept'
  BY <1>9, NoneAssumption DEF Reserve, At, Captured, Begins, TypeInv, CallersType, Call,
     FilesType, Captures, PinKept, Settled
<1>10. ASSUME NEW c \in Callers, ReserveSyncs(c) PROVE PinKept'
  BY <1>10, NoneAssumption DEF ReserveSyncs, At, SyncAct, Goes, TypeInv, CallersType,
     Call, FilesType, Captures, PinKept, Settled
<1>11. ASSUME NEW c \in Callers, ReserveRefused(c) PROVE PinKept'
  BY <1>11, NoneAssumption DEF ReserveRefused, Fails, Returns, Idle, TypeInv,
     CallersType, Call, FilesType, Captures, PinKept, Settled
<1>12. ASSUME NEW c \in Callers, ReprobeGeneration(c) PROVE PinKept'
  BY <1>12, NoneAssumption DEF ReprobeGeneration, At, nix_current_generation, TypeInv,
     CallersType, Call, FilesType, Captures, PinKept, Settled
<1>13. ASSUME NEW c \in Callers, ReprobeEtc(c) PROVE PinKept'
  BY <1>13, NoneAssumption DEF ReprobeEtc, At, Goes, etc_revision, TypeInv, CallersType,
     Call, FilesType, Captures, PinKept, Settled
<1>14. ASSUME NEW c \in Callers, ReprobeFails(c) PROVE PinKept'
  BY <1>14, NoneAssumption DEF ReprobeFails, At, Goes, TypeInv, CallersType, Call,
     FilesType, Captures, PinKept, Settled
<1>15. ASSUME NEW c \in Callers, Release(c) PROVE PinKept'
  BY <1>15, NoneAssumption DEF Release, At, Returns, Idle, TypeInv, CallersType, Call,
     FilesType, Captures, PinKept, Settled
<1>16. ASSUME NEW c \in Callers, RunTest(c) PROVE PinKept'
  BY <1>16, NoneAssumption DEF RunTest, At, Goes, nixos_rebuild_test, TypeInv,
     CallersType, Call, FilesType, Captures, PinKept, Settled
<1>17. ASSUME NEW c \in Callers, Finalize(c) PROVE PinKept'
  BY <1>17, NoneAssumption DEF Finalize, At, Goes, TypeInv, CallersType, Call, FilesType,
     Captures, PinKept, Settled
<1>18. ASSUME NEW c \in Callers, FinalizeSyncs(c) PROVE PinKept'
  BY <1>18, NoneAssumption DEF FinalizeSyncs, At, SyncAct, Returns, Idle, TypeInv,
     CallersType, Call, FilesType, Captures, PinKept, Settled
<1>19. ASSUME NEW c \in Callers, FinalizeFails(c) PROVE PinKept'
  BY <1>19, NoneAssumption DEF FinalizeFails, Fails, Returns, Idle, TypeInv, CallersType,
     Call, FilesType, Captures, PinKept, Settled
<1>20. ASSUME NEW c \in Callers, StorePin(c) PROVE PinKept'
  BY <1>20, NoneAssumption DEF StorePin, At, Captured, Begins, TypeInv, CallersType,
     Call, FilesType, Captures, PinKept, Settled
<1>21. ASSUME NEW c \in Callers, PinSyncs(c) PROVE PinKept'
  BY <1>21, NoneAssumption DEF PinSyncs, At, SyncFiles, Goes, TypeInv, CallersType, Call,
     FilesType, Captures, PinKept, Settled
<1>22. ASSUME NEW c \in Callers, MarkerSyncs(c) PROVE PinKept'
  BY <1>22, NoneAssumption DEF MarkerSyncs, At, SyncFiles, Returns, Idle, TypeInv,
     CallersType, Call, FilesType, Captures, PinKept, Settled
<1>23. ASSUME NEW c \in Callers, PinRefused(c) PROVE PinKept'
  BY <1>23, NoneAssumption DEF PinRefused, Fails, Returns, Idle, TypeInv, CallersType,
     Call, FilesType, Captures, PinKept, Settled
<1>24. ASSUME NEW c \in Callers, NEW phase \in {"advancing", "readingProfile"},
              VerifyPin(c, phase)
       PROVE  PinKept'
  BY <1>24, NoneAssumption DEF VerifyPin, At, Captured, Begins, verified_pin, TypeInv,
     CallersType, Call, FilesType, Captures, PinKept, Settled
<1>25. ASSUME NEW c \in Callers, AdvanceProfile(c) PROVE PinKept'
  BY <1>25, NoneAssumption DEF AdvanceProfile, At, Returns, Idle, nix_env_profile_set,
     TypeInv, CallersType, Call, FilesType, Captures, PinKept, Settled
<1>26. ASSUME NEW c \in Callers, ReadProfile(c) PROVE PinKept'
  BY <1>26, NoneAssumption DEF ReadProfile, At, Goes, TypeInv, CallersType, Call,
     FilesType, Captures, PinKept, Settled
<1>27. ASSUME NEW c \in Callers, ConfigureBoot(c) PROVE PinKept'
  BY <1>27, NoneAssumption DEF ConfigureBoot, At, Returns, Idle,
     switch_to_configuration_boot, TypeInv, CallersType, Call, FilesType, Captures,
     PinKept, Settled
<1>28. ASSUME NEW c \in Callers, PromotionRefused(c) PROVE PinKept'
  BY <1>28, NoneAssumption DEF PromotionRefused, Fails, Returns, Idle, TypeInv,
     CallersType, Call, FilesType, Captures, PinKept, Settled
<1>29. CASE OperatorEdits
  BY <1>29, NoneAssumption DEF OperatorEdits, TypeInv, CallersType, Call, FilesType,
     Captures, PinKept, Settled
<1>30. CASE OperatorInstalls
  BY <1>30, NoneAssumption DEF OperatorInstalls, TypeInv, CallersType, Call, FilesType,
     Captures, PinKept, Settled
<1>31. CASE Crash
  BY <1>31, CrashKeeps, NoneAssumption DEF Crash, Idle, TypeInv, CallersType, Call,
     FilesType, Captures, PinKept, Settled
<1> QED BY <1>1, <1>2, <1>3, <1>4, <1>5, <1>6, <1>7, <1>8, <1>9, <1>10, <1>11, <1>12, <1>13,
           <1>14, <1>15, <1>16, <1>17, <1>18, <1>19, <1>20, <1>21, <1>22, <1>23, <1>24,
           <1>25, <1>26, <1>27, <1>28, <1>29, <1>30, <1>31 DEF Next, ProposeStep,
           ActivateStep, PromoteStep

-----------------------------------------------------------------------------
\* The inductive invariant holds in every reachable state.
THEOREM Invariance == Spec => []Inv
<1>1. Inv /\ [Next]_vars => Inv'
  BY TypeStep, ReservedStep, TestedStep, CapturedStep, PinStep DEF Inv
<1> QED BY InitInv, <1>1, PTL DEF Spec

\* nixos-rebuild test is started at most once for a candidate, for any number
\* of threads calling activate_once and any crashes between its steps.
THEOREM NeverTestedTwice == Spec => []TestedAtMostOnce
<1>1. Inv => TestedAtMostOnce
  BY DEF Inv, TypeInv, TestedKept, TestedAtMostOnce
<1> QED BY <1>1, Invariance, PTL

\* A capture whose proposal was answered stays the active one: store_active
\* answers after its sync and refuses a second capture.
THEOREM CapturesAreFinal == Spec => []CaptureIsFinal
<1>1. Inv => CaptureIsFinal
  BY DEF Inv, CapturedKept, CaptureIsFinal
<1> QED BY <1>1, Invariance, PTL

\* What the adapter made the profile or the boot default is pinned by a
\* record that no power loss takes away, whichever threads call the
\* primitives, whatever syncs fail and whatever the operator installs.
THEOREM PromotedWasPinned == Spec => []PromotedStaysPinned
<1>1. Inv => PromotedStaysPinned
  BY DEF Inv, PinKept, Settled, PromotedStaysPinned
<1> QED BY <1>1, Invariance, PTL
=============================================================================
