--------------------------- MODULE TopologyProofs ---------------------------
(***************************************************************************)
(* Proofs about Topology for any devices, contents, mount points, domains  *)
(* and bounds.                                                             *)
(***************************************************************************)
EXTENDS Topology, TLAPS

\* The n-th protected domain is on another file system than the store.
Separate(n) == dev(WATCHDOG_MOUNT_ROOT) # dev(PROTECTED_DOMAIN_PATHS[n])

AllSeparate == \A n \in 1..Len(PROTECTED_DOMAIN_PATHS) : Separate(n)

\* The domain the verification looks at next, and the path it is about once
\* the table has an entry for it.
ProgressInv ==
    /\ races \in Nat
    /\ probe.at \in {"table", "store"} => probe.domain = 1
    /\ probe.at = "store" => probe.root = WATCHDOG_MOUNT_ROOT
    /\ probe.at = "domains" => probe.domain \in Nat \ {0}

\* As long as no mount changes, the device seen is that of the store and the
\* domains passed so far are separate from it.
DomainsInv ==
    races = 0 /\ probe.at = "domains" =>
        /\ probe.dev = dev(WATCHDOG_MOUNT_ROOT)
        /\ \A n \in 1..probe.domain - 1 : Separate(n)

\* Behind the domains there is only the probe, then the verdict.
PassedInv ==
    races = 0 /\ (probe.at \in {"create", "rename", "cleanup"} \/ verdict = "Ok") => AllSeparate

\* The verification under way is a record with the fields of AtRest.
Fields   == {"at", "root", "table", "id", "dev", "domain", "stamp"}
ProbeInv == DOMAIN probe = Fields

Inv == ProbeInv /\ ProgressInv /\ DomainsInv /\ PassedInv

-----------------------------------------------------------------------------
\* Where a path leads depends on the mounts alone.
LEMMA DevKept ==
  ASSUME UNCHANGED mounts
  PROVE  /\ \A path : dev(path)' = dev(path)
         /\ \A n : Separate(n)' <=> Separate(n)
  BY DEF dev, MountAt, Separate

\* The idle verification.
LEMMA RestFacts ==
    AtRest.at = "idle" /\ AtRest.domain = 1 /\ DOMAIN AtRest = Fields
  BY DEF AtRest, Fields

\* The invariant holds before the first verification.
LEMMA InitInv == Init => Inv
  BY RestFacts, NoneAssumption
     DEF Init, Inv, ProbeInv, ProgressInv, DomainsInv, PassedInv

\* A change of the mounts is counted.
LEMMA RacesInv ==
  ASSUME Inv, Races, UNCHANGED <<probe, verdict>>
  PROVE  Inv'
<1>1. races' \in Nat /\ races' # 0
  BY DEF Races, Inv, ProgressInv
<1> QED BY <1>1 DEF Inv, ProbeInv, ProgressInv, DomainsInv, PassedInv

\* A step that ends the verification with an error, or with "Ok" when all
\* domains are separate.
LEMMA EndsInv ==
  ASSUME Inv, UNCHANGED <<mounts, races>>, NEW e, Ends(e), e = "Ok" => AllSeparate
  PROVE  Inv'
<1>1. probe' = AtRest /\ verdict' = e
  BY DEF Ends
<1>2. AllSeparate' <=> AllSeparate
  BY DevKept DEF AllSeparate
<1> QED BY <1>1, <1>2, RestFacts DEF Inv, ProbeInv, ProgressInv, DomainsInv, PassedInv

-----------------------------------------------------------------------------
\* Every step keeps the invariant.
LEMMA StepInv == Inv /\ [Next]_vars => Inv'
<1> SUFFICES ASSUME Inv, [Next]_vars PROVE Inv'
  OBVIOUS
<1>1. CASE UNCHANGED vars
  <2>1. UNCHANGED <<mounts, probe, verdict, races>>
    BY <1>1 DEF vars, world
  <2> QED BY <2>1, DevKept
          DEF Inv, ProbeInv, ProgressInv, DomainsInv, PassedInv, AllSeparate
<1>2. ASSUME NEW point \in Points, NEW device \in Devices, Mount(point, device) PROVE Inv'
  BY <1>2, RacesInv DEF Mount
<1>3. ASSUME NEW i \in DOMAIN mounts, Unmount(i) PROVE Inv'
  BY <1>3, RacesInv DEF Unmount
<1>4. ASSUME NEW root \in StoreRoots, VerifyPath(root) PROVE Inv'
  <2>1. races' = 0 /\ verdict' # "Ok"
    BY <1>4, NoneAssumption DEF VerifyPath
  <2>2. \/ probe' = AtRest
        \/ probe' = [AtRest EXCEPT !.at = "table", !.root = root]
    BY <1>4 DEF VerifyPath
  <2>3. probe'.at \in {"idle", "table"} /\ probe'.domain = 1 /\ ProbeInv'
    <3>1. CASE probe' = AtRest
      BY <3>1, RestFacts DEF ProbeInv
    <3>2. CASE probe' = [AtRest EXCEPT !.at = "table", !.root = root]
      BY <3>2 DEF AtRest, ProbeInv, Fields
    <3> QED BY <2>2, <3>1, <3>2
  <2> QED BY <2>1, <2>3 DEF Inv, ProgressInv, DomainsInv, PassedInv
<1>5. CASE ReadTable
  <2> DEFINE exact == find_exact_mount_unique(read_mount_table, probe.root)
             error == CASE exact = "OrdinaryDirectoryFallback" ->
                              IF symlink_metadata(probe.root) = None THEN "UnavailableStore"
                              ELSE IF symlink_metadata(probe.root).kind = "dir" THEN exact
                              ELSE "NonRegularComponent"
                        [] exact = "Ok" /\ probe.root # WATCHDOG_MOUNT_ROOT -> "MissingMount"
                        [] OTHER -> exact
             table == read_mount_table
             id    == IF error = "Ok" THEN (CHOOSE m \in table : m.point = probe.root).id
                      ELSE 0
             new   == [probe EXCEPT !.at = "store", !.table = table, !.id = id]
  <2>1. probe.at = "table" /\ Continue(error, new) /\ UNCHANGED <<mounts, races>>
    BY <1>5 DEF ReadTable, At, world
  <2>2. error = "Ok" => probe.root = WATCHDOG_MOUNT_ROOT
    <3> HIDE DEF exact
    <3>1. CASE exact = "OrdinaryDirectoryFallback"
      BY <3>1
    <3>2. CASE exact = "Ok"
      BY <3>2
    <3>3. CASE exact # "OrdinaryDirectoryFallback" /\ exact # "Ok"
      BY <3>3
    <3> QED BY <3>1, <3>2, <3>3
  <2>3. /\ new.at = "store" /\ new.root = probe.root /\ new.domain = probe.domain
        /\ DOMAIN new = Fields
    <3> HIDE DEF table, id, exact, error
    <3> QED BY DEF Inv, ProbeInv, Fields
  <2> HIDE DEF error, new
  <2>4. CASE error = "Ok"
    <3>1. probe' = new /\ verdict' = verdict
      BY <2>1, <2>4 DEF Continue, Goes
    <3>2. AllSeparate' <=> AllSeparate
      BY <2>1, DevKept DEF AllSeparate
    <3> QED BY <2>1, <2>2, <2>3, <2>4, <3>1, <3>2
            DEF Inv, ProbeInv, ProgressInv, DomainsInv, PassedInv
  <2>5. CASE error # "Ok"
    BY <2>1, <2>5, EndsInv DEF Continue
  <2> QED BY <2>4, <2>5
<1>6. CASE StatStore
  <2> DEFINE new == [probe EXCEPT !.at = "domains", !.dev = dev(probe.root)]
  <2>1. PICK error : Continue(error, new)
    BY <1>6 DEF StatStore
  <2>2. probe.at = "store" /\ UNCHANGED <<mounts, races>>
    BY <1>6 DEF StatStore, At, world
  <2>3. CASE error = "Ok"
    <3>1. probe' = new /\ verdict' = verdict
      BY <2>1, <2>3 DEF Continue, Goes
    <3>2. probe'.at = "domains" /\ probe'.domain = 1
            /\ probe'.dev = dev(WATCHDOG_MOUNT_ROOT) /\ ProbeInv'
      BY <2>2, <3>1 DEF Inv, ProbeInv, ProgressInv, Fields
    <3>3. /\ AllSeparate' <=> AllSeparate
          /\ dev(WATCHDOG_MOUNT_ROOT)' = dev(WATCHDOG_MOUNT_ROOT)
      BY <2>2, DevKept DEF AllSeparate
    <3> QED BY <2>2, <3>1, <3>2, <3>3 DEF Inv, ProgressInv, DomainsInv, PassedInv
  <2>4. CASE error # "Ok"
    BY <2>1, <2>2, <2>4, EndsInv DEF Continue
  <2> QED BY <2>3, <2>4
<1>7. CASE CheckDomain
  <2> DEFINE n     == probe.domain
             error == protected_domain(probe.table, PROTECTED_DOMAIN_PATHS[n])
  <2>1. /\ probe.at = "domains" /\ UNCHANGED <<mounts, races>>
        /\ Continue(error, [probe EXCEPT !.domain = n + 1])
    BY <1>7 DEF CheckDomain, At, world
  <2>2. error = "Ok" => probe.dev # dev(PROTECTED_DOMAIN_PATHS[n])
    BY DEF protected_domain, evaluate_mount_device_separation
  <2> HIDE DEF error
  <2>3. CASE error = "Ok"
    <3>1. probe' = [probe EXCEPT !.domain = n + 1] /\ verdict' = verdict
      BY <2>1, <2>3 DEF Continue, Goes
    <3>2. /\ probe'.at = "domains" /\ probe'.domain = n + 1 /\ n \in Nat \ {0}
          /\ probe'.dev = probe.dev /\ ProbeInv'
      BY <2>1, <3>1 DEF Inv, ProbeInv, ProgressInv, Fields
    <3>3. races = 0 => probe.dev = dev(WATCHDOG_MOUNT_ROOT) /\ \A m \in 1..n : Separate(m)
      <4>1. races = 0 => /\ probe.dev = dev(WATCHDOG_MOUNT_ROOT)
                         /\ \A m \in 1..n - 1 : Separate(m)
        BY <2>1 DEF Inv, DomainsInv
      <4>2. \A m \in 1..n : m = n \/ m \in 1..n - 1
        BY <3>2
      <4> QED BY <2>2, <2>3, <4>1, <4>2 DEF Separate
    <3>4. races' = 0 => probe'.dev = dev(WATCHDOG_MOUNT_ROOT)'
                          /\ \A m \in 1..n : Separate(m)'
      BY <2>1, <3>2, <3>3, DevKept
    <3>5. probe'.domain - 1 = n
      BY <3>2
    <3>6. AllSeparate' <=> AllSeparate
      BY <2>1, DevKept DEF AllSeparate
    <3> QED BY <2>1, <3>1, <3>2, <3>4, <3>5, <3>6
            DEF Inv, ProgressInv, DomainsInv, PassedInv
  <2>4. CASE error # "Ok"
    BY <2>1, <2>4, EndsInv DEF Continue
  <2> QED BY <2>3, <2>4
<1>8. CASE InspectLayout
  <2> DEFINE new == [AtRest EXCEPT !.at = "create", !.root = probe.root]
  <2>1. /\ probe.at = "domains" /\ UNCHANGED <<mounts, races>>
        /\ probe.domain > Len(PROTECTED_DOMAIN_PATHS)
        /\ Continue(inspect_existing_layout(probe.root), new)
    BY <1>8 DEF InspectLayout, At, world
  <2>2. races = 0 => AllSeparate
    <3>1. \A n \in 1..Len(PROTECTED_DOMAIN_PATHS) : n \in 1..probe.domain - 1
      BY <2>1, DomainsAssumption DEF Inv, ProgressInv
    <3> QED BY <2>1, <3>1 DEF Inv, DomainsInv, AllSeparate
  <2>3. CASE probe' = new /\ verdict' = verdict
    <3>1. probe'.at = "create" /\ ProbeInv'
      BY <2>3 DEF AtRest, ProbeInv, Fields
    <3>2. AllSeparate' <=> AllSeparate
      BY <2>1, DevKept DEF AllSeparate
    <3> QED BY <2>1, <2>2, <2>3, <3>1, <3>2
            DEF Inv, ProgressInv, DomainsInv, PassedInv
  <2>4. ASSUME NEW error, error # "Ok", Ends(error) PROVE Inv'
    BY <2>1, <2>4, EndsInv
  <2> QED BY <2>1, <2>3, <2>4 DEF Continue, Goes
<1>9. CASE \/ \E stamp \in Stamps : CreateProbe(stamp)
           \/ RenameProbe \/ CleanUpProbe \/ Crash
  <2>1. UNCHANGED <<mounts, races>>
    BY <1>9 DEF CreateProbe, RenameProbe, CleanUpProbe, Crash, world
  <2>2. AllSeparate' <=> AllSeparate
    BY <2>1, DevKept DEF AllSeparate
  <2>3. CASE Ends("Unwritable")
    BY <2>1, <2>3, EndsInv
  <2>4. ASSUME verdict' = verdict, probe.at \in {"create", "rename"},
               probe'.at \in {"rename", "cleanup"}, DOMAIN probe' = Fields
        PROVE  Inv'
    BY <2>1, <2>2, <2>4 DEF Inv, ProbeInv, ProgressInv, DomainsInv, PassedInv
  <2>5. CASE \E stamp \in Stamps : CreateProbe(stamp)
    <3>1. PICK stamp \in Stamps : CreateProbe(stamp)
      BY <2>5
    <3>2. \/ Ends("Unwritable")
          \/ /\ verdict' = verdict /\ probe.at = "create"
             /\ probe' = [probe EXCEPT !.at = "rename", !.stamp = stamp]
      BY <3>1 DEF CreateProbe, Abandon, Goes, At
    <3> QED BY <2>3, <2>4, <3>2 DEF Inv, ProbeInv, Fields
  <2>6. CASE RenameProbe
    <3>1. \/ Ends("Unwritable")
          \/ /\ verdict' = verdict /\ probe.at = "rename"
             /\ probe' = [probe EXCEPT !.at = "cleanup"]
      BY <2>6 DEF RenameProbe, Abandon, Goes, At
    <3> QED BY <2>3, <2>4, <3>1 DEF Inv, ProbeInv, Fields
  <2>7. CASE CleanUpProbe
    <3>1. probe.at = "cleanup" /\ (Ends("Unwritable") \/ Ends("Ok"))
      BY <2>7 DEF CleanUpProbe, Abandon, At
    <3>2. races = 0 => AllSeparate
      BY <3>1 DEF Inv, PassedInv
    <3>3. CASE races = 0
      BY <2>1, <3>1, <3>2, <3>3, EndsInv
    <3>4. CASE races # 0
      <4>1. probe' = AtRest /\ races' # 0
        BY <2>1, <3>1, <3>4 DEF Ends
      <4> QED BY <2>1, <4>1, RestFacts
              DEF Inv, ProbeInv, ProgressInv, DomainsInv, PassedInv
    <3> QED BY <3>3, <3>4
  <2>8. CASE Crash
    <3>1. probe' = AtRest /\ verdict' = verdict
      BY <2>8 DEF Crash
    <3> QED BY <2>1, <2>2, <3>1, RestFacts
            DEF Inv, ProbeInv, ProgressInv, DomainsInv, PassedInv
  <2> QED BY <1>9, <2>5, <2>6, <2>7, <2>8
<1> QED BY <1>1, <1>2, <1>3, <1>4, <1>5, <1>6, <1>7, <1>8, <1>9 DEF Next, Verify

-----------------------------------------------------------------------------
\* AcceptedStoreIsSeparate: a store that verify_startup accepted is, until a
\* mount changes, on another file system than every protected domain, for any
\* number of devices, mounts and domains. (watchdogd/src/topology.rs)
THEOREM AcceptedStoreIsSeparate == Spec => []AcceptedIsSeparate
<1>1. Inv => AcceptedIsSeparate
  BY DomainsAssumption
     DEF Inv, PassedInv, AllSeparate, Separate, AcceptedIsSeparate, Accepted, Range
<1> QED BY InitInv, StepInv, <1>1, PTL DEF Spec

=============================================================================
