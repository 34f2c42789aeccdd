------------------------------ MODULE Topology ------------------------------
(***************************************************************************)
(* The watchdog's startup check of its store (watchdogd/src/topology.rs):  *)
(* the store must be a mount of its own, on another device than the        *)
(* domains that a rollback may touch, well formed and writable.            *)
(*                                                                         *)
(* verify_startup reads the mount table once and then looks at paths one   *)
(* after the other, while an operator may mount and unmount.  The kernel   *)
(* is external: a path leads to the mount that was made last among those   *)
(* on a prefix of it, whatever older mounts the table still lists there.   *)
(* A path is the sequence of its components.                               *)
(***************************************************************************)
EXTENDS Integers, Sequences, SequencesExt, FiniteSetsExt

CONSTANTS
    Devices,      \* file systems, each with its st_dev
    RootDevice,
    Points,       \* directories an operator mounts on
    Trees,        \* possible contents: of a device, from path below its root
                  \* to what symlink_metadata shows
    StoreRoots,   \* values of config.store_root
    WATCHDOG_MOUNT_ROOT,
    PROTECTED_DOMAIN_PATHS,   \* in the order they are checked
    Layout,       \* below the store, in order: path, expected kind and mode
    STORE_DIR_MODE,
    Stamps,       \* nanoseconds the clock may show
    MaxMounts,    \* bound: mounts that exist at once
    MaxRaces,     \* bound: changes of the mounts during one verification
    MaxResidue,   \* bound: files of probes that exist at once
    None

ASSUME DevicesAssumption == RootDevice \in Devices /\ None \notin Devices
ASSUME DomainsAssumption == DOMAIN PROTECTED_DOMAIN_PATHS = 1..Len(PROTECTED_DOMAIN_PATHS)
ASSUME NoneAssumption    == None # "Ok"
ASSUME MountsAssumption  == MaxMounts \in Nat \ {0} /\ MaxRaces \in Nat /\ MaxResidue \in Nat

VARIABLES
    mounts,    \* the mounts, oldest first
    tree,      \* the contents of the devices
    residue,   \* probe files: device, stamp, whether renamed
    probe,     \* the verification under way
    verdict,   \* of the last one: "Ok", an error, None before and during
    races      \* history: changes of the mounts since the last one began

world == <<mounts, tree>>
vars  == <<world, residue, probe, verdict, races>>

\* What is absent has no entry.
Present(kind, owned, mode, links) ==
    [kind |-> kind, owned |-> owned, mode |-> mode, links |-> links]

AtRest == [at |-> "idle", root |-> <<>>, table |-> {}, id |-> 0, dev |-> None,
           domain |-> 1, stamp |-> 0]

Init ==
    /\ mounts = <<[id |-> 1, parent |-> 0, point |-> <<>>, dev |-> RootDevice]>>
    /\ tree \in Trees
    /\ residue = {}
    /\ probe = AtRest
    /\ verdict = None
    /\ races = 0

---------------------------------------------------------------------------
\* The kernel.

\* The mount a path leads to.
MountAt(path) ==
    mounts[Max({i \in DOMAIN mounts : IsPrefix(mounts[i].point, path)})]

\* symlink_metadata, None if there is nothing; dev is the st_dev it shows.
symlink_metadata(path) ==
    LET m     == MountAt(path)
        below == SubSeq(path, Len(m.point) + 1, Len(path))
    IN  IF below \in DOMAIN tree[m.dev] THEN tree[m.dev][below] ELSE None

dev(path) == MountAt(path).dev

At(phase) == probe.at = phase

\* Between verifications one change counts as any number.
Races ==
    /\ At("idle") \/ races < MaxRaces
    /\ races' = IF At("idle") THEN 1 ELSE races + 1

Mount(point, device) ==
    /\ Len(mounts) < MaxMounts
    /\ symlink_metadata(point) # None /\ symlink_metadata(point).kind = "dir"
    /\ mounts' = Append(mounts,
          [id |-> Min((1..MaxMounts) \ {m.id : m \in Range(mounts)}),
           parent |-> MountAt(point).id, point |-> point, dev |-> device])
    /\ Races
    /\ UNCHANGED <<tree, residue, probe, verdict>>

\* A mount with another one inside it is busy; one that is hidden cannot be
\* named.
Unmount(i) ==
    /\ mounts[i].point # <<>> /\ MountAt(mounts[i].point) = mounts[i]
    /\ \A m \in Range(mounts) : m.parent # mounts[i].id
    /\ mounts' = RemoveAt(mounts, i)
    /\ Races
    /\ UNCHANGED <<tree, residue, probe, verdict>>

---------------------------------------------------------------------------
\* The pieces of the verdict, as operators: "Ok" or the error.

\* The first verdict that is not "Ok".
FirstError(verdicts) ==
    LET bad == SelectSeq(verdicts, LAMBDA e : e # "Ok")
    IN  IF bad = <<>> THEN "Ok" ELSE Head(bad)

reject_lexical_traversal(path) ==
    IF ".." \in Range(path) THEN "UnavailableStore" ELSE "Ok"

reject_symlink_components(path) ==
    FirstError([n \in 1..Len(path) + 1 |->
        LET meta == symlink_metadata(SubSeq(path, 1, n - 1))
        IN  IF meta = None THEN "UnavailableStore"
            ELSE IF meta.kind = "symlink" THEN "SymlinkComponent"
            ELSE "Ok"])

\* evaluate_dir_ownership and evaluate_file_ownership.
evaluate_ownership(meta, kind, mode) ==
    IF meta.kind = "symlink" THEN "SymlinkComponent"
    ELSE IF meta.kind # kind THEN "NonRegularComponent"
    ELSE IF ~meta.owned \/ meta.mode # mode THEN "WrongOwnershipOrMode"
    ELSE IF kind = "file" /\ meta.links # 1 THEN "WrongLinkCount"
    ELSE "Ok"

\* What a line of mountinfo is parsed to, for every mount, hidden or not.
read_mount_table == {[id |-> m.id, point |-> m.point] : m \in Range(mounts)}

\* The entry of the table for exactly this path, if there is just one.
find_exact_mount_unique(table, path) ==
    LET matches == {m \in table : m.point = path}
    IN  IF matches = {} THEN "OrdinaryDirectoryFallback"
        ELSE IF Cardinality(matches) > 1 THEN "UnavailableStore" ELSE "Ok"

\* The entries with the longest mount point that contains the path.
containing_mounts(table, path) ==
    LET candidates == {m \in table : IsPrefix(m.point, path)}
    IN  {m \in candidates : \A n \in candidates : Len(n.point) <= Len(m.point)}

\* Mutant: distinct mounts are taken for distinct file systems.
evaluate_mount_separation(storeId, storeDev, domainId, domainDev) ==
    IF storeId = domainId THEN "SameDeviceAlias" ELSE "Ok"

evaluate_mount_device_separation(storeId, storeDev, domainId, domainDev) ==
    IF storeId = domainId \/ storeDev = domainDev THEN "SameDeviceAlias" ELSE "Ok"

protected_domain(table, domain) ==
    LET path    == reject_symlink_components(domain)
        longest == containing_mounts(table, domain)
    IN  IF path # "Ok" THEN path
        ELSE IF Cardinality(longest) # 1 THEN "UnavailableStore"
        ELSE evaluate_mount_device_separation(probe.id, probe.dev,
                 (CHOOSE m \in longest : TRUE).id, dev(domain))

\* Of the layout, what exists must be in order.
inspect_existing_layout(root) ==
    FirstError([i \in 1..Len(Layout) |->
        LET meta == symlink_metadata(root \o Layout[i].path)
        IN  IF meta = None THEN "Ok"
            ELSE evaluate_ownership(meta, Layout[i].kind, Layout[i].mode)])

---------------------------------------------------------------------------
\* verify_startup.

Goes(new)  == probe' = new /\ UNCHANGED verdict
Ends(e)    == probe' = AtRest /\ verdict' = e

\* The step has this error or goes on.
Continue(error, new) == IF error = "Ok" THEN Goes(new) ELSE Ends(error)

\* The path as configured, which is absolute: it must exist without links or
\* ".."; the answer of exists() is then the same.
VerifyPath(root) ==
    LET traversal == reject_lexical_traversal(root)
        error == IF traversal # "Ok" THEN traversal ELSE reject_symlink_components(root)
    IN  /\ At("idle")
        /\ probe' = IF error = "Ok" THEN [AtRest EXCEPT !.at = "table", !.root = root]
                    ELSE AtRest
        /\ verdict' = IF error = "Ok" THEN None ELSE error
        /\ races' = 0
        /\ UNCHANGED <<world, residue>>

\* The table is read; then the metadata tells why there is no exact entry.
ReadTable ==
    LET table == read_mount_table
        exact == find_exact_mount_unique(table, probe.root)
        meta  == symlink_metadata(probe.root)
        error == CASE exact = "OrdinaryDirectoryFallback" ->
                         IF meta = None THEN "UnavailableStore"
                         ELSE IF meta.kind = "dir" THEN exact ELSE "NonRegularComponent"
                   [] exact = "Ok" /\ probe.root # WATCHDOG_MOUNT_ROOT -> "MissingMount"
                   [] OTHER -> exact
    IN  /\ At("table")
        /\ Continue(error,
              [probe EXCEPT !.at = "store", !.table = table,
                            !.id = IF error = "Ok"
                                   THEN (CHOOSE m \in table : m.point = probe.root).id
                                   ELSE 0])
        /\ UNCHANGED <<world, residue, races>>

StatStore ==
    LET meta  == symlink_metadata(probe.root)
        error == IF meta = None THEN "UnavailableStore"
                 ELSE evaluate_ownership(meta, "dir", STORE_DIR_MODE)
    IN  /\ At("store")
        /\ Continue(error, [probe EXCEPT !.at = "domains", !.dev = dev(probe.root)])
        /\ UNCHANGED <<world, residue, races>>

CheckDomain ==
    /\ At("domains")
    /\ probe.domain <= Len(PROTECTED_DOMAIN_PATHS)
    /\ Continue(protected_domain(probe.table, PROTECTED_DOMAIN_PATHS[probe.domain]),
                [probe EXCEPT !.domain = @ + 1])
    /\ UNCHANGED <<world, residue, races>>

InspectLayout ==
    /\ At("domains")
    /\ probe.domain > Len(PROTECTED_DOMAIN_PATHS)
    /\ Continue(inspect_existing_layout(probe.root),
                [AtRest EXCEPT !.at = "create", !.root = probe.root])
    /\ UNCHANGED <<world, residue, races>>

---------------------------------------------------------------------------
\* prove_writable_same_directory_atomic.  The guard removes both names on
\* every error, also one that an earlier, killed probe left behind; that
\* removal may itself fail, and says nothing.

Temp(stamp)    == [dev |-> dev(probe.root), stamp |-> stamp, renamed |-> FALSE]
Renamed(stamp) == [Temp(stamp) EXCEPT !.renamed = TRUE]

Abandon(files, stamp) ==
    /\ Ends("Unwritable")
    /\ \E gone \in SUBSET {Temp(stamp), Renamed(stamp)} : residue' = files \ gone

\* create_new, write, sync; the name is taken from the clock.  An error may
\* come before or after the file is there.
CreateProbe(stamp) ==
    /\ At("create")
    /\ \/ /\ Temp(stamp) \notin residue
          /\ residue' = residue \cup {Temp(stamp)}
          /\ Goes([probe EXCEPT !.at = "rename", !.stamp = stamp])
       \/ Abandon(residue, stamp)
       \/ Temp(stamp) \notin residue /\ Abandon(residue \cup {Temp(stamp)}, stamp)
    /\ Cardinality(residue') <= MaxResidue
    /\ UNCHANGED <<world, races>>

\* rename replaces a file of the new name.
RenameProbe ==
    /\ At("rename")
    /\ \/ /\ Temp(probe.stamp) \in residue
          /\ residue' = (residue \ {Temp(probe.stamp)}) \cup {Renamed(probe.stamp)}
          /\ Goes([probe EXCEPT !.at = "cleanup"])
       \/ Abandon(residue, probe.stamp)
    /\ UNCHANGED <<world, races>>

\* Directory sync, readback, removal, and another sync.
CleanUpProbe ==
    /\ At("cleanup")
    /\ \/ /\ Renamed(probe.stamp) \in residue
          /\ residue' = residue \ {Renamed(probe.stamp)}
          /\ Ends("Ok")
       \/ Abandon(residue, probe.stamp)
    /\ UNCHANGED <<world, races>>

\* The process is killed; it may start again.
Crash ==
    /\ ~At("idle")
    /\ probe' = AtRest
    /\ UNCHANGED <<world, residue, verdict, races>>

---------------------------------------------------------------------------
Verify ==
    \/ \E root \in StoreRoots : VerifyPath(root)
    \/ ReadTable \/ StatStore \/ CheckDomain \/ InspectLayout
    \/ \E stamp \in Stamps : CreateProbe(stamp)
    \/ RenameProbe \/ CleanUpProbe

Next ==
    \/ \E point \in Points, device \in Devices : Mount(point, device)
    \/ \E i \in DOMAIN mounts : Unmount(i)
    \/ Verify \/ Crash

Spec == Init /\ [][Next]_vars

---------------------------------------------------------------------------
\* Properties.

Accepted == verdict = "Ok" /\ races = 0

\* AcceptedIsSeparate: a store that was accepted is, as long as no mount
\* changes, on another file system than every protected domain, however the
\* mounts there are were made before: bind mounts of one device, mounts on
\* top of each other and mounts that hide older ones which the table still
\* lists. (watchdogd/src/topology.rs verify_startup)
AcceptedIsSeparate ==
    Accepted =>
        \A d \in Range(PROTECTED_DOMAIN_PATHS) : dev(WATCHDOG_MOUNT_ROOT) # dev(d)

=============================================================================
