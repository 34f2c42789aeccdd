----------------------------- MODULE MCTopology -----------------------------
(* A small instance of Topology for TLC. *)
EXTENDS Topology, TLC

CONSTANTS d0, d1, d2

MCDevices == {d0, d1, d2}
MCStore   == <<"var", "watchdog">>
MCDomains == << <<>>, <<"var", "state">> >>
MCPoints  == {<<"var">>, <<"var", "state">>, MCStore}
MCRoots   == {MCStore, <<"var">>, <<"var", "..", "watchdog">>}
MCLayout  == <<[path |-> <<"epoch">>, kind |-> "dir", mode |-> "0700"],
               [path |-> <<"epoch", "high-water.json">>, kind |-> "file", mode |-> "0600"]>>

Dir  == Present("dir", TRUE, "0700", 2)
File == Present("file", TRUE, "0600", 1)

\* A device that can stand at any of the points: as the root of the host, as
\* /var, or as the store itself.
Everywhere(epoch, highWater) ==
    [path \in {<<>>, <<"var">>, <<"var", "watchdog">>, <<"var", "state">>, <<"watchdog">>,
               <<"state">>} |-> Dir]
      @@ (<<"epoch">> :> epoch) @@ (<<"epoch", "high-water.json">> :> highWater)

Good == Everywhere(Dir, File)

\* One device has a link in its layout.
MCTrees ==
    {[d \in MCDevices |-> IF d = bad THEN Everywhere(Present("symlink", TRUE, "0777", 1), File)
                          ELSE Good] : bad \in {d1, d2}}

\* A clock that is before 1970 shows the same stamp every time.
MCStamps == {0}

MCSymmetry == Permutations({d1, d2})
=============================================================================
