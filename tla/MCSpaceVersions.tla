-------------------------- MODULE MCSpaceVersions --------------------------
(* Instances of SpaceVersions for TLC: two spaces, one named like          *)
(* "{the other}_v...", so that deleting the other catches its snapshots.   *)
EXTENDS SpaceVersions, TLC

CONSTANTS demo, demo_v2

MCSpaces == {demo, demo_v2}

MCGlobbed == (demo :> {demo, demo_v2}) @@ (demo_v2 :> {demo_v2})

Symmetry == Permutations(Contents)
=============================================================================
