--------------------------- MODULE MCShareSystem ----------------------------
(* Values for the constants of ShareSystem that a .cfg cannot write down. *)
EXTENDS ShareSystem, TLC

CONSTANTS s1, s2, f1, f2, f3, r1, r2, r3, j1, j2

TheLifetimes ==
    {[absolute |-> TRUE, at |-> Never], [absolute |-> FALSE, at |-> 1]}

ShortLifetimes == {[absolute |-> FALSE, at |-> 1]}

OwnNames == [f \in Files |-> f]

SameName == [f \in Files |-> f1]

BothJobs == j1 :> "deleteExpiredShares" @@ j2 :> "deleteUnfinishedShares"

LifetimeOps == {"create", "update", "expire", "delete", "crash"}

ExtendOps == {"create", "update"}

EditOps == {"create", "upload", "complete", "revert"}

ContentOps == {"create", "upload", "rmfile", "complete", "revert", "delete"}

CrashOps == {"create", "upload", "delete", "crash"}

EventualOps == {"create", "upload", "complete", "delete", "crash"}

ScanOps == {"create", "upload", "complete", "delete"}

\* Requests are alike, and so are files when none is infected.
RequestSymmetry == Permutations(Requests)

RequestFileSymmetry == Permutations(Requests) \cup Permutations(Files)
=============================================================================
