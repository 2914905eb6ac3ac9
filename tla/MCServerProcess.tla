--------------------------- MODULE MCServerProcess ---------------------------
(* Values for the constants of ServerProcess that a .cfg cannot write down. *)
EXTENDS ServerProcess, TLC

EitherWork == {{"config"}, {"api"}}

OnlyConfig == {{"config"}}

Entries == [key: Keys, value: Periods] \cup [key: {"other"}, value: {0}]

UpToTwo == UNION {[1 .. n -> Entries] : n \in 1 .. 2}

NoFile == [here |-> FALSE, periods |-> <<>>, initUser |-> FALSE]

SomeFiles ==
    {NoFile} \cup
    {[here |-> TRUE, periods |-> p, initUser |-> i] :
        p \in {<<>>, [k \in {"fileRetentionPeriod"} |-> 0]}, i \in BOOLEAN}

UserFile == {[here |-> TRUE, periods |-> <<>>, initUser |-> TRUE]}

NoFiles == {NoFile}

Good == [1 .. 1 -> [key: Keys, value: Periods]]

ServerSymmetry == Permutations(Saves) \cup Permutations(Calls)
=============================================================================
