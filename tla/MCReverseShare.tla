--------------------------- MODULE MCReverseShare ---------------------------
(* Values for the constants of ReverseShare that a .cfg cannot write down. *)
EXTENDS ReverseShare, TLC

UseOrExpire ==
    {{"complete", "revert", "extend"}, {"complete", "tick"}, {"complete", "anyone"},
     {"delete", "tick"}, {"remove", "tick"}}

Open == {{"complete", "anyone"}}

Everything == {{"complete", "revert", "extend", "delete", "remove", "tick"}}

ReverseSymmetry ==
    Permutations(Shares) \cup Permutations(Clients) \cup Permutations(Requests)
=============================================================================
