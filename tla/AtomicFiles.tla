---------------------------- MODULE AtomicFiles -----------------------------
(***************************************************************************)
(* What an upload promises the readers of a share: a file is either not    *)
(* listed or listed with all of its bytes, and once listed it stays so     *)
(* until someone removes it.  ChunkUpload implements this with appends to  *)
(* a temporary file, a rename and a database row.                          *)
(***************************************************************************)
CONSTANT Ids

VARIABLE file    \* file[i]: "absent", "whole" or, which must never be, "broken"

Init == file = [i \in Ids |-> "absent"]

Publish(i) ==
    /\ file[i] = "absent"
    /\ file' = [file EXCEPT ![i] = "whole"]

Next == \E i \in Ids : Publish(i)

Spec == Init /\ [][Next]_file
=============================================================================
