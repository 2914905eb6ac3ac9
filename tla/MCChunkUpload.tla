--------------------------- MODULE MCChunkUpload ----------------------------
(* Values for the constants of ChunkUpload that a .cfg cannot write down. *)
EXTENDS ChunkUpload, TLC

IdHandlerSymmetry == Permutations(Ids) \cup Permutations(Handlers)
=============================================================================
