----------------------------- MODULE MCS3Upload -----------------------------
(* Values for the constants of S3Upload that a .cfg cannot write down. *)
EXTENDS S3Upload

SixUploads == 1 .. 6
=============================================================================
