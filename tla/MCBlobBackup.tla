---------------------------- MODULE MCBlobBackup ----------------------------
(***************************************************************************)
(* Instances of BlobBackup for TLC.                                        *)
(***************************************************************************)
EXTENDS BlobBackup
=============================================================================
