----------------------------- MODULE MCMailbox -----------------------------
(***************************************************************************)
(* Instances of Mailbox for TLC.                                           *)
(***************************************************************************)
EXTENDS Mailbox

\* What clients put into STORE and APPEND.
OneFlag == {{"Deleted"}}
=============================================================================
