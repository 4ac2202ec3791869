----------------------------- MODULE MCImapUser -----------------------------
(***************************************************************************)
(* An instance of ImapUser for TLC.                                        *)
(***************************************************************************)
EXTENDS ImapUser, TLC

\* Sessions are interchangeable.
Symmetry == Permutations(Sessions)
=============================================================================
