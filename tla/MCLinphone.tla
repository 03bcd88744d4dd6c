----------------------------- MODULE MCLinphone -----------------------------
(***************************************************************************)
(* Small instances of Linphone for TLC: one user name and two requests at  *)
(* a time, or two user names and one.                                      *)
(***************************************************************************)
EXTENDS Linphone
=============================================================================
