------------------------------ MODULE MCWizard ------------------------------
(***************************************************************************)
(* Small instances of Wizard for TLC.                                      *)
(***************************************************************************)
EXTENDS Wizard
=============================================================================
