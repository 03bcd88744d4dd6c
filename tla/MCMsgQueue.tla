---------------------------- MODULE MCMsgQueue ----------------------------
(***************************************************************************)
(* Small instances of MsgQueue for TLC.  m1 is a text, m2 an MMS with a    *)
(* text and a picture.  Either all accounts share the DID d1 and messages  *)
(* go to d1, or accounts 1 and 2 have a DID each and messages go to both.  *)
(***************************************************************************)
EXTENDS MsgQueue

CONSTANTS m1, m2, d1, d2, n1

mcCallerId == [a \in Accounts |-> d1]
mcCallerId2 == [a \in Accounts |-> IF a = 1 THEN d1 ELSE d2]
mcFrom == [m \in Msgs |-> n1]
mcTo == [m \in Msgs |-> <<d1>>]
mcTo2 == [m \in Msgs |-> <<d1, d2>>]
mcParts == [m \in Msgs |-> IF m = m1 THEN 1 ELSE 2]
=============================================================================
