----------------------------- MODULE MCDelivery -----------------------------
(***************************************************************************)
(* Small instances of Delivery for TLC: messages 1, 2, ... for one phone.  *)
(***************************************************************************)
EXTENDS Delivery

mcFor == [m \in Msgs |-> CHOOSE u \in Users : TRUE]
=============================================================================
