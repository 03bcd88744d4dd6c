----------------------------- MODULE MCOutgoing -----------------------------
(***************************************************************************)
(* Small instances of Outgoing for TLC: accounts 1 and 2, which have the    *)
(* same extension in two locations, send a text to the outside each, and 2  *)
(* sends one to 1.                                                         *)
(***************************************************************************)
EXTENDS Outgoing, TLC

mcDid == [a \in Accounts |-> 500 + a]
mcExt == [a \in Accounts |-> 101]
mcLoc == [a \in Accounts |-> a]
mcPop == [a \in Accounts |-> "s1"]
mcFrom == <<1, 2, 2>>
mcMaxSends == <<2, 1, 1>>
mcTo == <<Outside, Outside, <<"uri", 1, 101>>>>
mcSymmetry == Permutations(Workers)
=============================================================================
