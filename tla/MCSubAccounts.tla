--------------------------- MODULE MCSubAccounts ---------------------------
(***************************************************************************)
(* Small instances of SubAccounts for TLC: two accounts, two DIDs that are *)
(* set to a server each; refreshers are interchangeable.                   *)
(***************************************************************************)
EXTENDS SubAccounts, TLC

mcPopOf == [d \in Dids |-> d]
mcSymmetry == Permutations(Refreshers)
=============================================================================
